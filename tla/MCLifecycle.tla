---------------------------- MODULE MCLifecycle ----------------------------
(* An instance of Lifecycle for TLC.                                       *)
EXTENDS Lifecycle

\* One text of each kind the checks tell apart.
AllThatMatters ==
    [s \in Settings |-> IF s = "PORT" THEN {"unset", "0x50", "65535"} ELSE KeyTexts]
=============================================================================

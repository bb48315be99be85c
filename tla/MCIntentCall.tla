--------------------------- MODULE MCIntentCall ---------------------------
(* Instances of IntentCall for TLC.                                        *)
EXTENDS IntentCall, TLC

CONSTANTS s1, s2

\* Two acquirers, one on a starter that never raises and one on one that does.
TwoSales == {s1, s2}
GoAndPython == s1 :> "go" @@ s2 :> "python"

\* One acquirer, for the counterexample.
OneSale == {s1}
JavaOnly == s1 :> "java"
===========================================================================

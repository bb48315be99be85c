--------------------------- MODULE IntentPromise ---------------------------
(***************************************************************************)
(* What a sale is promised, without keys, attempts or messages.  A sale is *)
(* open to a first intent while it waits for an answer.  What it is told   *)
(* is true of t-0's ledger when it is told, and stays true: an accepted    *)
(* sale has an intent, a declined one has none and gets none until it asks *)
(* again.  Only a sale in doubt, one that was left without an answer, may  *)
(* be declined while it has an intent, or gain one when it is not asking.  *)
(***************************************************************************)
CONSTANTS
    Sales,      \* sales
    Intents     \* names of intents

VARIABLES
    verdict,    \* verdict[s]: what the sale was last told
    intents,    \* intents[s]: the intents the sale has at t-0
    doubtful    \* sales left without an answer at least once

promised == <<verdict, intents, doubtful>>

Verdicts == {"none", "waiting", "accepted", "declined", "abandoned"}

Init ==
    /\ verdict  = [s \in Sales |-> "none"]
    /\ intents  = [s \in Sales |-> {}]
    /\ doubtful = {}

\* The sale asks for an intent: the first time, or again once declined.
Ask(s) ==
    /\ verdict[s] \in {"none", "declined"}
    /\ verdict' = [verdict EXCEPT ![s] = "waiting"]
    /\ UNCHANGED <<intents, doubtful>>

\* An answer may come, or the sale may be left in doubt.
BeLeftInDoubt(s) ==
    /\ verdict[s] = "waiting"
    /\ doubtful' = doubtful \cup {s}
    /\ UNCHANGED <<verdict, intents>>

Open(s) ==
    /\ s \in doubtful \/ (verdict[s] = "waiting" /\ intents[s] = {})
    /\ \E i \in Intents : intents' = [intents EXCEPT ![s] = @ \cup {i}]
    /\ UNCHANGED <<verdict, doubtful>>

TellAccepted(s) ==
    /\ verdict[s] = "waiting"
    /\ intents[s] # {}
    /\ verdict' = [verdict EXCEPT ![s] = "accepted"]
    /\ UNCHANGED <<intents, doubtful>>

TellDeclined(s) ==
    /\ verdict[s] = "waiting"
    /\ intents[s] = {} \/ s \in doubtful
    /\ verdict' = [verdict EXCEPT ![s] = "declined"]
    /\ UNCHANGED <<intents, doubtful>>

\* The sale is dropped before it asked, or its call raised.
Abandon(s) ==
    \/ /\ verdict[s] = "none"
       /\ verdict' = [verdict EXCEPT ![s] = "abandoned"]
       /\ UNCHANGED <<intents, doubtful>>
    \/ /\ verdict[s] = "waiting"
       /\ verdict' = [verdict EXCEPT ![s] = "abandoned"]
       /\ doubtful' = doubtful \cup {s}
       /\ UNCHANGED intents

Next == \E s \in Sales :
    \/ Ask(s) \/ BeLeftInDoubt(s) \/ Open(s)
    \/ TellAccepted(s) \/ TellDeclined(s) \/ Abandon(s)

Spec == Init /\ [][Next]_promised
=============================================================================

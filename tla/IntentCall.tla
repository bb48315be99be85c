----------------------------- MODULE IntentCall -----------------------------
(***************************************************************************)
(* A sale at the acquirer and the CreatePaymentIntent calls made for it.   *)
(* The starters mint a payment_ref and an idempotency key, price the sale, *)
(* and open an intent through a wrapper that turns whatever came of the    *)
(* call into an outcome (module Outcome).  The network may lose or delay   *)
(* a request or an answer, so an attempt the acquirer gave up on may still *)
(* reach t-0 after a later one.                                            *)
(*                                                                         *)
(* t-0, the network and the retry path the integrator adds behind the      *)
(* wrapper are not in the repository; they do what the wrappers and their  *)
(* comments take for granted: at most one intent per key, an unknown       *)
(* outcome is retried under the same key, a declined sale is retried under *)
(* a fresh key.                                                            *)
(***************************************************************************)
EXTENDS Outcome

CONSTANTS
    Sales,      \* sales the acquirers ring up
    Keys,       \* idempotency keys, as many as the instance may mint
    Attempts,   \* names of calls in flight; a name is reused once it is idle
    LangOf,     \* the starter each sale's acquirer runs
    Refusals,   \* the refusing codes t-0 answers with
    Faults,     \* the other codes a call may end with
    None        \* no key, no sale, no attempt

ASSUME SalesAssumption == None \notin Sales /\ None \notin Keys /\ None \notin Attempts
ASSUME LangOfAssumption == LangOf \in [Sales -> AcquirerLangs]
ASSUME CodesAssumption == Refusals \subseteq RefusingCodes /\ Faults \subseteq OpenCodes

VARIABLES
    phase,      \* phase[s]: how far sale s has come
    key,        \* key[s]: the idempotency key the sale now calls under
    current,    \* current[s]: the attempt the sale is waiting on
    owner,      \* owner[k]: the sale key k was minted for
    requests,   \* calls on their way to t-0
    replies,    \* t-0's answers on their way back
    opened,     \* t-0's ledger: the keys under which an intent exists
    doubt       \* history: keys an attempt of which ended without an answer

vars == <<phase, key, current, owner, requests, replies, opened, doubt>>

\* "declined" is a rejected outcome; "unresolved" an unknown one; "raised" is
\* a wrapper that threw; "dropped" a sale whose quote did not come.
Phases == {"new", "minted", "priced", "calling", "accepted", "declined",
           "unresolved", "raised", "dropped"}

Answers == {"success", "failure", "unlisted_failure", "no_variant"} \cup Refusals \cup Faults

TypeOK ==
    /\ phase    \in [Sales -> Phases]
    /\ key      \in [Sales -> Keys \cup {None}]
    /\ current  \in [Sales -> Attempts \cup {None}]
    /\ owner    \in [Keys -> Sales \cup {None}]
    /\ requests \in SUBSET [attempt: Attempts, key: Keys]
    /\ replies  \in SUBSET [attempt: Attempts, key: Keys, result: Answers]
    /\ opened   \in SUBSET Keys
    /\ doubt    \in SUBSET Keys

Init ==
    /\ phase    = [s \in Sales |-> "new"]
    /\ key      = [s \in Sales |-> None]
    /\ current  = [s \in Sales |-> None]
    /\ owner    = [k \in Keys |-> None]
    /\ requests = {}
    /\ replies  = {}
    /\ opened   = {}
    /\ doubt    = {}

-----------------------------------------------------------------------------
(* The acquirer.                                                           *)

\* The demo sale mints its payment_ref and its idempotency key together.
MintSale(s) ==
    /\ phase[s] = "new"
    /\ \E k \in Keys :
         /\ owner[k] = None
         /\ owner' = [owner EXCEPT ![k] = s]
         /\ key' = [key EXCEPT ![s] = k]
    /\ phase' = [phase EXCEPT ![s] = "minted"]
    /\ UNCHANGED <<current, requests, replies, opened, doubt>>

\* GetPaymentQuote has no side effects at t-0, so only its outcome matters.
PriceSale(s) ==
    /\ phase[s] = "minted"
    /\ \E r \in Answers \cup {Uncoded} :
         phase' = [phase EXCEPT ![s] =
                     IF QuoteOutcome(LangOf[s], r) = "accepted" THEN "priced"
                                                                ELSE "dropped"]
    /\ UNCHANGED <<key, current, owner, requests, replies, opened, doubt>>

InUse(a) ==
    \/ \E m \in requests \cup replies : m.attempt = a
    \/ \E s \in Sales : current[s] = a

Call(s) ==
    \E a \in Attempts :
      /\ ~InUse(a)
      /\ current' = [current EXCEPT ![s] = a]
      /\ requests' = requests \cup {[attempt |-> a, key |-> key[s]]}
      /\ phase' = [phase EXCEPT ![s] = "calling"]

SendIntent(s) ==
    /\ phase[s] = "priced"
    /\ Call(s)
    /\ UNCHANGED <<key, owner, replies, opened, doubt>>

\* Mutant: the outcome's own name kept as the sale's phase.
PhaseAfterVerbatim(outcome) == outcome

\* Mutant: an unknown outcome drops the sale.
PhaseAfterDropping(outcome) ==
    IF outcome = "accepted" THEN "accepted"
    ELSE IF outcome = "rejected" THEN "declined"
    ELSE IF outcome = "raised" THEN "raised"
    ELSE "dropped"

\* What the sale does with the outcome of the attempt it waited on.
PhaseAfter(outcome) ==
    IF outcome = "accepted" THEN "accepted"
    ELSE IF outcome = "rejected" THEN "declined"
    ELSE IF outcome = "raised" THEN "raised"
    ELSE "unresolved"

Conclude(s, r) ==
    LET outcome == IntentOutcome(LangOf[s], r)
    IN  /\ phase' = [phase EXCEPT ![s] = PhaseAfter(outcome)]
        /\ current' = [current EXCEPT ![s] = None]
        /\ doubt' = IF outcome \in {"accepted", "rejected"}
                      THEN doubt ELSE doubt \cup {key[s]}

\* The call returns with t-0's answer.
ReturnCall(s) ==
    /\ phase[s] = "calling"
    /\ \E m \in replies :
         /\ m.attempt = current[s]
         /\ Conclude(s, m.result)
         /\ replies' = replies \ {m}
    /\ UNCHANGED <<key, owner, requests, opened>>

\* The call ends on this side: a deadline, a cancellation, a broken connection
\* or an exception.  Its request may still be under way.
GiveUp(s) ==
    /\ phase[s] = "calling"
    /\ \E r \in Faults \cup {Uncoded} : Conclude(s, r)
    /\ UNCHANGED <<key, owner, requests, replies, opened>>

-----------------------------------------------------------------------------
(* The integrator's retry path (external): the same key while the outcome  *)
(* is unknown, a fresh key under the same payment_ref once declined.       *)

Resend(s) ==
    /\ phase[s] = "unresolved"
    /\ Call(s)
    /\ UNCHANGED <<key, owner, replies, opened, doubt>>

RetryDeclined(s) ==
    /\ phase[s] = "declined"
    /\ \E k \in Keys :
         /\ owner[k] = None
         /\ owner' = [owner EXCEPT ![k] = s]
         /\ key' = [key EXCEPT ![s] = k]
    /\ phase' = [phase EXCEPT ![s] = "priced"]
    /\ UNCHANGED <<current, requests, replies, opened, doubt>>

-----------------------------------------------------------------------------
(* t-0 (external).  Each request is processed once.                        *)

Answer(m, results) ==
    /\ requests' = requests \ {m}
    /\ \E r \in results :
         replies' = replies \cup {[attempt |-> m.attempt, key |-> m.key, result |-> r]}
    /\ UNCHANGED <<phase, key, current, owner, doubt>>

\* Opens the intent, or replays the one the key already has.
OpenIntent(m) ==
    /\ opened' = opened \cup {m.key}
    /\ Answer(m, {"success", "no_variant"} \cup Faults)

\* Declines: no instructions, no usable quote, an amount out of range.
DeclineIntent(m) ==
    /\ m.key \notin opened
    /\ Answer(m, {"failure", "unlisted_failure"} \cup Faults)
    /\ UNCHANGED opened

\* Refuses the request before looking at the key: signature, schema, method.
RefuseRequest(m) ==
    /\ Answer(m, Refusals)
    /\ UNCHANGED opened

LoseRequest(m) ==
    /\ requests' = requests \ {m}
    /\ UNCHANGED <<phase, key, current, owner, replies, opened, doubt>>

LoseReply(m) ==
    /\ replies' = replies \ {m}
    /\ UNCHANGED <<phase, key, current, owner, requests, opened, doubt>>

-----------------------------------------------------------------------------
Acquirer(s) ==
    \/ MintSale(s) \/ PriceSale(s) \/ SendIntent(s)
    \/ ReturnCall(s) \/ GiveUp(s) \/ Resend(s) \/ RetryDeclined(s)

Network ==
    \/ \E m \in requests :
         OpenIntent(m) \/ DeclineIntent(m) \/ RefuseRequest(m) \/ LoseRequest(m)
    \/ \E m \in replies : LoseReply(m)

Next == (\E s \in Sales : Acquirer(s)) \/ Network

Spec == Init /\ [][Next]_vars

-----------------------------------------------------------------------------
(* Fairness, assumed for liveness only: the integrator does retry an       *)
(* unknown outcome, no message stays under way for ever, and a sale that   *)
(* keeps calling is, sooner or later, answered and hears the answer.       *)

Conclusive(r, s) == IntentOutcome(LangOf[s], r) # "unknown"

AnswerConclusively(s) ==
    \E m \in requests :
      /\ m.attempt = current[s]
      /\ OpenIntent(m) \/ DeclineIntent(m)
      /\ \E reply \in replies' : reply.attempt = m.attempt /\ Conclusive(reply.result, s)

HearConclusiveAnswer(s) ==
    /\ ReturnCall(s)
    /\ phase'[s] # "unresolved"

Arrive(a) ==
    \/ \E m \in requests : /\ m.attempt = a
                           /\ OpenIntent(m) \/ DeclineIntent(m) \/ LoseRequest(m)
    \/ \E m \in replies : m.attempt = a /\ LoseReply(m)

Fairness ==
    /\ \A s \in Sales :
         /\ WF_vars(GiveUp(s))
         /\ WF_vars(Resend(s))
         /\ SF_vars(AnswerConclusively(s))
         /\ SF_vars(HearConclusiveAnswer(s))
    /\ \A a \in Attempts : WF_vars(Arrive(a))

FairSpec == Spec /\ Fairness

-----------------------------------------------------------------------------
(* Properties.                                                             *)

\* A sale that records an intent as accepted has one at t-0, under the very
\* key it holds (CreatePaymentIntent.java:17-20, outcome.go:16).
AcceptedIsOnFile ==
    \A s \in Sales : phase[s] = "accepted" => key[s] \in opened

\* A sale that was told "rejected", and never before left an attempt under
\* that key unanswered, has no intent under it and can get none: the answer
\* to act on with a fresh key is final (CreatePaymentIntent.java:104-106).
DeclinedStaysClosed ==
    \A s \in Sales :
      phase[s] = "declined" /\ key[s] \notin doubt =>
        /\ key[s] \notin opened
        /\ \A m \in requests : m.key # key[s]

\* Two intents for one sale take an attempt that went unanswered under one of
\* the two keys: a decline on its own never leads to a second intent
\* (acquirer.proto:191-196, README.md:72-77).
SecondIntentNeedsDoubt ==
    \A k1, k2 \in opened :
      k1 # k2 /\ owner[k1] = owner[k2] => k1 \in doubt \/ k2 \in doubt

\* What the retry rule is for: a fresh key per attempt opens a second intent
\* for one sale, so following the rule (same key until Accepted or Rejected,
\* fresh key only after Rejected) opens one (outcome.py:36-41,
\* CreatePaymentIntent.java:17-25).
OneIntentPerSale ==
    \A k1, k2 \in opened : owner[k1] = owner[k2] => k1 = k2

\* A sale that calls is eventually told accepted or declined, or its wrapper
\* raises: an unknown outcome is never the last word.
EveryCallIsResolved ==
    \A s \in Sales :
      phase[s] = "calling" ~> phase[s] \in {"accepted", "declined", "raised"}

-----------------------------------------------------------------------------
(* The refinement of IntentPromise.                                        *)

IntentsOf(s) == {k \in opened : owner[k] = s}

DoubtfulSales == {s \in Sales : \E k \in doubt : owner[k] = s}

VerdictOf(s) ==
    IF phase[s] \in {"new", "minted"} THEN "none"
    ELSE IF phase[s] \in {"dropped", "raised"} THEN "abandoned"
    ELSE IF phase[s] \in {"accepted", "declined"} THEN phase[s]
    ELSE "waiting"

Promise == INSTANCE IntentPromise WITH
    verdict  <- [s \in Sales |-> VerdictOf(s)],
    Intents  <- Keys,
    intents  <- [s \in Sales |-> IntentsOf(s)],
    doubtful <- DoubtfulSales

\* The calls, outcomes and retries keep the promise made to each sale: what
\* it is told is true of t-0's ledger and stays true (IntentPromise).
KeepsPromise == Promise!Spec
=============================================================================

-------------------------- MODULE IntentCallProofs --------------------------
(***************************************************************************)
(* Proofs about IntentCall, for any number of sales, keys and attempts and *)
(* any choice of starters and status codes.                                *)
(***************************************************************************)
EXTENDS IntentCall, TLAPS

\* The results that a wrapper takes for a refusal.
Refusing == {"failure", "unlisted_failure"} \cup RefusingCodes

-----------------------------------------------------------------------------
(* The inductive invariant.                                                *)

\* A key in use belongs to the sale that uses it; only minted keys travel.
KeysOwned ==
    /\ \A s \in Sales : phase[s] # "new" => key[s] \in Keys /\ owner[key[s]] = s
    /\ \A m \in requests \cup replies : owner[m.key] \in Sales
    /\ \A k \in opened \cup doubt : owner[k] \in Sales

\* The message a sale waits for was sent under the key it holds.
CurrentMessages ==
    \A s \in Sales, m \in requests \cup replies :
      phase[s] = "calling" /\ m.attempt = current[s] => m.key = key[s]

\* Success is only answered under a key that is on file.
SuccessOnFile ==
    \A m \in replies : m.result = "success" => m.key \in opened

UnresolvedInDoubt ==
    \A s \in Sales : phase[s] = "unresolved" => key[s] \in doubt

\* Under a key no attempt of which was left unanswered there is one message at
\* most, it belongs to the call its sale waits on, and its answer tells the
\* truth about the ledger.
AwaitedBy(m, s) == phase[s] = "calling" /\ key[s] = m.key /\ current[s] = m.attempt

SureRequest(k) ==
    \A m \in requests : m.key = k =>
      /\ AwaitedBy(m, owner[k])
      /\ k \notin opened
      /\ \A n \in replies : n.key # k

SureReply(k) ==
    \A m \in replies : m.key = k =>
      /\ AwaitedBy(m, owner[k])
      /\ m.result \in Refusing => k \notin opened
      /\ \A n \in replies : n.key = k => n = m

SureOpened(k) ==
    k \in opened => key[owner[k]] = k /\ phase[owner[k]] \in {"calling", "accepted"}

SureKeys == \A k \in Keys \ doubt : SureRequest(k) /\ SureReply(k) /\ SureOpened(k)

IInv ==
    /\ TypeOK
    /\ KeysOwned
    /\ CurrentMessages
    /\ SuccessOnFile
    /\ UnresolvedInDoubt
    /\ SureKeys
    /\ AcceptedIsOnFile

-----------------------------------------------------------------------------
(* What the wrappers' outcomes say about the result they classify.         *)

\* A wrapper only says accepted of a success, and rejected of a refusal
\* (Outcome: GoCreateIntent, JavaCreatePaymentIntent,
\* PythonCreatePaymentIntent).
LEMMA OutcomeTruth ==
    ASSUME NEW lang \in AcquirerLangs, NEW r \in Results
    PROVE  /\ IntentOutcome(lang, r) \in Outcomes
           /\ IntentOutcome(lang, r) = "accepted" => r = "success"
           /\ IntentOutcome(lang, r) = "rejected" => r \in Refusing
<1>1. CASE lang = "go"
  BY <1>1 DEF IntentOutcome, GoCreateIntent, GoOutcomeFromError, NamedAnyReason,
     Outcomes, Results, Variants, Codes, OpenCodes, Refusing
<1>2. CASE lang = "java"
  BY <1>2 DEF IntentOutcome, JavaCreatePaymentIntent, JavaFromError, NamedAnyReason,
     Outcomes, Results, Variants, Codes, OpenCodes, Refusing
<1>3. CASE lang = "python"
  BY <1>3 DEF IntentOutcome, PythonCreatePaymentIntent, PythonOutcomeFromError,
     NamedListedReason, NamedAnyReason,
     Outcomes, Results, Variants, Codes, OpenCodes, Refusing, Uncoded
<1>4. QED
  BY <1>1, <1>2, <1>3 DEF AcquirerLangs

\* A call that ends on the acquirer's side is never accepted or rejected
\* (IntentCall: GiveUp).
LEMMA FaultTruth ==
    ASSUME NEW lang \in AcquirerLangs, NEW r \in Faults \cup {Uncoded}
    PROVE  IntentOutcome(lang, r) \in {"unknown", "raised"}
<1>1. r \in OpenCodes \cup {Uncoded}
  BY CodesAssumption
<1>2. r \notin Variants /\ r \notin RefusingCodes
  BY <1>1 DEF OpenCodes, Uncoded, Variants, RefusingCodes
<1>3. CASE lang = "go"
  BY <1>2, <1>3 DEF IntentOutcome, GoCreateIntent, GoOutcomeFromError
<1>4. CASE lang = "java"
  BY <1>2, <1>4 DEF IntentOutcome, JavaCreatePaymentIntent, JavaFromError
<1>5. CASE lang = "python"
  BY <1>2, <1>5 DEF IntentOutcome, PythonCreatePaymentIntent, PythonOutcomeFromError
<1>6. QED
  BY <1>3, <1>4, <1>5 DEF AcquirerLangs

\* Whatever t-0 answers, or a call ends with, is a result a wrapper knows.
LEMMA AnswersAreResults ==
    Answers \cup {Uncoded} \subseteq Results
BY CodesAssumption DEF Answers, Results, Variants, Codes

-----------------------------------------------------------------------------
(* Type correctness.                                                       *)

\* The initial state is type correct (IntentCall: Init).
LEMMA InitTypeOK == Init => TypeOK
BY DEF Init, TypeOK, Phases

\* The outcome of a call sends its sale to a phase (IntentCall: PhaseAfter).
LEMMA PhaseAfterType ==
    ASSUME NEW o \in Outcomes
    PROVE  PhaseAfter(o) \in Phases
BY DEF Outcomes, PhaseAfter, Phases

\* Concluding a call keeps the three variables it sets in their types
\* (IntentCall: Conclude).
LEMMA ConcludeType ==
    ASSUME TypeOK, NEW s \in Sales, NEW r \in Answers \cup {Uncoded},
           key[s] \in Keys, Conclude(s, r)
    PROVE  /\ phase' \in [Sales -> Phases]
           /\ current' \in [Sales -> Attempts \cup {None}]
           /\ doubt' \in SUBSET Keys
<1>1. IntentOutcome(LangOf[s], r) \in Outcomes
  BY LangOfAssumption, AnswersAreResults, OutcomeTruth
<1>2. PhaseAfter(IntentOutcome(LangOf[s], r)) \in Phases
  BY <1>1, PhaseAfterType
<1>3. QED
  BY <1>2 DEF Conclude, TypeOK

\* Every step keeps every variable in its type (IntentCall: Next).
LEMMA NextTypeOK == TypeOK /\ KeysOwned /\ [Next]_vars => TypeOK'
<1> SUFFICES ASSUME TypeOK, KeysOwned, [Next]_vars
             PROVE  TypeOK'
  OBVIOUS
<1>1. ASSUME NEW s \in Sales, MintSale(s)
      PROVE  TypeOK'
  BY <1>1 DEF MintSale, TypeOK, Phases
<1>2. ASSUME NEW s \in Sales, PriceSale(s)
      PROVE  TypeOK'
  BY <1>2 DEF PriceSale, TypeOK, Phases
<1>3. ASSUME NEW s \in Sales, key[s] \in Keys, Call(s),
             UNCHANGED <<key, owner, replies, opened, doubt>>
      PROVE  TypeOK'
  BY <1>3 DEF Call, TypeOK, Phases
<1>4. ASSUME NEW s \in Sales, SendIntent(s)
      PROVE  TypeOK'
  BY <1>3, <1>4 DEF SendIntent, KeysOwned
<1>5. ASSUME NEW s \in Sales, Resend(s)
      PROVE  TypeOK'
  BY <1>3, <1>5 DEF Resend, KeysOwned
<1>6. ASSUME NEW s \in Sales, ReturnCall(s)
      PROVE  TypeOK'
  <2>1. PICK m \in replies : Conclude(s, m.result) /\ replies' = replies \ {m}
    BY <1>6 DEF ReturnCall
  <2>2. key[s] \in Keys /\ m.result \in Answers
    BY <1>6 DEF ReturnCall, KeysOwned, TypeOK
  <2>3. /\ phase' \in [Sales -> Phases]
        /\ current' \in [Sales -> Attempts \cup {None}]
        /\ doubt' \in SUBSET Keys
    BY <2>1, <2>2, ConcludeType
  <2>4. QED
    BY <1>6, <2>1, <2>3 DEF ReturnCall, TypeOK
<1>7. ASSUME NEW s \in Sales, GiveUp(s)
      PROVE  TypeOK'
  <2>1. PICK r \in Faults \cup {Uncoded} : Conclude(s, r)
    BY <1>7 DEF GiveUp
  <2>2. key[s] \in Keys /\ r \in Answers \cup {Uncoded}
    BY <1>7 DEF GiveUp, KeysOwned, Answers
  <2>3. /\ phase' \in [Sales -> Phases]
        /\ current' \in [Sales -> Attempts \cup {None}]
        /\ doubt' \in SUBSET Keys
    BY <2>1, <2>2, ConcludeType
  <2>4. QED
    BY <1>7, <2>3 DEF GiveUp, TypeOK
<1>8. ASSUME NEW s \in Sales, RetryDeclined(s)
      PROVE  TypeOK'
  BY <1>8 DEF RetryDeclined, TypeOK, Phases
<1>9. ASSUME NEW m \in requests, NEW R \in SUBSET Answers, Answer(m, R),
             opened' \in SUBSET Keys
      PROVE  TypeOK'
  BY <1>9 DEF Answer, TypeOK
<1>10. ASSUME NEW m \in requests, OpenIntent(m)
       PROVE  TypeOK'
  <2>1. {"success", "no_variant"} \cup Faults \in SUBSET Answers
    BY DEF Answers
  <2>2. opened' \in SUBSET Keys
    BY <1>10 DEF OpenIntent, TypeOK
  <2>3. QED
    BY <1>9, <1>10, <2>1, <2>2 DEF OpenIntent
<1>11. ASSUME NEW m \in requests, DeclineIntent(m)
       PROVE  TypeOK'
  <2>1. {"failure", "unlisted_failure"} \cup Faults \in SUBSET Answers
    BY DEF Answers
  <2>2. opened' \in SUBSET Keys
    BY <1>11 DEF DeclineIntent, TypeOK
  <2>3. QED
    BY <1>9, <1>11, <2>1, <2>2 DEF DeclineIntent
<1>12. ASSUME NEW m \in requests, RefuseRequest(m)
       PROVE  TypeOK'
  <2>1. Refusals \in SUBSET Answers
    BY DEF Answers
  <2>2. opened' \in SUBSET Keys
    BY <1>12 DEF RefuseRequest, TypeOK
  <2>3. QED
    BY <1>9, <1>12, <2>1, <2>2 DEF RefuseRequest
<1>13. ASSUME NEW m \in requests, LoseRequest(m)
       PROVE  TypeOK'
  BY <1>13 DEF LoseRequest, TypeOK
<1>14. ASSUME NEW m \in replies, LoseReply(m)
       PROVE  TypeOK'
  BY <1>14 DEF LoseReply, TypeOK
<1>15. CASE UNCHANGED vars
  BY <1>15 DEF vars, TypeOK
<1>16. QED
  BY <1>1, <1>2, <1>4, <1>5, <1>6, <1>7, <1>8, <1>10, <1>11, <1>12, <1>13,
     <1>14, <1>15 DEF Next, Acquirer, Network

-----------------------------------------------------------------------------
(* The inductive invariant holds initially and is preserved by each action. *)

\* The initial state satisfies the inductive invariant (IntentCall: Init).
LEMMA InitIInv == Init => IInv
BY InitTypeOK DEF Init, IInv, KeysOwned, CurrentMessages, SuccessOnFile,
   UnresolvedInDoubt, SureKeys, SureRequest, SureReply, SureOpened, AcceptedIsOnFile

\* Minting a sale (IntentCall: MintSale).
LEMMA MintSaleKeeps ==
    ASSUME IInv, TypeOK', NEW s \in Sales, MintSale(s)
    PROVE  IInv'
<1>1. KeysOwned'
  BY SalesAssumption DEF MintSale, Phases, IInv, TypeOK, KeysOwned
<1>2. CurrentMessages'
  BY SalesAssumption DEF MintSale, Phases, IInv, TypeOK, CurrentMessages, KeysOwned
<1>3. SuccessOnFile'
  BY SalesAssumption DEF MintSale, Phases, IInv, TypeOK, SuccessOnFile, KeysOwned
<1>4. UnresolvedInDoubt'
  BY SalesAssumption DEF MintSale, Phases, IInv, TypeOK, UnresolvedInDoubt, KeysOwned
<1>5. SureKeys'
  BY SalesAssumption DEF MintSale, Phases, IInv, TypeOK, SureKeys, SureRequest, SureReply, SureOpened, AwaitedBy, KeysOwned
<1>6. AcceptedIsOnFile'
  BY SalesAssumption DEF MintSale, Phases, IInv, TypeOK, AcceptedIsOnFile, KeysOwned
<1>7. QED
  BY <1>1, <1>2, <1>3, <1>4, <1>5, <1>6 DEF IInv

\* Pricing a sale (IntentCall: PriceSale).
LEMMA PriceSaleKeeps ==
    ASSUME IInv, TypeOK', NEW s \in Sales, PriceSale(s)
    PROVE  IInv'
<1>1. KeysOwned'
  BY SalesAssumption DEF PriceSale, Phases, IInv, TypeOK, KeysOwned
<1>2. CurrentMessages'
  BY SalesAssumption DEF PriceSale, Phases, IInv, TypeOK, CurrentMessages, KeysOwned
<1>3. SuccessOnFile'
  BY SalesAssumption DEF PriceSale, Phases, IInv, TypeOK, SuccessOnFile, KeysOwned
<1>4. UnresolvedInDoubt'
  BY SalesAssumption DEF PriceSale, Phases, IInv, TypeOK, UnresolvedInDoubt, KeysOwned
<1>5. SureKeys'
  BY SalesAssumption DEF PriceSale, Phases, IInv, TypeOK, SureKeys, SureRequest, SureReply, SureOpened, AwaitedBy, KeysOwned
<1>6. AcceptedIsOnFile'
  BY SalesAssumption DEF PriceSale, Phases, IInv, TypeOK, AcceptedIsOnFile, KeysOwned
<1>7. QED
  BY <1>1, <1>2, <1>3, <1>4, <1>5, <1>6 DEF IInv

\* Losing a request (IntentCall: LoseRequest).
LEMMA LoseRequestKeeps ==
    ASSUME IInv, TypeOK', NEW m \in requests, LoseRequest(m)
    PROVE  IInv'
<1>1. KeysOwned'
  BY DEF LoseRequest, IInv, TypeOK, KeysOwned
<1>2. CurrentMessages'
  BY DEF LoseRequest, IInv, TypeOK, CurrentMessages, KeysOwned
<1>3. SuccessOnFile'
  BY DEF LoseRequest, IInv, TypeOK, SuccessOnFile, KeysOwned
<1>4. UnresolvedInDoubt'
  BY DEF LoseRequest, IInv, TypeOK, UnresolvedInDoubt, KeysOwned
<1>5. SureKeys'
  BY DEF LoseRequest, IInv, TypeOK, SureKeys, SureRequest, SureReply, SureOpened, AwaitedBy, KeysOwned
<1>6. AcceptedIsOnFile'
  BY DEF LoseRequest, IInv, TypeOK, AcceptedIsOnFile, KeysOwned
<1>7. QED
  BY <1>1, <1>2, <1>3, <1>4, <1>5, <1>6 DEF IInv

\* Losing an answer (IntentCall: LoseReply).
LEMMA LoseReplyKeeps ==
    ASSUME IInv, TypeOK', NEW m \in replies, LoseReply(m)
    PROVE  IInv'
<1>1. KeysOwned'
  BY DEF LoseReply, IInv, TypeOK, KeysOwned
<1>2. CurrentMessages'
  BY DEF LoseReply, IInv, TypeOK, CurrentMessages, KeysOwned
<1>3. SuccessOnFile'
  BY DEF LoseReply, IInv, TypeOK, SuccessOnFile, KeysOwned
<1>4. UnresolvedInDoubt'
  BY DEF LoseReply, IInv, TypeOK, UnresolvedInDoubt, KeysOwned
<1>5. SureKeys'
  BY DEF LoseReply, IInv, TypeOK, SureKeys, SureRequest, SureReply, SureOpened, AwaitedBy, KeysOwned
<1>6. AcceptedIsOnFile'
  BY DEF LoseReply, IInv, TypeOK, AcceptedIsOnFile, KeysOwned
<1>7. QED
  BY <1>1, <1>2, <1>3, <1>4, <1>5, <1>6 DEF IInv

\* A declined sale takes a fresh key (IntentCall: RetryDeclined).
LEMMA RetryDeclinedKeeps ==
    ASSUME IInv, TypeOK', NEW s \in Sales, RetryDeclined(s)
    PROVE  IInv'
<1>1. KeysOwned'
  BY SalesAssumption DEF RetryDeclined, Phases, IInv, TypeOK, KeysOwned
<1>2. CurrentMessages'
  BY SalesAssumption DEF RetryDeclined, Phases, IInv, TypeOK, CurrentMessages, KeysOwned
<1>3. SuccessOnFile'
  BY SalesAssumption DEF RetryDeclined, Phases, IInv, TypeOK, SuccessOnFile, KeysOwned
<1>4. UnresolvedInDoubt'
  BY SalesAssumption DEF RetryDeclined, Phases, IInv, TypeOK, UnresolvedInDoubt, KeysOwned
<1>5. SureKeys'
  BY SalesAssumption DEF RetryDeclined, Phases, IInv, TypeOK, SureKeys, SureRequest, SureReply, SureOpened, AwaitedBy, KeysOwned
<1>6. AcceptedIsOnFile'
  BY SalesAssumption DEF RetryDeclined, Phases, IInv, TypeOK, AcceptedIsOnFile, KeysOwned
<1>7. QED
  BY <1>1, <1>2, <1>3, <1>4, <1>5, <1>6 DEF IInv

\* A sale that is not waiting sends an attempt under its key (IntentCall: Call).
LEMMA CallKeeps ==
    ASSUME IInv, TypeOK', NEW s \in Sales, Call(s),
           phase[s] = "priced" \/ (phase[s] = "unresolved" /\ key[s] \in doubt),
           UNCHANGED <<key, owner, replies, opened, doubt>>
    PROVE  IInv'
<1>1. KeysOwned'
  BY SalesAssumption DEF Call, InUse, Phases, IInv, TypeOK, KeysOwned
<1>2. CurrentMessages'
  BY SalesAssumption DEF Call, InUse, Phases, IInv, TypeOK, CurrentMessages, KeysOwned
<1>3. SuccessOnFile'
  BY SalesAssumption DEF Call, InUse, Phases, IInv, TypeOK, SuccessOnFile, KeysOwned
<1>4. UnresolvedInDoubt'
  BY SalesAssumption DEF Call, InUse, Phases, IInv, TypeOK, UnresolvedInDoubt, KeysOwned
<1>5. SureKeys'
  BY SalesAssumption DEF Call, InUse, Phases, IInv, TypeOK, SureKeys, SureRequest, SureReply, SureOpened, AwaitedBy, KeysOwned
<1>6. AcceptedIsOnFile'
  BY SalesAssumption DEF Call, InUse, Phases, IInv, TypeOK, AcceptedIsOnFile, KeysOwned, SuccessOnFile
<1>7. QED
  BY <1>1, <1>2, <1>3, <1>4, <1>5, <1>6 DEF IInv

\* The call ends without an answer (IntentCall: GiveUp).
LEMMA GiveUpKeeps ==
    ASSUME IInv, TypeOK', NEW s \in Sales, NEW r \in Faults \cup {Uncoded},
           phase[s] = "calling", Conclude(s, r),
           UNCHANGED <<key, owner, requests, replies, opened>>
    PROVE  IInv'
<1> DEFINE o == IntentOutcome(LangOf[s], r)
<1>1. /\ o \in {"unknown", "raised"}
      /\ phase' = [phase EXCEPT ![s] = PhaseAfter(o)]
      /\ current' = [current EXCEPT ![s] = None]
      /\ doubt' = doubt \cup {key[s]}
  BY FaultTruth, LangOfAssumption DEF Conclude
<1>2. PhaseAfter(o) \in {"unresolved", "raised"}
  BY <1>1 DEF PhaseAfter
<1>3. UNCHANGED <<key, owner, requests, replies, opened>> /\ phase[s] = "calling"
  OBVIOUS
<1> HIDE DEF o
<1>4. KeysOwned'
  BY SalesAssumption, <1>1, <1>2, <1>3 DEF Phases, IInv, TypeOK, KeysOwned
<1>5. CurrentMessages'
  BY SalesAssumption, <1>1, <1>2, <1>3 DEF Phases, IInv, TypeOK, CurrentMessages, KeysOwned
<1>6. SuccessOnFile'
  BY SalesAssumption, <1>1, <1>2, <1>3 DEF Phases, IInv, TypeOK, SuccessOnFile, KeysOwned
<1>7. UnresolvedInDoubt'
  BY SalesAssumption, <1>1, <1>2, <1>3 DEF Phases, IInv, TypeOK, UnresolvedInDoubt, KeysOwned
<1>8. SureKeys'
  BY SalesAssumption, <1>1, <1>2, <1>3 DEF Phases, IInv, TypeOK, SureKeys, SureRequest, SureReply, SureOpened, AwaitedBy, KeysOwned
<1>9. AcceptedIsOnFile'
  BY SalesAssumption, <1>1, <1>2, <1>3 DEF Phases, IInv, TypeOK, AcceptedIsOnFile, KeysOwned, SuccessOnFile
<1>10. QED
  BY <1>4, <1>5, <1>6, <1>7, <1>8, <1>9 DEF IInv

\* The call returns with t-0's answer (IntentCall: ReturnCall).
LEMMA ReturnCallKeeps ==
    ASSUME IInv, TypeOK', NEW s \in Sales, NEW m \in replies,
           phase[s] = "calling", m.attempt = current[s],
           Conclude(s, m.result), replies' = replies \ {m},
           UNCHANGED <<key, owner, requests, opened>>
    PROVE  IInv'
<1> DEFINE o == IntentOutcome(LangOf[s], m.result)
<1>1. /\ o \in Outcomes
      /\ o = "accepted" => m.result = "success"
      /\ o = "rejected" => m.result \in Refusing
  BY OutcomeTruth, AnswersAreResults, LangOfAssumption DEF IInv, TypeOK
<1>2. /\ phase' = [phase EXCEPT ![s] = PhaseAfter(o)]
      /\ current' = [current EXCEPT ![s] = None]
      /\ doubt' = IF o \in {"accepted", "rejected"} THEN doubt ELSE doubt \cup {key[s]}
      /\ replies' = replies \ {m}
  BY DEF Conclude
<1>3. /\ PhaseAfter(o) \in {"accepted", "declined", "unresolved", "raised"}
      /\ PhaseAfter(o) = "accepted" => o = "accepted"
      /\ PhaseAfter(o) = "declined" => o = "rejected"
      /\ PhaseAfter(o) \in {"unresolved", "raised"} => o \notin {"accepted", "rejected"}
  BY <1>1 DEF PhaseAfter, Outcomes
<1>4. /\ UNCHANGED <<key, owner, requests, opened>>
      /\ phase[s] = "calling" /\ m.attempt = current[s]
  OBVIOUS
<1>5. m.key = key[s] /\ owner[key[s]] = s /\ key[s] \in Keys
  BY <1>4 DEF IInv, CurrentMessages, KeysOwned
<1> HIDE DEF o
<1>6. KeysOwned'
  BY SalesAssumption, <1>1, <1>2, <1>3, <1>4, <1>5 DEF Phases, IInv, TypeOK, KeysOwned
<1>7. CurrentMessages'
  BY SalesAssumption, <1>1, <1>2, <1>3, <1>4, <1>5 DEF Phases, IInv, TypeOK, CurrentMessages, KeysOwned
<1>8. SuccessOnFile'
  BY SalesAssumption, <1>1, <1>2, <1>3, <1>4, <1>5 DEF Phases, IInv, TypeOK, SuccessOnFile, KeysOwned
<1>9. UnresolvedInDoubt'
  BY SalesAssumption, <1>1, <1>2, <1>3, <1>4, <1>5 DEF Phases, IInv, TypeOK, UnresolvedInDoubt, KeysOwned
<1>10. SureKeys'
  BY SalesAssumption, <1>1, <1>2, <1>3, <1>4, <1>5 DEF Phases, IInv, TypeOK, SureKeys, SureRequest, SureReply, SureOpened, AwaitedBy, KeysOwned
<1>11. AcceptedIsOnFile'
  BY SalesAssumption, <1>1, <1>2, <1>3, <1>4, <1>5 DEF Phases, IInv, TypeOK, AcceptedIsOnFile, KeysOwned, SuccessOnFile
<1>12. QED
  BY <1>6, <1>7, <1>8, <1>9, <1>10, <1>11 DEF IInv

\* t-0 answers a request, truthfully (IntentCall: OpenIntent, DeclineIntent,
\* RefuseRequest).
LEMMA AnswerKeeps ==
    ASSUME IInv, TypeOK', NEW m \in requests, NEW R \in SUBSET Answers,
           Answer(m, R),
           opened' = opened \/ opened' = opened \cup {m.key},
           "success" \in R => m.key \in opened',
           opened' # opened => R \cap Refusing = {}
    PROVE  IInv'
<1>1. PICK r \in R :
        replies' = replies \cup {[attempt |-> m.attempt, key |-> m.key, result |-> r]}
  BY DEF Answer
<1>2. /\ requests' = requests \ {m}
      /\ UNCHANGED <<phase, key, current, owner, doubt>>
  BY DEF Answer
<1>3. KeysOwned'
  BY <1>1, <1>2 DEF Refusing, IInv, TypeOK, KeysOwned
<1>4. CurrentMessages'
  BY <1>1, <1>2 DEF Refusing, IInv, TypeOK, CurrentMessages, KeysOwned
<1>5. SuccessOnFile'
  BY <1>1, <1>2 DEF Refusing, IInv, TypeOK, SuccessOnFile, KeysOwned
<1>6. UnresolvedInDoubt'
  BY <1>1, <1>2 DEF Refusing, IInv, TypeOK, UnresolvedInDoubt, KeysOwned
<1>7. SureKeys'
  BY <1>1, <1>2 DEF Refusing, IInv, TypeOK, SureKeys, SureRequest, SureReply, SureOpened, AwaitedBy, KeysOwned
<1>8. AcceptedIsOnFile'
  BY <1>1, <1>2 DEF Refusing, IInv, TypeOK, AcceptedIsOnFile, KeysOwned, SuccessOnFile
<1>9. QED
  BY <1>3, <1>4, <1>5, <1>6, <1>7, <1>8 DEF IInv

-----------------------------------------------------------------------------
(* The theorems.                                                           *)

\* Every step keeps the inductive invariant (IntentCall: Next).
LEMMA NextIInv == IInv /\ [Next]_vars => IInv'
<1> SUFFICES ASSUME IInv, [Next]_vars
             PROVE  IInv'
  OBVIOUS
<1>t. TypeOK'
  BY NextTypeOK DEF IInv
<1>1. ASSUME NEW s \in Sales, SendIntent(s) \/ Resend(s)
      PROVE  IInv'
  BY <1>1, <1>t, CallKeeps DEF SendIntent, Resend, IInv, UnresolvedInDoubt
<1>2. ASSUME NEW s \in Sales, ReturnCall(s)
      PROVE  IInv'
  <2>1. PICK m \in replies :
          m.attempt = current[s] /\ Conclude(s, m.result) /\ replies' = replies \ {m}
    BY <1>2 DEF ReturnCall
  <2>2. QED
    BY <1>2, <1>t, <2>1, ReturnCallKeeps DEF ReturnCall
<1>3. ASSUME NEW s \in Sales, GiveUp(s)
      PROVE  IInv'
  <2>1. PICK r \in Faults \cup {Uncoded} : Conclude(s, r)
    BY <1>3 DEF GiveUp
  <2>2. QED
    BY <1>3, <1>t, <2>1, GiveUpKeeps DEF GiveUp
<1>4. ASSUME NEW m \in requests, OpenIntent(m)
      PROVE  IInv'
  <2> DEFINE R == {"success", "no_variant"} \cup Faults
  <2>1. R \in SUBSET Answers /\ R \cap Refusing = {}
    BY CodesAssumption DEF Answers, Refusing, OpenCodes, RefusingCodes
  <2>2. Answer(m, R) /\ opened' = opened \cup {m.key}
    BY <1>4 DEF OpenIntent
  <2> HIDE DEF R
  <2>3. QED
    BY <1>t, <2>1, <2>2, AnswerKeeps
<1>5. ASSUME NEW m \in requests, DeclineIntent(m)
      PROVE  IInv'
  <2> DEFINE R == {"failure", "unlisted_failure"} \cup Faults
  <2>1. R \in SUBSET Answers /\ "success" \notin R
    BY CodesAssumption DEF Answers, OpenCodes
  <2>2. Answer(m, R) /\ opened' = opened
    BY <1>5 DEF DeclineIntent
  <2> HIDE DEF R
  <2>3. QED
    BY <1>t, <2>1, <2>2, AnswerKeeps
<1>6. ASSUME NEW m \in requests, RefuseRequest(m)
      PROVE  IInv'
  <2>1. Refusals \in SUBSET Answers /\ "success" \notin Refusals
    BY CodesAssumption DEF Answers, RefusingCodes
  <2>2. Answer(m, Refusals) /\ opened' = opened
    BY <1>6 DEF RefuseRequest
  <2>3. QED
    BY <1>t, <2>1, <2>2, AnswerKeeps
<1>7. ASSUME UNCHANGED vars
      PROVE  IInv'
  BY <1>7 DEF vars, IInv, TypeOK, KeysOwned, CurrentMessages, SuccessOnFile,
     UnresolvedInDoubt, SureKeys, SureRequest, SureReply, SureOpened, AwaitedBy,
     AcceptedIsOnFile
<1>8. QED
  BY <1>t, <1>1, <1>2, <1>3, <1>4, <1>5, <1>6, <1>7, MintSaleKeeps, PriceSaleKeeps,
     RetryDeclinedKeeps, LoseRequestKeeps, LoseReplyKeeps
     DEF Next, Acquirer, Network

\* The inductive invariant holds throughout (IntentCall: Spec).
LEMMA Inductive == Spec => []IInv
BY InitIInv, NextIInv, PTL DEF Spec

\* Every reachable state is type correct (IntentCall: TypeOK).
THEOREM TypeCorrect == Spec => []TypeOK
<1>1. IInv => TypeOK
  BY DEF IInv
<1>2. QED
  BY <1>1, Inductive, PTL

\* An accepted sale has an intent on t-0's file under the key it holds
\* (CreatePaymentIntent.java:17-20).
THEOREM AcceptedOnFile == Spec => []AcceptedIsOnFile
<1>1. IInv => AcceptedIsOnFile
  BY DEF IInv
<1>2. QED
  BY <1>1, Inductive, PTL

\* A decline that follows no unanswered attempt is final
\* (CreatePaymentIntent.java:104-106).
THEOREM DeclineIsFinal == Spec => []DeclinedStaysClosed
<1>1. IInv => DeclinedStaysClosed
  BY DEF IInv, TypeOK, KeysOwned, SureKeys, SureRequest, SureOpened, AwaitedBy,
     DeclinedStaysClosed
<1>2. QED
  BY <1>1, Inductive, PTL

\* Two intents for one sale take an unanswered attempt under one of their keys
\* (README.md:72-77).
THEOREM SecondIntent == Spec => []SecondIntentNeedsDoubt
<1>1. IInv => SecondIntentNeedsDoubt
  BY DEF IInv, TypeOK, SureKeys, SureOpened, SecondIntentNeedsDoubt
<1>2. QED
  BY <1>1, Inductive, PTL

-----------------------------------------------------------------------------
(* The refinement of IntentPromise.                                        *)

\* Only the sale that acts is told something new (IntentCall: VerdictOf).
LEMMA VerdictStep ==
    ASSUME TypeOK, NEW s \in Sales, NEW p \in Phases,
           phase' = [phase EXCEPT ![s] = p]
    PROVE  [x \in Sales |-> VerdictOf(x)]' =
             [[x \in Sales |-> VerdictOf(x)] EXCEPT ![s] = VerdictOf(s)']
BY DEF TypeOK, VerdictOf

\* A step that leaves the ledger and the owners alone leaves every sale its
\* intents (IntentCall: IntentsOf).
LEMMA IntentsStay ==
    ASSUME UNCHANGED <<opened, owner>>
    PROVE  UNCHANGED [s \in Sales |-> IntentsOf(s)]
BY DEF IntentsOf

\* Minting a key for a sale changes neither its intents nor its doubts
\* (IntentCall: MintSale, RetryDeclined).
LEMMA MintStays ==
    ASSUME IInv, NEW s \in Sales, NEW k \in Keys, owner[k] = None,
           owner' = [owner EXCEPT ![k] = s], UNCHANGED <<opened, doubt>>
    PROVE  /\ UNCHANGED [x \in Sales |-> IntentsOf(x)]
           /\ UNCHANGED DoubtfulSales
<1>1. k \notin opened \cup doubt
  BY SalesAssumption DEF IInv, KeysOwned
<1>2. \A j \in opened \cup doubt : owner'[j] = owner[j]
  BY <1>1 DEF IInv, TypeOK
<1>3. QED
  BY <1>2 DEF IntentsOf, DoubtfulSales

\* The initial state of the calls is the promise's (IntentCall: Init).
LEMMA InitPromise == Init => Promise!Init
BY DEF Init, Promise!Init, VerdictOf, IntentsOf, DoubtfulSales

\* Every step keeps the promise: it is a step of IntentPromise or changes
\* nothing it speaks of (IntentCall: Next).
LEMMA NextPromise == IInv /\ IInv' /\ [Next]_vars => [Promise!Next]_(Promise!promised)
<1> SUFFICES ASSUME IInv, IInv', [Next]_vars
             PROVE  Promise!Next \/ UNCHANGED Promise!promised
  OBVIOUS
<1> USE DEF Promise!promised
<1>0. TypeOK
  BY DEF IInv
<1>1. ASSUME NEW s \in Sales, MintSale(s)
      PROVE  UNCHANGED Promise!promised
  <2>1. PICK k \in Keys : owner[k] = None /\ owner' = [owner EXCEPT ![k] = s]
    BY <1>1 DEF MintSale
  <2>2. UNCHANGED [x \in Sales |-> VerdictOf(x)]
    BY <1>0, <1>1 DEF MintSale, VerdictOf, TypeOK
  <2>3. QED
    BY <1>1, <2>1, <2>2, MintStays DEF MintSale
<1>2. ASSUME NEW s \in Sales, PriceSale(s)
      PROVE  Promise!Ask(s) \/ Promise!Abandon(s)
  <2>1. PICK p \in {"priced", "dropped"} : phase' = [phase EXCEPT ![s] = p]
    BY <1>2 DEF PriceSale
  <2>2. /\ VerdictOf(s) = "none"
        /\ VerdictOf(s)' = IF p = "priced" THEN "waiting" ELSE "abandoned"
    BY <1>0, <1>2, <2>1 DEF PriceSale, VerdictOf, TypeOK
  <2>3. UNCHANGED <<[x \in Sales |-> IntentsOf(x)], DoubtfulSales>>
    BY <1>2, IntentsStay DEF PriceSale, DoubtfulSales
  <2>4. QED
    BY <1>0, <2>1, <2>2, <2>3, VerdictStep DEF Promise!Ask, Promise!Abandon, Phases
<1>3. ASSUME NEW s \in Sales, SendIntent(s) \/ Resend(s)
      PROVE  UNCHANGED Promise!promised
  <2>1. UNCHANGED [x \in Sales |-> VerdictOf(x)]
    BY <1>0, <1>3 DEF SendIntent, Resend, Call, VerdictOf, TypeOK
  <2>2. QED
    BY <1>3, <2>1, IntentsStay DEF SendIntent, Resend, DoubtfulSales
<1>4. ASSUME NEW s \in Sales, RetryDeclined(s)
      PROVE  Promise!Ask(s)
  <2>1. PICK k \in Keys : owner[k] = None /\ owner' = [owner EXCEPT ![k] = s]
    BY <1>4 DEF RetryDeclined
  <2>2. phase' = [phase EXCEPT ![s] = "priced"] /\ VerdictOf(s) = "declined"
        /\ VerdictOf(s)' = "waiting"
    BY <1>0, <1>4 DEF RetryDeclined, VerdictOf, TypeOK
  <2>3. UNCHANGED <<[x \in Sales |-> IntentsOf(x)], DoubtfulSales>>
    BY <1>4, <2>1, MintStays DEF RetryDeclined
  <2>4. QED
    BY <1>0, <2>2, <2>3, VerdictStep DEF Promise!Ask, Phases
<1>5. ASSUME NEW s \in Sales, NEW r \in Answers \cup {Uncoded},
             phase[s] = "calling", Conclude(s, r),
             UNCHANGED <<key, owner, opened>>
      PROVE  Promise!Next \/ UNCHANGED Promise!promised
  <2> DEFINE o == IntentOutcome(LangOf[s], r)
  <2>1. o \in Outcomes
    BY LangOfAssumption, AnswersAreResults, OutcomeTruth
  <2>2. phase' = [phase EXCEPT ![s] = PhaseAfter(o)]
    BY <1>5 DEF Conclude
  <2>3. doubt' = IF o \in {"accepted", "rejected"} THEN doubt ELSE doubt \cup {key[s]}
    BY <1>5 DEF Conclude
  <2> HIDE DEF o
  <2>4. PhaseAfter(o) \in Phases
    BY <2>1, PhaseAfterType
  <2>5. VerdictOf(s) = "waiting"
    BY <1>5 DEF VerdictOf
  <2>6. phase'[s] = PhaseAfter(o)
    BY <1>0, <2>2, <2>4 DEF TypeOK
  <2>7. owner[key[s]] = s /\ key[s] \in Keys
    BY <1>5 DEF IInv, KeysOwned
  <2>8. UNCHANGED [x \in Sales |-> IntentsOf(x)]
    BY <1>5, IntentsStay
  <2>9. [x \in Sales |-> VerdictOf(x)]' =
             [[x \in Sales |-> VerdictOf(x)] EXCEPT ![s] = VerdictOf(s)']
    BY <1>0, <2>2, <2>4, VerdictStep
  <2>10. CASE o = "accepted"
    <3>1. VerdictOf(s)' = "accepted"
      BY <2>6, <2>10 DEF VerdictOf, PhaseAfter
    <3>2. key[s] \in IntentsOf(s)
      BY <1>5, <2>6, <2>7, <2>10 DEF IInv, AcceptedIsOnFile, IntentsOf, PhaseAfter
    <3>3. UNCHANGED DoubtfulSales
      BY <1>5, <2>3, <2>10 DEF DoubtfulSales
    <3>4. Promise!TellAccepted(s)
      BY <2>5, <2>8, <2>9, <3>1, <3>2, <3>3 DEF Promise!TellAccepted
    <3>5. QED
      BY <3>4 DEF Promise!Next
  <2>11. CASE o = "rejected"
    <3>1. VerdictOf(s)' = "declined"
      BY <2>6, <2>11 DEF VerdictOf, PhaseAfter
    <3>2. UNCHANGED DoubtfulSales
      BY <1>5, <2>3, <2>11 DEF DoubtfulSales
    <3>3. IntentsOf(s) = {} \/ s \in DoubtfulSales
      <4>1. SUFFICES ASSUME NEW k \in opened, owner[k] = s, s \notin DoubtfulSales
                     PROVE  FALSE
        BY DEF IntentsOf
      <4>2. k \notin doubt' /\ k \in opened' /\ owner'[k] = s /\ k \in Keys
        BY <1>0, <1>5, <2>3, <2>11, <4>1 DEF DoubtfulSales, TypeOK
      <4>3. phase'[s] \in {"calling", "accepted"}
        BY <4>2 DEF IInv, SureKeys, SureOpened
      <4>4. QED
        BY <2>6, <2>11, <4>3 DEF PhaseAfter
    <3>4. Promise!TellDeclined(s)
      BY <2>5, <2>8, <2>9, <3>1, <3>2, <3>3 DEF Promise!TellDeclined
    <3>5. QED
      BY <3>4 DEF Promise!Next
  <2>12. CASE o \notin {"accepted", "rejected"}
    <3>1. DoubtfulSales' = DoubtfulSales \cup {s}
      BY <1>5, <2>3, <2>7, <2>12 DEF DoubtfulSales
    <3>2. CASE o = "raised"
      <4>1. VerdictOf(s)' = "abandoned"
        BY <2>6, <3>2 DEF VerdictOf, PhaseAfter
      <4>2. Promise!Abandon(s)
        BY <2>5, <2>8, <2>9, <3>1, <4>1 DEF Promise!Abandon
      <4>3. QED
        BY <4>2 DEF Promise!Next
    <3>3. CASE o # "raised"
      <4>1. VerdictOf(s)' = "waiting"
        BY <2>6, <2>12, <3>3 DEF VerdictOf, PhaseAfter
      <4>2. UNCHANGED [x \in Sales |-> VerdictOf(x)]
        BY <2>5, <2>9, <4>1
      <4>3. Promise!BeLeftInDoubt(s)
        BY <2>5, <2>8, <3>1, <4>2 DEF Promise!BeLeftInDoubt
      <4>4. QED
        BY <4>3 DEF Promise!Next
    <3>4. QED
      BY <3>2, <3>3
  <2>13. QED
    BY <2>10, <2>11, <2>12
<1>6. ASSUME NEW s \in Sales, ReturnCall(s)
      PROVE  Promise!Next \/ UNCHANGED Promise!promised
  BY <1>0, <1>5, <1>6 DEF ReturnCall, TypeOK
<1>7. ASSUME NEW s \in Sales, GiveUp(s)
      PROVE  Promise!Next \/ UNCHANGED Promise!promised
  BY <1>5, <1>7 DEF GiveUp, Answers
<1>8. ASSUME NEW m \in requests, OpenIntent(m)
      PROVE  Promise!Next \/ UNCHANGED Promise!promised
  <2> DEFINE s == owner[m.key]
  <2>1. s \in Sales /\ m.key \in Keys
    BY <1>0 DEF IInv, KeysOwned, TypeOK
  <2>2. UNCHANGED <<phase, key, owner, doubt>> /\ opened' = opened \cup {m.key}
    BY <1>8 DEF OpenIntent, Answer
  <2>3. UNCHANGED <<[x \in Sales |-> VerdictOf(x)], DoubtfulSales>>
    BY <2>2 DEF VerdictOf, DoubtfulSales
  <2>4. [x \in Sales |-> IntentsOf(x)]' =
          [[x \in Sales |-> IntentsOf(x)] EXCEPT ![s] = @ \cup {m.key}]
    BY <2>1, <2>2 DEF IntentsOf
  <2>5. s \in DoubtfulSales \/ (VerdictOf(s) = "waiting" /\ IntentsOf(s) = {})
    <3>1. SUFFICES ASSUME s \notin DoubtfulSales
                   PROVE  VerdictOf(s) = "waiting" /\ IntentsOf(s) = {}
      OBVIOUS
    <3>2. \A k \in opened : owner[k] = s => k \in Keys \ doubt
      BY <1>0, <2>1, <3>1 DEF DoubtfulSales, TypeOK
    <3>3. m.key \in Keys \ doubt
      BY <2>1, <3>1 DEF DoubtfulSales
    <3>4. phase[s] = "calling" /\ key[s] = m.key /\ m.key \notin opened
      BY <3>3 DEF IInv, SureKeys, SureRequest, AwaitedBy
    <3>5. \A k \in opened : owner[k] = s => k = m.key
      BY <3>2, <3>4 DEF IInv, SureKeys, SureOpened
    <3>6. QED
      BY <3>4, <3>5 DEF VerdictOf, IntentsOf
  <2>6. Promise!Open(s)
    BY <2>1, <2>3, <2>4, <2>5 DEF Promise!Open
  <2>7. QED
    BY <2>1, <2>6 DEF Promise!Next
<1>9. ASSUME NEW m \in requests, DeclineIntent(m) \/ RefuseRequest(m) \/ LoseRequest(m)
      PROVE  UNCHANGED Promise!promised
  BY <1>9 DEF DeclineIntent, RefuseRequest, LoseRequest, Answer, VerdictOf, IntentsOf,
     DoubtfulSales
<1>10. ASSUME NEW m \in replies, LoseReply(m)
       PROVE  UNCHANGED Promise!promised
  BY <1>10 DEF LoseReply, VerdictOf, IntentsOf, DoubtfulSales
<1>11. ASSUME UNCHANGED vars
       PROVE  UNCHANGED Promise!promised
  BY <1>11 DEF vars, VerdictOf, IntentsOf, DoubtfulSales
<1>12. QED
  BY <1>1, <1>2, <1>3, <1>4, <1>6, <1>7, <1>8, <1>9, <1>10, <1>11
     DEF Next, Acquirer, Network, Promise!Next

\* The calls, outcomes and retries implement the promise (IntentPromise).
THEOREM Refinement == Spec => KeepsPromise
BY InitPromise, NextPromise, Inductive, PTL DEF Spec, Promise!Spec, KeepsPromise
=============================================================================

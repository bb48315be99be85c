------------------------- MODULE FiatReceiptProofs -------------------------
(***************************************************************************)
(* Proofs about the fiat leg and its receipts, for any executions,         *)
(* transfers, status codes and language of the acquirer's starter.  The    *)
(* first part is about FiatLeg alone.  The second carries its invariant    *)
(* over to the longer chain of FiatReceipt and adds what ties the          *)
(* acquirer's books to t-0's: what is announced was wired, and what t-0    *)
(* settled it has recorded.                                                *)
(***************************************************************************)
EXTENDS FiatReceipt, TLAPS

\* The results for which the report's wrapper says rejected.
Refusing == {"failure", "unlisted_failure"} \cup (RefusingCodes \ {"failed_precondition"})

-----------------------------------------------------------------------------
(* The inductive invariant.                                                *)

\* The handler never answers anything but accepted.
AllAccepted ==
    /\ \A m \in answers : m.decision = "accepted"
    /\ \A e \in Executions : result[e] # "rejected"

\* An execution of transfer t is on t-0's books under another transfer, and
\* t is not: t-0 will never record t.
Closed(t) == AlreadyPaid(t) /\ t \notin recorded

\* t-0's answer to a report, while it is on its way back, is true.
AnswersAreTrue ==
    \A t \in Transfers :
      /\ call[t] = "success" => t \in recorded
      /\ call[t] \in Refusing => Closed(t) \/ t \in unread

RefusedForGood ==
    \A t \in Transfers : report[t] = "rejected" => Closed(t) \/ t \in unread

IInv ==
    /\ TypeOK
    /\ AllAccepted
    /\ AnswersAreTrue
    /\ RefusedForGood
    /\ AcceptedReportIsRecorded

-----------------------------------------------------------------------------
(* What the wrapper's outcome says about the result it classifies.         *)

\* The wrapper says accepted of a success only, and rejected of a refusal
\* only, FAILED_PRECONDITION not among them (Outcome: ReportFiatSettlementSent).
LEMMA OutcomeTruth ==
    ASSUME NEW r \in Results
    PROVE  /\ ReportFiatSettlementSent(r) \in Outcomes
           /\ ReportFiatSettlementSent(r) = "accepted" => r = "success"
           /\ ReportFiatSettlementSent(r) = "rejected" => r \in Refusing
BY DEF ReportFiatSettlementSent, LpOutcomeFromError, NamedAnyReason, Results, Variants,
   Codes, RefusingCodes, OpenCodes, Uncoded, Outcomes, Refusing

\* A fault is none of the answers the invariant speaks of.
LEMMA FaultsAreNeutral ==
    ASSUME NEW r \in Faults
    PROVE  r \in OpenCodes /\ r # "success" /\ r \notin Refusing /\ r # "none" /\ r # "sent"
BY CodesAssumption DEF OpenCodes, Refusing, RefusingCodes

\* Every answer is a result.
LEMMA AnswersAreResults == ReportResults \subseteq Results
BY CodesAssumption DEF ReportResults, Results, Variants, Codes, RefusingCodes

-----------------------------------------------------------------------------
LEMMA InitIInv == Init => IInv
BY DEF Init, IInv, TypeOK, AllAccepted, AnswersAreTrue, RefusedForGood,
   AcceptedReportIsRecorded, Refusing, RefusingCodes, Outcomes, Decisions

\* What is closed stays closed while the books change by a verdict only, and
\* what is wired stays wired (FiatLeg: Wire, Record).
LEMMA ClosedStays ==
    ASSUME TypeOK, NEW t \in Transfers, Closed(t),
           \A u \in Transfers : content[u] # {} => content'[u] = content[u],
           recorded \subseteq recorded',
           recorded' \subseteq Transfers,
           t \in recorded' => ~AlreadyPaid(t)
    PROVE  Closed(t)'
<1>1. PICK other \in recorded \ {t} : content[other] \cap content[t] # {}
  BY DEF Closed, AlreadyPaid
<1>2. other \in Transfers
  BY DEF TypeOK
<1>3. content'[other] = content[other] /\ content'[t] = content[t]
  BY <1>1, <1>2
<1>4. t \notin recorded'
  BY DEF Closed
<1>5. QED
  BY <1>1, <1>3, <1>4 DEF Closed, AlreadyPaid

\* A verdict records a transfer only if no execution of it was paid by
\* another (FiatLeg: Verdict, Refused).
LEMMA RecordStays ==
    ASSUME TypeOK, NEW u \in Transfers, Record(u)
    PROVE  /\ recorded \subseteq recorded'
           /\ recorded' \subseteq recorded \cup {u}
           /\ u \in recorded' \ recorded => ~AlreadyPaid(u)
           /\ Verdict(u) = "success" => u \in recorded'
BY DEF Record, Verdict, Refused, TypeOK

-----------------------------------------------------------------------------
(* Every step keeps the types.                                             *)

LEMMA ConcludeType ==
    ASSUME TypeOK, NEW t \in Transfers, NEW r \in Results, Conclude(t, r)
    PROVE  /\ report' \in [Transfers -> {"none", "calling"} \cup Outcomes]
           /\ call' \in [Transfers -> {"none", "sent"} \cup ReportResults]
BY OutcomeTruth DEF Conclude, TypeOK

LEMMA NextTypeOK == TypeOK /\ [Next]_vars => TypeOK'
<1> SUFFICES ASSUME TypeOK, [Next]_vars PROVE TypeOK'
  OBVIOUS
<1> USE DEF commandVars, reportVars
<1>1. ASSUME NEW e \in Executions, Command(e) PROVE TypeOK'
  BY <1>1 DEF Command, TypeOK
<1>2. ASSUME NEW e \in Executions, ExecuteQuote(e) PROVE TypeOK'
  BY <1>2 DEF ExecuteQuote, Decision, Decisions, TypeOK
<1>3. ASSUME NEW e \in Executions, TakeAnswer(e) PROVE TypeOK'
  BY <1>3 DEF TakeAnswer, TypeOK
<1>4. ASSUME NEW e \in Executions, LoseCommand(e) \/ LoseAnswer(e) PROVE TypeOK'
  BY <1>4 DEF LoseCommand, LoseAnswer, TypeOK
<1>5. ASSUME NEW t \in Transfers, Wire(t) PROVE TypeOK'
  BY <1>5 DEF Wire, TypeOK
<1>6. ASSUME NEW t \in Transfers, Report(t) PROVE TypeOK'
  BY <1>6 DEF Report, TypeOK
<1>7. ASSUME NEW t \in Transfers, ReturnReport(t) PROVE TypeOK'
  <2>1. call[t] \in Results
    BY <1>7, AnswersAreResults DEF ReturnReport, TypeOK
  <2>2. QED
    BY <1>7, <2>1, ConcludeType DEF ReturnReport, TypeOK
<1>8. ASSUME NEW t \in Transfers, GiveUp(t) PROVE TypeOK'
  <2>1. PICK r \in Faults \cup {Uncoded} : Conclude(t, r)
    BY <1>8 DEF GiveUp
  <2>2. r \in Results
    BY CodesAssumption DEF Results, Codes
  <2>3. QED
    BY <1>8, <2>1, <2>2, ConcludeType DEF GiveUp, TypeOK
<1>9. ASSUME NEW t \in Transfers, AnswerReport(t) PROVE TypeOK'
  <2>1. Verdict(t) \in ReportResults /\ "no_variant" \in ReportResults /\ Faults \subseteq ReportResults
    BY DEF Verdict, ReportResults
  <2>2. recorded' \in SUBSET Transfers
    BY <1>9, RecordStays DEF AnswerReport, TypeOK
  <2>3. QED
    BY <1>9, <2>1, <2>2 DEF AnswerReport, TypeOK
<1>10. ASSUME NEW t \in Transfers, RefuseUnread(t) PROVE TypeOK'
  BY <1>10 DEF RefuseUnread, TypeOK, ReportResults
<1>11. ASSUME NEW t \in Transfers, TakeStray(t) PROVE TypeOK'
  <2>1. recorded' \in SUBSET Transfers
    BY <1>11, RecordStays DEF TakeStray, TypeOK
  <2>2. QED
    BY <1>11, <2>1 DEF TakeStray, TypeOK
<1>12. ASSUME NEW t \in Transfers, LoseStray(t) PROVE TypeOK'
  BY <1>12 DEF LoseStray, TypeOK
<1>13. CASE Restart
  BY <1>13 DEF Restart, TypeOK, Outcomes
<1>14. CASE UNCHANGED vars
  BY <1>14 DEF vars, TypeOK
<1>15. QED
  BY <1>1, <1>2, <1>3, <1>4, <1>5, <1>6, <1>7, <1>8, <1>9, <1>10, <1>11, <1>12, <1>13, <1>14
     DEF Next

-----------------------------------------------------------------------------
(* Every step keeps the rest of the invariant.                             *)

\* The command side only ever answers accepted (FiatLeg: ExecuteQuote,
\* TakeAnswer).
LEMMA NextAllAccepted == TypeOK /\ AllAccepted /\ [Next]_vars => AllAccepted'
<1> SUFFICES ASSUME TypeOK, AllAccepted, [Next]_vars PROVE AllAccepted'
  OBVIOUS
<1> USE DEF commandVars, reportVars
<1>1. ASSUME NEW e \in Executions, Command(e) PROVE AllAccepted'
  BY <1>1 DEF Command, AllAccepted, TypeOK
<1>2. ASSUME NEW e \in Executions, ExecuteQuote(e) PROVE AllAccepted'
  BY <1>2 DEF ExecuteQuote, Decision, AllAccepted
<1>3. ASSUME NEW e \in Executions, TakeAnswer(e) PROVE AllAccepted'
  BY <1>3 DEF TakeAnswer, AllAccepted, TypeOK
<1>4. ASSUME NEW e \in Executions, LoseCommand(e) \/ LoseAnswer(e) PROVE AllAccepted'
  BY <1>4 DEF LoseCommand, LoseAnswer, AllAccepted
<1>5. CASE UNCHANGED <<result, answers>>
  BY <1>5 DEF AllAccepted
<1>6. ASSUME NEW t \in Transfers, Wire(t) \/ Report(t) \/ ReturnReport(t) \/ GiveUp(t)
      PROVE  UNCHANGED <<result, answers>>
  BY <1>6 DEF Wire, Report, ReturnReport, GiveUp
<1>7. ASSUME NEW t \in Transfers, AnswerReport(t) \/ RefuseUnread(t) \/ TakeStray(t) \/ LoseStray(t)
      PROVE  UNCHANGED <<result, answers>>
  BY <1>7 DEF AnswerReport, RefuseUnread, TakeStray, LoseStray
<1>8. Restart \/ UNCHANGED vars => UNCHANGED <<result, answers>>
  BY DEF Restart, vars
<1>9. QED
  BY <1>1, <1>2, <1>3, <1>4, <1>5, <1>6, <1>7, <1>8 DEF Next

ReportInv == AnswersAreTrue /\ RefusedForGood /\ AcceptedReportIsRecorded

\* A step that touches neither books nor the state of a report keeps it.
LEMMA Untouched ==
    ASSUME TypeOK, ReportInv,
           \A u \in Transfers : content[u] # {} => content'[u] = content[u],
           UNCHANGED <<report, call, recorded, unread>>
    PROVE  ReportInv'
<1>1. ASSUME NEW t \in Transfers, Closed(t) PROVE Closed(t)'
  BY <1>1, ClosedStays DEF TypeOK, Closed
<1>2. QED
  BY <1>1 DEF ReportInv, AnswersAreTrue, RefusedForGood, AcceptedReportIsRecorded

\* A step that ends the call of t with an outcome that the answer bears out.
LEMMA ConcludeKeeps ==
    ASSUME TypeOK, ReportInv, NEW t \in Transfers, NEW r \in Results, Conclude(t, r),
           r = "success" => t \in recorded,
           r \in Refusing => Closed(t) \/ t \in unread,
           UNCHANGED <<content, recorded, unread>>
    PROVE  ReportInv'
<1>1. \A u \in Transfers : Closed(u)' <=> Closed(u)
  BY DEF Closed, AlreadyPaid
<1>2. report'[t] = ReportFiatSettlementSent(r) /\ call'[t] = "none"
  BY DEF Conclude, TypeOK
<1>3. \A u \in Transfers \ {t} : report'[u] = report[u] /\ call'[u] = call[u]
  BY DEF Conclude, TypeOK
<1>4. /\ report'[t] = "accepted" => t \in recorded
      /\ report'[t] = "rejected" => Closed(t) \/ t \in unread
  BY <1>2, OutcomeTruth
<1>5. AnswersAreTrue'
  BY <1>1, <1>2, <1>3 DEF ReportInv, AnswersAreTrue, Refusing, RefusingCodes
<1>6. RefusedForGood'
  BY <1>1, <1>3, <1>4 DEF ReportInv, RefusedForGood
<1>7. AcceptedReportIsRecorded'
  BY <1>3, <1>4 DEF ReportInv, AcceptedReportIsRecorded
<1>8. QED
  BY <1>5, <1>6, <1>7 DEF ReportInv

\* A verdict on t changes no other report's standing (FiatLeg: Record).
LEMMA RecordKeepsClosed ==
    ASSUME TypeOK, NEW u \in Transfers, Record(u), UNCHANGED content, NEW t \in Transfers, Closed(t)
    PROVE  Closed(t)'
<1>1. recorded \subseteq recorded' /\ recorded' \subseteq Transfers
  BY RecordStays DEF TypeOK
<1>2. t \in recorded' => ~AlreadyPaid(t)
  BY RecordStays DEF Closed
<1>3. QED
  BY <1>1, <1>2, ClosedStays

\* t-0 refuses a report for good only when another transfer paid for one of
\* its executions: it holds none as rejected (FiatLeg: Verdict).
LEMMA VerdictTruth ==
    ASSUME TypeOK, AllAccepted, NEW t \in Transfers, Verdict(t) = "failure"
    PROVE  Closed(t)
BY DEF Verdict, Refused, Closed, AllAccepted, TypeOK

LEMMA NextReportInv == TypeOK /\ AllAccepted /\ ReportInv /\ [Next]_vars => ReportInv'
<1> SUFFICES ASSUME TypeOK, AllAccepted, ReportInv, [Next]_vars PROVE ReportInv'
  OBVIOUS
<1> USE DEF commandVars, reportVars
<1>1. ASSUME NEW e \in Executions,
             Command(e) \/ ExecuteQuote(e) \/ TakeAnswer(e) \/ LoseCommand(e) \/ LoseAnswer(e)
      PROVE  ReportInv'
  BY <1>1, Untouched DEF Command, ExecuteQuote, TakeAnswer, LoseCommand, LoseAnswer
<1>2. ASSUME NEW t \in Transfers, Wire(t) PROVE ReportInv'
  <2>1. \A u \in Transfers : content[u] # {} => content'[u] = content[u]
    BY <1>2 DEF Wire, TypeOK
  <2>2. QED
    BY <1>2, <2>1, Untouched DEF Wire
<1>3. ASSUME NEW t \in Transfers, LoseStray(t) PROVE ReportInv'
  BY <1>3, Untouched DEF LoseStray
<1>4. ASSUME NEW t \in Transfers, Report(t) PROVE ReportInv'
  <2>1. \A u \in Transfers : Closed(u)' <=> Closed(u)
    BY <1>4 DEF Report, Closed, AlreadyPaid
  <2>2. report'[t] = "calling" /\ call'[t] = "sent"
    BY <1>4 DEF Report, TypeOK
  <2>3. \A u \in Transfers \ {t} : report'[u] = report[u] /\ call'[u] = call[u]
    BY <1>4 DEF Report, TypeOK
  <2>4. UNCHANGED <<recorded, unread>>
    BY <1>4 DEF Report
  <2>5. QED
    BY <2>1, <2>2, <2>3, <2>4 DEF ReportInv, AnswersAreTrue, RefusedForGood,
       AcceptedReportIsRecorded, Refusing, RefusingCodes
<1>5. ASSUME NEW t \in Transfers, ReturnReport(t) PROVE ReportInv'
  <2>1. call[t] \in Results
    BY <1>5, AnswersAreResults DEF ReturnReport, TypeOK
  <2>2. /\ call[t] = "success" => t \in recorded
        /\ call[t] \in Refusing => Closed(t) \/ t \in unread
    BY DEF ReportInv, AnswersAreTrue
  <2>3. QED
    BY <1>5, <2>1, <2>2, ConcludeKeeps DEF ReturnReport
<1>6. ASSUME NEW t \in Transfers, GiveUp(t) PROVE ReportInv'
  <2>1. PICK r \in Faults \cup {Uncoded} : Conclude(t, r)
    BY <1>6 DEF GiveUp
  <2>2. r \in Results /\ r # "success" /\ r \notin Refusing
    BY CodesAssumption DEF Results, Codes, OpenCodes, Uncoded, Refusing, RefusingCodes
  <2>3. QED
    BY <1>6, <2>1, <2>2, ConcludeKeeps DEF GiveUp
<1>7. ASSUME NEW t \in Transfers, RefuseUnread(t) PROVE ReportInv'
  <2>1. \A u \in Transfers : Closed(u)' <=> Closed(u)
    BY <1>7 DEF RefuseUnread, Closed, AlreadyPaid
  <2>2. PICK r \in Refusals : call' = [call EXCEPT ![t] = r]
    BY <1>7 DEF RefuseUnread
  <2>3. call'[t] # "success"
    BY <2>2, CodesAssumption DEF RefusingCodes, TypeOK
  <2>4. \A u \in Transfers \ {t} : call'[u] = call[u]
    BY <2>2 DEF TypeOK
  <2>5. unread' = unread \cup {t} /\ UNCHANGED <<report, recorded>>
    BY <1>7 DEF RefuseUnread
  <2>6. QED
    BY <2>1, <2>3, <2>4, <2>5 DEF ReportInv, AnswersAreTrue, RefusedForGood,
       AcceptedReportIsRecorded
<1>8. ASSUME NEW t \in Transfers, TakeStray(t) PROVE ReportInv'
  <2>1. ASSUME NEW u \in Transfers, Closed(u) PROVE Closed(u)'
    BY <1>8, <2>1, RecordKeepsClosed DEF TakeStray
  <2>2. recorded \subseteq recorded' /\ UNCHANGED <<report, call, unread>>
    BY <1>8, RecordStays DEF TakeStray
  <2>3. QED
    BY <2>1, <2>2 DEF ReportInv, AnswersAreTrue, RefusedForGood, AcceptedReportIsRecorded
<1>9. CASE Restart
  <2>1. \A u \in Transfers : Closed(u)' <=> Closed(u)
    BY <1>9 DEF Restart, Closed, AlreadyPaid
  <2>2. \A u \in Transfers : /\ call'[u] = "none"
                             /\ report'[u] \in {"accepted", "rejected"} => report'[u] = report[u]
    BY <1>9 DEF Restart
  <2>3. UNCHANGED <<recorded, unread>>
    BY <1>9 DEF Restart
  <2>4. QED
    BY <2>1, <2>2, <2>3 DEF ReportInv, AnswersAreTrue, RefusedForGood,
       AcceptedReportIsRecorded, Refusing, RefusingCodes
<1>10. CASE UNCHANGED vars
  BY <1>10, Untouched DEF vars
<1>11. ASSUME NEW t \in Transfers, AnswerReport(t) PROVE ReportInv'
  <2>1. PICK r \in {Verdict(t), "no_variant"} \cup Faults : call' = [call EXCEPT ![t] = r]
    BY <1>11 DEF AnswerReport
  <2>2. Record(t) /\ UNCHANGED <<content, report, unread>>
    BY <1>11 DEF AnswerReport
  <2>3. ASSUME NEW u \in Transfers, Closed(u) PROVE Closed(u)'
    BY <2>2, <2>3, RecordKeepsClosed
  <2>4. recorded \subseteq recorded'
    BY <2>2, RecordStays
  <2>5. call'[t] = r /\ \A u \in Transfers \ {t} : call'[u] = call[u]
    BY <2>1 DEF TypeOK
  <2>6. r \notin Faults \cup {"no_variant"} => r = Verdict(t)
    BY <2>1
  <2>7. r \in Faults \cup {"no_variant"} => r # "success" /\ r \notin Refusing
    BY FaultsAreNeutral DEF Refusing, RefusingCodes
  <2>8. r = "success" => t \in recorded'
    BY <2>2, <2>6, <2>7, RecordStays
  <2>9. Verdict(t) \in Refusing => Verdict(t) = "failure"
    BY DEF Verdict, Refusing, RefusingCodes
  <2>10. r \in Refusing => Closed(t)'
    BY <2>3, <2>6, <2>7, <2>9, VerdictTruth
  <2>11. AnswersAreTrue'
    BY <2>2, <2>3, <2>4, <2>5, <2>8, <2>10 DEF ReportInv, AnswersAreTrue
  <2>12. RefusedForGood' /\ AcceptedReportIsRecorded'
    BY <2>2, <2>3, <2>4 DEF ReportInv, RefusedForGood, AcceptedReportIsRecorded
  <2>13. QED
    BY <2>11, <2>12 DEF ReportInv
<1>12. QED
  BY <1>1, <1>2, <1>3, <1>4, <1>5, <1>6, <1>7, <1>8, <1>9, <1>10, <1>11 DEF Next

-----------------------------------------------------------------------------
LEMMA Inductive == Spec => []IInv
<1>1. IInv /\ [Next]_vars => IInv'
  BY NextTypeOK, NextAllAccepted, NextReportInv DEF IInv, ReportInv
<1>2. QED
  BY InitIInv, <1>1, PTL DEF Spec

\* The wrapper, the handler and t-0's books keep their types, whatever code a
\* report ends with (fiat_settlement_sent.ts:33-82).
THEOREM TypeCorrect == Spec => []TypeOK
<1>1. IInv => TypeOK
  BY DEF IInv
<1>2. QED
  BY Inductive, <1>1, PTL

\* No money goes out for an execution t-0 holds as rejected, for any number of
\* repeats, restarts and transfers (handler.ts:17-18, 49-51).
THEOREM NoRejectedTransfer == Spec => []NoTransferForARejectedExecution
<1>1. IInv => NoTransferForARejectedExecution
  BY DEF IInv, AllAccepted, TypeOK, NoTransferForARejectedExecution
<1>2. QED
  BY Inductive, <1>1, PTL

\* The LP is told to stop reporting a transfer only when t-0 never will record
\* it, or refused a report of it unread (fiat_settlement_sent.ts:71-80).
THEOREM RejectionIsFinal == Spec => []RejectedReportIsFinal
<1>1. IInv => RejectedReportIsFinal
  BY DEF IInv, RefusedForGood, Closed, RejectedReportIsFinal
<1>2. QED
  BY Inductive, <1>1, PTL

\* A transfer the LP was told is accepted is on t-0's books
\* (fiat_settlement_sent.ts:52-57).
THEOREM AcceptanceIsOnTheBooks == Spec => []AcceptedReportIsRecorded
<1>1. IInv => AcceptedReportIsRecorded
  BY DEF IInv
<1>2. QED
  BY Inductive, <1>1, PTL

-----------------------------------------------------------------------------
(* FiatReceipt: the settlement as the acquirer learns of it.               *)

\* Whatever t-0 or the LP's calls speak of was wired first.
WiredFirst ==
    \A t \in Transfers :
      report[t] # "none" \/ call[t] # "none" \/ t \in strays \cup recorded => content[t] # {}

\* What a confirmation may name.
Amounts == Readings \cup {Moved[t] : t \in Transfers}

\* t-0 announces what it has recorded, and only that is ever confirmed.
ToldOfRecorded ==
    \A n \in post : n.rpc = "settlementInitiated" => n.request.bankTransferRef \in recorded

ConfirmedOnceTold(t) ==
    /\ receipt[t] # "none" => t \in recorded /\ reading[t] \in Readings
    /\ \A amount \in Amounts : Confirmation(t, amount, Pending) \in post => t \in recorded

\* What t-0 answered a confirmation of a transfer is so.
VerdictsAreTrue(t) ==
    \A amount \in Amounts :
      /\ Confirmation(t, amount, Accepted) \in post
           => amount = Moved[t] /\ Confirmation(t, amount, Pending) \in post
      /\ Confirmation(t, amount, Mismatch) \in post => amount # Moved[t]
      /\ Confirmation(t, amount, Unknown) \notin post

\* An acquirer that confirmed what was moved never reads another amount.
ReadRight(t) ==
    Confirmation(t, Moved[t], Pending) \in post => receipt[t] # "none" /\ reading[t] = Moved[t]

OutcomeIsTrue(t) ==
    /\ receipt[t] = "accepted" => Settled(t)
    /\ receipt[t] = "rejected" => reading[t] # Moved[t] \/ t \in turnedAway

ReceiptsAreTrue ==
    \A t \in Transfers :
      ConfirmedOnceTold(t) /\ VerdictsAreTrue(t) /\ ReadRight(t) /\ OutcomeIsTrue(t)

AcquirerTypes ==
    /\ post \subseteq AcquirerService \cup AcquirerCallbackService
    /\ reading \in [Transfers -> Readings \cup {Unset}]
    /\ receipt \in [Transfers -> {"none", "calling"} \cup Outcomes]
    /\ turnedAway \subseteq Transfers

RInv ==
    /\ IInv
    /\ WiredFirst
    /\ AcquirerTypes
    /\ ToldOfRecorded
    /\ ReceiptsAreTrue

-----------------------------------------------------------------------------
(* What the wrapper's outcome says about the result it classifies.         *)

\* In every language an outcome is one of the four; only an acceptance is taken
\* for one, and only a refusal for a refusal (Outcome: ReceiptOutcome).
LEMMA ReceiptTruth ==
    ASSUME NEW r \in Codes \cup {Uncoded, "no_variant", "success", "failure"}
    PROVE  /\ ReceiptOutcome(Lang, r) \in Outcomes
           /\ ReceiptOutcome(Lang, r) = "accepted" => r = "success"
           /\ ReceiptOutcome(Lang, r) = "rejected" => r \in RefusingCodes \cup {"failure"}
<1>1. Lang \in {"go", "java", "python"}
  BY ReceiptAssumption DEF AcquirerLangs
<1>2. QED
  BY <1>1 DEF ReceiptOutcome, GoConfirmSettlement, JavaSettlementReceived,
     PythonSettlementReceived, GoOutcomeFromError, JavaFromError, PythonOutcomeFromError,
     NamedAnyReason, NamedListedReason, Variants, Codes, RefusingCodes, OpenCodes, Uncoded,
     Outcomes

-----------------------------------------------------------------------------
(* What goes over the wire is what the contract lets through.              *)

LEMMA InitiatedIsValid ==
    ASSUME TypeOK, NEW t \in Transfers, content[t] # {}
    PROVE  Message("settlementInitiated", Initiated(t), Empty) \in AcquirerCallbackService
<1>1. {IntentOf[e] : e \in content[t]} \in (SUBSET Intents) \ {{}}
  <2>1. content[t] \subseteq Executions
    BY DEF TypeOK
  <2>2. \A e \in content[t] : IntentOf[e] \in Intents
    BY <2>1, ReceiptAssumption
  <2>3. PICK e \in content[t] : TRUE
    OBVIOUS
  <2>4. IntentOf[e] \in {IntentOf[d] : d \in content[t]}
    BY <2>3
  <2>5. QED
    BY <2>2, <2>4
<1>2. [value |-> Moved[t], currency |-> Currency] \in LocalAmount
  BY ReceiptAssumption DEF LocalAmount
<1>3. Initiated(t) \in SettlementInitiatedRequest
  BY <1>1, <1>2 DEF Initiated, SettlementInitiatedRequest
<1>4. Message("settlementInitiated", Initiated(t), Empty)
        \in Rpc("settlementInitiated", SettlementInitiatedRequest, SettlementInitiatedResponse)
  BY <1>3 DEF Message, Rpc, SettlementInitiatedResponse
<1>5. QED
  BY <1>4 DEF AcquirerCallbackService

LEMMA ReceivedIsValid ==
    ASSUME NEW t \in Transfers, NEW amount \in Readings,
           NEW response \in {Pending, Accepted, Mismatch, Unknown}
    PROVE  Confirmation(t, amount, response) \in AcquirerService
<1>1. Received(t, amount) \in SettlementReceivedRequest
  BY ReceiptAssumption DEF Received, SettlementReceivedRequest
<1>2. response \in SettlementReceivedResponse \cup {Pending}
  BY DEF SettlementReceivedResponse, Failing, SettlementReceivedRejections, Accepted, Mismatch,
     Unknown
<1>3. Confirmation(t, amount, response)
        \in Rpc("settlementReceived", SettlementReceivedRequest, SettlementReceivedResponse)
  BY <1>1, <1>2 DEF Confirmation, Message, Rpc
<1>4. QED
  BY <1>3 DEF AcquirerService

\* No confirmation is an announcement, and two that differ in the transfer,
\* the amount or the answer are not the same.
LEMMA ConfirmationsDiffer ==
    ASSUME NEW t, NEW amount, NEW response, NEW u, NEW other, NEW answer
    PROVE  /\ Confirmation(t, amount, response) = Confirmation(u, other, answer)
                => t = u /\ amount = other /\ response = answer
           /\ Confirmation(t, amount, response).rpc = "settlementReceived"
<1>1. ASSUME NEW v, NEW a, NEW r
      PROVE  /\ Confirmation(v, a, r).rpc = "settlementReceived"
             /\ Confirmation(v, a, r).request.bankTransferRef = v
             /\ Confirmation(v, a, r).request.amountReceived = a
             /\ Confirmation(v, a, r).response = r
  BY DEF Confirmation, Message, Received
<1>2. QED
  BY <1>1

\* The answers t-0 may give differ from each other and from none.
LEMMA AnswersDiffer ==
    /\ Pending # Accepted /\ Pending # Mismatch /\ Pending # Unknown
    /\ Accepted # Mismatch /\ Accepted # Unknown /\ Mismatch # Unknown
<1>1. /\ Pending.case = "pending" /\ Accepted.case = "accepted"
      /\ Mismatch.case = "rejected" /\ Unknown.case = "rejected"
      /\ Mismatch.reason = "AMOUNT_MISMATCH" /\ Unknown.reason = "UNKNOWN_TRANSFER"
  BY DEF Pending, Accepted, Mismatch, Unknown
<1>2. QED
  BY <1>1

-----------------------------------------------------------------------------
LEMMA InitRInv == ReceiptInit => RInv
<1> SUFFICES ASSUME ReceiptInit PROVE RInv
  OBVIOUS
<1>1. IInv
  BY InitIInv DEF ReceiptInit
<1>2. WiredFirst
  BY DEF ReceiptInit, Init, WiredFirst
<1>3. AcquirerTypes /\ ToldOfRecorded
  BY DEF ReceiptInit, AcquirerTypes, ToldOfRecorded
<1>4. ReceiptsAreTrue
  BY DEF ReceiptInit, ReceiptsAreTrue, ConfirmedOnceTold, VerdictsAreTrue, ReadRight,
     OutcomeIsTrue
<1>5. QED
  BY <1>1, <1>2, <1>3, <1>4 DEF RInv

\* The LP's side wires before it reports and t-0 records what was reported
\* (FiatLeg: Wire, Report, Record).
LEMMA NextWiredFirst == TypeOK /\ WiredFirst /\ [Next]_vars => WiredFirst'
<1> SUFFICES ASSUME TypeOK, WiredFirst, [Next]_vars PROVE WiredFirst'
  OBVIOUS
<1> USE DEF commandVars, reportVars
<1>1. ASSUME UNCHANGED <<content, report, call, strays, recorded>> PROVE WiredFirst'
  BY <1>1 DEF WiredFirst
<1>2. ASSUME NEW e \in Executions,
             Command(e) \/ ExecuteQuote(e) \/ TakeAnswer(e) \/ LoseCommand(e) \/ LoseAnswer(e)
      PROVE  UNCHANGED <<content, report, call, strays, recorded>>
  BY <1>2 DEF Command, ExecuteQuote, TakeAnswer, LoseCommand, LoseAnswer
<1>3. ASSUME NEW t \in Transfers, Wire(t) PROVE WiredFirst'
  BY <1>3 DEF Wire, WiredFirst, TypeOK
<1>4. ASSUME NEW t \in Transfers, Report(t) PROVE WiredFirst'
  BY <1>4 DEF Report, WiredFirst, TypeOK
<1>5. ASSUME NEW t \in Transfers, ReturnReport(t) PROVE WiredFirst'
  BY <1>5 DEF ReturnReport, Conclude, WiredFirst, TypeOK
<1>6. ASSUME NEW t \in Transfers, GiveUp(t) PROVE WiredFirst'
  <2>1. PICK r \in Faults \cup {Uncoded} : Conclude(t, r)
    BY <1>6 DEF GiveUp
  <2>2. strays' \subseteq strays \cup {t} /\ content[t] # {} /\ UNCHANGED <<content, recorded>>
    BY <1>6 DEF GiveUp, WiredFirst
  <2>3. QED
    BY <2>1, <2>2 DEF Conclude, WiredFirst, TypeOK
<1>7. ASSUME NEW t \in Transfers, AnswerReport(t) \/ RefuseUnread(t) PROVE WiredFirst'
  <2>1. content[t] # {} /\ UNCHANGED <<content, report, strays>>
    BY <1>7 DEF AnswerReport, RefuseUnread, WiredFirst
  <2>2. recorded' \subseteq recorded \cup {t}
    BY <1>7, RecordStays DEF AnswerReport, RefuseUnread
  <2>3. \A u \in Transfers \ {t} : call'[u] = call[u]
    BY <1>7 DEF AnswerReport, RefuseUnread, TypeOK
  <2>4. QED
    BY <2>1, <2>2, <2>3 DEF WiredFirst
<1>8. ASSUME NEW t \in Transfers, TakeStray(t) \/ LoseStray(t) PROVE WiredFirst'
  <2>1. content[t] # {} /\ strays' \subseteq strays /\ UNCHANGED <<content, report, call>>
    BY <1>8 DEF TakeStray, LoseStray, WiredFirst
  <2>2. recorded' \subseteq recorded \cup {t}
    BY <1>8, RecordStays DEF TakeStray, LoseStray
  <2>3. QED
    BY <2>1, <2>2 DEF WiredFirst
<1>9. CASE Restart
  BY <1>9 DEF Restart, WiredFirst, TypeOK
<1>10. CASE UNCHANGED vars
  BY <1>1, <1>10 DEF vars
<1>11. QED
  BY <1>1, <1>2, <1>3, <1>4, <1>5, <1>6, <1>7, <1>8, <1>9, <1>10 DEF Next

\* What t-0 has recorded it keeps (FiatLeg: Record).
LEMMA RecordedGrows == TypeOK /\ [Next]_vars => recorded \subseteq recorded'
<1> SUFFICES ASSUME TypeOK, [Next]_vars PROVE recorded \subseteq recorded'
  OBVIOUS
<1> USE DEF commandVars, reportVars
<1>1. ASSUME NEW t \in Transfers, AnswerReport(t) \/ TakeStray(t)
      PROVE  recorded \subseteq recorded'
  BY <1>1, RecordStays DEF AnswerReport, TakeStray
<1>2. ASSUME NEW t \in Transfers, Wire(t) \/ Report(t) \/ ReturnReport(t) \/ GiveUp(t)
                                    \/ RefuseUnread(t) \/ LoseStray(t)
      PROVE  UNCHANGED recorded
  BY <1>2 DEF Wire, Report, ReturnReport, GiveUp, RefuseUnread, LoseStray
<1>3. ASSUME NEW e \in Executions,
             Command(e) \/ ExecuteQuote(e) \/ TakeAnswer(e) \/ LoseCommand(e) \/ LoseAnswer(e)
      PROVE  UNCHANGED recorded
  BY <1>3 DEF Command, ExecuteQuote, TakeAnswer, LoseCommand, LoseAnswer
<1>4. Restart \/ UNCHANGED vars => UNCHANGED recorded
  BY DEF Restart, vars
<1>5. QED
  BY <1>1, <1>2, <1>3, <1>4 DEF Next

\* Whatever happens on the acquirer's side, the LP's side takes a step of
\* its own or stands still.
LEMMA LegSteps == [ReceiptNext]_allVars => [Next]_vars
BY DEF ReceiptNext, Receiving, SettlementInitiated, SettlementReceived, Find, Confirm, Correct,
   Send, HearReceipt, GiveUpReceipt, RefuseReceipt, Receipt, allVars, acquirerVars

\* Sending a confirmation, the first one or a repeat, of what the acquirer
\* now takes the transfer for (FiatReceipt: Find, Confirm, Correct).
LEMMA SendingKeeps ==
    ASSUME AcquirerTypes, ToldOfRecorded, ReceiptsAreTrue,
           NEW t \in Transfers, Find(t) \/ Confirm(t) \/ Correct(t)
    PROVE  AcquirerTypes' /\ ToldOfRecorded' /\ ReceiptsAreTrue'
<1>1. t \in recorded /\ UNCHANGED recorded
  <2>1. Initiated(t).bankTransferRef = t
    BY DEF Initiated
  <2>2. Told(t) => t \in recorded
    BY <2>1 DEF Told, ToldOfRecorded, Message
  <2>3. QED
    BY <2>2 DEF Find, Confirm, Correct, Send, ShouldRetry, ReceiptsAreTrue, ConfirmedOnceTold,
       vars, reportVars
<1>2. PICK amount \in Readings :
        /\ reading' = [reading EXCEPT ![t] = amount]
        /\ Confirmation(t, Moved[t], Pending) \in post => amount = Moved[t]
  <2>1. CASE Find(t)
    BY <2>1 DEF Find, ReceiptsAreTrue, ReadRight
  <2>2. CASE Confirm(t)
    <3>1. receipt[t] # "none" /\ UNCHANGED reading
      BY <2>2 DEF Confirm, ShouldRetry
    <3>2. reading[t] \in Readings /\ reading' = [reading EXCEPT ![t] = reading[t]]
      BY <3>1 DEF ReceiptsAreTrue, ConfirmedOnceTold, AcquirerTypes
    <3>3. QED
      BY <3>2 DEF ReceiptsAreTrue, ReadRight
  <2>3. CASE Correct(t)
    <3>1. receipt[t] # "none" /\ Confirmation(t, reading[t], Mismatch) \in post
      BY <2>3 DEF Correct
    <3>2. reading[t] # Moved[t]
      BY <3>1 DEF ReceiptsAreTrue, ConfirmedOnceTold, VerdictsAreTrue, Amounts
    <3>3. Credited[t] \in Readings /\ reading' = [reading EXCEPT ![t] = Credited[t]]
      BY <2>3, ReceiptAssumption DEF Correct
    <3>4. QED
      BY <3>2, <3>3 DEF ReceiptsAreTrue, ReadRight
  <2>4. QED
    BY <2>1, <2>2, <2>3
<1>3. reading'[t] = amount
  BY <1>2 DEF AcquirerTypes
<1>4. /\ receipt' = [receipt EXCEPT ![t] = "calling"]
      /\ post' = post \cup {Confirmation(t, amount, Pending)}
      /\ UNCHANGED turnedAway
  BY <1>3 DEF Find, Confirm, Correct, Send
<1>5. AcquirerTypes'
  BY <1>2, <1>4, ReceivedIsValid DEF AcquirerTypes
<1>6. ToldOfRecorded'
  BY <1>1, <1>4, ConfirmationsDiffer DEF ToldOfRecorded
<1>7. ASSUME NEW u \in Transfers, NEW a
      PROVE  /\ Confirmation(u, a, Pending) \in post'
                  <=> Confirmation(u, a, Pending) \in post \/ (u = t /\ a = amount)
             /\ \A r \in {Accepted, Mismatch, Unknown} :
                  Confirmation(u, a, r) \in post' <=> Confirmation(u, a, r) \in post
  BY <1>4, ConfirmationsDiffer, AnswersDiffer
<1>8. ASSUME NEW u \in Transfers
      PROVE  ConfirmedOnceTold(u)' /\ VerdictsAreTrue(u)' /\ ReadRight(u)' /\ OutcomeIsTrue(u)'
  <2>1. ConfirmedOnceTold(u) /\ VerdictsAreTrue(u) /\ ReadRight(u) /\ OutcomeIsTrue(u)
    BY DEF ReceiptsAreTrue
  <2>2. receipt'[u] = IF u = t THEN "calling" ELSE receipt[u]
    BY <1>4 DEF AcquirerTypes
  <2>3. reading'[u] = IF u = t THEN amount ELSE reading[u]
    BY <1>2 DEF AcquirerTypes
  <2>4. ConfirmedOnceTold(u)'
    BY <1>1, <1>7, <2>1, <2>2, <2>3 DEF ConfirmedOnceTold
  <2>5. VerdictsAreTrue(u)'
    BY <1>7, <2>1 DEF VerdictsAreTrue
  <2>6. ReadRight(u)'
    BY <1>2, <1>7, <2>1, <2>2, <2>3 DEF ReadRight, Amounts
  <2>7. OutcomeIsTrue(u)'
    BY <1>4, <1>7, <2>1, <2>2, <2>3 DEF OutcomeIsTrue, Settled
  <2>8. QED
    BY <2>4, <2>5, <2>6, <2>7
<1>9. QED
  BY <1>5, <1>6, <1>8 DEF ReceiptsAreTrue

\* The call ends on the acquirer's side, with an answer or without (FiatReceipt:
\* HearReceipt, GiveUpReceipt, RefuseReceipt).
LEMMA HearingKeeps ==
    ASSUME AcquirerTypes, ToldOfRecorded, ReceiptsAreTrue,
           NEW t \in Transfers, HearReceipt(t) \/ GiveUpReceipt(t) \/ RefuseReceipt(t)
    PROVE  AcquirerTypes' /\ ToldOfRecorded' /\ ReceiptsAreTrue'
<1>1. t \in recorded /\ reading[t] \in Readings /\ receipt[t] = "calling"
  BY DEF HearReceipt, GiveUpReceipt, RefuseReceipt, Receipt, ReceiptsAreTrue, ConfirmedOnceTold
<1>2. PICK r \in Codes \cup {Uncoded, "no_variant", "success", "failure"} :
        /\ Receipt(t, r)
        /\ r = "success" => Settled(t)
        /\ r \in RefusingCodes \cup {"failure"} => reading[t] # Moved[t] \/ t \in turnedAway'
        /\ turnedAway \subseteq turnedAway' /\ turnedAway' \subseteq Transfers
  <2>1. CASE HearReceipt(t)
    BY <2>1, <1>1 DEF HearReceipt, ReceiptsAreTrue, VerdictsAreTrue, Settled, RefusingCodes,
       AcquirerTypes, Amounts
  <2>2. CASE GiveUpReceipt(t)
    BY <2>2, CodesAssumption DEF GiveUpReceipt, Codes, OpenCodes, RefusingCodes, Uncoded,
       AcquirerTypes
  <2>3. CASE RefuseReceipt(t)
    BY <2>3, CodesAssumption DEF RefuseReceipt, Codes, RefusingCodes, AcquirerTypes
  <2>4. QED
    BY <2>1, <2>2, <2>3
<1>3. /\ receipt' = [receipt EXCEPT ![t] = ReceiptOutcome(Lang, r)]
      /\ UNCHANGED <<post, reading, recorded>>
  BY <1>2 DEF Receipt, vars, reportVars
<1>4. AcquirerTypes' /\ ToldOfRecorded'
  BY <1>2, <1>3, ReceiptTruth DEF AcquirerTypes, ToldOfRecorded
<1>5. ASSUME NEW u \in Transfers
      PROVE  ConfirmedOnceTold(u)' /\ VerdictsAreTrue(u)' /\ ReadRight(u)' /\ OutcomeIsTrue(u)'
  <2>1. ConfirmedOnceTold(u) /\ VerdictsAreTrue(u) /\ ReadRight(u) /\ OutcomeIsTrue(u)
    BY DEF ReceiptsAreTrue
  <2>2. receipt'[u] = IF u = t THEN ReceiptOutcome(Lang, r) ELSE receipt[u]
    BY <1>3 DEF AcquirerTypes
  <2>3. ConfirmedOnceTold(u)'
    BY <1>1, <1>3, <2>1, <2>2 DEF ConfirmedOnceTold
  <2>4. VerdictsAreTrue(u)'
    BY <1>3, <2>1 DEF VerdictsAreTrue
  <2>5. ReadRight(u)'
    BY <1>3, <2>1, <2>2, ReceiptTruth DEF ReadRight, Outcomes
  <2>6. OutcomeIsTrue(u)'
    BY <1>2, <1>3, <2>1, <2>2, ReceiptTruth DEF OutcomeIsTrue, Settled
  <2>7. QED
    BY <2>3, <2>4, <2>5, <2>6
<1>6. QED
  BY <1>4, <1>5 DEF ReceiptsAreTrue

\* t-0 answers a confirmation it was sent (FiatReceipt: SettlementReceived).
LEMMA AnsweringKeeps ==
    ASSUME AcquirerTypes, ToldOfRecorded, ReceiptsAreTrue,
           NEW t \in Transfers, SettlementReceived(t)
    PROVE  AcquirerTypes' /\ ToldOfRecorded' /\ ReceiptsAreTrue'
<1>1. PICK amount \in Readings :
        /\ Confirmation(t, amount, Pending) \in post
        /\ post' = post \cup {Confirmation(t, amount, ReceiptVerdict(t, amount))}
  BY DEF SettlementReceived
<1>2. UNCHANGED <<recorded, reading, receipt, turnedAway>>
  BY DEF SettlementReceived, vars, reportVars
<1>3. ReceiptVerdict(t, amount) = IF amount # Moved[t] THEN Mismatch ELSE Accepted
  BY <1>1 DEF ReceiptVerdict, ReceiptsAreTrue, ConfirmedOnceTold, Amounts
<1>4. AcquirerTypes'
  BY <1>1, <1>2, <1>3, ReceivedIsValid DEF AcquirerTypes
<1>5. ToldOfRecorded'
  BY <1>1, <1>2, ConfirmationsDiffer DEF ToldOfRecorded
<1>6. ASSUME NEW u \in Transfers, NEW a, NEW r
      PROVE  Confirmation(u, a, r) \in post'
               <=> \/ Confirmation(u, a, r) \in post
                   \/ u = t /\ a = amount /\ r = ReceiptVerdict(t, amount)
  BY <1>1, ConfirmationsDiffer
<1>7. ASSUME NEW u \in Transfers
      PROVE  ConfirmedOnceTold(u)' /\ VerdictsAreTrue(u)' /\ ReadRight(u)' /\ OutcomeIsTrue(u)'
  <2>1. ConfirmedOnceTold(u) /\ VerdictsAreTrue(u) /\ ReadRight(u) /\ OutcomeIsTrue(u)
    BY DEF ReceiptsAreTrue
  <2>2. \A a : Confirmation(u, a, Pending) \in post' <=> Confirmation(u, a, Pending) \in post
    BY <1>3, <1>6, AnswersDiffer
  <2>3. ConfirmedOnceTold(u)' /\ ReadRight(u)'
    BY <1>2, <2>1, <2>2 DEF ConfirmedOnceTold, ReadRight
  <2>4. VerdictsAreTrue(u)'
    BY <1>1, <1>3, <1>6, <2>1, <2>2, AnswersDiffer DEF VerdictsAreTrue
  <2>5. OutcomeIsTrue(u)'
    BY <1>2, <1>6, <2>1 DEF OutcomeIsTrue, Settled
  <2>6. QED
    BY <2>3, <2>4, <2>5
<1>8. QED
  BY <1>4, <1>5, <1>7 DEF ReceiptsAreTrue

LEMMA NextRInv == RInv /\ [ReceiptNext]_allVars => RInv'
<1> SUFFICES ASSUME RInv, [ReceiptNext]_allVars PROVE RInv'
  OBVIOUS
<1> DEFINE Acquirer == AcquirerTypes /\ ToldOfRecorded /\ ReceiptsAreTrue
<1>1. TypeOK /\ WiredFirst /\ Acquirer
  BY DEF RInv, IInv
<1>2. [Next]_vars
  BY LegSteps
<1>3. IInv' /\ WiredFirst'
  BY <1>1, <1>2, NextTypeOK, NextAllAccepted, NextReportInv, NextWiredFirst
     DEF RInv, IInv, ReportInv
<1>4. recorded \subseteq recorded'
  BY <1>1, <1>2, RecordedGrows
<1>5. CASE UNCHANGED acquirerVars
  <2>1. AcquirerTypes'
    BY <1>1, <1>5 DEF AcquirerTypes, acquirerVars
  <2>2. ToldOfRecorded'
    BY <1>1, <1>4, <1>5 DEF ToldOfRecorded, acquirerVars
  <2>3. ReceiptsAreTrue'
    BY <1>1, <1>4, <1>5 DEF ReceiptsAreTrue, ConfirmedOnceTold, VerdictsAreTrue, ReadRight,
       OutcomeIsTrue, Settled, acquirerVars
  <2>4. QED
    BY <1>3, <2>1, <2>2, <2>3 DEF RInv
<1>6. ASSUME NEW t \in Transfers, SettlementInitiated(t) PROVE Acquirer'
  <2>1. /\ content[t] # {} /\ t \in recorded
        /\ UNCHANGED <<recorded, reading, receipt, turnedAway>>
    BY <1>1, <1>6 DEF SettlementInitiated, WiredFirst, vars, reportVars
  <2>2. post' = post \cup {Message("settlementInitiated", Initiated(t), Empty)}
    BY <1>6 DEF SettlementInitiated
  <2>3. AcquirerTypes'
    BY <1>1, <2>1, <2>2, InitiatedIsValid DEF AcquirerTypes
  <2>4. ToldOfRecorded'
    BY <1>1, <2>1, <2>2 DEF ToldOfRecorded, Message, Initiated
  <2>5. \A u, a, r : Confirmation(u, a, r) \in post' <=> Confirmation(u, a, r) \in post
    <3>1. Message("settlementInitiated", Initiated(t), Empty).rpc = "settlementInitiated"
      BY DEF Message
    <3>2. QED
      BY <2>2, <3>1, ConfirmationsDiffer
  <2>6. ReceiptsAreTrue'
    BY <1>1, <2>1, <2>5 DEF ReceiptsAreTrue, ConfirmedOnceTold, VerdictsAreTrue, ReadRight,
       OutcomeIsTrue, Settled
  <2>7. QED
    BY <2>3, <2>4, <2>6
<1>7. QED
  BY <1>1, <1>3, <1>5, <1>6, SendingKeeps, HearingKeeps, AnsweringKeeps
     DEF RInv, ReceiptNext, Receiving, allVars

-----------------------------------------------------------------------------
LEMMA ReceiptInductive == ReceiptSpec => []RInv
BY InitRInv, NextRInv, PTL DEF ReceiptSpec

\* Both sides of a fiat payment keep their types, and every message between
\* t-0 and the acquirer is one the contract lets through
\* (settlement_received.go:18-54).
THEOREM ReceiptTypeCorrect == ReceiptSpec => []ReceiptTypeOK
<1>1. RInv => ReceiptTypeOK
  BY DEF RInv, IInv, AcquirerTypes, ReceiptTypeOK
<1>2. QED
  BY ReceiptInductive, <1>1, PTL

\* The acquirer books a transfer as received only if t-0 settled it, t-0 settles
\* only what the LP was not told to stop reporting, and what the acquirer is
\* told is rejected, misread or short of the bank's fee, t-0 never settled
\* (settlement_received.go:34-53, fiat_settlement_sent.ts:71-80).
THEOREM ReceiptTrue == ReceiptSpec => []ReceiptIsTrue
<1>1. ASSUME RInv, NEW t \in Transfers
      PROVE  /\ Settled(t) => t \in recorded /\ Confirmation(t, Moved[t], Pending) \in post
             /\ receipt[t] = "accepted" => Settled(t)
             /\ receipt[t] = "rejected" => ~Settled(t) \/ t \in turnedAway
  <2>1. ConfirmedOnceTold(t) /\ VerdictsAreTrue(t) /\ ReadRight(t) /\ OutcomeIsTrue(t)
    BY <1>1 DEF RInv, ReceiptsAreTrue
  <2>2. Moved[t] \in Amounts
    BY DEF Amounts
  <2>3. QED
    BY <2>1, <2>2 DEF ConfirmedOnceTold, VerdictsAreTrue, ReadRight, OutcomeIsTrue, Settled
<1>2. RInv => ReceiptIsTrue
  BY <1>1 DEF RInv, IInv, RefusedForGood, Closed, ReceiptIsTrue
<1>3. QED
  BY ReceiptInductive, <1>2, PTL
=============================================================================

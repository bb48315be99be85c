------------------------------ MODULE FiatLeg ------------------------------
(***************************************************************************)
(* The LP's side of a fiat payment: t-0 commands the execution of a        *)
(* standing quote through the ExecuteQuote callback, delivered at least    *)
(* once; the LP wires local fiat for the executions it accepted and        *)
(* reports the transfer with FiatSettlementSent, whose wrapper (module     *)
(* Outcome) says whether to send the same report again.                    *)
(*                                                                         *)
(* The handler and the wrapper are the LP starter's.  t-0, the network,    *)
(* and the payout job that wires and reports are outside the repository    *)
(* and do what lp.proto and the starter's comments say of them.  The       *)
(* answer to a command and the report of its transfer travel separately,   *)
(* so a transfer may be reported before t-0 knows the command's result.    *)
(***************************************************************************)
EXTENDS Outcome, LpEdge

CONSTANTS
    Refusals,   \* codes t-0 refuses a report with before reading it
    Faults      \* the other codes a report may end with

ASSUME CodesAssumption ==
    /\ Refusals \subseteq RefusingCodes \ {"failed_precondition"}
    /\ Faults \subseteq OpenCodes

VARIABLES
    result,     \* result[e]: t-0's durable result of execution e
    commands,   \* ExecuteQuote requests under way to the LP
    answers,    \* the LP's answers on their way back
    known,      \* executions the running LP process has accepted
    content,    \* content[t]: the executions transfer t pays, once wired
    report,     \* report[t]: the last outcome of reporting transfer t
    call,       \* call[t]: the report under way, or t-0's answer to it
    strays,     \* transfers a report of which was given up but may yet arrive
    recorded,   \* transfers t-0 has recorded as settlements
    unread      \* history: transfers a report of which t-0 refused unread

commandVars == <<result, commands, answers, known>>
reportVars  == <<report, call, strays, recorded, unread>>
vars == <<commandVars, content, reportVars>>

Decisions == {"accepted", "rejected"}
ReportResults == {"success", "failure", "no_variant", "failed_precondition"}
                   \cup Refusals \cup Faults

TypeOK ==
    /\ result   \in [Executions -> {"none", "awaited"} \cup Decisions]
    /\ commands \in SUBSET Executions
    /\ answers  \in SUBSET [execution: Executions, decision: Decisions]
    /\ known    \in SUBSET Executions
    /\ content  \in [Transfers -> SUBSET Executions]
    /\ report   \in [Transfers -> {"none", "calling"} \cup Outcomes]
    /\ call     \in [Transfers -> {"none", "sent"} \cup ReportResults]
    /\ strays   \in SUBSET Transfers
    /\ recorded \in SUBSET Transfers
    /\ unread   \in SUBSET Transfers

Init ==
    /\ result   = [e \in Executions |-> "none"]
    /\ commands = {}
    /\ answers  = {}
    /\ known    = {}
    /\ content  = [t \in Transfers |-> {}]
    /\ report   = [t \in Transfers |-> "none"]
    /\ call     = [t \in Transfers |-> "none"]
    /\ strays   = {}
    /\ recorded = {}
    /\ unread   = {}

-----------------------------------------------------------------------------
(* The command.                                                            *)

\* Mutant: a repeat of a command already accepted is turned away.
DecisionOnce(e) == IF e \in known THEN "rejected" ELSE "accepted"

\* The shipped handler accepts whatever it is asked, a repeat included.
Decision(e) == "accepted"

ExecuteQuote(e) ==
    /\ e \in commands
    /\ commands' = commands \ {e}
    /\ answers' = answers \cup {[execution |-> e, decision |-> Decision(e)]}
    /\ known' = IF Decision(e) = "accepted" THEN known \cup {e} ELSE known
    /\ UNCHANGED <<result, content, reportVars>>

\* t-0 commands an execution, and again for as long as it has no answer.
Command(e) ==
    /\ result[e] \in {"none", "awaited"}
    /\ result' = [result EXCEPT ![e] = "awaited"]
    /\ commands' = commands \cup {e}
    /\ UNCHANGED <<answers, known, content, reportVars>>

\* The first answer to arrive is the durable result.
TakeAnswer(e) ==
    /\ \E m \in answers :
         /\ m.execution = e
         /\ answers' = answers \ {m}
         /\ result' = IF result[e] = "awaited"
                        THEN [result EXCEPT ![e] = m.decision] ELSE result
    /\ UNCHANGED <<commands, known, content, reportVars>>

LoseCommand(e) ==
    /\ e \in commands
    /\ commands' = commands \ {e}
    /\ UNCHANGED <<result, answers, known, content, reportVars>>

LoseAnswer(e) ==
    /\ \E m \in answers : m.execution = e /\ answers' = answers \ {m}
    /\ UNCHANGED <<result, commands, known, content, reportVars>>

-----------------------------------------------------------------------------
(* The transfer and its report.                                            *)

\* Real money: a transfer pays the executions it was wired for, for good.
\* Paying an execution twice is the payout job's mistake to make.
Wire(t) ==
    /\ content[t] = {}
    /\ \E S \in SUBSET known :
         S # {} /\ content' = [content EXCEPT ![t] = S]
    /\ UNCHANGED <<commandVars, reportVars>>

\* The same bank_transfer_ref and content, until the outcome says to stop; a
\* wrapper that raised said nothing.
Report(t) ==
    /\ content[t] # {}
    /\ report[t] \in {"none", "raised"} \/ ShouldRetry(report[t])
    /\ report' = [report EXCEPT ![t] = "calling"]
    /\ call' = [call EXCEPT ![t] = "sent"]
    /\ UNCHANGED <<commandVars, content, strays, recorded, unread>>

Conclude(t, r) ==
    /\ report' = [report EXCEPT ![t] = ReportFiatSettlementSent(r)]
    /\ call' = [call EXCEPT ![t] = "none"]

ReturnReport(t) ==
    /\ call[t] \notin {"none", "sent"}
    /\ Conclude(t, call[t])
    /\ UNCHANGED <<commandVars, content, strays, recorded, unread>>

\* The call ends on this side; its request may still be under way.
GiveUp(t) ==
    /\ call[t] # "none"
    /\ \E r \in Faults \cup {Uncoded} : Conclude(t, r)
    /\ strays' \in {strays, IF call[t] = "sent" THEN strays \cup {t} ELSE strays}
    /\ UNCHANGED <<commandVars, content, recorded, unread>>

\* The process dies.  The handler keeps nothing: what the process had accepted
\* is gone with it, and so are its calls; the bank's record of a transfer is not.
Restart ==
    /\ known' = {}
    /\ call' = [t \in Transfers |-> "none"]
    /\ report' = [t \in Transfers |->
                    IF report[t] = "calling" THEN "unknown" ELSE report[t]]
    /\ strays' \in SUBSET (strays \cup {t \in Transfers : call[t] = "sent"})
    /\ strays \subseteq strays'
    /\ UNCHANGED <<result, commands, answers, content, recorded, unread>>

-----------------------------------------------------------------------------
(* t-0's verdict on a report (external).                                   *)

AlreadyPaid(t) ==
    \E other \in recorded \ {t} : content[other] \cap content[t] # {}

Refused(t) ==
    /\ t \notin recorded
    /\ AlreadyPaid(t) \/ \E e \in content[t] : result[e] = "rejected"

Awaited(t) == \E e \in content[t] : result[e] = "awaited"

Verdict(t) ==
    IF t \in recorded THEN "success"
    ELSE IF Refused(t) THEN "failure"
    ELSE IF Awaited(t) THEN "failed_precondition"
    ELSE "success"

Record(t) ==
    recorded' = IF Verdict(t) = "success" THEN recorded \cup {t} ELSE recorded

\* The answer may come back as a fault, or as a response with no variant.
AnswerReport(t) ==
    /\ call[t] = "sent"
    /\ Record(t)
    /\ \E r \in {Verdict(t), "no_variant"} \cup Faults :
         call' = [call EXCEPT ![t] = r]
    /\ UNCHANGED <<commandVars, content, report, strays, unread>>

RefuseUnread(t) ==
    /\ call[t] = "sent"
    /\ \E r \in Refusals : call' = [call EXCEPT ![t] = r]
    /\ unread' = unread \cup {t}
    /\ UNCHANGED <<commandVars, content, report, strays, recorded>>

TakeStray(t) ==
    /\ t \in strays
    /\ strays' = strays \ {t}
    /\ Record(t)
    /\ UNCHANGED <<commandVars, content, report, call, unread>>

LoseStray(t) ==
    /\ t \in strays
    /\ strays' = strays \ {t}
    /\ UNCHANGED <<commandVars, content, report, call, recorded, unread>>

-----------------------------------------------------------------------------
Next ==
    \/ \E e \in Executions :
         Command(e) \/ ExecuteQuote(e) \/ TakeAnswer(e) \/ LoseCommand(e) \/ LoseAnswer(e)
    \/ \E t \in Transfers :
         \/ Wire(t) \/ Report(t) \/ ReturnReport(t) \/ GiveUp(t)
         \/ AnswerReport(t) \/ RefuseUnread(t) \/ TakeStray(t) \/ LoseStray(t)
    \/ Restart

Spec == Init /\ [][Next]_vars

(* Fairness, for liveness: t-0 repeats a command it has no answer to, a    *)
(* repeated message gets through in the end, the payout job keeps          *)
(* reporting while the outcome says to retry, and no call hangs for ever.  *)

AnswerVerdict(t) == AnswerReport(t) /\ call'[t] = Verdict(t)

HearConclusion(t) == ReturnReport(t) /\ report'[t] \in Decisions

Fairness ==
    /\ \A e \in Executions :
         /\ WF_vars(result[e] = "awaited" /\ Command(e))
         /\ SF_vars(ExecuteQuote(e))
         /\ SF_vars(TakeAnswer(e))
    /\ \A t \in Transfers :
         /\ WF_vars(Report(t))
         /\ WF_vars(GiveUp(t))
         /\ SF_vars(AnswerVerdict(t))
         /\ SF_vars(HearConclusion(t))

FairSpec == Spec /\ Fairness

-----------------------------------------------------------------------------
(* Properties.                                                             *)

\* Money never goes out for an execution whose durable result is Rejected:
\* the answer to a repeated command cannot contradict the one already acted
\* on (handler.ts:17-18, lp.proto EXECUTION_UNKNOWN "do not settle it").
NoTransferForARejectedExecution ==
    \A t \in Transfers : \A e \in content[t] : result[e] # "rejected"

\* The LP is told to stop reporting a transfer only when t-0 never will record
\* it: an execution of it was paid by another transfer (fiat_settlement_sent.ts
\* 71-80).  A report refused unread is the one exception.
RejectedReportIsFinal ==
    \A t \in Transfers :
      report[t] = "rejected" /\ t \notin unread => AlreadyPaid(t) /\ t \notin recorded

\* A transfer the LP was told is accepted is on t-0's books.
AcceptedReportIsRecorded ==
    \A t \in Transfers : report[t] = "accepted" => t \in recorded
=============================================================================

----------------------------- MODULE DepositLeg -----------------------------
(***************************************************************************)
(* A sale from its intent to the issuer's settlement: t-0 has the issuer   *)
(* reserve deposit addresses, the customer pays, the issuer reports the    *)
(* deposit and, once it is obliged to, the settlement, and t-0 tells the   *)
(* acquirer and the LP.  The issuer's callback handler and its two report  *)
(* wrappers (module Outcome) and the callback handlers of the acquirer and *)
(* the LP are the starters'; t-0, the network, the customer and the        *)
(* issuer's chain watcher are outside the repository and do what the       *)
(* contract and the starters' comments say of them.                        *)
(*                                                                         *)
(* What was ever put on the wire stays there, so that a message may be     *)
(* lost (never taken), repeated, delayed and overtaken.                    *)
(***************************************************************************)
EXTENDS Outcome, IssuerEdge, AcquirerEdge, LpEdge

CONSTANTS
    Due,          \* what a sale comes to
    Credited,     \* Credited[d]: the amount deposit d credited
    ChainOf,      \* ChainOf[d]: the chain it moved over
    Terms,        \* Terms[i]: the fiat terms of intent i, or Unset
    ExecutionOf,  \* ExecutionOf[i]: the execution commanded for intent i
    Window,       \* how long t-0 keeps an intent open
    Ttl,          \* the handler's own reservation time (2 minutes)
    Horizon,      \* bound: the last moment looked at
    Dated,        \* the intents for which t-0's request sets expires_at
    Screenings,   \* Screenings[d]: what the issuer may make of deposit d
    Refusals,     \* codes t-0 refuses a report with before reading it
    Faults        \* what else a report may end with, for want of an answer

ASSUME SaleAssumption ==
    /\ Due \in Decimal
    /\ Credited \in [Deposits -> Decimal]
    /\ ChainOf \in [Deposits -> Blockchain]
    /\ Terms \in [Intents -> FiatTerms]
    /\ ExecutionOf \in [Intents -> Executions]
    /\ Dated \subseteq Intents
    /\ Screenings \in [Deposits -> SUBSET ({Authorized} \cup Unprocessable)]
ASSUME TimeAssumption == Window \in Nat \ {0} /\ Ttl \in Nat \ {0} /\ Horizon \in Nat
ASSUME CodesAssumption == Refusals \subseteq RefusingCodes /\ Faults \subseteq OpenCodes \cup {Uncoded}
ASSUME KeysAssumption ==
    /\ Intents \cap Settlements = {}
    /\ Unset \notin Deposits /\ Unset \notin PaymentReceivedRejections
    /\ Unset \notin Nat /\ Unset \notin PaymentReceivedRequest
    /\ Unset \notin SettlementSentRequest /\ Unset \notin FiatSettlement

\* The idempotency keys of the issuer's reports.
Keys == Intents \cup Settlements

VARIABLES
    now,        \* the time on t-0's clock
    status,     \* status[i]: how far t-0 has come with intent i
    deadline,   \* deadline[i]: when intent i expires
    book,       \* book[i]: the report t-0 has recorded for intent i
    held,       \* held[i]: until when the issuer last said it reserves i's addresses
    wire,       \* every request, and every response to it, ever sent
    body,       \* body[k]: what the issuer reports under key k
    outcome,    \* outcome[k]: what came of reporting it, as the wrapper says
    reason,     \* reason[k]: the reason a rejected outcome carries
    refunded,   \* intents whose deposit the issuer returned to its sender
    unread      \* history: keys a report of which t-0 refused unread

ledger == <<status, deadline, book>>
reports == <<body, outcome, reason, unread>>
vars == <<now, ledger, held, wire, reports, refunded>>

Statuses == {"none", "asking", "declined", "open", "authorized", "failed",
             "expired", "cleared"}

TypeOK ==
    /\ now \in 0..Horizon
    /\ status \in [Intents -> Statuses]
    /\ deadline \in [Intents -> Moments \cup {Unset}]
    /\ book \in [Intents -> PaymentReceivedRequest \cup {Unset}]
    /\ held \in [Intents -> Moments \cup {Unset}]
    /\ wire \subseteq IssuerService \cup IssuerCallbackService \cup AcquirerService
                        \cup AcquirerCallbackService \cup LpCallbackService
    /\ body \in [Keys -> PaymentReceivedRequest \cup SettlementSentRequest \cup {Unset}]
    /\ outcome \in [Keys -> {"none", "calling"} \cup Outcomes]
    /\ reason \in [Keys -> PaymentReceivedRejections \cup SettlementSentRejections \cup {Unset}]
    /\ refunded \subseteq Intents
    /\ unread \subseteq Keys

Init ==
    /\ now = 0
    /\ status = [i \in Intents |-> "none"]
    /\ deadline = [i \in Intents |-> Unset]
    /\ book = [i \in Intents |-> Unset]
    /\ held = [i \in Intents |-> Unset]
    /\ wire = {}
    /\ body = [k \in Keys |-> Unset]
    /\ outcome = [k \in Keys |-> "none"]
    /\ reason = [k \in Keys |-> Unset]
    /\ refunded = {}
    /\ unread = {}

Call(rpc, request) == [rpc |-> rpc, request |-> request, response |-> Pending]

Reply(m, response) == wire' = wire \cup {[m EXCEPT !.response = response]}

\* The requests of an RPC on the wire.
Calls(rpc) == {m \in wire : m.rpc = rpc /\ m.response = Pending}

-----------------------------------------------------------------------------
(* The intent: the issuer's callback, and t-0 around it.                   *)

Option(chain, usdtContract, depositAddress) ==
    [chain |-> chain, depositAddress |-> depositAddress, tokenContract |-> usdtContract]

TetherOnEth == "0xdAC17F958D2ee523a2206206994597C13D831ec7"
TetherOnBsc == "0x55d398326f99059fF775485246999027B3197955"
ExampleAddress == "0x000000000000000000000000000000000000dEaD"

\* True of any text; the provers have no rule for it.
ASSUME TextAssumption == {TetherOnEth, TetherOnBsc, ExampleAddress} \subseteq STRING

\* The same example address for every intent, on the two chains.
ExampleOptions ==
    {Option("ETH", TetherOnEth, ExampleAddress), Option("BSC", TetherOnBsc, ExampleAddress)}

\* Mutant: the request's moment passed on, set or not.
ReservedUntilVerbatim(request) == request.expiresAt

\* Mutant: the moment asked for taken for a time from now, and given as such.
ReservedUntilRemaining(request) ==
    IF request.expiresAt = Unset THEN now + Ttl ELSE request.expiresAt - now

ReservedUntil(request) ==
    IF request.expiresAt = Unset THEN now + Ttl ELSE request.expiresAt

\* A request whose expiresAt has passed is refused before the handler.
CreatePaymentInstructions(m) ==
    /\ m.request.expiresAt # Unset => m.request.expiresAt > now
    /\ Reply(m, [case |-> "success", depositOptions |-> ExampleOptions,
                 expiresAt |-> ReservedUntil(m.request)])
    /\ held' = [held EXCEPT ![m.request.paymentIntentId] = ReservedUntil(m.request)]
    /\ UNCHANGED <<now, ledger, reports, refunded>>

\* t-0 opens an intent for a sale and asks the issuer inline.
OpenIntent(i) ==
    /\ status[i] = "none"
    /\ now + Window <= Horizon    \* bound
    /\ \E until \in IF i \in Dated THEN {now + Window} ELSE {Unset} :
         /\ deadline' = [deadline EXCEPT ![i] = until]
         /\ wire' = wire \cup
              {Call("createPaymentIntent",
                 [idempotencyKey |-> i,
                  amount |-> IF Terms[i] = Unset
                               THEN [case |-> "settlement", usdt |-> Due]
                               ELSE [case |-> "local", local |-> Terms[i].local],
                  quoteId |-> IF Terms[i] = Unset THEN Unset ELSE Terms[i].quoteId]),
               Call("createPaymentInstructions",
                 [paymentIntentId |-> i, amountUsdt |-> Due, expiresAt |-> until])}
    /\ status' = [status EXCEPT ![i] = "asking"]
    /\ UNCHANGED <<now, book, held, reports, refunded>>

Answered(rpc, i, m) ==
    m.rpc = rpc /\ m.response # Pending /\ m.request.paymentIntentId = i

\* Instructions that hold out as long as was asked open the intent.
Usable(m) ==
    /\ now < m.response.expiresAt
    /\ m.request.expiresAt # Unset => m.response.expiresAt >= m.request.expiresAt

AnswerAcquirer(i, response) ==
    \E m \in Calls("createPaymentIntent") :
      m.request.idempotencyKey = i /\ Reply(m, response)

TakeInstructions(i) ==
    /\ status[i] = "asking"
    /\ \E m \in wire :
         /\ Answered("createPaymentInstructions", i, m)
         /\ Usable(m)
         /\ m.response.expiresAt <= Horizon    \* bound
         /\ deadline' = [deadline EXCEPT ![i] = IF @ = Unset THEN m.response.expiresAt ELSE @]
         /\ AnswerAcquirer(i,
              [case |-> "success", paymentIntentId |-> i, expiresAt |-> deadline'[i],
               settlementAmount |-> Due,
               instructions |->
                 [depositOptions |->
                    {[chain |-> o.chain, depositAddress |-> o.depositAddress,
                      tokenContract |-> o.tokenContract,
                      tokenDecimals |-> IF o.chain = "BSC" THEN 18 ELSE 6]
                       : o \in m.response.depositOptions}],
               settlement |-> IF Terms[i] = Unset THEN OnchainSettlement
                                ELSE [case |-> "fiat", value |-> Terms[i]]])
    /\ status' = [status EXCEPT ![i] = "open"]
    /\ UNCHANGED <<now, book, held, reports, refunded>>

\* No usable instructions in time.
DeclineIntent(i) ==
    /\ status[i] = "asking"
    /\ status' = [status EXCEPT ![i] = "declined"]
    /\ AnswerAcquirer(i, [case |-> "failure", reason |-> "ISSUER_UNAVAILABLE"])
    /\ UNCHANGED <<now, deadline, book, held, reports, refunded>>

Expire(i) ==
    /\ status[i] = "open"
    /\ now >= deadline[i]
    /\ status' = [status EXCEPT ![i] = "expired"]
    /\ wire' = wire \cup {Call("paymentExpired",
                               [paymentIntentId |-> i, fiatSettlement |-> Terms[i]])}
    /\ UNCHANGED <<now, deadline, book, held, reports, refunded>>

Tick ==
    /\ now < Horizon
    /\ now' = now + 1
    /\ UNCHANGED <<ledger, held, wire, reports, refunded>>

-----------------------------------------------------------------------------
(* The issuer's reports.                                                   *)

DepositOf(i) == body[i].paymentMethod.onChainTxHash

\* The watcher attributes a deposit to an intent whose address was shown: to
\* one at a time, but, the addresses being the same, perhaps to a second one
\* after the first was accepted.  Screening decides what is reported.
ClaimDeposit(i) ==
    /\ status[i] \in {"open", "authorized", "failed", "expired", "cleared"}
    /\ body[i] = Unset
    /\ \E d \in Deposits :
         /\ \A j \in Intents \ {i} :
              body[j] # Unset /\ DepositOf(j) = d => outcome[j] = "accepted" /\ j \notin refunded
         /\ \E screening \in Screenings[d] :
              body' = [body EXCEPT ![i] =
                         [paymentIntentId |-> i, amountUsdt |-> Credited[d],
                          paymentMethod |-> [chain |-> ChainOf[d], onChainTxHash |-> d],
                          outcome |-> screening]]
    /\ UNCHANGED <<now, ledger, held, wire, outcome, reason, unread, refunded>>

Owed(i) == outcome[i] = "accepted" /\ body[i].outcome = Authorized

Covered == UNION {body[s].settledPaymentIntentIds : s \in {t \in Settlements : body[t] # Unset}}

\* The issuer settles what it was told it owes, to the wallet it resolved.
Broadcast(s) ==
    /\ body[s] = Unset
    /\ \E S \in SUBSET {i \in Intents \ Covered : Owed(i)}, wallet \in {"acquirer", "lp"} :
         /\ S # {}
         /\ \A i \in S : (wallet = "lp") <=> (Terms[i] # Unset)
         /\ body' = [body EXCEPT ![s] =
                       [settlementRef |-> s, settledPaymentIntentIds |-> S,
                        settlement |-> [onChainTxHash |-> s, destinationAddress |-> wallet]]]
    /\ UNCHANGED <<now, ledger, held, wire, outcome, reason, unread, refunded>>

RpcOf(k) == IF k \in Intents THEN "paymentReceived" ELSE "settlementSent"

\* The same key and content, until the outcome says to stop; a wrapper that
\* raised said nothing.
Report(k) ==
    /\ body[k] # Unset
    /\ outcome[k] \in {"none", "raised"} \/ ShouldRetry(outcome[k])
    /\ outcome' = [outcome EXCEPT ![k] = "calling"]
    /\ wire' = wire \cup {Call(RpcOf(k), body[k])}
    /\ UNCHANGED <<now, ledger, held, body, reason, unread, refunded>>

ResultOf(response) == IF response.case = "accepted" THEN "success" ELSE "failure"

WrapperOutcome(k, r) ==
    IF k \in Intents THEN ReportPaymentReceived(r) ELSE ReportSettlementSent(r)

Conclude(k, r) == outcome' = [outcome EXCEPT ![k] = WrapperOutcome(k, r)]

HearAnswer(k) ==
    /\ outcome[k] = "calling"
    /\ \E m \in wire :
         /\ m.rpc = RpcOf(k) /\ m.request = body[k] /\ m.response # Pending
         /\ Conclude(k, ResultOf(m.response))
         /\ reason' = [reason EXCEPT ![k] =
                         IF m.response.case = "rejected" THEN m.response.reason ELSE @]
    /\ UNCHANGED <<now, ledger, held, wire, body, unread, refunded>>

\* The call ends without an answer, or with one that names no variant.
GiveUp(k) ==
    /\ outcome[k] = "calling"
    /\ \E r \in Faults \cup {"no_variant"} : Conclude(k, r)
    /\ UNCHANGED <<now, ledger, held, wire, body, reason, unread, refunded>>

RefuseUnread(k) ==
    /\ outcome[k] = "calling"
    /\ \E r \in Refusals : Conclude(k, r)
    /\ unread' = unread \cup {k}
    /\ UNCHANGED <<now, ledger, held, wire, body, reason, refunded>>

\* Mutant: every named reason taken for a refund.
RefundReasonsAll == PaymentReceivedRejections

\* The reasons that leave the deposit with the issuer to refund.
RefundReasons == {"INTENT_EXPIRED", "UNKNOWN_INTENT", "AMOUNT_MISMATCH"}

\* An authorized report t-0 rejected is refunded; one the issuer would not
\* process follows the disposition it reported.
Refund(i) ==
    /\ body[i] # Unset /\ i \notin refunded
    /\ \/ outcome[i] = "rejected" /\ reason[i] \in RefundReasons
       \/ outcome[i] = "accepted" /\ body[i].outcome # Authorized
    /\ body[i].outcome # Authorized => body[i].outcome.disposition = "RETURNED_TO_SENDER"
    /\ refunded' = refunded \cup {i}
    /\ UNCHANGED <<now, ledger, held, wire, reports>>

-----------------------------------------------------------------------------
(* t-0's side of the reports (external).                                   *)

\* The transfer is already another intent's recorded deposit.
RecordedElsewhere(request) ==
    \E j \in Intents \ {request.paymentIntentId} :
      /\ book[j] # Unset
      /\ book[j].paymentMethod.onChainTxHash = request.paymentMethod.onChainTxHash

Rejected(why) == [case |-> "rejected", reason |-> why]

Accepted == [case |-> "accepted"]

\* A disposition on file is replayed.
ReportVerdict(request) ==
    LET i == request.paymentIntentId
    IN  IF book[i] # Unset THEN Accepted
        ELSE IF RecordedElsewhere(request) THEN Rejected("TRANSFER_RECORDED_FOR_ANOTHER_INTENT")
        ELSE IF status[i] # "open" \/ now >= deadline[i] THEN Rejected("INTENT_EXPIRED")
        ELSE IF request.outcome = Authorized /\ request.amountUsdt # Due
               THEN Rejected("AMOUNT_MISMATCH")
        ELSE Accepted

\* What t-0 pushes to the acquirer when it records a report.
Notice(request) ==
    LET i == request.paymentIntentId
    IN  IF request.outcome = Authorized
          THEN Call("paymentAuthorized",
                 [paymentIntentId |-> i, paymentMethod |-> request.paymentMethod,
                  settlementAmount |-> request.amountUsdt, fiatSettlement |-> Terms[i]])
          ELSE Call("paymentFailed",
                 [paymentIntentId |-> i, paymentMethod |-> request.paymentMethod,
                  amountUsdt |-> request.amountUsdt, fiatSettlement |-> Terms[i],
                  disposition |-> request.outcome.disposition,
                  reason |-> request.outcome.reason])

PaymentReceived(m) ==
    LET i == m.request.paymentIntentId
        verdict == ReportVerdict(m.request)
        first == book[i] = Unset /\ verdict = Accepted
    IN  /\ wire' = wire \cup {[m EXCEPT !.response = verdict]}
                       \cup IF first THEN {Notice(m.request)} ELSE {}
        /\ book' = IF first THEN [book EXCEPT ![i] = m.request] ELSE book
        /\ status' = IF first
                       THEN [status EXCEPT ![i] = IF m.request.outcome = Authorized
                                                    THEN "authorized" ELSE "failed"]
                       ELSE status
        /\ UNCHANGED <<now, deadline, held, reports, refunded>>

SettlementVerdict(request) ==
    IF \A i \in request.settledPaymentIntentIds : status[i] \in {"authorized", "cleared"}
      THEN Accepted ELSE Rejected("INTENT_NOT_SETTLEABLE")

SettlementSent(m) ==
    /\ Reply(m, SettlementVerdict(m.request))
    /\ UNCHANGED <<now, ledger, held, reports, refunded>>

\* An accepted settlement is found final on its chain: the acquirer, or the
\* LP that pays it in fiat, is told.
VerifySettlement(m) ==
    LET S == m.request.settledPaymentIntentIds
    IN  /\ \A i \in S : status[i] = "authorized"
        /\ [m EXCEPT !.response = Accepted] \in wire
        /\ status' = [i \in Intents |-> IF i \in S THEN "cleared" ELSE status[i]]
        /\ wire' = wire \cup
             {IF m.request.settlement.destinationAddress = "acquirer"
                THEN Call("settlementCompleted",
                       [settlementId |-> m.request.settlementRef, settledPaymentIntentIds |-> S,
                        settlement |-> m.request.settlement])
                ELSE Call("usdtSettlementCompleted",
                       [settlementId |-> m.request.settlementRef,
                        settledExecutionIds |-> {ExecutionOf[i] : i \in S},
                        settlement |-> m.request.settlement])}
        /\ UNCHANGED <<now, deadline, book, held, reports, refunded>>

-----------------------------------------------------------------------------
(* The callback handlers: they log the event and acknowledge it.           *)

AcquirerCallback(m) ==
    /\ m.rpc \in {"paymentAuthorized", "settlementCompleted", "paymentExpired", "paymentFailed"}
    /\ Reply(m, Empty)
    /\ UNCHANGED <<now, ledger, held, reports, refunded>>

UsdtSettlementCompleted(m) ==
    /\ m.rpc = "usdtSettlementCompleted"
    /\ Reply(m, Empty)
    /\ UNCHANGED <<now, ledger, held, reports, refunded>>

-----------------------------------------------------------------------------
\* t-0's own steps.
Deciding ==
    \/ \E i \in Intents : TakeInstructions(i) \/ DeclineIntent(i) \/ Expire(i)
    \/ \E m \in Calls("paymentReceived") : PaymentReceived(m)
    \/ \E m \in Calls("settlementSent") : SettlementSent(m) \/ VerifySettlement(m)

\* The starters' callback handlers.
Handling ==
    \/ \E m \in Calls("createPaymentInstructions") : CreatePaymentInstructions(m)
    \/ \E m \in {n \in wire : n.response = Pending} :
         AcquirerCallback(m) \/ UsdtSettlementCompleted(m)

Next ==
    \/ \E i \in Intents : OpenIntent(i) \/ ClaimDeposit(i) \/ Refund(i)
    \/ \E s \in Settlements : Broadcast(s)
    \/ \E k \in Keys : Report(k) \/ HearAnswer(k) \/ GiveUp(k) \/ RefuseUnread(k)
    \/ Deciding \/ Handling \/ Tick

\* t-0 decides what it is told and calls until it is answered; the issuer
\* pays what it owes and reports until it is told to stop; a report repeated
\* without end is answered at last.
Fairness ==
    /\ WF_vars(Tick) /\ WF_vars(Deciding) /\ WF_vars(Handling)
    /\ WF_vars(\E s \in Settlements : Broadcast(s))
    /\ \A k \in Keys : WF_vars(Report(k)) /\ SF_vars(HearAnswer(k))

Spec == Init /\ [][Next]_vars /\ Fairness

-----------------------------------------------------------------------------
(* Properties.                                                             *)

\* An accepted report is on t-0's books with the content reported, and every
\* sale of an accepted settlement is authorized; a rejected one is not on
\* the books, unless t-0 refused a repeat of it unread.
OutcomesAreTrue ==
    /\ \A i \in Intents :
         /\ outcome[i] = "accepted" => book[i] = body[i]
         /\ outcome[i] = "rejected" => book[i] = Unset \/ i \in unread
    /\ \A s \in Settlements :
         /\ outcome[s] = "accepted" =>
              \A i \in body[s].settledPaymentIntentIds : status[i] \in {"authorized", "cleared"}
         /\ outcome[s] = "rejected" => s \in unread

\* While a customer may still pay, the issuer holds the address shown: no
\* repeated or late request for instructions makes it hold it shorter.
ShownAddressIsHeld ==
    \A i \in Intents : status[i] = "open" => held[i] >= deadline[i]

\* What the books, the reports and the refunds come to, sale by sale and
\* transfer by transfer.
StageOf(i) == IF status[i] = "asking" THEN "none"
              ELSE IF status[i] = "open" THEN "offered"
              ELSE IF status[i] = "cleared" THEN "settled"
              ELSE status[i]

PaidBy(i) == IF book[i] = Unset THEN Unset ELSE book[i].paymentMethod.onChainTxHash

MoneyOf(d) ==
    IF \E i \in refunded : DepositOf(i) = d THEN "returned"
    ELSE IF \E i \in Covered : DepositOf(i) = d THEN "forwarded"
    ELSE "held"

Sale == INSTANCE SalePromise WITH
            Sales <- Intents, Transferred <- Deposits, NoTransfer <- Unset,
            stage <- [i \in Intents |-> StageOf(i)],
            paidBy <- [i \in Intents |-> PaidBy(i)],
            money <- [d \in Deposits |-> MoneyOf(d)]

\* However reports are lost, repeated, late or refused, a transfer pays for
\* one sale at most and is either forwarded for it or returned.
KeepsSalePromise == Sale!Spec

\* The acquirer, or the LP, acknowledged how the sale ended.
ToldOfTheEnd(i) ==
    \E m \in wire :
      /\ m.response = Empty
      /\ \/ m.rpc \in {"paymentExpired", "paymentFailed"} /\ m.request.paymentIntentId = i
         \/ m.rpc = "settlementCompleted" /\ i \in m.request.settledPaymentIntentIds
         \/ m.rpc = "usdtSettlementCompleted" /\ ExecutionOf[i] \in m.request.settledExecutionIds

\* In the end every sale t-0 ever asked instructions for is declined or came
\* to an end the acquirer or the LP has acknowledged, unless a report was
\* refused unread and so given up.
EverySaleEnds ==
    <>[]\/ unread # {}
        \/ \A i \in Intents : status[i] \in {"none", "declined"} \/ ToldOfTheEnd(i)
=============================================================================

-------------------------- MODULE DepositLegProofs --------------------------
(***************************************************************************)
(* Proofs about DepositLeg, for any intents, deposits, settlements, chains,*)
(* status codes, moments and screenings: its types, that what the issuer   *)
(* is told is true of t-0's books, that the address shown is held, and     *)
(* that the books, the reports and the refunds keep SalePromise.           *)
(***************************************************************************)
EXTENDS DepositLeg, TLAPS

-----------------------------------------------------------------------------
(* The inductive invariant.                                                *)

Edges == IssuerService \cup IssuerCallbackService \cup AcquirerService
           \cup AcquirerCallbackService \cup LpCallbackService

\* A body is of the kind its key says, and carries the key.
BodiesFit ==
    /\ \A i \in Intents :
         body[i] # Unset => body[i] \in PaymentReceivedRequest /\ body[i].paymentIntentId = i
    /\ \A s \in Settlements :
         body[s] # Unset => body[s] \in SettlementSentRequest /\ body[s].settlementRef = s

\* A report on the wire is what the issuer reports under its key.
ReportsAreBodies ==
    \A m \in wire :
      /\ m.rpc = "paymentReceived" => m.request = body[m.request.paymentIntentId]
      /\ m.rpc = "settlementSent" => m.request = body[m.request.settlementRef]

\* The handler only ever answers with instructions.
InstructionsSucceed ==
    \A m \in wire : m.rpc = "createPaymentInstructions" /\ m.response # Pending
                      => m.response \in CreatePaymentInstructionsSuccess

\* Nothing is claimed, and nothing asked of the issuer, before its time.
Begun ==
    /\ \A k \in Keys : body[k] = Unset => outcome[k] = "none"
    /\ \A i \in Intents :
         /\ status[i] \in {"none", "asking", "declined"} => body[i] = Unset
         /\ status[i] \notin {"none", "asking", "declined"} => deadline[i] # Unset

\* t-0 records what was reported, and where it says so.
BooksFit ==
    \A i \in Intents :
      book[i] # Unset =>
        /\ book[i] = body[i]
        /\ status[i] \in IF book[i].outcome = Authorized THEN {"authorized", "cleared"} ELSE {"failed"}

\* No transfer is two intents' recorded deposit.
BookedOnce ==
    \A i, j \in Intents :
      book[i] # Unset /\ book[j] # Unset /\ PaidBy(i) = PaidBy(j) => i = j

\* t-0 will never record the report of i.
Hopeless(i) == book[i] = Unset /\ ReportVerdict(body[i]) # Accepted

Settling(i) == status[i] \in {"authorized", "cleared"}

\* t-0's answers to the reports stay true.
AnswersAreTrue ==
    \A m \in wire :
      m.response # Pending =>
        /\ m.rpc = "paymentReceived" =>
             \/ m.response = Accepted /\ book[m.request.paymentIntentId] # Unset
             \/ m.response # Accepted /\ Hopeless(m.request.paymentIntentId)
        /\ m.rpc = "settlementSent" =>
             m.response = Accepted /\ \A i \in m.request.settledPaymentIntentIds : Settling(i)

\* What the issuer was told is true for good.
ToldTheTruth ==
    /\ \A i \in Intents :
         /\ outcome[i] = "accepted" => book[i] # Unset
         /\ outcome[i] = "rejected" => Hopeless(i) \/ i \in unread
    /\ \A s \in Settlements :
         /\ outcome[s] = "accepted" => \A i \in body[s].settledPaymentIntentIds : Settling(i)
         /\ outcome[s] = "rejected" => s \in unread

\* A settlement covers what the issuer was told it owes.
CoveredIsOwed ==
    \A s \in Settlements :
      body[s] # Unset => \A i \in body[s].settledPaymentIntentIds : Owed(i)

\* Of two sales a transfer is claimed for, t-0 accepted one.
SharedIsAccepted ==
    \A i, j \in Intents :
      i # j /\ body[i] # Unset /\ body[j] # Unset /\ DepositOf(i) = DepositOf(j)
        => outcome[i] = "accepted" \/ outcome[j] = "accepted"

\* The transfer of i is claimed for no other sale.
Alone(i) == \A j \in Intents \ {i} : body[j] # Unset => DepositOf(j) # DepositOf(i)

\* A report t-0 answered with a reason that calls for a refund.
Refundable(i) ==
    \E m \in wire : /\ m.rpc = "paymentReceived" /\ m.request.paymentIntentId = i
                    /\ m.response \in {Rejected(why) : why \in RefundReasons}

RefundableIsAlone == \A i \in Intents : Refundable(i) => Alone(i)

ReasonsWereGiven == \A i \in Intents : reason[i] \in RefundReasons => Refundable(i)

RefundsFit ==
    \A i \in refunded :
      /\ body[i] # Unset
      /\ \/ outcome[i] = "rejected" /\ reason[i] \in RefundReasons
         \/ outcome[i] = "accepted" /\ body[i].outcome # Authorized

\* The issuer is asked for one moment per intent, and what it last said is
\* never less than what it said before.
HeldLongEnough ==
    /\ \A m \in wire :
         m.rpc = "createPaymentInstructions" =>
           LET i == m.request.paymentIntentId
           IN  /\ status[i] # "none"
               /\ i \in Dated => m.request.expiresAt = deadline[i] /\ deadline[i] # Unset
               /\ i \notin Dated => m.request.expiresAt = Unset
               /\ m.response # Pending => held[i] # Unset /\ m.response.expiresAt <= held[i]
    /\ \A i \in Intents :
         /\ i \notin Dated /\ status[i] = "asking" => deadline[i] = Unset
         /\ status[i] = "open" => held[i] # Unset
         /\ held[i] # Unset =>
           /\ status[i] # "none"
           /\ i \in Dated => deadline[i] # Unset /\ held[i] <= deadline[i]
           /\ i \notin Dated => held[i] <= now + Ttl

IInv ==
    /\ TypeOK
    /\ BodiesFit
    /\ ReportsAreBodies
    /\ InstructionsSucceed
    /\ Begun
    /\ BooksFit
    /\ BookedOnce
    /\ AnswersAreTrue
    /\ ToldTheTruth
    /\ CoveredIsOwed
    /\ SharedIsAccepted
    /\ RefundableIsAlone
    /\ ReasonsWereGiven
    /\ RefundsFit
    /\ HeldLongEnough
    /\ ShownAddressIsHeld

-----------------------------------------------------------------------------
(* Messages.                                                               *)

LEMMA RpcFields ==
    ASSUME NEW name, NEW input, NEW output, NEW m \in Rpc(name, input, output)
    PROVE  m.rpc = name /\ m.request \in input /\ m.response \in output \cup {Pending}
BY DEF Rpc

LEMMA CallFits ==
    ASSUME NEW name, NEW input, NEW output, NEW request \in input
    PROVE  /\ Call(name, request) \in Rpc(name, input, output)
           /\ Call(name, request).rpc = name
           /\ Call(name, request).request = request
           /\ Call(name, request).response = Pending
BY DEF Rpc, Call

LEMMA ReplyFits ==
    ASSUME NEW name, NEW input, NEW output, NEW m \in Rpc(name, input, output),
           NEW response \in output
    PROVE  /\ [m EXCEPT !.response = response] \in Rpc(name, input, output)
           /\ [m EXCEPT !.response = response].rpc = m.rpc
           /\ [m EXCEPT !.response = response].request = m.request
           /\ [m EXCEPT !.response = response].response = response
BY DEF Rpc

Instructing == Rpc("createPaymentInstructions", CreatePaymentInstructionsRequest,
                   CreatePaymentInstructionsResponse)
Selling == Rpc("createPaymentIntent", CreatePaymentIntentRequest, CreatePaymentIntentResponse)
Receiving == Rpc("paymentReceived", PaymentReceivedRequest, PaymentReceivedResponse)
Sending == Rpc("settlementSent", SettlementSentRequest, SettlementSentResponse)
Authorizing == Rpc("paymentAuthorized", PaymentAuthorizedRequest, PaymentAuthorizedResponse)
Completing == Rpc("settlementCompleted", SettlementCompletedRequest, SettlementCompletedResponse)
Expiring == Rpc("paymentExpired", PaymentExpiredRequest, PaymentExpiredResponse)
FailingPayment == Rpc("paymentFailed", PaymentFailedRequest, PaymentFailedResponse)
SettlingWithLp == Rpc("usdtSettlementCompleted", UsdtSettlementCompletedRequest,
                   UsdtSettlementCompletedResponse)

LEMMA EdgesHold ==
    /\ Instructing \subseteq Edges /\ Selling \subseteq Edges /\ Receiving \subseteq Edges
    /\ Sending \subseteq Edges /\ Authorizing \subseteq Edges /\ Completing \subseteq Edges
    /\ Expiring \subseteq Edges /\ FailingPayment \subseteq Edges /\ SettlingWithLp \subseteq Edges
BY DEF Edges, IssuerService, IssuerCallbackService, AcquirerService, AcquirerCallbackService,
   LpCallbackService, Instructing, Selling, Receiving, Sending, Authorizing, Completing,
   Expiring, FailingPayment, SettlingWithLp

\* The name of the RPC tells what kind of message it is.
LEMMA EdgesByRpc ==
    ASSUME NEW m \in Edges
    PROVE  /\ m.rpc = "createPaymentInstructions" => m \in Instructing
           /\ m.rpc = "createPaymentIntent" => m \in Selling
           /\ m.rpc = "paymentReceived" => m \in Receiving
           /\ m.rpc = "settlementSent" => m \in Sending
           /\ m.rpc = "paymentAuthorized" => m \in Authorizing
           /\ m.rpc = "settlementCompleted" => m \in Completing
           /\ m.rpc = "paymentExpired" => m \in Expiring
           /\ m.rpc = "paymentFailed" => m \in FailingPayment
           /\ m.rpc = "usdtSettlementCompleted" => m \in SettlingWithLp
<1> DEFINE Quoting == Rpc("getPaymentQuote", GetPaymentQuoteRequest, GetPaymentQuoteResponse)
           Confirming == Rpc("settlementReceived", SettlementReceivedRequest,
                             SettlementReceivedResponse)
           Initiating == Rpc("settlementInitiated", SettlementInitiatedRequest,
                             SettlementInitiatedResponse)
           Executing == Rpc("executeQuote", ExecuteQuoteRequest, ExecuteQuoteResponse)
<1>1. m \in Instructing \cup Selling \cup Receiving \cup Sending \cup Authorizing \cup Completing
           \cup Expiring \cup FailingPayment \cup SettlingWithLp
           \cup Quoting \cup Confirming \cup Initiating \cup Executing
  BY DEF Edges, IssuerService, IssuerCallbackService, AcquirerService, AcquirerCallbackService,
     LpCallbackService, Instructing, Selling, Receiving, Sending, Authorizing, Completing,
     Expiring, FailingPayment, SettlingWithLp
<1>2. /\ m \in Instructing => m.rpc = "createPaymentInstructions"
      /\ m \in Selling => m.rpc = "createPaymentIntent"
      /\ m \in Receiving => m.rpc = "paymentReceived"
      /\ m \in Sending => m.rpc = "settlementSent"
      /\ m \in Authorizing => m.rpc = "paymentAuthorized"
      /\ m \in Completing => m.rpc = "settlementCompleted"
      /\ m \in Expiring => m.rpc = "paymentExpired"
      /\ m \in FailingPayment => m.rpc = "paymentFailed"
      /\ m \in SettlingWithLp => m.rpc = "usdtSettlementCompleted"
      /\ m \in Quoting => m.rpc = "getPaymentQuote"
      /\ m \in Confirming => m.rpc = "settlementReceived"
      /\ m \in Initiating => m.rpc = "settlementInitiated"
      /\ m \in Executing => m.rpc = "executeQuote"
  BY RpcFields DEF Instructing, Selling, Receiving, Sending, Authorizing, Completing,
     Expiring, FailingPayment, SettlingWithLp
<1> HIDE DEF Quoting, Confirming, Initiating, Executing
<1>3. QED
  BY <1>1, <1>2

-----------------------------------------------------------------------------
(* Which steps change what.                                                *)

LEMMA BodyChanges ==
    ASSUME [Next]_vars
    PROVE  \/ UNCHANGED body
           \/ \E i \in Intents : ClaimDeposit(i)
           \/ \E s \in Settlements : Broadcast(s)
BY DEF Next, vars, ledger, reports, Deciding, Handling, OpenIntent, ClaimDeposit, Refund,
   Broadcast, Report, HearAnswer, GiveUp, RefuseUnread, TakeInstructions, DeclineIntent, Expire,
   PaymentReceived, SettlementSent, VerifySettlement, CreatePaymentInstructions,
   AcquirerCallback, UsdtSettlementCompleted, Tick

LEMMA OutcomeChanges ==
    ASSUME [Next]_vars
    PROVE  \/ UNCHANGED <<outcome, reason, unread>>
           \/ \E k \in Keys : Report(k)
           \/ \E k \in Keys : HearAnswer(k)
           \/ \E k \in Keys : GiveUp(k)
           \/ \E k \in Keys : RefuseUnread(k)
BY DEF Next, vars, ledger, reports, Deciding, Handling, OpenIntent, ClaimDeposit, Refund,
   Broadcast, Report, HearAnswer, GiveUp, RefuseUnread, TakeInstructions, DeclineIntent, Expire,
   PaymentReceived, SettlementSent, VerifySettlement, CreatePaymentInstructions,
   AcquirerCallback, UsdtSettlementCompleted, Tick

LEMMA RefundedChanges ==
    ASSUME [Next]_vars
    PROVE  \/ UNCHANGED refunded
           \/ \E i \in Intents : Refund(i)
BY DEF Next, vars, ledger, reports, Deciding, Handling, OpenIntent, ClaimDeposit, Refund,
   Broadcast, Report, HearAnswer, GiveUp, RefuseUnread, TakeInstructions, DeclineIntent, Expire,
   PaymentReceived, SettlementSent, VerifySettlement, CreatePaymentInstructions,
   AcquirerCallback, UsdtSettlementCompleted, Tick

LEMMA BookChanges ==
    ASSUME [Next]_vars
    PROVE  \/ UNCHANGED book
           \/ \E m \in Calls("paymentReceived") : PaymentReceived(m)
BY DEF Next, vars, ledger, reports, Deciding, Handling, OpenIntent, ClaimDeposit, Refund,
   Broadcast, Report, HearAnswer, GiveUp, RefuseUnread, TakeInstructions, DeclineIntent, Expire,
   PaymentReceived, SettlementSent, VerifySettlement, CreatePaymentInstructions,
   AcquirerCallback, UsdtSettlementCompleted, Tick

LEMMA StatusChanges ==
    ASSUME [Next]_vars
    PROVE  \/ UNCHANGED <<status, deadline>>
           \/ \E i \in Intents : OpenIntent(i)
           \/ \E i \in Intents : TakeInstructions(i)
           \/ \E i \in Intents : DeclineIntent(i)
           \/ \E i \in Intents : Expire(i)
           \/ \E m \in Calls("paymentReceived") : PaymentReceived(m)
           \/ \E m \in Calls("settlementSent") : VerifySettlement(m)
BY DEF Next, vars, ledger, reports, Deciding, Handling, OpenIntent, ClaimDeposit, Refund,
   Broadcast, Report, HearAnswer, GiveUp, RefuseUnread, TakeInstructions, DeclineIntent, Expire,
   PaymentReceived, SettlementSent, VerifySettlement, CreatePaymentInstructions,
   AcquirerCallback, UsdtSettlementCompleted, Tick

LEMMA HeldChanges ==
    ASSUME [Next]_vars
    PROVE  \/ UNCHANGED held
           \/ \E m \in Calls("createPaymentInstructions") : CreatePaymentInstructions(m)
BY DEF Next, vars, ledger, reports, Deciding, Handling, OpenIntent, ClaimDeposit, Refund,
   Broadcast, Report, HearAnswer, GiveUp, RefuseUnread, TakeInstructions, DeclineIntent, Expire,
   PaymentReceived, SettlementSent, VerifySettlement, CreatePaymentInstructions,
   AcquirerCallback, UsdtSettlementCompleted, Tick

LEMMA NowChanges ==
    ASSUME [Next]_vars
    PROVE  \/ UNCHANGED now
           \/ Tick
BY DEF Next, vars, ledger, reports, Deciding, Handling, OpenIntent, ClaimDeposit, Refund,
   Broadcast, Report, HearAnswer, GiveUp, RefuseUnread, TakeInstructions, DeclineIntent, Expire,
   PaymentReceived, SettlementSent, VerifySettlement, CreatePaymentInstructions,
   AcquirerCallback, UsdtSettlementCompleted, Tick

LEMMA WireChanges ==
    ASSUME [Next]_vars
    PROVE  \/ UNCHANGED wire
           \/ \E i \in Intents : OpenIntent(i)
           \/ \E i \in Intents : TakeInstructions(i)
           \/ \E i \in Intents : DeclineIntent(i)
           \/ \E i \in Intents : Expire(i)
           \/ \E k \in Keys : Report(k)
           \/ \E m \in Calls("paymentReceived") : PaymentReceived(m)
           \/ \E m \in Calls("settlementSent") : SettlementSent(m)
           \/ \E m \in Calls("settlementSent") : VerifySettlement(m)
           \/ \E m \in Calls("createPaymentInstructions") : CreatePaymentInstructions(m)
           \/ \E m \in wire : m.response = Pending /\ (AcquirerCallback(m) \/ UsdtSettlementCompleted(m))
BY DEF Next, vars, ledger, reports, Deciding, Handling, OpenIntent, ClaimDeposit, Refund,
   Broadcast, Report, HearAnswer, GiveUp, RefuseUnread, TakeInstructions, DeclineIntent, Expire,
   PaymentReceived, SettlementSent, VerifySettlement, CreatePaymentInstructions,
   AcquirerCallback, UsdtSettlementCompleted, Tick

-----------------------------------------------------------------------------
(* Types.                                                                  *)

\* What a call ends with is one of the outcomes, and only an answer is an
\* acceptance or, unless t-0 refuses the call unread, a rejection.
LEMMA OutcomeOfResults ==
    ASSUME NEW k, NEW r \in Variants \cup Codes \cup {Uncoded}
    PROVE  /\ WrapperOutcome(k, r) \in Outcomes
           /\ WrapperOutcome(k, r) = "accepted" => r = "success"
           /\ r \in OpenCodes \cup {Uncoded, "no_variant"} => WrapperOutcome(k, r) \in {"unknown", "raised"}
           /\ WrapperOutcome(k, "success") = "accepted"
           /\ WrapperOutcome(k, "failure") = "rejected"
           /\ r \in RefusingCodes => WrapperOutcome(k, r) = "rejected"
BY DEF WrapperOutcome, ReportPaymentReceived, ReportSettlementSent, NamedAnyReason,
   IssuerOutcomeFromError, Variants, Codes, RefusingCodes, OpenCodes, Uncoded, Outcomes

LEMMA Verdicts ==
    /\ \A request : \/ ReportVerdict(request) = Accepted
                    \/ \E why \in PaymentReceivedRejections : ReportVerdict(request) = Rejected(why)
    /\ \A request : \/ SettlementVerdict(request) = Accepted
                    \/ SettlementVerdict(request) = Rejected("INTENT_NOT_SETTLEABLE")
BY DEF ReportVerdict, SettlementVerdict, PaymentReceivedRejections

\* The answers to a report tell their kind.
LEMMA AnswerKinds ==
    /\ Accepted.case = "accepted"
    /\ \A why : Rejected(why).case = "rejected" /\ Rejected(why).reason = why
    /\ \A why : Rejected(why) # Accepted
    /\ Accepted # Pending /\ \A why : Rejected(why) # Pending
<1>1. Accepted.case = "accepted" /\ Pending.case = "pending"
  BY DEF Accepted, Pending
<1>2. \A why : Rejected(why).case = "rejected" /\ Rejected(why).reason = why
  BY DEF Rejected
<1>3. QED
  BY <1>1, <1>2

LEMMA AnswersFit ==
    /\ Accepted \in PaymentReceivedResponse /\ Accepted \in SettlementSentResponse
    /\ \A why \in PaymentReceivedRejections : Rejected(why) \in PaymentReceivedResponse
    /\ \A why \in SettlementSentRejections : Rejected(why) \in SettlementSentResponse
BY DEF Accepted, Rejected, PaymentReceivedResponse, SettlementSentResponse, Failing

LEMMA VerdictsFit ==
    ASSUME NEW request
    PROVE  /\ ReportVerdict(request) \in PaymentReceivedResponse
           /\ SettlementVerdict(request) \in SettlementSentResponse
BY Verdicts, AnswersFit DEF SettlementSentRejections

LEMMA NoticeFits ==
    ASSUME Terms \in [Intents -> FiatTerms], NEW request \in PaymentReceivedRequest
    PROVE  /\ Notice(request) \in Authorizing \cup FailingPayment
           /\ Notice(request).response = Pending
           /\ Notice(request).rpc \in {"paymentAuthorized", "paymentFailed"}
<1>1. /\ request.paymentIntentId \in Intents /\ request.amountUsdt \in Decimal
      /\ request.paymentMethod \in UsdtOnChainPayment
      /\ request.outcome # Authorized => request.outcome \in Unprocessable
  BY DEF PaymentReceivedRequest
<1>2. Terms[request.paymentIntentId] \in FiatTerms
  BY <1>1
<1>3. CASE request.outcome = Authorized
  <2> DEFINE notice == [paymentIntentId |-> request.paymentIntentId,
                        paymentMethod |-> request.paymentMethod,
                        settlementAmount |-> request.amountUsdt,
                        fiatSettlement |-> Terms[request.paymentIntentId]]
  <2>1. notice \in PaymentAuthorizedRequest
    BY <1>1, <1>2 DEF PaymentAuthorizedRequest
  <2>2. Notice(request) = Call("paymentAuthorized", notice)
    BY <1>3 DEF Notice
  <2> HIDE DEF notice
  <2>3. QED
    BY <2>1, <2>2, CallFits DEF Authorizing
<1>4. CASE request.outcome # Authorized
  <2> DEFINE notice == [paymentIntentId |-> request.paymentIntentId,
                        paymentMethod |-> request.paymentMethod,
                        amountUsdt |-> request.amountUsdt,
                        fiatSettlement |-> Terms[request.paymentIntentId],
                        disposition |-> request.outcome.disposition,
                        reason |-> request.outcome.reason]
  <2>1. request.outcome.disposition \in FundsDisposition /\ request.outcome.reason \in PaymentFailureReason
    BY <1>1, <1>4 DEF Unprocessable
  <2>2. notice \in PaymentFailedRequest
    BY <1>1, <1>2, <2>1 DEF PaymentFailedRequest
  <2>3. Notice(request) = Call("paymentFailed", notice)
    BY <1>4 DEF Notice
  <2> HIDE DEF notice
  <2>4. QED
    BY <2>2, <2>3, CallFits DEF FailingPayment
<1>5. QED
  BY <1>3, <1>4

LEMMA WireFits ==
    ASSUME TypeOK
    PROVE  wire \subseteq Edges
BY DEF TypeOK, Edges

\* Every step that sends anything sends messages of the contract.
LEMMA SaleAsked ==
    ASSUME TypeOK, NEW i \in Intents, OpenIntent(i)
    PROVE  \E a \in Selling, b \in Instructing :
             /\ wire' = wire \cup {a, b}
             /\ a.response = Pending /\ b.response = Pending
             /\ b.request.paymentIntentId = i
             /\ b.request.expiresAt = IF i \in Dated THEN now + Window ELSE Unset
             /\ deadline' = [deadline EXCEPT ![i] = b.request.expiresAt]
<1> DEFINE until == IF i \in Dated THEN now + Window ELSE Unset
           asked == [paymentIntentId |-> i, amountUsdt |-> Due, expiresAt |-> until]
           amount == IF Terms[i] = Unset
                       THEN [case |-> "settlement", usdt |-> Due]
                       ELSE [case |-> "local", local |-> Terms[i].local]
           sale == [idempotencyKey |-> i, amount |-> amount,
                    quoteId |-> IF Terms[i] = Unset THEN Unset ELSE Terms[i].quoteId]
<1>1. /\ deadline' = [deadline EXCEPT ![i] = until]
      /\ wire' = wire \cup {Call("createPaymentIntent", sale),
                            Call("createPaymentInstructions", asked)}
  BY DEF OpenIntent
<1>2. until \in Moments \cup {Unset} /\ Due \in Decimal
  BY SaleAssumption, TimeAssumption DEF TypeOK, Moments
<1>3. asked \in CreatePaymentInstructionsRequest
  BY <1>2 DEF CreatePaymentInstructionsRequest
<1>4. Terms[i] \in FiatTerms
  BY SaleAssumption
<1>5. Terms[i] # Unset => Terms[i].local \in LocalAmount /\ Terms[i].quoteId \in Quotes
  BY <1>4 DEF FiatTerms, FiatSettlement
<1>6. amount \in SettlementAmount \cup [case: {"local"}, local: LocalAmount]
  BY <1>2, <1>5 DEF SettlementAmount
<1> HIDE DEF amount
<1>7. sale \in CreatePaymentIntentRequest
  BY <1>5, <1>6 DEF CreatePaymentIntentRequest
<1>8. asked.paymentIntentId = i /\ asked.expiresAt = until
  OBVIOUS
<1> DEFINE a == Call("createPaymentIntent", sale)
           b == Call("createPaymentInstructions", asked)
<1> HIDE DEF sale, asked
<1>9. a \in Selling /\ a.response = Pending
  BY <1>7, CallFits DEF Selling
<1>10. b \in Instructing /\ b.response = Pending /\ b.request = asked
  BY <1>3, CallFits DEF Instructing
<1>11. wire' = wire \cup {a, b}
  BY <1>1
<1> HIDE DEF a, b
<1>12. QED
  BY <1>1, <1>8, <1>9, <1>10, <1>11

LEMMA SaleAnswered ==
    ASSUME TypeOK, NEW i \in Intents, NEW response \in CreatePaymentIntentResponse,
           AnswerAcquirer(i, response)
    PROVE  \E a \in Selling : wire' = wire \cup {a}
<1>1. PICK m \in Calls("createPaymentIntent") : Reply(m, response)
  BY DEF AnswerAcquirer
<1>2. m \in Selling
  BY <1>1, WireFits, EdgesByRpc DEF Calls
<1>3. [m EXCEPT !.response = response] \in Selling
  BY <1>2, ReplyFits DEF Selling
<1>4. QED
  BY <1>1, <1>3 DEF Reply

LEMMA InstructionsShown ==
    ASSUME TypeOK, InstructionsSucceed, NEW i \in Intents, TakeInstructions(i)
    PROVE  /\ \E a \in Selling : wire' = wire \cup {a}
           /\ \E m \in wire :
                /\ Answered("createPaymentInstructions", i, m)
                /\ Usable(m)
                /\ m.response.expiresAt \in Moments
                /\ deadline' = [deadline EXCEPT ![i] = IF @ = Unset THEN m.response.expiresAt ELSE @]
<1> DEFINE shown(m) ==
             {[chain |-> o.chain, depositAddress |-> o.depositAddress,
               tokenContract |-> o.tokenContract,
               tokenDecimals |-> IF o.chain = "BSC" THEN 18 ELSE 6]
                : o \in m.response.depositOptions}
           settled == IF Terms[i] = Unset THEN OnchainSettlement
                        ELSE [case |-> "fiat", value |-> Terms[i]]
           answer(m) ==
             [case |-> "success", paymentIntentId |-> i, expiresAt |-> deadline'[i],
              settlementAmount |-> Due, instructions |-> [depositOptions |-> shown(m)],
              settlement |-> settled]
<1>1. PICK m \in wire :
         /\ Answered("createPaymentInstructions", i, m)
         /\ Usable(m)
         /\ deadline' = [deadline EXCEPT ![i] = IF @ = Unset THEN m.response.expiresAt ELSE @]
         /\ AnswerAcquirer(i, answer(m))
  BY DEF TakeInstructions
<1>2. m.response \in CreatePaymentInstructionsSuccess
  BY <1>1 DEF InstructionsSucceed, Answered
<1>3. /\ m.response.expiresAt \in Moments
      /\ m.response.depositOptions \in (SUBSET DepositOption) \ {{}}
  BY <1>2 DEF CreatePaymentInstructionsSuccess
<1>4. deadline'[i] \in Moments
  BY <1>1, <1>3 DEF TypeOK
<1>5. \A o \in DepositOption :
        [chain |-> o.chain, depositAddress |-> o.depositAddress,
         tokenContract |-> o.tokenContract,
         tokenDecimals |-> IF o.chain = "BSC" THEN 18 ELSE 6] \in PaymentOption
  BY DEF DepositOption, PaymentOption
<1>6. shown(m) \in (SUBSET PaymentOption) \ {{}}
  BY <1>3, <1>5
<1> HIDE DEF shown
<1>7. [depositOptions |-> shown(m)] \in UsdtOnChainInstructions
  BY <1>6 DEF UsdtOnChainInstructions
<1>8. settled \in {OnchainSettlement} \cup [case: {"fiat"}, value: FiatSettlement]
  BY SaleAssumption DEF FiatTerms
<1>9. Due \in Decimal
  BY SaleAssumption
<1> HIDE DEF settled
<1>10. answer(m) \in CreatePaymentIntentSuccess
  BY <1>4, <1>7, <1>8, <1>9 DEF CreatePaymentIntentSuccess
<1> HIDE DEF answer
<1>11. answer(m) \in CreatePaymentIntentResponse
  BY <1>10 DEF CreatePaymentIntentResponse
<1>12. \E a \in Selling : wire' = wire \cup {a}
  BY <1>1, <1>11, SaleAnswered
<1>13. QED
  BY <1>1, <1>3, <1>12

LEMMA SaleDeclined ==
    ASSUME TypeOK, NEW i \in Intents, DeclineIntent(i)
    PROVE  \E a \in Selling : wire' = wire \cup {a}
<1>1. [case |-> "failure", reason |-> "ISSUER_UNAVAILABLE"] \in CreatePaymentIntentResponse
  BY DEF CreatePaymentIntentResponse, Failing, CreatePaymentIntentFailures
<1>2. QED
  BY <1>1, SaleAnswered DEF DeclineIntent

LEMMA ExpiryTold ==
    ASSUME TypeOK, NEW i \in Intents, Expire(i)
    PROVE  \E a \in Expiring : wire' = wire \cup {a}
<1> DEFINE told == [paymentIntentId |-> i, fiatSettlement |-> Terms[i]]
<1>1. told \in PaymentExpiredRequest
  BY SaleAssumption DEF PaymentExpiredRequest
<1>2. wire' = wire \cup {Call("paymentExpired", told)}
  BY DEF Expire
<1> HIDE DEF told
<1>3. QED
  BY <1>1, <1>2, CallFits DEF Expiring

LEMMA ReportSent ==
    ASSUME TypeOK, BodiesFit, NEW k \in Keys, Report(k)
    PROVE  \E a \in Receiving \cup Sending :
             /\ wire' = wire \cup {a}
             /\ a.response = Pending
             /\ a.rpc = RpcOf(k)
             /\ a.request = body[k]
<1>1. wire' = wire \cup {Call(RpcOf(k), body[k])} /\ body[k] # Unset
  BY DEF Report
<1>2. CASE k \in Intents
  <2>1. body[k] \in PaymentReceivedRequest /\ RpcOf(k) = "paymentReceived"
    BY <1>1, <1>2 DEF BodiesFit, RpcOf
  <2>2. QED
    BY <1>1, <2>1, CallFits DEF Receiving
<1>3. CASE k \notin Intents
  <2>1. k \in Settlements
    BY <1>3 DEF Keys
  <2>2. body[k] \in SettlementSentRequest /\ RpcOf(k) = "settlementSent"
    BY <1>1, <1>3, <2>1 DEF BodiesFit, RpcOf
  <2>3. QED
    BY <1>1, <2>2, CallFits DEF Sending
<1>4. QED
  BY <1>2, <1>3

LEMMA ReportAnswered ==
    ASSUME TypeOK, NEW m \in Calls("paymentReceived"), PaymentReceived(m)
    PROVE  /\ m \in Receiving
           /\ \E a \in Receiving :
                /\ wire' \ wire \subseteq {a} \cup Authorizing \cup FailingPayment
                /\ {a} \cup wire \subseteq wire'
                /\ a.response = ReportVerdict(m.request) /\ a.request = m.request
<1>1. m \in Receiving
  BY WireFits, EdgesByRpc DEF Calls
<1>2. m.request \in PaymentReceivedRequest
  BY <1>1, RpcFields DEF Receiving
<1>3. Notice(m.request) \in Authorizing \cup FailingPayment
  BY <1>2, NoticeFits, SaleAssumption
<1> DEFINE a == [m EXCEPT !.response = ReportVerdict(m.request)]
<1>4. a \in Receiving /\ a.response = ReportVerdict(m.request) /\ a.request = m.request
  BY <1>1, VerdictsFit, ReplyFits DEF Receiving
<1>5. wire' = wire \cup {a} \/ wire' = wire \cup {a} \cup {Notice(m.request)}
  BY DEF PaymentReceived
<1> HIDE DEF a
<1>6. QED
  BY <1>1, <1>3, <1>4, <1>5

LEMMA SettlementAnswered ==
    ASSUME TypeOK, NEW m \in Calls("settlementSent"), SettlementSent(m)
    PROVE  /\ m \in Sending
           /\ \E a \in Sending :
                /\ wire' = wire \cup {a}
                /\ a.response = SettlementVerdict(m.request) /\ a.request = m.request
<1>1. m \in Sending
  BY WireFits, EdgesByRpc DEF Calls
<1> DEFINE a == [m EXCEPT !.response = SettlementVerdict(m.request)]
<1>2. a \in Sending /\ a.response = SettlementVerdict(m.request) /\ a.request = m.request
  BY <1>1, VerdictsFit, ReplyFits DEF Sending
<1>3. wire' = wire \cup {a}
  BY DEF SettlementSent, Reply
<1> HIDE DEF a
<1>4. QED
  BY <1>1, <1>2, <1>3

LEMMA SettlementTold ==
    ASSUME TypeOK, NEW m \in Calls("settlementSent"), VerifySettlement(m)
    PROVE  /\ m \in Sending
           /\ \E a \in Completing \cup SettlingWithLp : wire' = wire \cup {a}
<1> DEFINE S == m.request.settledPaymentIntentIds
           completed == [settlementId |-> m.request.settlementRef,
                         settledPaymentIntentIds |-> S, settlement |-> m.request.settlement]
           executed == [settlementId |-> m.request.settlementRef,
                        settledExecutionIds |-> {ExecutionOf[i] : i \in S},
                        settlement |-> m.request.settlement]
<1>1. m \in Sending
  BY WireFits, EdgesByRpc DEF Calls
<1>2. m.request \in SettlementSentRequest
  BY <1>1, RpcFields DEF Sending
<1>3. /\ m.request.settlementRef \in Settlements /\ S \in (SUBSET Intents) \ {{}}
      /\ m.request.settlement \in OnChainSettlementDetails
  BY <1>2 DEF SettlementSentRequest
<1>4. completed \in SettlementCompletedRequest
  BY <1>3 DEF SettlementCompletedRequest
<1>5. {ExecutionOf[i] : i \in S} \in (SUBSET Executions) \ {{}}
  <2> HIDE DEF S
  <2>1. PICK i \in S : TRUE
    BY <1>3
  <2>2. \A j \in S : ExecutionOf[j] \in Executions
    BY <1>3, SaleAssumption
  <2>3. ExecutionOf[i] \in {ExecutionOf[j] : j \in S}
    BY <2>1
  <2>4. QED
    BY <2>2, <2>3
<1>6. executed \in UsdtSettlementCompletedRequest
  BY <1>3, <1>5 DEF UsdtSettlementCompletedRequest
<1>7. \/ wire' = wire \cup {Call("settlementCompleted", completed)}
      \/ wire' = wire \cup {Call("usdtSettlementCompleted", executed)}
  BY DEF VerifySettlement
<1> HIDE DEF completed, executed
<1>8. /\ Call("settlementCompleted", completed) \in Completing
      /\ Call("usdtSettlementCompleted", executed) \in SettlingWithLp
  BY <1>4, <1>6, CallFits DEF Completing, SettlingWithLp
<1>9. QED
  BY <1>1, <1>7, <1>8

LEMMA ExampleFits ==
    ASSUME NEW until \in Moments
    PROVE  [case |-> "success", depositOptions |-> ExampleOptions, expiresAt |-> until]
             \in CreatePaymentInstructionsSuccess
<1>1. \A chain \in Blockchain, token, address \in STRING :
        Option(chain, token, address) \in DepositOption
  BY DEF Option, DepositOption
<1>2. "ETH" \in Blockchain /\ "BSC" \in Blockchain
  BY DEF Blockchain
<1>3. TetherOnEth \in STRING /\ TetherOnBsc \in STRING /\ ExampleAddress \in STRING
  BY TextAssumption
<1> HIDE DEF Option
<1>4. ExampleOptions \subseteq DepositOption
  BY <1>1, <1>2, <1>3 DEF ExampleOptions
<1>5. ExampleOptions # {}
  BY DEF ExampleOptions
<1>6. QED
  BY <1>4, <1>5 DEF CreatePaymentInstructionsSuccess

LEMMA InstructionsAnswered ==
    ASSUME TypeOK, NEW m \in Calls("createPaymentInstructions"), CreatePaymentInstructions(m)
    PROVE  /\ m \in Instructing
           /\ m.request.paymentIntentId \in Intents
           /\ m.request.expiresAt \in Moments \cup {Unset}
           /\ ReservedUntil(m.request) \in Moments
           /\ \E a \in Instructing :
                /\ wire' = wire \cup {a}
                /\ a.request = m.request
                /\ a.response \in CreatePaymentInstructionsSuccess
                /\ a.response.expiresAt = ReservedUntil(m.request)
<1>1. m \in Instructing
  BY WireFits, EdgesByRpc DEF Calls
<1>2. m.request \in CreatePaymentInstructionsRequest
  BY <1>1, RpcFields DEF Instructing
<1>3. m.request.paymentIntentId \in Intents /\ m.request.expiresAt \in Moments \cup {Unset}
  BY <1>2 DEF CreatePaymentInstructionsRequest
<1>4. ReservedUntil(m.request) \in Moments
  BY <1>3, TimeAssumption DEF ReservedUntil, TypeOK, Moments
<1> DEFINE answer == [case |-> "success", depositOptions |-> ExampleOptions,
                      expiresAt |-> ReservedUntil(m.request)]
           a == [m EXCEPT !.response = answer]
<1>5. answer \in CreatePaymentInstructionsSuccess /\ answer.expiresAt = ReservedUntil(m.request)
  BY <1>4, ExampleFits
<1>6. wire' = wire \cup {a}
  BY DEF CreatePaymentInstructions, Reply
<1> HIDE DEF answer
<1>7. answer \in CreatePaymentInstructionsResponse
  BY <1>5 DEF CreatePaymentInstructionsResponse
<1>8. a \in Instructing /\ a.request = m.request /\ a.response = answer
  BY <1>1, <1>7, ReplyFits DEF Instructing
<1> HIDE DEF a
<1>9. QED
  BY <1>1, <1>3, <1>4, <1>5, <1>6, <1>8

LEMMA CallbackAcknowledged ==
    ASSUME TypeOK, NEW m \in wire, AcquirerCallback(m) \/ UsdtSettlementCompleted(m)
    PROVE  \E a \in Authorizing \cup Completing \cup Expiring \cup FailingPayment \cup SettlingWithLp :
             wire' = wire \cup {a}
<1>1. m \in Authorizing \cup Completing \cup Expiring \cup FailingPayment \cup SettlingWithLp
  BY WireFits, EdgesByRpc DEF AcquirerCallback, UsdtSettlementCompleted
<1>2. [m EXCEPT !.response = Empty]
        \in Authorizing \cup Completing \cup Expiring \cup FailingPayment \cup SettlingWithLp
  BY <1>1, ReplyFits DEF Authorizing, Completing, Expiring, FailingPayment, SettlingWithLp,
     PaymentAuthorizedResponse, SettlementCompletedResponse, PaymentExpiredResponse,
     PaymentFailedResponse, UsdtSettlementCompletedResponse
<1>3. wire' = wire \cup {[m EXCEPT !.response = Empty]}
  BY DEF AcquirerCallback, UsdtSettlementCompleted, Reply
<1>4. QED
  BY <1>2, <1>3

\* Whatever is newly on the wire is a message of the contract.
LEMMA WireTyped ==
    ASSUME TypeOK, BodiesFit, InstructionsSucceed, [Next]_vars
    PROVE  wire' \subseteq Edges
<1> USE WireFits, EdgesHold
<1>1. CASE UNCHANGED wire
  BY <1>1
<1>2. ASSUME NEW i \in Intents, OpenIntent(i) PROVE wire' \subseteq Edges
  BY <1>2, SaleAsked
<1>3. ASSUME NEW i \in Intents, TakeInstructions(i) PROVE wire' \subseteq Edges
  BY <1>3, InstructionsShown
<1>4. ASSUME NEW i \in Intents, DeclineIntent(i) PROVE wire' \subseteq Edges
  BY <1>4, SaleDeclined
<1>5. ASSUME NEW i \in Intents, Expire(i) PROVE wire' \subseteq Edges
  BY <1>5, ExpiryTold
<1>6. ASSUME NEW k \in Keys, Report(k) PROVE wire' \subseteq Edges
  BY <1>6, ReportSent
<1>7. ASSUME NEW m \in Calls("paymentReceived"), PaymentReceived(m) PROVE wire' \subseteq Edges
  BY <1>7, ReportAnswered
<1>8. ASSUME NEW m \in Calls("settlementSent"), SettlementSent(m) PROVE wire' \subseteq Edges
  BY <1>8, SettlementAnswered
<1>9. ASSUME NEW m \in Calls("settlementSent"), VerifySettlement(m) PROVE wire' \subseteq Edges
  BY <1>9, SettlementTold
<1>10. ASSUME NEW m \in Calls("createPaymentInstructions"), CreatePaymentInstructions(m)
       PROVE  wire' \subseteq Edges
  BY <1>10, InstructionsAnswered
<1>11. ASSUME NEW m \in wire, AcquirerCallback(m) \/ UsdtSettlementCompleted(m)
       PROVE  wire' \subseteq Edges
  BY <1>11, CallbackAcknowledged
<1>12. QED
  BY <1>1, <1>2, <1>3, <1>4, <1>5, <1>6, <1>7, <1>8, <1>9, <1>10, <1>11, WireChanges

LEMMA BodyTyped ==
    ASSUME TypeOK, BodiesFit, [Next]_vars
    PROVE  body' \in [Keys -> PaymentReceivedRequest \cup SettlementSentRequest \cup {Unset}]
           /\ BodiesFit'
<1>0. body \in [Keys -> PaymentReceivedRequest \cup SettlementSentRequest \cup {Unset}]
  BY DEF TypeOK
<1>1. CASE UNCHANGED body
  BY <1>0, <1>1 DEF BodiesFit
<1>2. ASSUME NEW i \in Intents, ClaimDeposit(i)
      PROVE  \E b \in PaymentReceivedRequest :
               b.paymentIntentId = i /\ body' = [body EXCEPT ![i] = b]
  <2>1. PICK d \in Deposits :
          \E screening \in Screenings[d] :
            body' = [body EXCEPT ![i] =
                       [paymentIntentId |-> i, amountUsdt |-> Credited[d],
                        paymentMethod |-> [chain |-> ChainOf[d], onChainTxHash |-> d],
                        outcome |-> screening]]
    BY <1>2 DEF ClaimDeposit
  <2> PICK screening \in Screenings[d] :
        body' = [body EXCEPT ![i] =
                   [paymentIntentId |-> i, amountUsdt |-> Credited[d],
                    paymentMethod |-> [chain |-> ChainOf[d], onChainTxHash |-> d],
                    outcome |-> screening]]
    BY <2>1
  <2>2. /\ Credited[d] \in Decimal /\ screening \in {Authorized} \cup Unprocessable
        /\ [chain |-> ChainOf[d], onChainTxHash |-> d] \in UsdtOnChainPayment
    BY SaleAssumption DEF UsdtOnChainPayment
  <2> DEFINE b == [paymentIntentId |-> i, amountUsdt |-> Credited[d],
                   paymentMethod |-> [chain |-> ChainOf[d], onChainTxHash |-> d],
                   outcome |-> screening]
  <2>3. b \in PaymentReceivedRequest /\ b.paymentIntentId = i
    BY <2>2 DEF PaymentReceivedRequest
  <2>4. QED
    BY <2>1, <2>3
<1>3. ASSUME NEW s \in Settlements, Broadcast(s)
      PROVE  \E b \in SettlementSentRequest :
               b.settlementRef = s /\ body' = [body EXCEPT ![s] = b]
  <2>1. PICK S \in SUBSET {i \in Intents \ Covered : Owed(i)}, wallet \in {"acquirer", "lp"} :
          /\ S # {}
          /\ body' = [body EXCEPT ![s] =
                        [settlementRef |-> s, settledPaymentIntentIds |-> S,
                         settlement |-> [onChainTxHash |-> s, destinationAddress |-> wallet]]]
    BY <1>3 DEF Broadcast
  <2>2. /\ S \in (SUBSET Intents) \ {{}}
        /\ [onChainTxHash |-> s, destinationAddress |-> wallet] \in OnChainSettlementDetails
    BY <2>1 DEF OnChainSettlementDetails
  <2> DEFINE b == [settlementRef |-> s, settledPaymentIntentIds |-> S,
                   settlement |-> [onChainTxHash |-> s, destinationAddress |-> wallet]]
  <2>3. b \in SettlementSentRequest /\ b.settlementRef = s
    BY <2>2 DEF SettlementSentRequest
  <2>4. QED
    BY <2>1, <2>3
<1>4. CASE \E i \in Intents : ClaimDeposit(i)
  BY <1>0, <1>2, <1>4, KeysAssumption DEF BodiesFit, Keys
<1>5. CASE \E s \in Settlements : Broadcast(s)
  BY <1>0, <1>3, <1>5, KeysAssumption DEF BodiesFit, Keys
<1>6. QED
  BY <1>1, <1>4, <1>5, BodyChanges

LEMMA OutcomeTyped ==
    ASSUME TypeOK, [Next]_vars
    PROVE  /\ outcome' \in [Keys -> {"none", "calling"} \cup Outcomes]
           /\ unread' \subseteq Keys
<1>0. outcome \in [Keys -> {"none", "calling"} \cup Outcomes] /\ unread \subseteq Keys
  BY DEF TypeOK
<1>1. CASE UNCHANGED <<outcome, reason, unread>>
  BY <1>0, <1>1
<1>2. CASE \E k \in Keys : Report(k)
  BY <1>0, <1>2 DEF Report
<1>3. ASSUME NEW k \in Keys, HearAnswer(k)
      PROVE  \E o \in Outcomes : unread' = unread /\ outcome' = [outcome EXCEPT ![k] = o]
  <2>1. PICK m \in wire : Conclude(k, ResultOf(m.response))
    BY <1>3 DEF HearAnswer
  <2>2. ResultOf(m.response) \in Variants
    BY DEF ResultOf, Variants
  <2>3. WrapperOutcome(k, ResultOf(m.response)) \in Outcomes
    BY <2>2, OutcomeOfResults
  <2>4. outcome' = [outcome EXCEPT ![k] = WrapperOutcome(k, ResultOf(m.response))]
    BY <2>1 DEF Conclude
  <2>5. unread' = unread
    BY <1>3 DEF HearAnswer
  <2> DEFINE o == WrapperOutcome(k, ResultOf(m.response))
  <2>6. o \in Outcomes /\ outcome' = [outcome EXCEPT ![k] = o]
    BY <2>3, <2>4
  <2> HIDE DEF o
  <2>7. QED
    BY <2>5, <2>6
<1>4. ASSUME NEW k \in Keys, GiveUp(k)
      PROVE  \E o \in Outcomes : unread' = unread /\ outcome' = [outcome EXCEPT ![k] = o]
  BY <1>4, OutcomeOfResults, CodesAssumption DEF GiveUp, Conclude, Variants, Codes
<1>5. ASSUME NEW k \in Keys, RefuseUnread(k)
      PROVE  \E o \in Outcomes : unread' = unread \cup {k} /\ outcome' = [outcome EXCEPT ![k] = o]
  BY <1>5, OutcomeOfResults, CodesAssumption DEF RefuseUnread, Conclude, Codes
<1>6. QED
  BY <1>0, <1>1, <1>2, <1>3, <1>4, <1>5, OutcomeChanges

LEMMA ReasonTyped ==
    ASSUME TypeOK, AnswersAreTrue, BodiesFit, [Next]_vars
    PROVE  reason' \in [Keys -> PaymentReceivedRejections \cup SettlementSentRejections \cup {Unset}]
<1>0. reason \in [Keys -> PaymentReceivedRejections \cup SettlementSentRejections \cup {Unset}]
  BY DEF TypeOK
<1>1. ASSUME NEW k \in Keys, HearAnswer(k)
      PROVE  \E why \in PaymentReceivedRejections \cup SettlementSentRejections \cup {Unset} :
               reason' = [reason EXCEPT ![k] = why]
  <2>1. PICK m \in wire :
          /\ m.rpc = RpcOf(k) /\ m.response # Pending
          /\ reason' = [reason EXCEPT ![k] =
                          IF m.response.case = "rejected" THEN m.response.reason ELSE @]
    BY <1>1 DEF HearAnswer
  <2>2. m \in Receiving \cup Sending
    BY <2>1, WireFits, EdgesByRpc DEF RpcOf
  <2>3. m.response \in PaymentReceivedResponse \cup SettlementSentResponse
    BY <2>1, <2>2, RpcFields DEF Receiving, Sending
  <2>4. m.response.case = "rejected"
          => m.response.reason \in PaymentReceivedRejections \cup SettlementSentRejections
    BY <2>3 DEF PaymentReceivedResponse, SettlementSentResponse, Failing, NoVariant
  <2>5. QED
    BY <1>0, <2>1, <2>4
<1>2. CASE \E k \in Keys : HearAnswer(k)
  BY <1>0, <1>1, <1>2
<1>3. CASE UNCHANGED reason
  BY <1>0, <1>3
<1>4. QED
  BY <1>2, <1>3, OutcomeChanges DEF Report, GiveUp, RefuseUnread

\* What a report makes of the books.
LEMMA ReportBooked ==
    ASSUME TypeOK, NEW m \in Calls("paymentReceived"), PaymentReceived(m)
    PROVE  LET i == m.request.paymentIntentId
           IN  /\ i \in Intents /\ m.request \in PaymentReceivedRequest /\ m.request # Unset
               /\ \/ UNCHANGED <<book, status>>
                  \/ /\ book[i] = Unset /\ status[i] = "open" /\ ~(now >= deadline[i])
                     /\ ReportVerdict(m.request) = Accepted
                     /\ ~RecordedElsewhere(m.request)
                     /\ book' = [book EXCEPT ![i] = m.request]
                     /\ \/ m.request.outcome = Authorized /\ m.request.amountUsdt = Due
                           /\ status' = [status EXCEPT ![i] = "authorized"]
                        \/ m.request.outcome # Authorized
                           /\ status' = [status EXCEPT ![i] = "failed"]
<1> DEFINE i == m.request.paymentIntentId
           first == book[i] = Unset /\ ReportVerdict(m.request) = Accepted
<1>1. m \in Receiving
  BY ReportAnswered
<1>2. m.request \in PaymentReceivedRequest
  BY <1>1, RpcFields DEF Receiving
<1>3. i \in Intents /\ m.request # Unset
  BY <1>2, KeysAssumption DEF PaymentReceivedRequest
<1>4. /\ book' = IF first THEN [book EXCEPT ![i] = m.request] ELSE book
      /\ status' = IF first
                     THEN [status EXCEPT ![i] = IF m.request.outcome = Authorized
                                                  THEN "authorized" ELSE "failed"]
                     ELSE status
  BY DEF PaymentReceived
<1>5. CASE ~first
  BY <1>2, <1>3, <1>4, <1>5
<1>6. CASE first
  <2>1. ReportVerdict(m.request) = Accepted /\ book[i] = Unset
    BY <1>6
  <2>2. status[i] = "open" /\ ~(now >= deadline[i]) /\ ~RecordedElsewhere(m.request)
        /\ (m.request.outcome = Authorized => m.request.amountUsdt = Due)
    BY <2>1, AnswerKinds DEF ReportVerdict
  <2>3. QED
    BY <1>2, <1>3, <1>4, <2>1, <2>2
<1>7. QED
  BY <1>5, <1>6

LEMMA BookTyped ==
    ASSUME TypeOK, [Next]_vars
    PROVE  book' \in [Intents -> PaymentReceivedRequest \cup {Unset}]
<1>1. book \in [Intents -> PaymentReceivedRequest \cup {Unset}]
  BY DEF TypeOK
<1>2. ASSUME NEW m \in Calls("paymentReceived"), PaymentReceived(m)
      PROVE  book' \in [Intents -> PaymentReceivedRequest \cup {Unset}]
  BY <1>1, <1>2, ReportBooked
<1>3. QED
  BY <1>1, <1>2, BookChanges

\* The moments by which an intent is settled on only move while it is asked for.
LEMMA StatusTyped ==
    ASSUME TypeOK, InstructionsSucceed, [Next]_vars
    PROVE  /\ status' \in [Intents -> Statuses]
           /\ deadline' \in [Intents -> Moments \cup {Unset}]
<1>0. status \in [Intents -> Statuses] /\ deadline \in [Intents -> Moments \cup {Unset}]
  BY DEF TypeOK
<1> DEFINE Typed == status' \in [Intents -> Statuses] /\ deadline' \in [Intents -> Moments \cup {Unset}]
<1>1. CASE UNCHANGED <<status, deadline>>
  BY <1>0, <1>1
<1>2. ASSUME NEW i \in Intents, OpenIntent(i) PROVE Typed
  <2>1. PICK b \in Instructing : deadline' = [deadline EXCEPT ![i] = b.request.expiresAt]
    BY <1>2, SaleAsked
  <2>2. b.request \in CreatePaymentInstructionsRequest
    BY RpcFields DEF Instructing
  <2>3. b.request.expiresAt \in Moments \cup {Unset}
    BY <2>2 DEF CreatePaymentInstructionsRequest
  <2>4. status' = [status EXCEPT ![i] = "asking"]
    BY <1>2 DEF OpenIntent
  <2>5. QED
    BY <1>0, <2>1, <2>3, <2>4 DEF Statuses
<1>3. ASSUME NEW i \in Intents, TakeInstructions(i) PROVE Typed
  <2>1. PICK m \in wire :
          /\ m.response.expiresAt \in Moments
          /\ deadline' = [deadline EXCEPT ![i] = IF @ = Unset THEN m.response.expiresAt ELSE @]
    BY <1>3, InstructionsShown
  <2>2. status' = [status EXCEPT ![i] = "open"]
    BY <1>3 DEF TakeInstructions
  <2>3. QED
    BY <1>0, <2>1, <2>2 DEF Statuses
<1>4. ASSUME NEW i \in Intents, DeclineIntent(i) \/ Expire(i) PROVE Typed
  BY <1>0, <1>4 DEF DeclineIntent, Expire, Statuses
<1>5. ASSUME NEW m \in Calls("paymentReceived"), PaymentReceived(m) PROVE Typed
  <2>1. deadline' = deadline
    BY <1>5 DEF PaymentReceived
  <2>2. QED
    BY <1>0, <1>5, <2>1, ReportBooked DEF Statuses
<1>6. ASSUME NEW m \in Calls("settlementSent"), VerifySettlement(m) PROVE Typed
  BY <1>0, <1>6 DEF VerifySettlement, Statuses
<1>7. QED
  BY <1>1, <1>2, <1>3, <1>4, <1>5, <1>6, StatusChanges

LEMMA HeldTyped ==
    ASSUME TypeOK, [Next]_vars
    PROVE  held' \in [Intents -> Moments \cup {Unset}]
<1>1. held \in [Intents -> Moments \cup {Unset}]
  BY DEF TypeOK
<1>2. ASSUME NEW m \in Calls("createPaymentInstructions"), CreatePaymentInstructions(m)
      PROVE  held' \in [Intents -> Moments \cup {Unset}]
  <2>1. held' = [held EXCEPT ![m.request.paymentIntentId] = ReservedUntil(m.request)]
    BY <1>2 DEF CreatePaymentInstructions
  <2>2. QED
    BY <1>1, <1>2, <2>1, InstructionsAnswered
<1>3. QED
  BY <1>1, <1>2, HeldChanges

LEMMA TypeStep ==
    ASSUME IInv, [Next]_vars
    PROVE  TypeOK' /\ BodiesFit'
<1>1. TypeOK /\ BodiesFit /\ InstructionsSucceed /\ AnswersAreTrue
  BY DEF IInv
<1>2. now' \in 0..Horizon
  BY <1>1, NowChanges, TimeAssumption DEF TypeOK, Tick
<1>3. refunded' \subseteq Intents
  BY <1>1, RefundedChanges DEF TypeOK, Refund
<1>4. QED
  BY <1>1, <1>2, <1>3, WireTyped, BodyTyped, OutcomeTyped, ReasonTyped, BookTyped, StatusTyped,
     HeldTyped DEF TypeOK, Edges

-----------------------------------------------------------------------------
(* What no step takes back.                                                *)

LEMMA BodiesStay ==
    ASSUME IInv, [Next]_vars
    PROVE  \A k \in Keys : body[k] # Unset => body'[k] = body[k]
<1>1. body \in [Keys -> PaymentReceivedRequest \cup SettlementSentRequest \cup {Unset}]
  BY DEF IInv, TypeOK
<1>2. ASSUME NEW i \in Intents, ClaimDeposit(i)
      PROVE  body[i] = Unset /\ \A k \in Keys \ {i} : body'[k] = body[k]
  BY <1>1, <1>2 DEF ClaimDeposit, Keys
<1>3. ASSUME NEW s \in Settlements, Broadcast(s)
      PROVE  body[s] = Unset /\ \A k \in Keys \ {s} : body'[k] = body[k]
  BY <1>1, <1>3 DEF Broadcast, Keys
<1>4. QED
  BY <1>2, <1>3, BodyChanges

\* A report is booked while its intent is open, and stays booked.
LEMMA BooksStay ==
    ASSUME IInv, [Next]_vars
    PROVE  \A i \in Intents :
             \/ book'[i] = book[i]
             \/ /\ book[i] = Unset /\ body[i] # Unset /\ book'[i] = body[i]
                /\ ReportVerdict(body[i]) = Accepted
                /\ ~RecordedElsewhere(body[i])
                /\ \A j \in Intents \ {i} : book'[j] = book[j]
<1>1. book \in [Intents -> PaymentReceivedRequest \cup {Unset}]
  BY DEF IInv, TypeOK
<1>2. ASSUME NEW m \in Calls("paymentReceived"), PaymentReceived(m)
      PROVE  LET i == m.request.paymentIntentId IN m.request = body[i] /\ m.request # Unset
  BY <1>2, ReportBooked DEF IInv, ReportsAreBodies, Calls
<1>3. ASSUME NEW m \in Calls("paymentReceived"), PaymentReceived(m), NEW i \in Intents
      PROVE  \/ book'[i] = book[i]
             \/ /\ book[i] = Unset /\ body[i] # Unset /\ book'[i] = body[i]
                /\ ReportVerdict(body[i]) = Accepted
                /\ ~RecordedElsewhere(body[i])
                /\ \A j \in Intents \ {i} : book'[j] = book[j]
  <2>1. TypeOK
    BY DEF IInv
  <2>2. m.request = body[m.request.paymentIntentId] /\ m.request # Unset
    BY <1>2, <1>3
  <2>3. \/ UNCHANGED book
        \/ /\ book[m.request.paymentIntentId] = Unset
           /\ ReportVerdict(m.request) = Accepted
           /\ ~RecordedElsewhere(m.request)
           /\ book' = [book EXCEPT ![m.request.paymentIntentId] = m.request]
    BY <2>1, <1>3, ReportBooked
  <2>4. QED
    BY <1>1, <2>2, <2>3
<1>4. QED
  BY <1>3, BookChanges

LEMMA OutcomesStay ==
    ASSUME IInv, [Next]_vars
    PROVE  /\ \A k \in Keys : outcome[k] \in {"accepted", "rejected"}
                => outcome'[k] = outcome[k] /\ reason'[k] = reason[k]
           /\ unread \subseteq unread'
<1>1. /\ outcome \in [Keys -> {"none", "calling"} \cup Outcomes]
      /\ reason \in [Keys -> PaymentReceivedRejections \cup SettlementSentRejections \cup {Unset}]
  BY DEF IInv, TypeOK
<1>2. ASSUME NEW k \in Keys, Report(k) \/ HearAnswer(k) \/ GiveUp(k) \/ RefuseUnread(k)
      PROVE  /\ outcome[k] \notin {"accepted", "rejected"} /\ unread \subseteq unread'
             /\ \A l \in Keys \ {k} : outcome'[l] = outcome[l] /\ reason'[l] = reason[l]
  BY <1>1, <1>2 DEF Report, HearAnswer, GiveUp, RefuseUnread, Conclude, ShouldRetry
<1>3. QED
  BY <1>2, OutcomeChanges

LEMMA StatusStays ==
    ASSUME IInv, [Next]_vars
    PROVE  \A i \in Intents :
             /\ status[i] \notin {"none", "asking"} =>
                  /\ deadline'[i] = deadline[i]
                  /\ status'[i] \notin {"none", "asking"}
                  /\ status[i] # "open" => status'[i] # "open"
                  /\ status[i] # "declined" <=> status'[i] # "declined"
             /\ status[i] # "none" => status'[i] # "none"
             /\ status'[i] = "asking" => status[i] \in {"none", "asking"}
             /\ Settling(i) => Settling(i)'
<1>1. /\ status \in [Intents -> Statuses]
      /\ deadline \in [Intents -> Moments \cup {Unset}]
      /\ TypeOK /\ InstructionsSucceed
  BY DEF IInv, TypeOK
<1>2. CASE UNCHANGED <<status, deadline>>
  BY <1>2 DEF Settling
<1>3. ASSUME NEW i \in Intents, OpenIntent(i)
      PROVE  /\ status[i] = "none" /\ status'[i] = "asking"
             /\ \A j \in Intents \ {i} : status'[j] = status[j] /\ deadline'[j] = deadline[j]
  BY <1>1, <1>3 DEF OpenIntent
<1>4. ASSUME NEW i \in Intents, TakeInstructions(i)
      PROVE  /\ status[i] = "asking" /\ status'[i] = "open"
             /\ \A j \in Intents \ {i} : status'[j] = status[j] /\ deadline'[j] = deadline[j]
  BY <1>1, <1>4 DEF TakeInstructions
<1>5. ASSUME NEW i \in Intents, DeclineIntent(i)
      PROVE  /\ status[i] = "asking" /\ status'[i] = "declined"
             /\ \A j \in Intents \ {i} : status'[j] = status[j] /\ deadline'[j] = deadline[j]
  BY <1>1, <1>5 DEF DeclineIntent
<1>6. ASSUME NEW i \in Intents, Expire(i)
      PROVE  /\ status[i] = "open" /\ status'[i] = "expired"
             /\ deadline' = deadline
             /\ \A j \in Intents \ {i} : status'[j] = status[j]
  BY <1>1, <1>6 DEF Expire
<1>7. ASSUME NEW m \in Calls("paymentReceived"), PaymentReceived(m)
      PROVE  /\ deadline' = deadline
             /\ \A j \in Intents : \/ status'[j] = status[j]
                                   \/ status[j] = "open" /\ status'[j] \in {"authorized", "failed"}
  <2>1. deadline' = deadline
    BY <1>7 DEF PaymentReceived
  <2>2. QED
    BY <1>1, <1>7, <2>1, ReportBooked
<1>8. ASSUME NEW m \in Calls("settlementSent"), VerifySettlement(m)
      PROVE  /\ deadline' = deadline
             /\ \A j \in Intents : \/ status'[j] = status[j]
                                   \/ status[j] = "authorized" /\ status'[j] = "cleared"
  BY <1>1, <1>8 DEF VerifySettlement
<1>9. QED
  BY <1>2, <1>3, <1>4, <1>5, <1>6, <1>7, <1>8, StatusChanges DEF Settling

LEMMA WireStays ==
    ASSUME IInv, [Next]_vars
    PROVE  wire \subseteq wire' /\ now <= now'
<1>1. TypeOK
  BY DEF IInv
<1>2. now <= now'
  BY <1>1, NowChanges DEF TypeOK, Tick
<1>3. wire \subseteq wire'
  BY WireChanges DEF OpenIntent, TakeInstructions, DeclineIntent, AnswerAcquirer, Expire, Report,
     PaymentReceived, SettlementSent, VerifySettlement, CreatePaymentInstructions,
     AcquirerCallback, UsdtSettlementCompleted, Reply
<1>4. QED
  BY <1>2, <1>3

\* What makes a report hopeless makes it so for good.
LEMMA HopelessStays ==
    ASSUME IInv, [Next]_vars, NEW i \in Intents, body[i] # Unset, Hopeless(i)
    PROVE  Hopeless(i)'
<1>1. /\ body[i] \in PaymentReceivedRequest /\ body[i].paymentIntentId = i /\ body'[i] = body[i]
  BY BodiesStay DEF IInv, BodiesFit, Keys
<1>2. status[i] \notin {"none", "asking", "declined"} /\ deadline[i] # Unset
  BY DEF IInv, Begun
<1>3. book[i] = Unset /\ ReportVerdict(body[i]) # Accepted
  BY DEF Hopeless
<1>4. book'[i] = Unset
  BY <1>3, BooksStay
<1>5. \/ RecordedElsewhere(body[i])
      \/ status[i] # "open" \/ now >= deadline[i]
      \/ body[i].outcome = Authorized /\ body[i].amountUsdt # Due
  BY <1>1, <1>3 DEF ReportVerdict
<1>6. RecordedElsewhere(body[i]) => RecordedElsewhere(body[i])'
  <2>1. \A j \in Intents : book[j] # Unset => book'[j] = book[j]
    BY BooksStay
  <2>2. QED
    BY <1>1, <2>1 DEF RecordedElsewhere
<1>7. status[i] # "open" => status'[i] # "open"
  BY <1>2, StatusStays
<1>8. now >= deadline[i] => now' >= deadline'[i]
  <2>1. deadline[i] \in Nat /\ now \in Nat /\ now' \in Nat
    BY <1>2, TypeStep, TimeAssumption DEF IInv, TypeOK, Moments
  <2>2. deadline'[i] = deadline[i] /\ now <= now'
    BY <1>2, StatusStays, WireStays
  <2>3. QED
    BY <2>1, <2>2
<1>9. \/ RecordedElsewhere(body[i])'
      \/ status'[i] # "open" \/ now' >= deadline'[i]
      \/ body'[i].outcome = Authorized /\ body'[i].amountUsdt # Due
  BY <1>1, <1>5, <1>6, <1>7, <1>8
<1>10. ReportVerdict(body[i])' # Accepted
  BY <1>1, <1>4, <1>9, AnswerKinds DEF ReportVerdict
<1>11. QED
  BY <1>4, <1>10 DEF Hopeless

-----------------------------------------------------------------------------
(* The invariant, part by part.                                            *)

LEMMA BegunStep ==
    ASSUME IInv, [Next]_vars
    PROVE  Begun'
<1>1. /\ outcome \in [Keys -> {"none", "calling"} \cup Outcomes]
      /\ body \in [Keys -> PaymentReceivedRequest \cup SettlementSentRequest \cup {Unset}]
      /\ status \in [Intents -> Statuses] /\ deadline \in [Intents -> Moments \cup {Unset}]
      /\ TypeOK /\ InstructionsSucceed /\ Begun
  BY DEF IInv, TypeOK
<1>2. ASSUME NEW k \in Keys, body'[k] = Unset PROVE outcome'[k] = "none"
  <2>1. body[k] = Unset /\ outcome[k] = "none"
    BY <1>1, <1>2, BodiesStay DEF Begun
  <2>2. \A l \in Keys : Report(l) \/ HearAnswer(l) \/ GiveUp(l) \/ RefuseUnread(l)
          => l # k /\ outcome'[k] = outcome[k]
    BY <1>1, <2>1 DEF Report, HearAnswer, GiveUp, RefuseUnread, Conclude
  <2>3. QED
    BY <2>1, <2>2, OutcomeChanges
<1>3. ASSUME NEW i \in Intents, status'[i] \in {"none", "asking", "declined"} PROVE body'[i] = Unset
  <2>1. status[i] \in {"none", "asking", "declined"} /\ body[i] = Unset
    BY <1>1, <1>3, StatusStays DEF Begun
  <2>2. \A j \in Intents : ClaimDeposit(j) => j # i /\ body'[i] = body[i]
    BY <1>1, <2>1 DEF ClaimDeposit, Keys
  <2>3. \A s \in Settlements : Broadcast(s) => body'[i] = body[i]
    BY <1>1, KeysAssumption DEF Broadcast, Keys
  <2>4. QED
    BY <2>1, <2>2, <2>3, BodyChanges
<1>4. ASSUME NEW i \in Intents, status'[i] \notin {"none", "asking", "declined"}
      PROVE  deadline'[i] # Unset
  <2>1. CASE status[i] \notin {"none", "asking", "declined"}
    BY <1>1, <2>1, StatusStays DEF Begun
  <2>2. CASE status[i] \in {"none", "asking", "declined"}
    <3>1. status'[i] # status[i]
      BY <1>4, <2>2
    <3>2. \A j \in Intents : OpenIntent(j) \/ DeclineIntent(j) \/ Expire(j)
            => status'[i] = status[i] \/ status'[i] \in {"asking", "declined"}
      BY <1>1, <2>2 DEF OpenIntent, DeclineIntent, Expire
    <3>3. \A m \in Calls("paymentReceived") : PaymentReceived(m) => status'[i] = status[i]
      BY <1>1, <2>2, ReportBooked
    <3>4. \A m \in Calls("settlementSent") : VerifySettlement(m) => status'[i] = status[i]
      BY <1>1, <2>2 DEF VerifySettlement
    <3>5. PICK j \in Intents : TakeInstructions(j)
      BY <1>4, <3>1, <3>2, <3>3, <3>4, StatusChanges
    <3>6. j = i
      BY <1>1, <3>1, <3>5 DEF TakeInstructions
    <3>7. PICK m \in wire :
            /\ m.response.expiresAt \in Moments
            /\ deadline' = [deadline EXCEPT ![i] = IF @ = Unset THEN m.response.expiresAt ELSE @]
      BY <1>1, <3>5, <3>6, InstructionsShown
    <3>8. QED
      BY <1>1, <3>7, KeysAssumption DEF Moments
  <2>3. QED
    BY <2>1, <2>2
<1>5. QED
  BY <1>2, <1>3, <1>4 DEF Begun

LEMMA Kinds ==
    /\ \A m \in Instructing : m.rpc = "createPaymentInstructions"
    /\ \A m \in Selling : m.rpc = "createPaymentIntent"
    /\ \A m \in Receiving : m.rpc = "paymentReceived"
    /\ \A m \in Sending : m.rpc = "settlementSent"
    /\ \A m \in Authorizing \cup Completing \cup Expiring \cup FailingPayment \cup SettlingWithLp :
         m.rpc \in {"paymentAuthorized", "settlementCompleted", "paymentExpired", "paymentFailed",
                    "usdtSettlementCompleted"}
BY RpcFields DEF Instructing, Selling, Receiving, Sending, Authorizing, Completing, Expiring,
   FailingPayment, SettlingWithLp

\* A message newly on the wire is a request just sent or an answer just given.
LEMMA NewMessages ==
    ASSUME IInv, [Next]_vars, NEW m \in wire' \ wire
    PROVE  \/ \E i \in Intents :
                /\ OpenIntent(i) /\ m \in Instructing /\ m.response = Pending
                /\ m.request.paymentIntentId = i
                /\ m.request.expiresAt = IF i \in Dated THEN now + Window ELSE Unset
                /\ deadline' = [deadline EXCEPT ![i] = m.request.expiresAt]
           \/ \E k \in Keys :
                /\ Report(k) /\ m.response = Pending /\ m.rpc = RpcOf(k) /\ m.request = body[k]
           \/ \E n \in Calls("paymentReceived") :
                /\ PaymentReceived(n) /\ m \in Receiving
                /\ m.request = n.request /\ m.response = ReportVerdict(n.request)
           \/ \E n \in Calls("settlementSent") :
                /\ SettlementSent(n) /\ m \in Sending
                /\ m.request = n.request /\ m.response = SettlementVerdict(n.request)
           \/ \E n \in Calls("createPaymentInstructions") :
                /\ CreatePaymentInstructions(n) /\ m \in Instructing
                /\ m.request = n.request /\ m.response \in CreatePaymentInstructionsSuccess
                /\ m.response.expiresAt = ReservedUntil(n.request)
           \/ m.rpc \notin {"createPaymentInstructions", "paymentReceived", "settlementSent"}
<1> DEFINE Other == m.rpc \notin {"createPaymentInstructions", "paymentReceived", "settlementSent"}
<1>0. TypeOK /\ BodiesFit /\ InstructionsSucceed
  BY DEF IInv
<1>1. ASSUME NEW i \in Intents, OpenIntent(i)
      PROVE  \/ Other
             \/ /\ m \in Instructing /\ m.response = Pending
                /\ m.request.paymentIntentId = i
                /\ m.request.expiresAt = IF i \in Dated THEN now + Window ELSE Unset
                /\ deadline' = [deadline EXCEPT ![i] = m.request.expiresAt]
  BY <1>0, <1>1, SaleAsked, Kinds
<1>2. ASSUME NEW i \in Intents, TakeInstructions(i) PROVE Other
  BY <1>0, <1>2, InstructionsShown, Kinds
<1>3. ASSUME NEW i \in Intents, DeclineIntent(i) PROVE Other
  BY <1>0, <1>3, SaleDeclined, Kinds
<1>4. ASSUME NEW i \in Intents, Expire(i) PROVE Other
  BY <1>0, <1>4, ExpiryTold, Kinds
<1>5. ASSUME NEW k \in Keys, Report(k)
      PROVE  m.response = Pending /\ m.rpc = RpcOf(k) /\ m.request = body[k]
  BY <1>0, <1>5, ReportSent
<1>6. ASSUME NEW n \in Calls("paymentReceived"), PaymentReceived(n)
      PROVE  \/ Other
             \/ m \in Receiving /\ m.request = n.request /\ m.response = ReportVerdict(n.request)
  BY <1>0, <1>6, ReportAnswered, Kinds
<1>7. ASSUME NEW n \in Calls("settlementSent"), SettlementSent(n)
      PROVE  m \in Sending /\ m.request = n.request /\ m.response = SettlementVerdict(n.request)
  BY <1>0, <1>7, SettlementAnswered
<1>8. ASSUME NEW n \in Calls("settlementSent"), VerifySettlement(n) PROVE Other
  BY <1>0, <1>8, SettlementTold, Kinds
<1>9. ASSUME NEW n \in Calls("createPaymentInstructions"), CreatePaymentInstructions(n)
      PROVE  /\ m \in Instructing
             /\ m.request = n.request /\ m.response \in CreatePaymentInstructionsSuccess
             /\ m.response.expiresAt = ReservedUntil(n.request)
  BY <1>0, <1>9, InstructionsAnswered
<1>10. ASSUME NEW n \in wire, AcquirerCallback(n) \/ UsdtSettlementCompleted(n) PROVE Other
  BY <1>0, <1>10, CallbackAcknowledged, Kinds
<1> HIDE DEF Other
<1>11. \/ \E i \in Intents :
            /\ OpenIntent(i) /\ m \in Instructing /\ m.response = Pending
            /\ m.request.paymentIntentId = i
            /\ m.request.expiresAt = IF i \in Dated THEN now + Window ELSE Unset
            /\ deadline' = [deadline EXCEPT ![i] = m.request.expiresAt]
       \/ \E k \in Keys :
            /\ Report(k) /\ m.response = Pending /\ m.rpc = RpcOf(k) /\ m.request = body[k]
       \/ \E n \in Calls("paymentReceived") :
            /\ PaymentReceived(n) /\ m \in Receiving
            /\ m.request = n.request /\ m.response = ReportVerdict(n.request)
       \/ \E n \in Calls("settlementSent") :
            /\ SettlementSent(n) /\ m \in Sending
            /\ m.request = n.request /\ m.response = SettlementVerdict(n.request)
       \/ \E n \in Calls("createPaymentInstructions") :
            /\ CreatePaymentInstructions(n) /\ m \in Instructing
            /\ m.request = n.request /\ m.response \in CreatePaymentInstructionsSuccess
            /\ m.response.expiresAt = ReservedUntil(n.request)
       \/ Other
  BY <1>1, <1>2, <1>3, <1>4, <1>5, <1>6, <1>7, <1>8, <1>9, <1>10, WireChanges
<1>12. QED
  BY <1>11 DEF Other

\* A report newly on the wire.
LEMMA NewReports ==
    ASSUME IInv, [Next]_vars, NEW m \in wire' \ wire, m.rpc = "paymentReceived"
    PROVE  \E i \in Intents :
             /\ m.request.paymentIntentId = i /\ body[i] # Unset /\ m.request = body[i]
             /\ \/ m.response = Pending
                \/ \E n \in Calls("paymentReceived") :
                     /\ PaymentReceived(n) /\ n.request = body[i]
                     /\ m.response = ReportVerdict(body[i])
<1>0. TypeOK /\ BodiesFit /\ ReportsAreBodies
  BY DEF IInv
<1>1. ASSUME NEW k \in Keys, Report(k), m.rpc = RpcOf(k)
      PROVE  k \in Intents /\ body[k] # Unset /\ body[k].paymentIntentId = k
  BY <1>0, <1>1 DEF Report, RpcOf, BodiesFit
<1>2. ASSUME NEW n \in Calls("paymentReceived"), PaymentReceived(n)
      PROVE  LET i == n.request.paymentIntentId
             IN  i \in Intents /\ body[i] # Unset /\ n.request = body[i]
  BY <1>0, <1>2, ReportBooked DEF ReportsAreBodies, Calls
<1>3. \/ \E k \in Keys :
           /\ Report(k) /\ m.response = Pending /\ m.rpc = RpcOf(k) /\ m.request = body[k]
      \/ \E n \in Calls("paymentReceived") :
           /\ PaymentReceived(n)
           /\ m.request = n.request /\ m.response = ReportVerdict(n.request)
  BY NewMessages, Kinds
<1>4. CASE \E k \in Keys :
             /\ Report(k) /\ m.response = Pending /\ m.rpc = RpcOf(k) /\ m.request = body[k]
  BY <1>1, <1>4
<1>5. CASE \E n \in Calls("paymentReceived") :
             /\ PaymentReceived(n)
             /\ m.request = n.request /\ m.response = ReportVerdict(n.request)
  BY <1>2, <1>5
<1>6. QED
  BY <1>3, <1>4, <1>5

\* A settlement's report newly on the wire.
LEMMA NewSettlements ==
    ASSUME IInv, [Next]_vars, NEW m \in wire' \ wire, m.rpc = "settlementSent"
    PROVE  \E s \in Settlements :
             /\ m.request.settlementRef = s /\ body[s] # Unset /\ m.request = body[s]
             /\ m.response = Pending \/ m.response = SettlementVerdict(body[s])
<1>0. TypeOK /\ BodiesFit /\ ReportsAreBodies
  BY DEF IInv
<1>1. ASSUME NEW k \in Keys, Report(k), m.rpc = RpcOf(k)
      PROVE  k \in Settlements /\ body[k] # Unset /\ body[k].settlementRef = k
  BY <1>0, <1>1 DEF Report, RpcOf, BodiesFit, Keys
<1>2. ASSUME NEW n \in Calls("settlementSent")
      PROVE  LET s == n.request.settlementRef
             IN  s \in Settlements /\ body[s] # Unset /\ n.request = body[s]
  <2>1. n \in Sending /\ n \in wire /\ n.rpc = "settlementSent"
    BY <1>0, WireFits, EdgesByRpc DEF Calls
  <2>2. n.request \in SettlementSentRequest
    BY <2>1, RpcFields DEF Sending
  <2>3. n.request.settlementRef \in Settlements /\ n.request # Unset
    BY <2>2, KeysAssumption DEF SettlementSentRequest
  <2>4. QED
    BY <1>0, <2>1, <2>3 DEF ReportsAreBodies
<1>3. \/ \E k \in Keys :
           /\ Report(k) /\ m.response = Pending /\ m.rpc = RpcOf(k) /\ m.request = body[k]
      \/ \E n \in Calls("settlementSent") :
           m.request = n.request /\ m.response = SettlementVerdict(n.request)
  BY NewMessages, Kinds
<1>4. CASE \E k \in Keys :
             /\ Report(k) /\ m.response = Pending /\ m.rpc = RpcOf(k) /\ m.request = body[k]
  BY <1>1, <1>4
<1>5. CASE \E n \in Calls("settlementSent") :
             m.request = n.request /\ m.response = SettlementVerdict(n.request)
  BY <1>2, <1>5
<1>6. QED
  BY <1>3, <1>4, <1>5

\* What is on the wire under a report's RPC is that report.
LEMMA OldReports ==
    ASSUME IInv, NEW m \in wire
    PROVE  /\ m.rpc = "paymentReceived" =>
                /\ m \in Receiving /\ m.request \in PaymentReceivedRequest
                /\ m.request.paymentIntentId \in Intents
                /\ m.request = body[m.request.paymentIntentId]
                /\ body[m.request.paymentIntentId] # Unset
           /\ m.rpc = "settlementSent" =>
                /\ m \in Sending /\ m.request \in SettlementSentRequest
                /\ m.request.settlementRef \in Settlements
                /\ m.request.settledPaymentIntentIds \subseteq Intents
                /\ m.request = body[m.request.settlementRef]
                /\ body[m.request.settlementRef] # Unset
<1>0. TypeOK /\ ReportsAreBodies
  BY DEF IInv
<1>1. /\ m.rpc = "paymentReceived" => m \in Receiving /\ m.request = body[m.request.paymentIntentId]
      /\ m.rpc = "settlementSent" => m \in Sending /\ m.request = body[m.request.settlementRef]
  BY <1>0, WireFits, EdgesByRpc DEF ReportsAreBodies
<1>2. /\ m \in Receiving => m.request \in PaymentReceivedRequest
      /\ m \in Sending => m.request \in SettlementSentRequest
  BY RpcFields DEF Receiving, Sending
<1>3. /\ m.request \in PaymentReceivedRequest => m.request.paymentIntentId \in Intents /\ m.request # Unset
      /\ m.request \in SettlementSentRequest =>
           /\ m.request.settlementRef \in Settlements /\ m.request # Unset
           /\ m.request.settledPaymentIntentIds \subseteq Intents
  BY KeysAssumption DEF PaymentReceivedRequest, SettlementSentRequest
<1>4. QED
  BY <1>1, <1>2, <1>3

LEMMA ReportsStep ==
    ASSUME IInv, [Next]_vars
    PROVE  ReportsAreBodies' /\ InstructionsSucceed'
<1>1. ASSUME NEW m \in wire', m.rpc = "paymentReceived"
      PROVE  m.request = body'[m.request.paymentIntentId]
  <2>1. CASE m \in wire
    BY <1>1, <2>1, OldReports, BodiesStay DEF Keys
  <2>2. CASE m \notin wire
    BY <1>1, <2>2, NewReports, BodiesStay DEF Keys
  <2>3. QED
    BY <2>1, <2>2
<1>2. ASSUME NEW m \in wire', m.rpc = "settlementSent"
      PROVE  m.request = body'[m.request.settlementRef]
  <2>1. CASE m \in wire
    BY <1>2, <2>1, OldReports, BodiesStay DEF Keys
  <2>2. CASE m \notin wire
    BY <1>2, <2>2, NewSettlements, BodiesStay DEF Keys
  <2>3. QED
    BY <2>1, <2>2
<1>3. ASSUME NEW m \in wire', m.rpc = "createPaymentInstructions", m.response # Pending
      PROVE  m.response \in CreatePaymentInstructionsSuccess
  <2>1. CASE m \in wire
    BY <1>3, <2>1 DEF IInv, InstructionsSucceed
  <2>2. CASE m \notin wire
    BY <1>3, <2>2, NewMessages, Kinds DEF RpcOf
  <2>3. QED
    BY <2>1, <2>2
<1>4. QED
  BY <1>1, <1>2, <1>3 DEF ReportsAreBodies, InstructionsSucceed

LEMMA BooksStep ==
    ASSUME IInv, [Next]_vars
    PROVE  BooksFit' /\ BookedOnce'
<1>0. /\ TypeOK /\ BooksFit /\ BookedOnce /\ BodiesFit /\ Begun
      /\ status \in [Intents -> Statuses] /\ book \in [Intents -> PaymentReceivedRequest \cup {Unset}]
  BY DEF IInv, TypeOK
<1>1. ASSUME NEW i \in Intents, book'[i] # Unset
      PROVE  book'[i] = body'[i]
  BY <1>0, <1>1, BooksStay, BodiesStay DEF BooksFit, Keys
<1>2. ASSUME NEW i \in Intents, book'[i] # Unset, book'[i] = book[i]
      PROVE  status'[i] \in IF book'[i].outcome = Authorized THEN {"authorized", "cleared"} ELSE {"failed"}
  <2>1. status[i] \in IF book[i].outcome = Authorized THEN {"authorized", "cleared"} ELSE {"failed"}
    BY <1>0, <1>2 DEF BooksFit
  <2>2. CASE book[i].outcome = Authorized
    BY <1>2, <2>1, <2>2, StatusStays DEF Settling
  <2>3. CASE book[i].outcome # Authorized
    <3>1. status[i] = "failed"
      BY <2>1, <2>3
    <3>2. \A j \in Intents : OpenIntent(j) \/ TakeInstructions(j) \/ DeclineIntent(j) \/ Expire(j)
            => status'[i] = "failed"
      BY <1>0, <3>1 DEF OpenIntent, TakeInstructions, DeclineIntent, Expire
    <3>3. \A m \in Calls("paymentReceived") : PaymentReceived(m) => status'[i] = "failed"
      BY <1>0, <3>1, ReportBooked
    <3>4. \A m \in Calls("settlementSent") : VerifySettlement(m) => status'[i] = "failed"
      BY <1>0, <3>1 DEF VerifySettlement
    <3>5. status'[i] = "failed"
      BY <3>1, <3>2, <3>3, <3>4, StatusChanges
    <3>6. QED
      BY <1>2, <2>3, <3>5
  <2>4. QED
    BY <2>2, <2>3
<1>3. ASSUME NEW i \in Intents, book'[i] # Unset, book'[i] # book[i]
      PROVE  status'[i] \in IF book'[i].outcome = Authorized THEN {"authorized", "cleared"} ELSE {"failed"}
  <2>1. PICK m \in Calls("paymentReceived") : PaymentReceived(m)
    BY <1>3, BookChanges
  <2>2. m.request.paymentIntentId = i /\ book'[i] = m.request
        /\ \/ m.request.outcome = Authorized /\ status' = [status EXCEPT ![i] = "authorized"]
           \/ m.request.outcome # Authorized /\ status' = [status EXCEPT ![i] = "failed"]
    BY <1>0, <1>3, <2>1, ReportBooked
  <2>3. QED
    BY <1>0, <2>2
<1>4. BooksFit'
  BY <1>1, <1>2, <1>3 DEF BooksFit
<1>5. ASSUME NEW i \in Intents, NEW j \in Intents, i # j, book'[i] # Unset, book'[j] # Unset,
             book'[i] # book[i]
      PROVE  book'[i].paymentMethod.onChainTxHash # book'[j].paymentMethod.onChainTxHash
  <2>1. /\ body[i] # Unset /\ book'[i] = body[i] /\ ~RecordedElsewhere(body[i])
        /\ book'[j] = book[j]
    BY <1>5, BooksStay
  <2>2. body[i].paymentIntentId = i
    BY <1>0, <2>1 DEF BodiesFit
  <2>3. QED
    BY <1>5, <2>1, <2>2 DEF RecordedElsewhere
<1>6. BookedOnce'
  <2>1. SUFFICES ASSUME NEW i \in Intents, NEW j \in Intents, i # j,
                        book'[i] # Unset, book'[j] # Unset
                 PROVE  book'[i].paymentMethod.onChainTxHash # book'[j].paymentMethod.onChainTxHash
    BY DEF BookedOnce, PaidBy
  <2>2. CASE book'[i] # book[i] \/ book'[j] # book[j]
    BY <1>5, <2>1, <2>2
  <2>3. CASE book'[i] = book[i] /\ book'[j] = book[j]
    BY <1>0, <2>1, <2>3 DEF BookedOnce, PaidBy
  <2>4. QED
    BY <2>2, <2>3
<1>7. QED
  BY <1>4, <1>6

\* What the issuer was told it owes is on t-0's books, and settleable.
LEMMA OwedIsSettling ==
    ASSUME IInv, NEW i \in Intents, Owed(i)
    PROVE  /\ body[i] # Unset /\ book[i] = body[i] /\ book[i] # Unset
           /\ book[i].outcome = Authorized /\ Settling(i)
<1>1. outcome[i] = "accepted" /\ body[i].outcome = Authorized
  BY DEF Owed
<1>2. book[i] # Unset
  BY <1>1 DEF IInv, ToldTheTruth
<1>3. book[i] = body[i] /\ status[i] \in IF book[i].outcome = Authorized THEN {"authorized", "cleared"} ELSE {"failed"}
  BY <1>2 DEF IInv, BooksFit
<1>4. QED
  BY <1>1, <1>2, <1>3 DEF Settling

LEMMA CoveredIsSettling ==
    ASSUME IInv, NEW s \in Settlements, body[s] # Unset
    PROVE  /\ body[s].settledPaymentIntentIds \subseteq Intents
           /\ \A i \in body[s].settledPaymentIntentIds : Owed(i) /\ Settling(i)
           /\ SettlementVerdict(body[s]) = Accepted
<1>1. body[s] \in SettlementSentRequest
  BY DEF IInv, BodiesFit
<1>2. body[s].settledPaymentIntentIds \subseteq Intents
  BY <1>1 DEF SettlementSentRequest
<1>3. \A i \in body[s].settledPaymentIntentIds : Owed(i)
  BY DEF IInv, CoveredIsOwed
<1>4. \A i \in body[s].settledPaymentIntentIds : Settling(i)
  BY <1>2, <1>3, OwedIsSettling
<1>5. QED
  BY <1>2, <1>3, <1>4 DEF SettlementVerdict, Settling

LEMMA AnswersStep ==
    ASSUME IInv, [Next]_vars
    PROVE  AnswersAreTrue'
<1>1. ASSUME NEW m \in wire', m.response # Pending, m.rpc = "paymentReceived"
      PROVE  \/ m.response = Accepted /\ book'[m.request.paymentIntentId] # Unset
             \/ m.response # Accepted /\ Hopeless(m.request.paymentIntentId)'
  <2>1. CASE m \in wire
    <3> DEFINE i == m.request.paymentIntentId
    <3>1. i \in Intents /\ body[i] # Unset
      BY <1>1, <2>1, OldReports
    <3>2. \/ m.response = Accepted /\ book[i] # Unset
          \/ m.response # Accepted /\ Hopeless(i)
      BY <1>1, <2>1 DEF IInv, AnswersAreTrue
    <3>3. book[i] # Unset => book'[i] # Unset
      BY <3>1, BooksStay
    <3>4. Hopeless(i) => Hopeless(i)'
      BY <3>1, HopelessStays
    <3>5. QED
      BY <3>2, <3>3, <3>4
  <2>2. CASE m \notin wire
    <3>1. PICK i \in Intents :
            /\ m.request.paymentIntentId = i /\ body[i] # Unset
            /\ \E n \in Calls("paymentReceived") :
                 /\ PaymentReceived(n) /\ n.request = body[i]
                 /\ m.response = ReportVerdict(body[i])
      BY <1>1, <2>2, NewReports
    <3>2. PICK n \in Calls("paymentReceived") :
            /\ PaymentReceived(n) /\ n.request = body[i] /\ m.response = ReportVerdict(body[i])
      BY <3>1
    <3>3. body[i].paymentIntentId = i
      BY <3>1 DEF IInv, BodiesFit
    <3>4. CASE m.response = Accepted
      <4>1. book' = IF book[i] = Unset THEN [book EXCEPT ![i] = body[i]] ELSE book
        BY <3>2, <3>3, <3>4 DEF PaymentReceived
      <4>2. book \in [Intents -> PaymentReceivedRequest \cup {Unset}]
        BY DEF IInv, TypeOK
      <4>3. QED
        BY <3>1, <3>4, <4>1, <4>2
    <3>5. CASE m.response # Accepted
      <4>1. ReportVerdict(body[i]) # Accepted
        BY <3>2, <3>5
      <4>2. book[i] = Unset
        BY <3>3, <4>1 DEF ReportVerdict
      <4>3. Hopeless(i)
        BY <4>1, <4>2 DEF Hopeless
      <4>4. Hopeless(i)'
        BY <3>1, <4>3, HopelessStays
      <4>5. QED
        BY <3>1, <3>5, <4>4
    <3>6. QED
      BY <3>4, <3>5
  <2>3. QED
    BY <2>1, <2>2
<1>2. ASSUME NEW m \in wire', m.response # Pending, m.rpc = "settlementSent"
      PROVE  m.response = Accepted /\ \A i \in m.request.settledPaymentIntentIds : Settling(i)'
  <2>1. CASE m \in wire
    <3>1. m.request.settledPaymentIntentIds \subseteq Intents
      BY <1>2, <2>1, OldReports
    <3>2. m.response = Accepted /\ \A i \in m.request.settledPaymentIntentIds : Settling(i)
      BY <1>2, <2>1 DEF IInv, AnswersAreTrue
    <3>3. QED
      BY <3>1, <3>2, StatusStays
  <2>2. CASE m \notin wire
    <3>1. PICK s \in Settlements : /\ body[s] # Unset /\ m.request = body[s]
                                   /\ m.response = SettlementVerdict(body[s])
      BY <1>2, <2>2, NewSettlements
    <3>2. QED
      BY <3>1, CoveredIsSettling, StatusStays
  <2>3. QED
    BY <2>1, <2>2
<1>3. QED
  BY <1>1, <1>2 DEF AnswersAreTrue

\* Of the steps that conclude a report, only an answer accepts it, and what
\* rejects it is an answer or a refusal to read it.
LEMMA NewOutcomes ==
    ASSUME IInv, [Next]_vars, NEW k \in Keys, outcome'[k] # outcome[k]
    PROVE  /\ outcome'[k] = "accepted" =>
                \E m \in wire : /\ m.rpc = RpcOf(k) /\ m.request = body[k] /\ m.response # Pending
                                /\ m.response.case = "accepted"
           /\ outcome'[k] = "rejected" =>
                \/ k \in unread' /\ reason'[k] = reason[k]
                \/ \E m \in wire : /\ m.rpc = RpcOf(k) /\ m.request = body[k] /\ m.response # Pending
                                   /\ m.response.case # "accepted"
                                   /\ reason'[k] = IF m.response.case = "rejected"
                                                     THEN m.response.reason ELSE reason[k]
<1>0. /\ outcome \in [Keys -> {"none", "calling"} \cup Outcomes]
      /\ reason \in [Keys -> PaymentReceivedRejections \cup SettlementSentRejections \cup {Unset}]
  BY DEF IInv, TypeOK
<1>1. ASSUME NEW l \in Keys, Report(l) PROVE outcome'[k] \in {"calling", outcome[k]}
  BY <1>0, <1>1 DEF Report
<1>2. ASSUME NEW l \in Keys, GiveUp(l) PROVE outcome'[k] \in {"unknown", "raised", outcome[k]}
  <2>1. PICK r \in Faults \cup {"no_variant"} : outcome' = [outcome EXCEPT ![l] = WrapperOutcome(l, r)]
    BY <1>2 DEF GiveUp, Conclude
  <2>2. WrapperOutcome(l, r) \in {"unknown", "raised"}
    BY OutcomeOfResults, CodesAssumption DEF Variants, Codes
  <2>3. QED
    BY <1>0, <2>1, <2>2
<1>3. ASSUME NEW l \in Keys, RefuseUnread(l), outcome'[k] # outcome[k]
      PROVE  outcome'[k] = "rejected" /\ k \in unread' /\ reason'[k] = reason[k]
  <2>1. PICK r \in Refusals : outcome' = [outcome EXCEPT ![l] = WrapperOutcome(l, r)]
    BY <1>3 DEF RefuseUnread, Conclude
  <2>2. WrapperOutcome(l, r) = "rejected"
    BY OutcomeOfResults, CodesAssumption DEF Codes
  <2>3. unread' = unread \cup {l} /\ reason' = reason
    BY <1>3 DEF RefuseUnread
  <2>4. QED
    BY <1>0, <1>3, <2>1, <2>2, <2>3
<1>4. ASSUME NEW l \in Keys, HearAnswer(l), outcome'[k] # outcome[k]
      PROVE  \E m \in wire :
               /\ m.rpc = RpcOf(k) /\ m.request = body[k] /\ m.response # Pending
               /\ outcome'[k] = "accepted" => m.response.case = "accepted"
               /\ outcome'[k] = "rejected" => m.response.case # "accepted"
               /\ reason'[k] = IF m.response.case = "rejected" THEN m.response.reason ELSE reason[k]
  <2>1. PICK m \in wire :
          /\ m.rpc = RpcOf(l) /\ m.request = body[l] /\ m.response # Pending
          /\ Conclude(l, ResultOf(m.response))
          /\ reason' = [reason EXCEPT ![l] =
                          IF m.response.case = "rejected" THEN m.response.reason ELSE @]
    BY <1>4 DEF HearAnswer
  <2>2. outcome' = [outcome EXCEPT ![l] = WrapperOutcome(l, ResultOf(m.response))]
    BY <2>1 DEF Conclude
  <2>3. l = k
    BY <1>0, <1>4, <2>2
  <2>4. WrapperOutcome(k, "success") = "accepted" /\ WrapperOutcome(k, "failure") = "rejected"
    BY OutcomeOfResults DEF Variants
  <2>5. WrapperOutcome(k, ResultOf(m.response))
          = IF m.response.case = "accepted" THEN "accepted" ELSE "rejected"
    BY <2>4 DEF ResultOf
  <2>6. outcome'[k] = IF m.response.case = "accepted" THEN "accepted" ELSE "rejected"
    BY <1>0, <2>2, <2>3, <2>5
  <2>7. QED
    BY <1>0, <2>1, <2>3, <2>6
<1>5. QED
  BY <1>0, <1>1, <1>2, <1>3, <1>4, OutcomeChanges

LEMMA ToldStep ==
    ASSUME IInv, [Next]_vars
    PROVE  ToldTheTruth'
<1>0. Begun /\ BodiesFit /\ AnswersAreTrue /\ ToldTheTruth
  BY DEF IInv
\* What an answer on the wire says of the intent it is about.
<1>1. ASSUME NEW i \in Intents, NEW m \in wire,
             m.rpc = "paymentReceived", m.request = body[i], m.response # Pending
      PROVE  /\ body[i] # Unset
             /\ m.response.case = "accepted" => book[i] # Unset
             /\ m.response.case # "accepted" => Hopeless(i)
  <2>1. m \in Receiving /\ m.request.paymentIntentId \in Intents /\ body[i] \in PaymentReceivedRequest
    BY <1>1, OldReports
  <2>2. body[i] # Unset /\ m.request.paymentIntentId = i
    BY <1>0, <1>1, <2>1, KeysAssumption DEF BodiesFit
  <2>3. m.response \in PaymentReceivedResponse
    BY <1>1, <2>1, RpcFields DEF Receiving
  <2>4. m.response.case = "accepted" <=> m.response = Accepted
    BY <2>3 DEF PaymentReceivedResponse, Failing, NoVariant, Accepted
  <2>5. QED
    BY <1>0, <1>1, <2>2, <2>4 DEF AnswersAreTrue
<1>2. ASSUME NEW i \in Intents, outcome'[i] = "accepted" PROVE book'[i] # Unset
  <2>1. i \in Keys /\ RpcOf(i) = "paymentReceived"
    BY DEF Keys, RpcOf
  <2>2. book[i] # Unset
    <3>1. CASE outcome'[i] = outcome[i]
      BY <1>0, <1>2, <3>1 DEF ToldTheTruth
    <3>2. CASE outcome'[i] # outcome[i]
      BY <1>1, <1>2, <2>1, <3>2, NewOutcomes
    <3>3. QED
      BY <3>1, <3>2
  <2>3. QED
    BY <2>2, BooksStay
<1>3. ASSUME NEW i \in Intents, outcome'[i] = "rejected" PROVE Hopeless(i)' \/ i \in unread'
  <2>1. i \in Keys /\ RpcOf(i) = "paymentReceived"
    BY DEF Keys, RpcOf
  <2>2. i \in unread' \/ (body[i] # Unset /\ Hopeless(i))
    <3>1. CASE outcome'[i] = outcome[i]
      BY <1>0, <1>3, <2>1, <3>1, OutcomesStay DEF ToldTheTruth, Begun
    <3>2. CASE outcome'[i] # outcome[i]
      BY <1>1, <1>3, <2>1, <3>2, NewOutcomes
    <3>3. QED
      BY <3>1, <3>2
  <2>3. QED
    BY <2>2, HopelessStays
<1>4. ASSUME NEW s \in Settlements, outcome'[s] = "accepted"
      PROVE  \A i \in body'[s].settledPaymentIntentIds : Settling(i)'
  <2>1. s \in Keys /\ RpcOf(s) = "settlementSent"
    BY KeysAssumption DEF Keys, RpcOf
  <2>2. body[s] # Unset
    <3>1. CASE outcome'[s] = outcome[s]
      BY <1>0, <1>4, <2>1, <3>1 DEF Begun
    <3>2. CASE outcome'[s] # outcome[s]
      BY <1>4, <2>1, <3>2, NewOutcomes, OldReports, KeysAssumption
    <3>3. QED
      BY <3>1, <3>2
  <2>3. QED
    BY <2>1, <2>2, BodiesStay, CoveredIsSettling, StatusStays
<1>5. ASSUME NEW s \in Settlements, outcome'[s] = "rejected" PROVE s \in unread'
  <2>1. s \in Keys /\ RpcOf(s) = "settlementSent"
    BY KeysAssumption DEF Keys, RpcOf
  <2>2. CASE outcome'[s] = outcome[s]
    BY <1>0, <1>5, <2>1, <2>2, OutcomesStay DEF ToldTheTruth
  <2>3. CASE outcome'[s] # outcome[s]
    <3>1. ASSUME NEW m \in wire, m.rpc = "settlementSent", m.response # Pending
          PROVE  m.response.case = "accepted"
      BY <1>0, <3>1, AnswerKinds DEF AnswersAreTrue
    <3>2. QED
      BY <1>5, <2>1, <2>3, <3>1, NewOutcomes
  <2>4. QED
    BY <2>2, <2>3
<1>6. QED
  BY <1>2, <1>3, <1>4, <1>5 DEF ToldTheTruth

LEMMA ClaimsStep ==
    ASSUME IInv, [Next]_vars
    PROVE  CoveredIsOwed' /\ SharedIsAccepted'
<1>0. /\ body \in [Keys -> PaymentReceivedRequest \cup SettlementSentRequest \cup {Unset}]
      /\ BodiesFit /\ Begun /\ CoveredIsOwed /\ SharedIsAccepted
  BY DEF IInv, TypeOK
<1>1. ASSUME NEW i \in Intents, Owed(i) PROVE Owed(i)'
  BY <1>1, OwedIsSettling, BodiesStay, OutcomesStay DEF Owed, Keys
<1>2. ASSUME NEW s \in Settlements, body'[s] # Unset, NEW i \in body'[s].settledPaymentIntentIds
      PROVE  Owed(i)'
  <2>1. CASE body[s] # Unset
    BY <1>0, <1>1, <1>2, <2>1, BodiesStay, CoveredIsSettling DEF Keys
  <2>2. CASE body[s] = Unset
    <3>1. \A j \in Intents : ClaimDeposit(j) => body'[s] = Unset
      BY <1>0, <2>2, KeysAssumption DEF ClaimDeposit, Keys
    <3>2. PICK t \in Settlements : Broadcast(t)
      BY <1>2, <2>2, <3>1, BodyChanges
    <3>3. s = t
      BY <1>0, <1>2, <2>2, <3>2 DEF Broadcast, Keys
    <3>4. PICK S \in SUBSET {j \in Intents \ Covered : Owed(j)} : body'[s].settledPaymentIntentIds = S
      BY <1>0, <3>2, <3>3 DEF Broadcast, Keys
    <3>5. QED
      BY <1>1, <1>2, <3>4
  <2>3. QED
    BY <2>1, <2>2
<1>3. ASSUME NEW i \in Intents, NEW j \in Intents, i # j, body[i] = Unset,
             body'[i] # Unset, body'[j] # Unset, DepositOf(i)' = DepositOf(j)'
      PROVE  outcome'[j] = "accepted"
  <2>1. \A s \in Settlements : Broadcast(s) => body'[i] = Unset
    BY <1>0, <1>3, KeysAssumption DEF Broadcast, Keys
  <2>2. PICK k \in Intents : ClaimDeposit(k)
    BY <1>3, <2>1, BodyChanges
  <2>3. k = i /\ body'[j] = body[j]
    BY <1>0, <1>3, <2>2 DEF ClaimDeposit, Keys
  <2>4. PICK d \in Deposits :
          /\ \A l \in Intents \ {i} :
               body[l] # Unset /\ DepositOf(l) = d => outcome[l] = "accepted" /\ l \notin refunded
          /\ \E screening \in Screenings[d] :
               body' = [body EXCEPT ![i] =
                          [paymentIntentId |-> i, amountUsdt |-> Credited[d],
                           paymentMethod |-> [chain |-> ChainOf[d], onChainTxHash |-> d],
                           outcome |-> screening]]
    BY <2>2, <2>3 DEF ClaimDeposit
  <2>5. body'[i].paymentMethod.onChainTxHash = d
    BY <1>0, <2>4 DEF Keys
  <2>6. outcome[j] = "accepted"
    BY <1>3, <2>3, <2>4, <2>5 DEF DepositOf
  <2>7. QED
    BY <2>6, OutcomesStay DEF Keys
<1>4. ASSUME NEW i \in Intents, NEW j \in Intents, i # j,
             body'[i] # Unset, body'[j] # Unset, DepositOf(i)' = DepositOf(j)'
      PROVE  outcome'[i] = "accepted" \/ outcome'[j] = "accepted"
  <2>1. CASE body[i] # Unset /\ body[j] # Unset
    <3>1. body'[i] = body[i] /\ body'[j] = body[j]
      BY <2>1, BodiesStay DEF Keys
    <3>2. outcome[i] = "accepted" \/ outcome[j] = "accepted"
      BY <1>0, <1>4, <2>1, <3>1 DEF SharedIsAccepted, DepositOf
    <3>3. QED
      BY <3>2, OutcomesStay DEF Keys
  <2>2. CASE body[i] = Unset
    BY <1>3, <1>4, <2>2
  <2>3. CASE body[j] = Unset
    BY <1>3, <1>4, <2>3
  <2>4. QED
    BY <2>1, <2>2, <2>3
<1>5. QED
  BY <1>2, <1>4 DEF CoveredIsOwed, SharedIsAccepted

\* A report t-0 answered with a reason to refund is one it never records.
LEMMA RefundableIsHopeless ==
    ASSUME IInv, NEW i \in Intents, Refundable(i)
    PROVE  body[i] # Unset /\ Hopeless(i) /\ outcome[i] # "accepted"
<1>1. PICK m \in wire : /\ m.rpc = "paymentReceived" /\ m.request.paymentIntentId = i
                        /\ m.response \in {Rejected(why) : why \in RefundReasons}
  BY DEF Refundable
<1>2. m.response # Pending /\ m.response # Accepted
  BY <1>1, AnswerKinds
<1>3. body[i] # Unset /\ Hopeless(i)
  BY <1>1, <1>2, OldReports DEF IInv, AnswersAreTrue
<1>4. QED
  BY <1>3 DEF IInv, ToldTheTruth, Hopeless

\* A verdict that calls for a refund is given on a transfer nobody else claims.
LEMMA RefusedIsAlone ==
    ASSUME IInv, NEW i \in Intents, body[i] # Unset,
           NEW why \in RefundReasons, ReportVerdict(body[i]) = Rejected(why)
    PROVE  Alone(i)
<1>1. body[i].paymentIntentId = i
  BY DEF IInv, BodiesFit
<1>2. book[i] = Unset /\ ~RecordedElsewhere(body[i])
  <2>1. ReportVerdict(body[i]) # Accepted
    BY AnswerKinds
  <2>2. ReportVerdict(body[i]) # Rejected("TRANSFER_RECORDED_FOR_ANOTHER_INTENT")
    BY AnswerKinds DEF RefundReasons
  <2>3. QED
    BY <1>1, <2>1, <2>2 DEF ReportVerdict
<1>3. outcome[i] # "accepted"
  BY <1>2 DEF IInv, ToldTheTruth
<1>4. SUFFICES ASSUME NEW j \in Intents \ {i}, body[j] # Unset, DepositOf(j) = DepositOf(i)
               PROVE  FALSE
  BY DEF Alone
<1>5. outcome[j] = "accepted"
  BY <1>3, <1>4 DEF IInv, SharedIsAccepted
<1>6. book[j] # Unset /\ book[j] = body[j]
  BY <1>5 DEF IInv, ToldTheTruth, BooksFit
<1>7. RecordedElsewhere(body[i])
  BY <1>1, <1>4, <1>6 DEF RecordedElsewhere, DepositOf
<1>8. QED
  BY <1>2, <1>7

\* Nobody claims the transfer of a report that was not accepted.
LEMMA AloneStays ==
    ASSUME IInv, [Next]_vars, NEW i \in Intents, body[i] # Unset, outcome[i] # "accepted", Alone(i)
    PROVE  Alone(i)'
<1>0. body \in [Keys -> PaymentReceivedRequest \cup SettlementSentRequest \cup {Unset}]
  BY DEF IInv, TypeOK
<1>1. body'[i] = body[i]
  BY BodiesStay DEF Keys
<1>2. SUFFICES ASSUME NEW j \in Intents \ {i}, body'[j] # Unset
               PROVE  body'[j].paymentMethod.onChainTxHash # body[i].paymentMethod.onChainTxHash
  BY <1>1 DEF Alone, DepositOf
<1>3. CASE body[j] # Unset
  BY <1>2, <1>3, BodiesStay DEF Alone, DepositOf, Keys
<1>4. CASE body[j] = Unset
  <2>1. \A s \in Settlements : Broadcast(s) => body'[j] = Unset
    BY <1>0, <1>4, KeysAssumption DEF Broadcast, Keys
  <2>2. PICK k \in Intents : ClaimDeposit(k)
    BY <1>2, <1>4, <2>1, BodyChanges
  <2>3. k = j
    BY <1>0, <1>2, <1>4, <2>2 DEF ClaimDeposit, Keys
  <2>4. PICK d \in Deposits :
          /\ \A l \in Intents \ {j} :
               body[l] # Unset /\ DepositOf(l) = d => outcome[l] = "accepted" /\ l \notin refunded
          /\ \E screening \in Screenings[d] :
               body' = [body EXCEPT ![j] =
                          [paymentIntentId |-> j, amountUsdt |-> Credited[d],
                           paymentMethod |-> [chain |-> ChainOf[d], onChainTxHash |-> d],
                           outcome |-> screening]]
    BY <2>2, <2>3 DEF ClaimDeposit
  <2>5. body'[j].paymentMethod.onChainTxHash = d
    BY <1>0, <2>4 DEF Keys
  <2>6. DepositOf(i) # d
    BY <2>4
  <2>7. QED
    BY <2>5, <2>6 DEF DepositOf
<1>5. QED
  BY <1>3, <1>4

LEMMA RefundableStep ==
    ASSUME IInv, [Next]_vars
    PROVE  RefundableIsAlone'
<1>1. SUFFICES ASSUME NEW i \in Intents, NEW m \in wire',
                      m.rpc = "paymentReceived", m.request.paymentIntentId = i,
                      NEW why \in RefundReasons, m.response = Rejected(why)
               PROVE  Alone(i)'
  BY DEF RefundableIsAlone, Refundable
<1>2. CASE m \in wire
  <2>1. Refundable(i)
    BY <1>1, <1>2 DEF Refundable
  <2>2. Alone(i)
    BY <2>1 DEF IInv, RefundableIsAlone
  <2>3. QED
    BY <2>1, <2>2, RefundableIsHopeless, AloneStays
<1>3. CASE m \notin wire
  <2>1. PICK j \in Intents : /\ m.request.paymentIntentId = j /\ body[j] # Unset
                             /\ m.response = Pending \/ m.response = ReportVerdict(body[j])
    BY <1>1, <1>3, NewReports
  <2>2. j = i /\ ReportVerdict(body[i]) = Rejected(why)
    BY <1>1, <2>1, AnswerKinds
  <2>3. Alone(i)
    BY <2>1, <2>2, RefusedIsAlone
  <2>4. outcome[i] # "accepted"
    <3>1. ReportVerdict(body[i]) # Accepted /\ body[i].paymentIntentId = i
      BY <2>1, <2>2, AnswerKinds DEF IInv, BodiesFit
    <3>2. book[i] = Unset
      BY <3>1 DEF ReportVerdict
    <3>3. QED
      BY <3>2 DEF IInv, ToldTheTruth
  <2>5. QED
    BY <2>1, <2>2, <2>3, <2>4, AloneStays
<1>4. QED
  BY <1>2, <1>3

LEMMA ReasonsStep ==
    ASSUME IInv, [Next]_vars
    PROVE  ReasonsWereGiven'
<1>0. /\ reason \in [Keys -> PaymentReceivedRejections \cup SettlementSentRejections \cup {Unset}]
      /\ ReasonsWereGiven /\ TypeOK /\ BodiesFit
  BY DEF IInv, TypeOK
<1>1. SUFFICES ASSUME NEW i \in Intents, reason'[i] \in RefundReasons
               PROVE  Refundable(i)
  BY WireStays DEF ReasonsWereGiven, Refundable
<1>2. CASE reason'[i] = reason[i]
  BY <1>0, <1>1, <1>2 DEF ReasonsWereGiven
<1>3. CASE reason'[i] # reason[i]
  <2>1. PICK k \in Keys : HearAnswer(k)
    BY <1>3, OutcomeChanges DEF Report, GiveUp, RefuseUnread
  <2>2. PICK m \in wire :
          /\ m.rpc = RpcOf(k) /\ m.request = body[k] /\ m.response # Pending
          /\ reason' = [reason EXCEPT ![k] =
                          IF m.response.case = "rejected" THEN m.response.reason ELSE @]
    BY <2>1 DEF HearAnswer
  <2>3. k = i /\ m.response.case = "rejected" /\ m.response.reason = reason'[i]
    BY <1>0, <1>3, <2>2
  <2>4. m.rpc = "paymentReceived"
    BY <2>2, <2>3 DEF RpcOf
  <2>5. m \in Receiving /\ body[i] \in PaymentReceivedRequest
    BY <2>2, <2>3, <2>4, OldReports
  <2>6. m.request.paymentIntentId = i
    BY <1>0, <2>2, <2>3, <2>5, KeysAssumption DEF BodiesFit
  <2>7. m.response \in PaymentReceivedResponse
    BY <2>2, <2>5, RpcFields DEF Receiving
  <2>8. m.response = Rejected(reason'[i])
    BY <2>3, <2>7 DEF PaymentReceivedResponse, Failing, NoVariant, Rejected
  <2>9. QED
    BY <1>1, <2>4, <2>6, <2>8 DEF Refundable
<1>4. QED
  BY <1>2, <1>3

LEMMA RefundsStep ==
    ASSUME IInv, [Next]_vars
    PROVE  RefundsFit'
<1>1. ASSUME NEW i \in refunded'
      PROVE  /\ i \in Intents /\ body[i] # Unset
             /\ \/ outcome[i] = "rejected" /\ reason[i] \in RefundReasons
                \/ outcome[i] = "accepted" /\ body[i].outcome # Authorized
  BY RefundedChanges DEF IInv, TypeOK, RefundsFit, Refund
<1>2. QED
  BY <1>1, BodiesStay, OutcomesStay DEF RefundsFit, Keys

\* A request for instructions on the wire.
LEMMA OldInstructions ==
    ASSUME TypeOK, InstructionsSucceed, NEW m \in wire, m.rpc = "createPaymentInstructions"
    PROVE  /\ m \in Instructing /\ m.request.paymentIntentId \in Intents
           /\ m.request.expiresAt \in Moments \cup {Unset}
           /\ m.response # Pending => m.response.expiresAt \in Moments
<1>1. m \in Instructing
  BY WireFits, EdgesByRpc
<1>2. m.request \in CreatePaymentInstructionsRequest
  BY <1>1, RpcFields DEF Instructing
<1>3. m.response # Pending => m.response \in CreatePaymentInstructionsSuccess
  BY DEF InstructionsSucceed
<1>4. QED
  BY <1>1, <1>2, <1>3 DEF CreatePaymentInstructionsRequest, CreatePaymentInstructionsSuccess

\* A repeated request is answered with a moment no earlier than before.
LEMMA HeldGrows ==
    ASSUME IInv, [Next]_vars, NEW i \in Intents, held'[i] # held[i]
    PROVE  /\ status[i] # "none" /\ UNCHANGED <<status, deadline, now>>
           /\ held'[i] \in Moments
           /\ held[i] # Unset => held[i] <= held'[i]
           /\ i \in Dated => deadline[i] # Unset /\ held'[i] = deadline[i]
           /\ i \notin Dated => held'[i] = now + Ttl
           /\ \E n \in Calls("createPaymentInstructions") :
                CreatePaymentInstructions(n) /\ n.request.paymentIntentId = i
<1>0. /\ TypeOK /\ InstructionsSucceed /\ HeldLongEnough /\ now \in Nat
      /\ held \in [Intents -> Moments \cup {Unset}]
      /\ deadline \in [Intents -> Moments \cup {Unset}]
  BY TimeAssumption DEF IInv, TypeOK
<1>1. PICK n \in Calls("createPaymentInstructions") : CreatePaymentInstructions(n)
  BY HeldChanges
<1>2. held' = [held EXCEPT ![n.request.paymentIntentId] = ReservedUntil(n.request)]
      /\ UNCHANGED <<status, deadline, now>>
  BY <1>1 DEF CreatePaymentInstructions, ledger
<1>3. n \in wire /\ n.rpc = "createPaymentInstructions" /\ n.request.paymentIntentId = i
  BY <1>0, <1>2 DEF Calls
<1>4. ReservedUntil(n.request) \in Moments
  BY <1>0, <1>1, InstructionsAnswered
<1>5. held'[i] = ReservedUntil(n.request)
  BY <1>0, <1>2, <1>3
<1>6. /\ status[i] # "none"
      /\ i \in Dated => n.request.expiresAt = deadline[i] /\ deadline[i] # Unset
      /\ i \notin Dated => n.request.expiresAt = Unset
      /\ held[i] # Unset =>
           /\ i \in Dated => held[i] <= deadline[i]
           /\ i \notin Dated => held[i] <= now + Ttl
  BY <1>0, <1>3 DEF HeldLongEnough
<1>7. /\ i \in Dated => held'[i] = deadline[i]
      /\ i \notin Dated => held'[i] = now + Ttl
  BY <1>5, <1>6 DEF ReservedUntil
<1>8. QED
  BY <1>1, <1>2, <1>3, <1>4, <1>5, <1>6, <1>7

\* How long the issuer is asked to hold an intent's addresses does not move.
LEMMA DeadlinesStay ==
    ASSUME IInv, [Next]_vars, NEW i \in Intents, status[i] # "none", i \in Dated
    PROVE  deadline[i] # Unset => deadline'[i] = deadline[i]
<1>0. /\ deadline \in [Intents -> Moments \cup {Unset}] /\ TypeOK /\ InstructionsSucceed
  BY DEF IInv, TypeOK
<1>1. \A j \in Intents : OpenIntent(j) => deadline'[i] = deadline[i]
  BY <1>0 DEF OpenIntent
<1>2. ASSUME NEW j \in Intents, TakeInstructions(j), deadline[i] # Unset
      PROVE  deadline'[i] = deadline[i]
  BY <1>0, <1>2, InstructionsShown
<1>3. \A j \in Intents : DeclineIntent(j) \/ Expire(j) => deadline' = deadline
  BY DEF DeclineIntent, Expire
<1>4. \A m : PaymentReceived(m) \/ VerifySettlement(m) => deadline' = deadline
  BY DEF PaymentReceived, VerifySettlement
<1>5. QED
  BY <1>1, <1>2, <1>3, <1>4, StatusChanges

\* The addresses of an intent that opens were asked for, and promised.
LEMMA OpensOnInstructions ==
    ASSUME IInv, [Next]_vars, NEW i \in Intents, status[i] # "open", status'[i] = "open"
    PROVE  TakeInstructions(i)
<1>0. status \in [Intents -> Statuses] /\ TypeOK
  BY DEF IInv, TypeOK
<1>1. \A j \in Intents : OpenIntent(j) \/ DeclineIntent(j) \/ Expire(j) => status'[i] # "open"
  BY <1>0 DEF OpenIntent, DeclineIntent, Expire
<1>2. \A m \in Calls("paymentReceived") : PaymentReceived(m) => status'[i] # "open"
  BY <1>0, ReportBooked
<1>3. \A m \in Calls("settlementSent") : VerifySettlement(m) => status'[i] # "open"
  BY <1>0 DEF VerifySettlement
<1>4. PICK j \in Intents : TakeInstructions(j)
  BY <1>1, <1>2, <1>3, StatusChanges
<1>5. i = j
  BY <1>0, <1>4 DEF TakeInstructions
<1>6. QED
  BY <1>4, <1>5

LEMMA HeldStep ==
    ASSUME IInv, [Next]_vars
    PROVE  HeldLongEnough'
<1>0. /\ TypeOK /\ InstructionsSucceed /\ HeldLongEnough /\ now \in Nat /\ Ttl \in Nat
      /\ held \in [Intents -> Moments \cup {Unset}]
      /\ deadline \in [Intents -> Moments \cup {Unset}]
      /\ status \in [Intents -> Statuses]
      /\ now' \in Nat /\ now <= now'
  BY TimeAssumption, TypeStep, WireStays DEF IInv, TypeOK
<1>1. ASSUME NEW m \in wire', m.rpc = "createPaymentInstructions",
             NEW i \in Intents, m.request.paymentIntentId = i
      PROVE  /\ status'[i] # "none"
             /\ i \in Dated => m.request.expiresAt = deadline'[i] /\ deadline'[i] # Unset
             /\ i \notin Dated => m.request.expiresAt = Unset
             /\ m.response # Pending => held'[i] # Unset /\ m.response.expiresAt <= held'[i]
  <2>1. CASE m \in wire
    <3>1. /\ status[i] # "none"
          /\ i \in Dated => m.request.expiresAt = deadline[i] /\ deadline[i] # Unset
          /\ i \notin Dated => m.request.expiresAt = Unset
          /\ m.response # Pending => held[i] # Unset /\ m.response.expiresAt <= held[i]
      BY <1>0, <1>1, <2>1 DEF HeldLongEnough
    <3>2. m.response # Pending => m.response.expiresAt \in Nat
      BY <1>0, <1>1, <2>1, OldInstructions DEF Moments
    <3>3. m.response # Pending => held'[i] # Unset /\ m.response.expiresAt <= held'[i]
      <4>1. CASE held'[i] = held[i]
        BY <3>1, <4>1
      <4>2. CASE held'[i] # held[i]
        BY <1>0, <3>1, <3>2, <4>2, HeldGrows, KeysAssumption DEF Moments
      <4>3. QED
        BY <4>1, <4>2
    <3>4. QED
      BY <3>1, <3>3, StatusStays, DeadlinesStay
  <2>2. CASE m \notin wire
    <3>1. \/ /\ OpenIntent(i) /\ m.response = Pending
             /\ m.request.expiresAt = IF i \in Dated THEN now + Window ELSE Unset
             /\ deadline' = [deadline EXCEPT ![i] = m.request.expiresAt]
          \/ \E n \in Calls("createPaymentInstructions") :
               /\ CreatePaymentInstructions(n)
               /\ m.request = n.request
               /\ m.response.expiresAt = ReservedUntil(n.request)
      BY <1>1, <2>2, NewMessages, Kinds DEF RpcOf
    <3>2. CASE /\ OpenIntent(i) /\ m.response = Pending
               /\ m.request.expiresAt = IF i \in Dated THEN now + Window ELSE Unset
               /\ deadline' = [deadline EXCEPT ![i] = m.request.expiresAt]
      <4>1. status'[i] = "asking"
        BY <1>0, <3>2 DEF OpenIntent
      <4>2. now + Window # Unset
        BY <1>0, TimeAssumption, KeysAssumption
      <4>3. QED
        BY <1>0, <3>2, <4>1, <4>2
    <3>3. CASE \E n \in Calls("createPaymentInstructions") :
                 /\ CreatePaymentInstructions(n)
                 /\ m.request = n.request
                 /\ m.response.expiresAt = ReservedUntil(n.request)
      <4>1. PICK n \in Calls("createPaymentInstructions") :
              /\ CreatePaymentInstructions(n)
              /\ m.request = n.request
              /\ m.response.expiresAt = ReservedUntil(n.request)
        BY <3>3
      <4>2. n \in wire /\ n.rpc = "createPaymentInstructions"
        BY DEF Calls
      <4>3. /\ status[i] # "none"
            /\ i \in Dated => m.request.expiresAt = deadline[i] /\ deadline[i] # Unset
            /\ i \notin Dated => m.request.expiresAt = Unset
        BY <1>0, <1>1, <4>1, <4>2 DEF HeldLongEnough
      <4>4. held' = [held EXCEPT ![i] = ReservedUntil(n.request)] /\ UNCHANGED <<status, deadline>>
        BY <1>1, <4>1 DEF CreatePaymentInstructions, ledger
      <4>5. ReservedUntil(n.request) \in Moments
        BY <1>0, <4>1, InstructionsAnswered
      <4>6. held'[i] = ReservedUntil(n.request) /\ held'[i] # Unset
        BY <1>0, <4>4, <4>5, KeysAssumption DEF Moments
      <4>7. m.response.expiresAt <= held'[i]
        BY <4>1, <4>5, <4>6 DEF Moments
      <4>8. QED
        BY <4>3, <4>4, <4>6, <4>7
    <3>4. QED
      BY <3>1, <3>2, <3>3
  <2>3. QED
    BY <2>1, <2>2
<1>2. ASSUME NEW i \in Intents, held'[i] # Unset
      PROVE  /\ status'[i] # "none"
             /\ i \in Dated => deadline'[i] # Unset /\ held'[i] <= deadline'[i]
             /\ i \notin Dated => held'[i] <= now' + Ttl
  <2>1. CASE held'[i] = held[i]
    <3>1. /\ status[i] # "none"
          /\ i \in Dated => deadline[i] # Unset /\ held[i] <= deadline[i]
          /\ i \notin Dated => held[i] <= now + Ttl
      BY <1>0, <1>2, <2>1 DEF HeldLongEnough
    <3>2. held[i] \in Nat
      BY <1>0, <1>2, <2>1 DEF Moments
    <3>3. i \notin Dated => held[i] <= now' + Ttl
      BY <1>0, <3>1, <3>2
    <3>4. QED
      BY <2>1, <3>1, <3>3, StatusStays, DeadlinesStay
  <2>2. CASE held'[i] # held[i]
    <3>1. /\ status[i] # "none" /\ UNCHANGED <<status, deadline, now>>
          /\ held'[i] \in Nat
          /\ i \in Dated => deadline[i] # Unset /\ held'[i] = deadline[i]
          /\ i \notin Dated => held'[i] = now + Ttl
      BY <2>2, HeldGrows DEF Moments
    <3>2. QED
      BY <1>0, <3>1
  <2>3. QED
    BY <2>1, <2>2
<1>3. ASSUME NEW i \in Intents, i \notin Dated, status'[i] = "asking" PROVE deadline'[i] = Unset
  <2>1. CASE status[i] = "asking"
    <3>1. deadline[i] = Unset
      BY <1>0, <1>3, <2>1 DEF HeldLongEnough
    <3>2. \A j \in Intents : OpenIntent(j) \/ TakeInstructions(j) => deadline'[i] = deadline[i]
      BY <1>0, <1>3, <2>1 DEF OpenIntent, TakeInstructions
    <3>3. \A j \in Intents : DeclineIntent(j) \/ Expire(j) => deadline' = deadline
      BY DEF DeclineIntent, Expire
    <3>4. \A m : PaymentReceived(m) \/ VerifySettlement(m) => deadline' = deadline
      BY DEF PaymentReceived, VerifySettlement
    <3>5. QED
      BY <3>1, <3>2, <3>3, <3>4, StatusChanges
  <2>2. CASE status[i] # "asking"
    <3>1. status[i] = "none"
      BY <1>3, <2>2, StatusStays
    <3>2. \A j \in Intents : TakeInstructions(j) \/ DeclineIntent(j) \/ Expire(j)
            => status'[i] # "asking"
      BY <1>0, <3>1 DEF TakeInstructions, DeclineIntent, Expire
    <3>3. \A m \in Calls("paymentReceived") : PaymentReceived(m) => status'[i] # "asking"
      BY <1>0, <3>1, ReportBooked
    <3>4. \A m \in Calls("settlementSent") : VerifySettlement(m) => status'[i] # "asking"
      BY <1>0, <3>1 DEF VerifySettlement
    <3>5. PICK j \in Intents : OpenIntent(j)
      BY <1>3, <3>1, <3>2, <3>3, <3>4, StatusChanges
    <3>6. i = j
      BY <1>0, <1>3, <3>1, <3>5 DEF OpenIntent
    <3>7. QED
      BY <1>0, <1>3, <3>5, <3>6 DEF OpenIntent
  <2>3. QED
    BY <2>1, <2>2
<1>4. \A m \in wire' : m.rpc = "createPaymentInstructions" => m.request.paymentIntentId \in Intents
  <2>1. TypeOK' /\ InstructionsSucceed'
    BY TypeStep, ReportsStep
  <2>2. ASSUME NEW m \in Edges, m.rpc = "createPaymentInstructions"
        PROVE  m.request.paymentIntentId \in Intents
    <3>1. m \in Instructing
      BY <2>2, EdgesByRpc
    <3>2. m.request \in CreatePaymentInstructionsRequest
      BY <3>1, RpcFields DEF Instructing
    <3>3. QED
      BY <3>2 DEF CreatePaymentInstructionsRequest
  <2>3. wire' \subseteq Edges
    BY <2>1 DEF TypeOK, Edges
  <2>4. QED
    BY <2>2, <2>3
<1>5. ASSUME NEW i \in Intents, status'[i] = "open" PROVE held'[i] # Unset
  <2>1. held[i] # Unset
    <3>1. CASE status[i] = "open"
      BY <1>0, <3>1 DEF HeldLongEnough
    <3>2. CASE status[i] # "open"
      <4>1. TakeInstructions(i)
        BY <1>5, <3>2, OpensOnInstructions
      <4>2. QED
        BY <1>0, <4>1 DEF TakeInstructions, Answered, HeldLongEnough
    <3>3. QED
      BY <3>1, <3>2
  <2>2. QED
    BY <2>1, HeldGrows, KeysAssumption DEF Moments
<1>6. QED
  BY <1>1, <1>2, <1>3, <1>4, <1>5 DEF HeldLongEnough

LEMMA ShownStep ==
    ASSUME IInv, [Next]_vars
    PROVE  ShownAddressIsHeld'
<1>0. /\ TypeOK /\ InstructionsSucceed /\ HeldLongEnough /\ ShownAddressIsHeld /\ Begun
      /\ held \in [Intents -> Moments \cup {Unset}]
      /\ deadline \in [Intents -> Moments \cup {Unset}]
      /\ status \in [Intents -> Statuses] /\ now \in Nat
  BY DEF IInv, TypeOK
<1>1. SUFFICES ASSUME NEW i \in Intents, status'[i] = "open" PROVE held'[i] >= deadline'[i]
  BY DEF ShownAddressIsHeld
<1>2. CASE status[i] = "open"
  <2>1. deadline'[i] = deadline[i] /\ deadline[i] \in Nat /\ held[i] >= deadline[i]
    BY <1>0, <1>2, StatusStays DEF Begun, ShownAddressIsHeld, Moments
  <2>2. CASE held'[i] = held[i]
    BY <2>1, <2>2
  <2>3. CASE held'[i] # held[i]
    <3>1. held'[i] \in Nat /\ held[i] <= held'[i]
      BY <1>0, <1>2, <2>3, HeldGrows DEF HeldLongEnough, Moments
    <3>2. held[i] \in Nat
      BY <1>0, <1>2 DEF HeldLongEnough, Moments
    <3>3. QED
      BY <2>1, <3>1, <3>2
  <2>4. QED
    BY <2>2, <2>3
<1>3. CASE status[i] # "open"
  <2>1. TakeInstructions(i)
    BY <1>1, <1>3, OpensOnInstructions
  <2>2. PICK m \in wire :
          /\ Answered("createPaymentInstructions", i, m)
          /\ Usable(m)
          /\ m.response.expiresAt \in Moments
          /\ deadline' = [deadline EXCEPT ![i] = IF @ = Unset THEN m.response.expiresAt ELSE @]
    BY <1>0, <2>1, InstructionsShown
  <2>3. /\ held[i] # Unset /\ m.response.expiresAt <= held[i]
        /\ i \in Dated => m.request.expiresAt = deadline[i] /\ deadline[i] # Unset
    BY <1>0, <2>2 DEF HeldLongEnough, Answered
  <2>4. i \notin Dated => deadline[i] = Unset
    BY <1>0, <2>1 DEF HeldLongEnough, TakeInstructions
  <2>5. held' = held
    BY <2>1 DEF TakeInstructions
  <2>6. held[i] \in Nat /\ m.response.expiresAt \in Nat
    BY <1>0, <2>2, <2>3 DEF Moments
  <2>7. CASE i \in Dated
    <3>1. deadline'[i] = deadline[i] /\ m.response.expiresAt >= deadline[i] /\ deadline[i] \in Nat
      BY <1>0, <2>2, <2>3, <2>7 DEF Usable, Moments
    <3>2. QED
      BY <2>3, <2>5, <2>6, <3>1
  <2>8. CASE i \notin Dated
    <3>1. deadline'[i] = m.response.expiresAt
      BY <1>0, <2>2, <2>4, <2>8
    <3>2. QED
      BY <2>3, <2>5, <2>6, <3>1
  <2>9. QED
    BY <2>7, <2>8
<1>4. QED
  BY <1>2, <1>3

-----------------------------------------------------------------------------
(* The invariant, and what it gives.                                       *)

LEMMA Initially == Init => IInv
<1> SUFFICES ASSUME Init PROVE IInv
  OBVIOUS
<1>1. TypeOK
  BY TimeAssumption DEF Init, TypeOK, Statuses, Edges
<1>2. /\ BodiesFit /\ Begun /\ ToldTheTruth /\ CoveredIsOwed /\ SharedIsAccepted
      /\ ReasonsWereGiven /\ RefundsFit
  BY KeysAssumption DEF Init, BodiesFit, Begun, ToldTheTruth, CoveredIsOwed, SharedIsAccepted,
     ReasonsWereGiven, RefundReasons, PaymentReceivedRejections, RefundsFit, Keys
<1>3. /\ ReportsAreBodies /\ InstructionsSucceed /\ AnswersAreTrue /\ RefundableIsAlone
      /\ HeldLongEnough
  BY DEF Init, ReportsAreBodies, InstructionsSucceed, AnswersAreTrue, RefundableIsAlone,
     Refundable, HeldLongEnough
<1>4. BooksFit /\ BookedOnce /\ ShownAddressIsHeld
  BY DEF Init, BooksFit, BookedOnce, ShownAddressIsHeld
<1>5. QED
  BY <1>1, <1>2, <1>3, <1>4 DEF IInv

LEMMA Inductive == IInv /\ [Next]_vars => IInv'
BY TypeStep, ReportsStep, BegunStep, BooksStep, AnswersStep, ToldStep, ClaimsStep, RefundableStep,
   ReasonsStep, RefundsStep, HeldStep, ShownStep DEF IInv

LEMMA Invariant == Spec => []IInv
BY Initially, Inductive, PTL DEF Spec

\* Every variable keeps its type, and everything on the wire is a message of
\* the contract.
THEOREM TypeCorrect == Spec => []TypeOK
BY Invariant, PTL DEF IInv

\* Whatever was lost, repeated, late or refused, what the wrappers told the
\* issuer of its reports agrees with t-0's books (OutcomesAreTrue).
THEOREM OutcomesTrue == Spec => []OutcomesAreTrue
<1>1. IInv => OutcomesAreTrue
  BY DEF IInv, ToldTheTruth, BooksFit, Hopeless, Settling, OutcomesAreTrue
<1>2. QED
  BY <1>1, Invariant, PTL

\* While a customer may still pay, the issuer holds the address shown
\* (ShownAddressIsHeld).
THEOREM AddressHeld == Spec => []ShownAddressIsHeld
<1>1. IInv => ShownAddressIsHeld
  BY DEF IInv
<1>2. QED
  BY <1>1, Invariant, PTL

-----------------------------------------------------------------------------
(* Refinement: a transfer is put down to one sale, and forwarded or        *)
(* returned.                                                               *)

\* The deposit of i is the issuer's to return.
Returnable(i) ==
    /\ body[i] # Unset
    /\ \/ outcome[i] = "rejected" /\ reason[i] \in RefundReasons
       \/ outcome[i] = "accepted" /\ body[i].outcome # Authorized

LEMMA DepositsFit ==
    ASSUME IInv, NEW i \in Intents, body[i] # Unset
    PROVE  DepositOf(i) \in Deposits /\ body[i].paymentIntentId = i
BY DEF IInv, BodiesFit, DepositOf, PaymentReceivedRequest, UsdtOnChainPayment

LEMMA PaidIsDeposit ==
    ASSUME IInv, NEW i \in Intents
    PROVE  /\ book[i] # Unset => body[i] # Unset /\ PaidBy(i) = DepositOf(i) /\ PaidBy(i) \in Deposits
           /\ book[i] = Unset => PaidBy(i) = Unset
BY DepositsFit DEF IInv, BooksFit, PaidBy, DepositOf

\* A deposit to be returned was recorded for no sale but, where the issuer
\* would not process it, its own; nor will it be.
LEMMA ReturnableIsFree ==
    ASSUME IInv, NEW i \in Intents, Returnable(i),
           NEW j \in Intents, body[j] # Unset, DepositOf(j) = DepositOf(i)
    PROVE  /\ book[j] # Unset => j = i /\ body[j].outcome # Authorized
           /\ Returnable(j) => j = i
           /\ book[j] = Unset => ReportVerdict(body[j]) # Accepted
<1>1. ASSUME NEW k \in Intents, outcome[k] = "rejected", reason[k] \in RefundReasons
      PROVE  Alone(k) /\ Hopeless(k) /\ outcome[k] # "accepted"
  <2>1. Refundable(k)
    BY <1>1 DEF IInv, ReasonsWereGiven
  <2>2. QED
    BY <2>1, RefundableIsHopeless DEF IInv, RefundableIsAlone
<1>2. ASSUME NEW k \in Intents, outcome[k] = "accepted" PROVE book[k] # Unset /\ book[k] = body[k]
  BY <1>2 DEF IInv, ToldTheTruth, BooksFit
<1>3. CASE outcome[i] = "rejected" /\ reason[i] \in RefundReasons
  <2>1. j = i
    BY <1>1, <1>3 DEF Alone
  <2>2. QED
    BY <1>1, <1>3, <2>1 DEF Hopeless
<1>4. CASE outcome[i] = "accepted" /\ body[i].outcome # Authorized
  <2>1. book[i] # Unset /\ book[i] = body[i]
    BY <1>2, <1>4
  <2>2. book[j] # Unset => j = i
    BY <2>1, PaidIsDeposit DEF IInv, BookedOnce
  <2>3. Returnable(j) => j = i
    BY <1>1, <1>2, <2>2 DEF Returnable, Alone
  <2>4. book[j] = Unset => ReportVerdict(body[j]) # Accepted
    <3>1. SUFFICES ASSUME book[j] = Unset PROVE ReportVerdict(body[j]) # Accepted
      OBVIOUS
    <3>2. body[j].paymentIntentId = j /\ j # i
      BY <2>1, <3>1, DepositsFit
    <3>3. RecordedElsewhere(body[j])
      BY <2>1, <3>2 DEF RecordedElsewhere, DepositOf
    <3>4. QED
      BY <3>1, <3>2, <3>3, AnswerKinds DEF ReportVerdict
  <2>5. QED
    BY <1>4, <2>2, <2>3, <2>4
<1>5. QED
  BY <1>3, <1>4 DEF Returnable

LEMMA RefundedIsReturnable ==
    ASSUME IInv, NEW i \in refunded
    PROVE  i \in Intents /\ Returnable(i)
BY DEF IInv, TypeOK, RefundsFit, Returnable

LEMMA CoveredIsBooked ==
    ASSUME IInv, NEW i \in Covered
    PROVE  /\ i \in Intents /\ Owed(i) /\ book[i] # Unset /\ body[i] # Unset
           /\ body[i].outcome = Authorized /\ PaidBy(i) = DepositOf(i)
BY CoveredIsSettling, OwedIsSettling, PaidIsDeposit DEF Covered

\* What a settlement covers is nobody's to return, and the other way round.
LEMMA OwedIsNotReturnable ==
    ASSUME IInv, NEW i \in Intents, Owed(i), NEW j \in Intents, Returnable(j)
    PROVE  DepositOf(i) # DepositOf(j)
<1>1. body[i] # Unset /\ book[i] # Unset /\ body[i].outcome = Authorized
  BY OwedIsSettling
<1>2. QED
  BY <1>1, ReturnableIsFree

\* Where the money is.
LEMMA MoneyOfOwed ==
    ASSUME IInv, NEW i \in Intents, Owed(i)
    PROVE  /\ PaidBy(i) = DepositOf(i) /\ PaidBy(i) \in Deposits
           /\ i \in Covered => MoneyOf(PaidBy(i)) = "forwarded"
           /\ i \notin Covered => MoneyOf(PaidBy(i)) = "held"
<1>1. book[i] # Unset /\ PaidBy(i) = DepositOf(i) /\ PaidBy(i) \in Deposits
  BY OwedIsSettling, PaidIsDeposit
<1>2. ~ \E j \in refunded : DepositOf(j) = DepositOf(i)
  BY RefundedIsReturnable, OwedIsNotReturnable
<1>3. \A j \in Covered : DepositOf(j) = DepositOf(i) => j = i
  BY <1>1, CoveredIsBooked DEF IInv, BookedOnce
<1>4. QED
  BY <1>1, <1>2, <1>3 DEF MoneyOf

LEMMA CoveredChanges ==
    ASSUME IInv, [Next]_vars, ~ \E s \in Settlements : Broadcast(s)
    PROVE  Covered' = Covered
<1>0. body \in [Keys -> PaymentReceivedRequest \cup SettlementSentRequest \cup {Unset}]
  BY DEF IInv, TypeOK
<1>1. \A s \in Settlements : body'[s] = body[s]
  BY <1>0, BodyChanges, KeysAssumption DEF ClaimDeposit, Keys
<1>2. QED
  BY <1>1 DEF Covered

LEMMA MoneyStays ==
    ASSUME IInv, [Next]_vars, UNCHANGED refunded, ~ \E s \in Settlements : Broadcast(s)
    PROVE  \A d \in Deposits : MoneyOf(d)' = MoneyOf(d)
<1>1. Covered' = Covered
  BY CoveredChanges
<1>2. \A i \in refunded \cup Covered : DepositOf(i)' = DepositOf(i)
  BY RefundedIsReturnable, CoveredIsBooked, BodiesStay DEF Returnable, DepositOf, Keys
<1>3. QED
  BY <1>1, <1>2 DEF MoneyOf

LEMMA SaleStutters ==
    ASSUME \A i \in Intents : StageOf(i)' = StageOf(i) /\ PaidBy(i)' = PaidBy(i),
           \A d \in Deposits : MoneyOf(d)' = MoneyOf(d)
    PROVE  UNCHANGED Sale!vars
BY DEF Sale!vars

\* Steps that move no sale and no money.
LEMMA SaleUntouched ==
    ASSUME IInv, [Next]_vars, UNCHANGED <<status, book, refunded>>,
           ~ \E s \in Settlements : Broadcast(s)
    PROVE  UNCHANGED Sale!vars
BY MoneyStays, SaleStutters DEF StageOf, PaidBy

LEMMA SaleOffers ==
    ASSUME IInv, [Next]_vars, NEW i \in Intents, TakeInstructions(i) \/ DeclineIntent(i)
    PROVE  Sale!Next
<1>0. status \in [Intents -> Statuses]
  BY DEF IInv, TypeOK
<1>1. /\ status[i] = "asking" /\ UNCHANGED <<book, refunded, body>>
      /\ \E answer \in {"open", "declined"} : status' = [status EXCEPT ![i] = answer]
  BY DEF TakeInstructions, DeclineIntent, reports
<1>2. \A d \in Deposits : MoneyOf(d)' = MoneyOf(d)
  BY <1>1 DEF MoneyOf, Covered, DepositOf
<1>3. \A j \in Intents : PaidBy(j)' = PaidBy(j)
  BY <1>1 DEF PaidBy
<1>4. /\ StageOf(i) = "none"
      /\ StageOf(i)' \in {"offered", "declined"}
      /\ \A j \in Intents \ {i} : StageOf(j)' = StageOf(j)
  BY <1>0, <1>1 DEF StageOf
<1>5. Sale!Offer(i)
  BY <1>2, <1>3, <1>4 DEF Sale!Offer
<1>6. QED
  BY <1>5 DEF Sale!Next

LEMMA SaleExpires ==
    ASSUME IInv, [Next]_vars, NEW i \in Intents, Expire(i)
    PROVE  Sale!Next
<1>0. status \in [Intents -> Statuses]
  BY DEF IInv, TypeOK
<1>1. /\ status[i] = "open" /\ UNCHANGED <<book, refunded, body>>
      /\ status' = [status EXCEPT ![i] = "expired"]
  BY DEF Expire, reports
<1>2. \A d \in Deposits : MoneyOf(d)' = MoneyOf(d)
  BY <1>1 DEF MoneyOf, Covered, DepositOf
<1>3. \A j \in Intents : PaidBy(j)' = PaidBy(j)
  BY <1>1 DEF PaidBy
<1>4. /\ StageOf(i) = "offered" /\ StageOf(i)' = "expired"
      /\ \A j \in Intents \ {i} : StageOf(j)' = StageOf(j)
  BY <1>0, <1>1 DEF StageOf
<1>5. Sale!Expire(i)
  BY <1>2, <1>3, <1>4 DEF Sale!Expire
<1>6. QED
  BY <1>5 DEF Sale!Next

LEMMA SaleIsPaid ==
    ASSUME IInv, [Next]_vars, NEW m \in Calls("paymentReceived"), PaymentReceived(m)
    PROVE  Sale!Next \/ UNCHANGED Sale!vars
<1>0. /\ status \in [Intents -> Statuses] /\ TypeOK /\ ReportsAreBodies
      /\ book \in [Intents -> PaymentReceivedRequest \cup {Unset}]
  BY DEF IInv, TypeOK
<1>1. UNCHANGED <<refunded, body>>
  BY DEF PaymentReceived, reports
<1>2. \A d \in Deposits : MoneyOf(d)' = MoneyOf(d)
  BY <1>1 DEF MoneyOf, Covered, DepositOf
<1> DEFINE i == m.request.paymentIntentId
<1>3. i \in Intents /\ m.request = body[i] /\ body[i] # Unset
  BY OldReports DEF Calls
<1>4. \/ UNCHANGED <<book, status>>
      \/ /\ book[i] = Unset /\ status[i] = "open"
         /\ ReportVerdict(body[i]) = Accepted /\ ~RecordedElsewhere(body[i])
         /\ book' = [book EXCEPT ![i] = body[i]]
         /\ \E verdict \in {"authorized", "failed"} : status' = [status EXCEPT ![i] = verdict]
  BY <1>0, <1>3, ReportBooked
<1> HIDE DEF i
<1>5. CASE UNCHANGED <<book, status>>
  BY <1>2, <1>5, SaleStutters DEF StageOf, PaidBy
<1>6. CASE /\ book[i] = Unset /\ status[i] = "open"
           /\ ReportVerdict(body[i]) = Accepted /\ ~RecordedElsewhere(body[i])
           /\ book' = [book EXCEPT ![i] = body[i]]
           /\ \E verdict \in {"authorized", "failed"} : status' = [status EXCEPT ![i] = verdict]
  <2> DEFINE d == DepositOf(i)
  <2>1. d \in Deposits /\ body[i].paymentIntentId = i
    BY <1>3, DepositsFit
  <2>2. PaidBy(i)' = d /\ \A j \in Intents \ {i} : PaidBy(j)' = PaidBy(j)
    BY <1>0, <1>3, <1>6 DEF PaidBy, DepositOf
  <2>3. \A j \in Intents : PaidBy(j) # d
    <3>1. PaidBy(i) # d
      BY <1>6, <2>1, KeysAssumption DEF PaidBy
    <3>2. \A j \in Intents \ {i} : book[j] # Unset => book[j].paymentMethod.onChainTxHash # d
      BY <1>6, <2>1 DEF RecordedElsewhere, DepositOf
    <3>3. QED
      BY <2>1, <3>1, <3>2, KeysAssumption DEF PaidBy
  <2>4. ~ \E j \in Covered : DepositOf(j) = d
    BY <2>3, CoveredIsBooked
  <2>5. ~ \E j \in refunded : DepositOf(j) = d
    BY <1>3, <1>6, RefundedIsReturnable, ReturnableIsFree
  <2>6. MoneyOf(d) = "held"
    BY <2>4, <2>5 DEF MoneyOf
  <2>7. /\ StageOf(i) = "offered" /\ StageOf(i)' \in {"authorized", "failed"}
        /\ \A j \in Intents \ {i} : StageOf(j)' = StageOf(j)
    BY <1>0, <1>3, <1>6 DEF StageOf
  <2> HIDE DEF d
  <2>8. Sale!Pay(i, d)
    BY <1>2, <1>3, <2>1, <2>2, <2>3, <2>6, <2>7 DEF Sale!Pay
  <2>9. QED
    BY <1>3, <2>1, <2>8 DEF Sale!Next
<1>7. QED
  BY <1>4, <1>5, <1>6

LEMMA SaleIsSettled ==
    ASSUME IInv, [Next]_vars, NEW m \in Calls("settlementSent"), VerifySettlement(m)
    PROVE  Sale!Next
<1>0. status \in [Intents -> Statuses]
  BY DEF IInv, TypeOK
<1> DEFINE S == m.request.settledPaymentIntentIds
           s == m.request.settlementRef
<1>1. /\ UNCHANGED <<refunded, body, book>>
      /\ \A i \in S : status[i] = "authorized"
      /\ status' = [i \in Intents |-> IF i \in S THEN "cleared" ELSE status[i]]
  BY DEF VerifySettlement, reports
<1>2. s \in Settlements /\ m.request = body[s] /\ body[s] # Unset /\ S \subseteq Intents
  BY OldReports DEF Calls
<1>3. S # {}
  <2>1. body[s] \in SettlementSentRequest
    BY <1>2 DEF IInv, BodiesFit
  <2>2. QED
    BY <1>2, <2>1 DEF SettlementSentRequest
<1>4. \A i \in S : i \in Covered /\ Owed(i)
  BY <1>2, CoveredIsSettling DEF Covered
<1> HIDE DEF S, s
<1>5. \A i \in S : /\ StageOf(i) = "authorized" /\ StageOf(i)' = "settled"
                   /\ PaidBy(i) \in Deposits /\ MoneyOf(PaidBy(i)) = "forwarded"
  BY <1>1, <1>2, <1>4, MoneyOfOwed DEF StageOf
<1>6. \A i \in Intents \ S : StageOf(i)' = StageOf(i)
  BY <1>0, <1>1 DEF StageOf
<1>7. \A i \in Intents : PaidBy(i)' = PaidBy(i)
  BY <1>1 DEF PaidBy
<1>8. \A d \in Deposits : MoneyOf(d)' = MoneyOf(d)
  BY <1>1 DEF MoneyOf, Covered, DepositOf
<1>9. Sale!Settle(S)
  BY <1>2, <1>3, <1>5, <1>6, <1>7, <1>8 DEF Sale!Settle
<1>10. QED
  BY <1>2, <1>9 DEF Sale!Next

LEMMA SaleIsForwarded ==
    ASSUME IInv, [Next]_vars, NEW s \in Settlements, Broadcast(s)
    PROVE  Sale!Next
<1>0. body \in [Keys -> PaymentReceivedRequest \cup SettlementSentRequest \cup {Unset}]
  BY DEF IInv, TypeOK
<1>1. PICK S \in SUBSET {i \in Intents \ Covered : Owed(i)}, wallet \in {"acquirer", "lp"} :
        /\ S # {}
        /\ body' = [body EXCEPT ![s] =
                      [settlementRef |-> s, settledPaymentIntentIds |-> S,
                       settlement |-> [onChainTxHash |-> s, destinationAddress |-> wallet]]]
  BY DEF Broadcast
<1>2. body[s] = Unset /\ UNCHANGED <<status, book, refunded>>
  BY DEF Broadcast, ledger
<1> DEFINE b == [settlementRef |-> s, settledPaymentIntentIds |-> S,
                 settlement |-> [onChainTxHash |-> s, destinationAddress |-> wallet]]
<1>3. b.settledPaymentIntentIds = S
  OBVIOUS
<1>4. b # Unset
  <2>1. b \in SettlementSentRequest
    BY <1>1 DEF SettlementSentRequest, OnChainSettlementDetails
  <2>2. QED
    BY <2>1, KeysAssumption
<1>5. body'[s] = b /\ \A t \in Settlements \ {s} : body'[t] = body[t]
  BY <1>0, <1>1 DEF Keys
<1> HIDE DEF b
<1>6. Covered' = Covered \cup S
  BY <1>2, <1>3, <1>4, <1>5 DEF Covered
<1>7. \A i \in refunded \cup Covered \cup S : i \in Intents /\ DepositOf(i)' = DepositOf(i)
  BY <1>1, RefundedIsReturnable, CoveredIsBooked, OwedIsSettling, BodiesStay
  DEF Returnable, DepositOf, Keys
<1>8. \A i \in S : /\ i \in Intents /\ StageOf(i) \in {"authorized", "settled"}
                   /\ PaidBy(i) = DepositOf(i) /\ PaidBy(i) \in Deposits
                   /\ MoneyOf(PaidBy(i)) = "held"
  BY <1>1, MoneyOfOwed, OwedIsSettling DEF StageOf, Settling
<1>9. ASSUME NEW d \in Deposits
      PROVE  MoneyOf(d)' = IF \E i \in S : PaidBy(i) = d THEN "forwarded" ELSE MoneyOf(d)
  <2>1. (\E i \in refunded : DepositOf(i) = d)' <=> \E i \in refunded : DepositOf(i) = d
    BY <1>2, <1>7
  <2>2. (\E i \in Covered : DepositOf(i) = d)'
          <=> (\E i \in Covered : DepositOf(i) = d) \/ \E i \in S : PaidBy(i) = d
    BY <1>6, <1>7, <1>8
  <2>3. (\E i \in S : PaidBy(i) = d) => ~ \E i \in refunded : DepositOf(i) = d
    BY <1>8 DEF MoneyOf
  <2>4. QED
    BY <2>1, <2>2, <2>3 DEF MoneyOf
<1>10. \A i \in Intents : StageOf(i)' = StageOf(i) /\ PaidBy(i)' = PaidBy(i)
  BY <1>2 DEF StageOf, PaidBy
<1>11. Sale!Forward(S)
  BY <1>1, <1>8, <1>9, <1>10 DEF Sale!Forward, Sale!Settling
<1>12. QED
  BY <1>1, <1>11 DEF Sale!Next

LEMMA SaleIsReturned ==
    ASSUME IInv, [Next]_vars, NEW i \in Intents, Refund(i)
    PROVE  Sale!Next
<1>1. /\ Returnable(i) /\ i \notin refunded /\ refunded' = refunded \cup {i}
      /\ UNCHANGED <<status, book, body>>
  BY DEF Refund, Returnable, ledger, reports
<1> DEFINE d == DepositOf(i)
<1>2. d \in Deposits
  BY <1>1, DepositsFit DEF Returnable
<1>3. ~ \E j \in refunded : DepositOf(j) = d
  BY <1>1, RefundedIsReturnable, ReturnableIsFree DEF Returnable
<1>4. ~ \E j \in Covered : DepositOf(j) = d
  BY <1>1, CoveredIsBooked, OwedIsNotReturnable
<1>5. MoneyOf(d) = "held"
  BY <1>3, <1>4 DEF MoneyOf
<1>6. ASSUME NEW j \in Intents, PaidBy(j) = d
      PROVE  StageOf(j) \notin {"authorized", "settled"}
  <2>1. book[j] # Unset /\ body[j] # Unset /\ DepositOf(j) = d
    BY <1>2, <1>6, PaidIsDeposit, KeysAssumption
  <2>2. book[j] = body[j] /\ body[j].outcome # Authorized
    BY <1>1, <2>1, ReturnableIsFree DEF IInv, BooksFit
  <2>3. status[j] = "failed"
    BY <2>1, <2>2 DEF IInv, BooksFit
  <2>4. QED
    BY <2>3 DEF StageOf
<1>7. Covered' = Covered
  BY <1>1 DEF Covered
<1>8. ASSUME NEW e \in Deposits PROVE MoneyOf(e)' = IF e = d THEN "returned" ELSE MoneyOf(e)
  BY <1>1, <1>7 DEF MoneyOf, DepositOf
<1>9. \A j \in Intents : StageOf(j)' = StageOf(j) /\ PaidBy(j)' = PaidBy(j)
  BY <1>1 DEF StageOf, PaidBy
<1> HIDE DEF d
<1>10. Sale!Return(d)
  BY <1>2, <1>5, <1>6, <1>8, <1>9 DEF Sale!Return, Sale!Settling
<1>11. QED
  BY <1>2, <1>10 DEF Sale!Next

LEMMA SaleOpens ==
    ASSUME IInv, [Next]_vars, NEW i \in Intents, OpenIntent(i)
    PROVE  UNCHANGED Sale!vars
<1>0. status \in [Intents -> Statuses]
  BY DEF IInv, TypeOK
<1>1. /\ status[i] = "none" /\ status' = [status EXCEPT ![i] = "asking"]
      /\ UNCHANGED <<book, refunded, body>>
  BY DEF OpenIntent, reports
<1>2. \A d \in Deposits : MoneyOf(d)' = MoneyOf(d)
  BY <1>1 DEF MoneyOf, Covered, DepositOf
<1>3. \A j \in Intents : StageOf(j)' = StageOf(j) /\ PaidBy(j)' = PaidBy(j)
  BY <1>0, <1>1 DEF StageOf, PaidBy
<1>4. QED
  BY <1>2, <1>3, SaleStutters

LEMMA InitSale == Init => Sale!Init
<1> SUFFICES ASSUME Init PROVE Sale!Init
  OBVIOUS
<1>1. \A i \in Intents : StageOf(i) = "none" /\ PaidBy(i) = Unset
  BY DEF Init, StageOf, PaidBy
<1>2. Covered = {} /\ refunded = {}
  BY KeysAssumption DEF Init, Covered, Keys
<1>3. \A d \in Deposits : MoneyOf(d) = "held"
  BY <1>2 DEF MoneyOf
<1>4. QED
  BY <1>1, <1>3 DEF Sale!Init

LEMMA NextSale == IInv /\ [Next]_vars => [Sale!Next]_(Sale!vars)
<1> SUFFICES ASSUME IInv, [Next]_vars PROVE Sale!Next \/ UNCHANGED Sale!vars
  OBVIOUS
<1>1. CASE \E s \in Settlements : Broadcast(s)
  BY <1>1, SaleIsForwarded
<1>2. CASE \E i \in Intents : Refund(i)
  BY <1>2, SaleIsReturned
<1>3. CASE ~UNCHANGED <<status, deadline>>
  BY <1>3, StatusChanges, SaleOpens, SaleOffers, SaleExpires, SaleIsPaid, SaleIsSettled
<1>4. CASE ~UNCHANGED book
  BY <1>4, BookChanges, SaleIsPaid
<1>5. CASE /\ ~ \E s \in Settlements : Broadcast(s)
           /\ ~ \E i \in Intents : Refund(i)
           /\ UNCHANGED <<status, deadline, book>>
  BY <1>5, RefundedChanges, SaleUntouched
<1>6. QED
  BY <1>1, <1>2, <1>3, <1>4, <1>5

\* Whatever was lost, repeated, late or refused, a transfer pays for one sale
\* at most, and is forwarded for it or returned, never both (KeepsSalePromise).
THEOREM Refinement == Spec => KeepsSalePromise
BY InitSale, NextSale, Invariant, PTL DEF Spec, Sale!Spec, KeepsSalePromise

-----------------------------------------------------------------------------
(* What the promise comes to, argued on SalePromise alone.                 *)

SaleInv == Sale!TypeOK /\ Sale!MoneyIsWhereItBelongs

LEMMA SaleInvInit == Sale!Init => SaleInv
BY DEF SaleInv, Sale!Init, Sale!TypeOK, Sale!MoneyIsWhereItBelongs, Sale!Settling

LEMMA SaleInvStep == SaleInv /\ [Sale!Next]_(Sale!vars) => SaleInv'
<1> DEFINE stage == [i \in Intents |-> StageOf(i)]
           paidBy == [i \in Intents |-> PaidBy(i)]
           money == [d \in Deposits |-> MoneyOf(d)]
           StageFits == stage \in [Intents -> {"none", "offered", "declined", "expired",
                                            "authorized", "failed", "settled"}]
           PaidByFits == paidBy \in [Intents -> Deposits \cup {Unset}]
           MoneyFits == money \in [Deposits -> {"held", "forwarded", "returned"}]
           SettlesPaid == \A i \in Intents : stage[i] \in {"authorized", "settled"} =>
                             paidBy[i] \in Deposits
           PaysOnce == \A i, j \in Intents : i # j /\ paidBy[i] = paidBy[j] => paidBy[i] = Unset
           SettledWentOn == \A i \in Intents : stage[i] = "settled" => money[paidBy[i]] = "forwarded"
           WentOnForASale == \A d \in Deposits : money[d] = "forwarded" =>
                                \E i \in Intents : paidBy[i] = d /\ stage[i] \in {"authorized", "settled"}
           Fits == /\ StageFits /\ PaidByFits /\ MoneyFits
                   /\ SettlesPaid /\ PaysOnce /\ SettledWentOn /\ WentOnForASale
<1> SUFFICES ASSUME SaleInv, Sale!Next \/ UNCHANGED Sale!vars
             PROVE  SaleInv'
  OBVIOUS
<1>1. Fits
  BY DEF SaleInv, Sale!TypeOK, Sale!MoneyIsWhereItBelongs, Sale!Settling
<1>2. ASSUME NEW i \in Intents, Sale!Offer(i) \/ Sale!Expire(i)
      PROVE  /\ paidBy' = paidBy /\ money' = money
             /\ \E s \in {"offered", "declined", "expired"} : stage' = [stage EXCEPT ![i] = s]
             /\ stage[i] \in {"none", "offered"}
  BY <1>2 DEF Sale!Offer, Sale!Expire
<1>3. ASSUME NEW i \in Intents, NEW d \in Deposits, Sale!Pay(i, d)
      PROVE  /\ stage[i] = "offered" /\ money[d] = "held" /\ money' = money
             /\ \A j \in Intents : paidBy[j] # d
             /\ \E s \in {"authorized", "failed"} : stage' = [stage EXCEPT ![i] = s]
             /\ paidBy' = [paidBy EXCEPT ![i] = d]
  BY <1>3 DEF Sale!Pay
<1>4. ASSUME NEW S \in SUBSET Intents, Sale!Forward(S)
      PROVE  /\ \A i \in S : stage[i] \in {"authorized", "settled"}
             /\ money' = [d \in Deposits |-> IF \E i \in S : paidBy[i] = d
                                               THEN "forwarded" ELSE money[d]]
             /\ stage' = stage /\ paidBy' = paidBy
  BY <1>4 DEF Sale!Forward, Sale!Settling
<1>5. ASSUME NEW d \in Deposits, Sale!Return(d)
      PROVE  /\ money[d] = "held" /\ money' = [money EXCEPT ![d] = "returned"]
             /\ stage' = stage /\ paidBy' = paidBy
  BY <1>5 DEF Sale!Return
<1>6. ASSUME NEW S \in SUBSET Intents, Sale!Settle(S)
      PROVE  /\ \A i \in S : stage[i] = "authorized" /\ money[paidBy[i]] = "forwarded"
             /\ stage' = [i \in Intents |-> IF i \in S THEN "settled" ELSE stage[i]]
             /\ paidBy' = paidBy /\ money' = money
  BY <1>6 DEF Sale!Settle
<1>7. UNCHANGED Sale!vars => stage' = stage /\ paidBy' = paidBy /\ money' = money
  BY DEF Sale!vars
<1>8. \/ \E i \in Intents : Sale!Offer(i) \/ Sale!Expire(i)
      \/ \E i \in Intents, d \in Deposits : Sale!Pay(i, d)
      \/ \E S \in SUBSET Intents : Sale!Forward(S)
      \/ \E S \in SUBSET Intents : Sale!Settle(S)
      \/ \E d \in Deposits : Sale!Return(d)
      \/ UNCHANGED Sale!vars
  BY DEF Sale!Next
<1>9. Fits' => SaleInv'
  <2>1. ASSUME Fits' PROVE Sale!TypeOK'
    BY <2>1 DEF Sale!TypeOK, Sale!Settling
  <2>2. ASSUME Fits' PROVE Sale!MoneyIsWhereItBelongs'
    <3>1. PaysOnce' /\ SettledWentOn' /\ WentOnForASale'
      BY <2>2
    <3>2. QED
      BY <3>1 DEF Sale!MoneyIsWhereItBelongs, Sale!Settling
  <2>3. QED
    BY <2>1, <2>2 DEF SaleInv
<1> HIDE DEF stage, paidBy, money
<1> SUFFICES Fits'
  BY <1>9
<1>10. CASE \E i \in Intents : Sale!Offer(i) \/ Sale!Expire(i)
  BY <1>1, <1>2, <1>10
<1>11. CASE \E i \in Intents, d \in Deposits : Sale!Pay(i, d)
  BY <1>1, <1>3, <1>11
<1>12. CASE \E S \in SUBSET Intents : Sale!Forward(S)
  BY <1>1, <1>4, <1>12
<1>13. CASE \E S \in SUBSET Intents : Sale!Settle(S)
  BY <1>1, <1>6, <1>13
<1>14. CASE \E d \in Deposits : Sale!Return(d)
  BY <1>1, <1>5, <1>14
<1>15. CASE UNCHANGED Sale!vars
  BY <1>1, <1>7, <1>15
<1> QED
  BY <1>8, <1>10, <1>11, <1>12, <1>13, <1>14, <1>15

\* So, whatever becomes of the issuer's reports, no transfer pays for two
\* sales, none goes on but for a sale it settles, and a settled sale's did.
THEOREM MoneyArrives == Spec => []Sale!MoneyIsWhereItBelongs
<1>1. SaleInv => Sale!MoneyIsWhereItBelongs
  BY DEF SaleInv
<1>2. KeepsSalePromise => []SaleInv
  BY SaleInvInit, SaleInvStep, PTL DEF KeepsSalePromise, Sale!Spec
<1> QED
  BY <1>1, <1>2, Refinement, PTL
=============================================================================

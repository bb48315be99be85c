---------------------------- MODULE FiatReceipt ----------------------------
(***************************************************************************)
(* The far end of a fiat payment.  Once t-0 has recorded the LP's transfer *)
(* it calls SettlementInitiated on the acquirer, at least once; the        *)
(* acquirer finds the announced transfer on its bank statement and         *)
(* confirms it with SettlementReceived, whose wrapper (module Outcome)     *)
(* says whether to send the same confirmation again.  The statement may be *)
(* misread, the bank may credit another amount, and t-0 may refuse a       *)
(* confirmation, for what it says or unread.  With the LP's side (module   *)
(* FiatLeg) this is a fiat payment from the command to the books.          *)
(***************************************************************************)
EXTENDS FiatLeg, AcquirerEdge

CONSTANTS
    Lang,      \* the language of the acquirer's starter
    IntentOf,  \* IntentOf[e]: the intent execution e pays
    Currency,  \* the currency of the transfers
    Moved,     \* Moved[t]: what the LP reported that transfer t moves
    Credited,  \* Credited[t]: what the acquirer's bank credits for it
    Readings   \* what an acquirer may take an amount on its statement for

ASSUME ReceiptAssumption ==
    /\ Lang \in AcquirerLangs
    /\ IntentOf \in [Executions -> Intents]
    /\ Currency \in STRING
    /\ Moved \in [Transfers -> Decimal]
    /\ Readings \subseteq Decimal
    /\ Credited \in [Transfers -> Readings]

VARIABLES
    post,      \* what t-0 and the acquirer ever sent each other
    reading,   \* reading[t]: the amount the acquirer takes t for, once it looks
    receipt,   \* receipt[t]: the last outcome of confirming transfer t
    turnedAway \* history: transfers a confirmation of which t-0 refused unread

acquirerVars == <<post, reading, receipt, turnedAway>>
allVars == <<vars, acquirerVars>>

ReceiptTypeOK ==
    /\ TypeOK
    /\ post \subseteq AcquirerService \cup AcquirerCallbackService
    /\ reading \in [Transfers -> Readings \cup {Unset}]
    /\ receipt \in [Transfers -> {"none", "calling"} \cup Outcomes]
    /\ turnedAway \subseteq Transfers

ReceiptInit ==
    /\ Init
    /\ post = {}
    /\ reading = [t \in Transfers |-> Unset]
    /\ receipt = [t \in Transfers |-> "none"]
    /\ turnedAway = {}

Message(rpc, request, response) == [rpc |-> rpc, request |-> request, response |-> response]

-----------------------------------------------------------------------------
(* The announcement.                                                       *)

Initiated(t) ==
    [fiatSettlementId |-> t, bankTransferRef |-> t,
     settledPaymentIntentIds |-> {IntentOf[e] : e \in content[t]},
     local |-> [value |-> Moved[t], currency |-> Currency]]

\* The handler logs the event and acknowledges it.  Bound: t-0 waits until
\* the LP has stopped reporting, on which the acquirer's side has no bearing.
SettlementInitiated(t) ==
    /\ t \in recorded
    /\ \A u \in Transfers : content[u] # {} => report[u] \in Decisions    \* bound
    /\ post' = post \cup {Message("settlementInitiated", Initiated(t), Empty)}
    /\ UNCHANGED <<vars, reading, receipt, turnedAway>>

Told(t) == Message("settlementInitiated", Initiated(t), Empty) \in post

-----------------------------------------------------------------------------
(* The confirmation.                                                       *)

Received(t, amount) ==
    [bankTransferRef |-> t, localCurrency |-> Currency, amountReceived |-> amount]

Confirmation(t, amount, response) ==
    Message("settlementReceived", Received(t, amount), response)

Send(t) ==
    /\ receipt' = [receipt EXCEPT ![t] = "calling"]
    /\ post' = post \cup {Confirmation(t, reading'[t], Pending)}
    /\ UNCHANGED <<vars, turnedAway>>

\* The acquirer finds the transfer on its statement, where it may misread it.
Find(t) ==
    /\ Told(t)
    /\ receipt[t] = "none"
    /\ \E amount \in Readings : reading' = [reading EXCEPT ![t] = amount]
    /\ Send(t)

\* The same reference and content, until the outcome says to stop; a wrapper
\* that raised said nothing.
Confirm(t) ==
    /\ receipt[t] = "raised" \/ ShouldRetry(receipt[t])
    /\ UNCHANGED reading
    /\ Send(t)

Mismatch == [case |-> "rejected", reason |-> "AMOUNT_MISMATCH"]
Unknown == [case |-> "rejected", reason |-> "UNKNOWN_TRANSFER"]
Accepted == [case |-> "accepted"]

\* An acquirer that was told of a mismatch looks at its statement again.
Correct(t) ==
    /\ receipt[t] = "rejected"
    /\ Confirmation(t, reading[t], Mismatch) \in post
    /\ reading[t] # Credited[t]
    /\ reading' = [reading EXCEPT ![t] = Credited[t]]
    /\ Send(t)

\* A confirmation must name exactly what was announced (external).  Another
\* currency is refused the way another amount is.
ReceiptVerdict(t, amount) ==
    IF t \notin recorded THEN Unknown
    ELSE IF amount # Moved[t] THEN Mismatch
    ELSE Accepted

\* t-0 settles the intents of a transfer it knows, once (external).
SettlementReceived(t) ==
    /\ \E amount \in Readings :
         /\ Confirmation(t, amount, Pending) \in post
         /\ post' = post \cup {Confirmation(t, amount, ReceiptVerdict(t, amount))}
    /\ UNCHANGED <<vars, reading, receipt, turnedAway>>

Settled(t) == Confirmation(t, Moved[t], Accepted) \in post

Receipt(t, r) ==
    /\ receipt[t] = "calling"
    /\ receipt' = [receipt EXCEPT ![t] = ReceiptOutcome(Lang, r)]
    /\ UNCHANGED <<vars, post, reading>>

HearReceipt(t) ==
    /\ \/ Confirmation(t, reading[t], Accepted) \in post /\ Receipt(t, "success")
       \/ /\ \E r \in {Mismatch, Unknown} : Confirmation(t, reading[t], r) \in post
          /\ Receipt(t, "failure")
    /\ UNCHANGED turnedAway

\* The call ends without an answer, or with one that names no variant.
GiveUpReceipt(t) ==
    /\ \E r \in Faults \cup {Uncoded, "no_variant"} : Receipt(t, r)
    /\ UNCHANGED turnedAway

\* t-0 refuses with a status code, which says nothing of an earlier attempt.
RefuseReceipt(t) ==
    /\ \E r \in Refusals \cup {"failed_precondition"} : Receipt(t, r)
    /\ turnedAway' = turnedAway \cup {t}

-----------------------------------------------------------------------------
Receiving ==
    \E t \in Transfers :
      \/ SettlementInitiated(t) \/ SettlementReceived(t)
      \/ Find(t) \/ Confirm(t) \/ Correct(t)
      \/ HearReceipt(t) \/ GiveUpReceipt(t) \/ RefuseReceipt(t)

ReceiptNext == (Next /\ UNCHANGED acquirerVars) \/ Receiving

ReceiptFairness ==
    /\ Fairness
    /\ WF_allVars(\E t \in Transfers : SettlementInitiated(t) \/ SettlementReceived(t))
    /\ \A t \in Transfers :
         WF_allVars(Find(t) \/ Confirm(t) \/ Correct(t)) /\ SF_allVars(HearReceipt(t))

ReceiptSpec == ReceiptInit /\ [][ReceiptNext]_allVars /\ ReceiptFairness

-----------------------------------------------------------------------------
(* Properties.                                                             *)

\* The acquirer books a transfer as received only if t-0 settled it, and t-0
\* settles only what the LP was, or will be, told is accepted.  What the
\* acquirer was told is rejected t-0 did not settle, unless it refused a
\* repeat of the confirmation unread.
ReceiptIsTrue ==
    \A t \in Transfers :
      /\ receipt[t] = "accepted" => Settled(t)
      /\ Settled(t) => t \in recorded /\ (report[t] = "rejected" => t \in unread)
      /\ receipt[t] = "rejected" => ~Settled(t) \/ t \in turnedAway

\* In the end every wired transfer, even one whose report overtook the answer
\* to the command it pays for or whose amount was misread at first, is
\* recorded, announced and confirmed, so that both books agree it is settled,
\* unless another transfer paid the same execution, a report or a confirmation
\* of it was refused unread, or the bank credited another amount.
EveryTransferIsSettled ==
    <>[]\A t \in Transfers :
          \/ content[t] = {} \/ receipt[t] = "accepted"
          \/ AlreadyPaid(t) \/ t \in unread
          \/ receipt[t] = "rejected" /\ (t \in turnedAway \/ Credited[t] # Moved[t])
=============================================================================

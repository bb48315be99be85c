----------------------------- MODULE PayCommon -----------------------------
(***************************************************************************)
(* What the three edges of the pay contract share, as the generated code   *)
(* of the Node SDK declares it.  A message type is the set of the messages *)
(* the contract's validation lets through; a message is a record of its    *)
(* fields, a oneof a record with its case, an enum a set of strings        *)
(* without the zero value, which no valid message carries.                 *)
(*                                                                         *)
(* Left out of every message: moments nobody compares (receivedAt,         *)
(* settledAt and their like), labels echoed unread (paymentRef, the        *)
(* participants' ids), and the zero enum values.                           *)
(***************************************************************************)
EXTENDS Naturals

CONSTANTS
    Intents,      \* payment_intent_id, and the idempotency key it came under
    Executions,   \* execution_id
    Quotes,       \* quote_id, and the quote_ref it was published under
    Deposits,     \* hashes of the customers' transfers
    Settlements,  \* settlement_ref, and t-0's settlement_id for it
    Transfers,    \* bank_transfer_ref, and t-0's fiat_settlement_id for it
    Unset         \* an optional field that is absent

\* An amount is the value of its Decimal (module Decimals); the contract
\* takes none that is not greater than zero.
Decimal == Nat \ {0}

\* Moments on t-0's clock.
Moments == Nat

Blockchain == {"TRON", "ETH", "BSC", "POLYGON", "ARBITRUM", "PLASMA"}

FundsDisposition == {"RETURNED_TO_SENDER", "RETAINED_BY_ISSUER"}

PaymentFailureReason == {"AMOUNT_MISMATCH", "ISSUER_DECLINED"}

\* A customer's transfer; its hash fixes the sender.
UsdtOnChainPayment == [chain: Blockchain, onChainTxHash: Deposits]

\* The transfer that clears a settlement; its hash is the settlement's own.
OnChainSettlementDetails ==
    [onChainTxHash: Settlements, destinationAddress: {"acquirer", "lp"}]

-----------------------------------------------------------------------------
(* The shape every call has.                                               *)

\* The result oneof with no variant set.
NoVariant == [case |-> "undefined"]

\* A message without fields.
Empty == [case |-> "empty"]

Pending == [case |-> "pending"]

Failing(case, reasons) == [case: {case}, reason: reasons]

\* One RPC: its requests, each with the response to it once there is one.
Rpc(name, input, output) ==
    [rpc: {name}, request: input, response: output \cup {Pending}]
=============================================================================

----------------------------- MODULE IssuerEdge -----------------------------
(***************************************************************************)
(* The issuer's edge of the pay contract: the messages of IssuerService,   *)
(* which the issuer calls, and IssuerCallbackService, which t-0 calls.     *)
(***************************************************************************)
EXTENDS PayCommon

-----------------------------------------------------------------------------
(* PaymentReceived.                                                        *)

Authorized == [case |-> "authorized"]

Unprocessable ==
    [case: {"unprocessable"}, disposition: FundsDisposition, reason: PaymentFailureReason]

PaymentReceivedRequest ==
    [paymentIntentId: Intents,
     amountUsdt: Decimal,
     paymentMethod: UsdtOnChainPayment,
     outcome: {Authorized} \cup Unprocessable]

PaymentReceivedRejections ==
    {"INTENT_EXPIRED", "UNKNOWN_INTENT", "AMOUNT_MISMATCH",
     "TRANSFER_RECORDED_FOR_ANOTHER_INTENT"}

PaymentReceivedResponse ==
    [case: {"accepted"}] \cup Failing("rejected", PaymentReceivedRejections) \cup {NoVariant}

-----------------------------------------------------------------------------
(* SettlementSent.                                                         *)

\* The amount is the sum of the intents' amounts.
SettlementSentRequest ==
    [settlementRef: Settlements,
     settlement: OnChainSettlementDetails,
     settledPaymentIntentIds: (SUBSET Intents) \ {{}}]

SettlementSentRejections ==
    {"ON_CHAIN_UNCONFIRMED", "AMOUNT_MISMATCH", "WRONG_DESTINATION",
     "INTENT_NOT_SETTLEABLE", "SETTLEMENT_REF_CONFLICT"}

SettlementSentResponse ==
    [case: {"accepted"}] \cup Failing("rejected", SettlementSentRejections) \cup {NoVariant}

-----------------------------------------------------------------------------
(* CreatePaymentInstructions.                                              *)

\* expiresAt must lie ahead (gt_now) where it is set, but need not be set.
CreatePaymentInstructionsRequest ==
    [paymentIntentId: Intents, amountUsdt: Decimal, expiresAt: Moments \cup {Unset}]

DepositOption == [chain: Blockchain, depositAddress: STRING, tokenContract: STRING]

\* In the response expiresAt is required.
CreatePaymentInstructionsSuccess ==
    [case: {"success"}, depositOptions: (SUBSET DepositOption) \ {{}}, expiresAt: Moments]

CreatePaymentInstructionsFailures == {"ADDRESS_POOL_EMPTY", "AMOUNT_OUT_OF_RANGE"}

CreatePaymentInstructionsResponse ==
    CreatePaymentInstructionsSuccess
      \cup Failing("failure", CreatePaymentInstructionsFailures) \cup {NoVariant}

-----------------------------------------------------------------------------
IssuerService ==
    Rpc("paymentReceived", PaymentReceivedRequest, PaymentReceivedResponse)
      \cup Rpc("settlementSent", SettlementSentRequest, SettlementSentResponse)

IssuerCallbackService ==
    Rpc("createPaymentInstructions", CreatePaymentInstructionsRequest,
        CreatePaymentInstructionsResponse)
=============================================================================

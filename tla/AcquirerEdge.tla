---------------------------- MODULE AcquirerEdge ----------------------------
(***************************************************************************)
(* The acquirer's edge of the pay contract: the messages of                *)
(* AcquirerService, which the acquirer calls, and AcquirerCallbackService, *)
(* which t-0 calls at least once per event.                                *)
(***************************************************************************)
EXTENDS PayCommon

LocalAmount == [value: Decimal, currency: STRING]

\* The fiat terms a sale was opened on; Unset for a sale settled on-chain.
FiatSettlement == [quoteId: Quotes, fxRate: Decimal, local: LocalAmount]

FiatTerms == FiatSettlement \cup {Unset}

-----------------------------------------------------------------------------
(* GetPaymentQuote.                                                        *)

GetPaymentQuoteRequest == [localCurrency: STRING, localAmount: Decimal]

GetPaymentQuoteSuccess ==
    [case: {"success"}, quoteId: Quotes, settlementAmount: Decimal,
     fxRate: Decimal, expiresAt: Moments]

GetPaymentQuoteFailures == {"QUOTE_UNAVAILABLE"}

GetPaymentQuoteResponse ==
    GetPaymentQuoteSuccess \cup Failing("failure", GetPaymentQuoteFailures) \cup {NoVariant}

-----------------------------------------------------------------------------
(* CreatePaymentIntent.                                                    *)

\* A sale is denominated in USDt or in the currency it was quoted in.
SettlementAmount == [case: {"settlement"}, usdt: Decimal]

CreatePaymentIntentRequest ==
    [idempotencyKey: Intents,
     amount: SettlementAmount \cup [case: {"local"}, local: LocalAmount],
     quoteId: Quotes \cup {Unset}]

\* t-0 adds the token's decimals to what the issuer offered.
PaymentOption ==
    [chain: Blockchain, depositAddress: STRING, tokenContract: STRING, tokenDecimals: Nat]

UsdtOnChainInstructions == [depositOptions: (SUBSET PaymentOption) \ {{}}]

OnchainSettlement == [case |-> "onchain"]

CreatePaymentIntentSuccess ==
    [case: {"success"},
     paymentIntentId: Intents,
     expiresAt: Moments,
     settlementAmount: Decimal,
     instructions: UsdtOnChainInstructions,
     settlement: {OnchainSettlement} \cup [case: {"fiat"}, value: FiatSettlement]]

CreatePaymentIntentFailures ==
    {"ISSUER_UNAVAILABLE", "ADDRESS_POOL_EMPTY", "AMOUNT_OUT_OF_RANGE", "QUOTE_EXPIRED",
     "QUOTE_INSUFFICIENT_HEADROOM", "QUOTE_UNAVAILABLE"}

CreatePaymentIntentResponse ==
    CreatePaymentIntentSuccess
      \cup Failing("failure", CreatePaymentIntentFailures) \cup {NoVariant}

-----------------------------------------------------------------------------
(* SettlementReceived.                                                     *)

SettlementReceivedRequest ==
    [bankTransferRef: Transfers, localCurrency: STRING, amountReceived: Decimal]

SettlementReceivedRejections == {"AMOUNT_MISMATCH", "UNKNOWN_TRANSFER", "CURRENCY_MISMATCH"}

SettlementReceivedResponse ==
    [case: {"accepted"}] \cup Failing("rejected", SettlementReceivedRejections) \cup {NoVariant}

-----------------------------------------------------------------------------
(* The callbacks.                                                          *)

PaymentAuthorizedRequest ==
    [paymentIntentId: Intents, paymentMethod: UsdtOnChainPayment,
     settlementAmount: Decimal, fiatSettlement: FiatTerms]

SettlementInitiatedRequest ==
    [fiatSettlementId: Transfers, bankTransferRef: Transfers,
     settledPaymentIntentIds: (SUBSET Intents) \ {{}}, local: LocalAmount]

SettlementCompletedRequest ==
    [settlementId: Settlements, settledPaymentIntentIds: (SUBSET Intents) \ {{}},
     settlement: OnChainSettlementDetails]

PaymentExpiredRequest == [paymentIntentId: Intents, fiatSettlement: FiatTerms]

PaymentFailedRequest ==
    [paymentIntentId: Intents, amountUsdt: Decimal, paymentMethod: UsdtOnChainPayment,
     disposition: FundsDisposition, reason: PaymentFailureReason, fiatSettlement: FiatTerms]

PaymentAuthorizedResponse == {Empty}
SettlementInitiatedResponse == {Empty}
SettlementCompletedResponse == {Empty}
PaymentExpiredResponse == {Empty}
PaymentFailedResponse == {Empty}

-----------------------------------------------------------------------------
AcquirerService ==
    Rpc("getPaymentQuote", GetPaymentQuoteRequest, GetPaymentQuoteResponse)
      \cup Rpc("createPaymentIntent", CreatePaymentIntentRequest, CreatePaymentIntentResponse)
      \cup Rpc("settlementReceived", SettlementReceivedRequest, SettlementReceivedResponse)

AcquirerCallbackService ==
    Rpc("paymentAuthorized", PaymentAuthorizedRequest, PaymentAuthorizedResponse)
      \cup Rpc("settlementInitiated", SettlementInitiatedRequest, SettlementInitiatedResponse)
      \cup Rpc("settlementCompleted", SettlementCompletedRequest, SettlementCompletedResponse)
      \cup Rpc("paymentExpired", PaymentExpiredRequest, PaymentExpiredResponse)
      \cup Rpc("paymentFailed", PaymentFailedRequest, PaymentFailedResponse)
=============================================================================

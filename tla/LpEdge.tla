------------------------------- MODULE LpEdge -------------------------------
(***************************************************************************)
(* The LP's edge of the pay contract: the messages of LpService, which the *)
(* LP calls, and LpCallbackService, which t-0 calls at least once.         *)
(***************************************************************************)
EXTENDS PayCommon

-----------------------------------------------------------------------------
(* PublishQuote.                                                           *)

StandingQuote == [quoteRef: Quotes, localCurrency: STRING, fxRate: Decimal, expiresAt: Moments]

PublishQuoteRequest == [quotes: (SUBSET StandingQuote) \ {{}}]

PublishedQuote == [quoteRef: Quotes, quoteId: Quotes]

PublishQuoteFailures == {"VALIDITY_INVALID"}

PublishQuoteResponse ==
    [case: {"success"}, quotes: (SUBSET PublishedQuote) \ {{}}]
      \cup Failing("failure", PublishQuoteFailures) \cup {NoVariant}

-----------------------------------------------------------------------------
(* FiatSettlementSent.                                                     *)

FiatSettlementSentRequest ==
    [bankTransferRef: Transfers, settledExecutionIds: (SUBSET Executions) \ {{}},
     localCurrency: STRING, settlementAmount: Decimal]

FiatSettlementSentRejections ==
    {"EXECUTION_UNKNOWN", "EXECUTION_ALREADY_COVERED", "CURRENCY_MISMATCH",
     "AMOUNT_MISMATCH", "ACQUIRER_MIXED", "BANK_TRANSFER_REF_CONFLICT"}

FiatSettlementSentResponse ==
    [case: {"accepted"}]
      \cup Failing("rejected", FiatSettlementSentRejections) \cup {NoVariant}

-----------------------------------------------------------------------------
(* ExecuteQuote.                                                           *)

ExecuteQuoteRequest ==
    [executionId: Executions, quoteId: Quotes, quoteRef: Quotes, localAmount: Decimal,
     amountUsdt: Decimal, localCurrency: STRING, fxRate: Decimal]

\* A rejection carries details that are not blank.
ExecuteQuoteRejection == [case: {"rejected"}, reason: {"OTHER"}, details: STRING \ {""}]

ExecuteQuoteResponse == [case: {"accepted"}] \cup ExecuteQuoteRejection

-----------------------------------------------------------------------------
(* UsdtSettlementCompleted.                                                *)

UsdtSettlementCompletedRequest ==
    [settlementId: Settlements, settledExecutionIds: (SUBSET Executions) \ {{}},
     settlement: OnChainSettlementDetails]

UsdtSettlementCompletedResponse == {Empty}

-----------------------------------------------------------------------------
LpService ==
    Rpc("publishQuote", PublishQuoteRequest, PublishQuoteResponse)
      \cup Rpc("fiatSettlementSent", FiatSettlementSentRequest, FiatSettlementSentResponse)

LpCallbackService ==
    Rpc("executeQuote", ExecuteQuoteRequest, ExecuteQuoteResponse)
      \cup Rpc("usdtSettlementCompleted", UsdtSettlementCompletedRequest,
               UsdtSettlementCompletedResponse)
=============================================================================

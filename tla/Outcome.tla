------------------------------ MODULE Outcome ------------------------------
(***************************************************************************)
(* How each starter turns what one call to t-0 produced into the three     *)
(* outcomes its caller acts on.  A call ends with a result, which is       *)
(* either a response (one of its oneof variants) or an error (a Connect /  *)
(* gRPC status code, or something that is not a status at all).  There is  *)
(* one definition per wrapper and per error classifier, because the four   *)
(* languages do not classify alike.                                        *)
(***************************************************************************)

\* Response variants.  "failure" stands for failure and rejected alike;
\* "unlisted_failure" is a failure whose reason number this build's generated
\* enum does not list; "no_variant" is an empty or unrecognised result oneof.
Variants == {"success", "failure", "unlisted_failure", "no_variant"}

\* The status codes with which t-0 says it read the request and refused it.
RefusingCodes == {"invalid_argument", "unauthenticated", "permission_denied",
                  "unimplemented", "failed_precondition"}

\* The other status codes, including those the client makes up itself.
OpenCodes == {"canceled", "unknown", "deadline_exceeded", "not_found",
              "already_exists", "resource_exhausted", "aborted",
              "out_of_range", "internal", "unavailable", "data_loss"}

Codes == RefusingCodes \cup OpenCodes

\* An error that carries no status code: a bug or a failure on this side.
Uncoded == "uncoded"

Results == Variants \cup Codes \cup {Uncoded}

\* "raised" is an exception that leaves the wrapper instead of an outcome.
Outcomes == {"accepted", "rejected", "unknown", "raised"}

ShouldRetry(outcome) == outcome = "unknown"

-----------------------------------------------------------------------------
(* Error classifiers.                                                      *)

\* Mutant: a broken connection taken for a refusal.
GoOutcomeFromErrorHasty(error) ==
    IF error \in RefusingCodes \cup {"unavailable"} THEN "rejected" ELSE "unknown"

GoOutcomeFromError(error) ==
    IF error \in RefusingCodes THEN "rejected" ELSE "unknown"

JavaFromError(error) ==
    IF error \in RefusingCodes THEN "rejected"
    ELSE IF error \in OpenCodes THEN "unknown"
    ELSE "raised"

\* Mutant: every coded error taken for a refusal.
PythonOutcomeFromErrorHasty(error) ==
    IF error = Uncoded THEN "raised" ELSE "rejected"

PythonOutcomeFromError(error) ==
    IF error = Uncoded THEN "raised"
    ELSE IF error \in RefusingCodes THEN "rejected"
    ELSE "unknown"

\* Mutant: every coded error taken for a refusal.
IssuerOutcomeFromErrorHasty(error) ==
    IF error = Uncoded THEN "raised" ELSE "rejected"

IssuerOutcomeFromError(error) ==
    IF error = Uncoded THEN "raised"
    ELSE IF error \in RefusingCodes THEN "rejected"
    ELSE "unknown"

LpOutcomeFromError(error) ==
    IF error = Uncoded THEN "raised"
    ELSE IF error \in RefusingCodes THEN "rejected"
    ELSE "unknown"

\* Mutant: whatever is not the failure this build knows is a success.
NamedAnyReasonLax(variant) ==
    IF variant = "failure" THEN "rejected" ELSE "accepted"

\* Mutant: whatever is not a success is a refusal.
NamedAnyReasonTwoWay(variant) ==
    IF variant = "success" THEN "accepted" ELSE "rejected"

\* Go, Java and Node print any reason number, listed or not; Python looks the
\* name up with Reason.Name, which raises ValueError on a number it lacks.
NamedAnyReason(variant) ==
    IF variant = "success" THEN "accepted"
    ELSE IF variant = "no_variant" THEN "unknown"
    ELSE "rejected"

NamedListedReason(variant) ==
    IF variant = "unlisted_failure" THEN "raised" ELSE NamedAnyReason(variant)

-----------------------------------------------------------------------------
(* The wrappers, one per RPC and language.                                 *)

GoFetchQuote(r) ==
    IF r \in Variants THEN NamedAnyReason(r) ELSE GoOutcomeFromError(r)

GoCreateIntent(r) ==
    IF r \in Variants THEN NamedAnyReason(r) ELSE GoOutcomeFromError(r)

GoConfirmSettlement(r) ==
    IF r \in Variants THEN NamedAnyReason(r) ELSE GoOutcomeFromError(r)

JavaGetPaymentQuote(r) ==
    IF r \in Variants THEN NamedAnyReason(r) ELSE JavaFromError(r)

JavaCreatePaymentIntent(r) ==
    IF r \in Variants THEN NamedAnyReason(r) ELSE JavaFromError(r)

JavaSettlementReceived(r) ==
    IF r \in Variants THEN NamedAnyReason(r) ELSE JavaFromError(r)

PythonGetPaymentQuote(r) ==
    IF r \in Variants THEN NamedListedReason(r) ELSE PythonOutcomeFromError(r)

PythonCreatePaymentIntent(r) ==
    IF r \in Variants THEN NamedListedReason(r) ELSE PythonOutcomeFromError(r)

PythonSettlementReceived(r) ==
    IF r \in Variants THEN NamedListedReason(r) ELSE PythonOutcomeFromError(r)

ReportPaymentReceived(r) ==
    IF r \in Variants THEN NamedAnyReason(r) ELSE IssuerOutcomeFromError(r)

ReportSettlementSent(r) ==
    IF r \in Variants THEN NamedAnyReason(r) ELSE IssuerOutcomeFromError(r)

PublishQuotes(r) ==
    IF r \in Variants THEN NamedAnyReason(r) ELSE LpOutcomeFromError(r)

\* Mutant: an error handed back as it came.
ReportFiatSettlementSentVerbatim(r) ==
    IF r \in Variants THEN NamedAnyReason(r) ELSE r

\* Mutant: FAILED_PRECONDITION taken for a refusal, as everywhere else.
ReportFiatSettlementSentPlain(r) ==
    IF r \in Variants THEN NamedAnyReason(r) ELSE LpOutcomeFromError(r)

\* The one wrapper that does not take FAILED_PRECONDITION for a refusal.
ReportFiatSettlementSent(r) ==
    IF r \in Variants THEN NamedAnyReason(r)
    ELSE IF r = "failed_precondition" THEN "unknown"
    ELSE LpOutcomeFromError(r)

-----------------------------------------------------------------------------
AcquirerLangs == {"go", "java", "python"}

\* The acquirer's two calls of a sale, by the language its starter is in.
QuoteOutcome(lang, r) ==
    IF lang = "go" THEN GoFetchQuote(r)
    ELSE IF lang = "java" THEN JavaGetPaymentQuote(r)
    ELSE PythonGetPaymentQuote(r)

IntentOutcome(lang, r) ==
    IF lang = "go" THEN GoCreateIntent(r)
    ELSE IF lang = "java" THEN JavaCreatePaymentIntent(r)
    ELSE PythonCreatePaymentIntent(r)

ReceiptOutcome(lang, r) ==
    IF lang = "go" THEN GoConfirmSettlement(r)
    ELSE IF lang = "java" THEN JavaSettlementReceived(r)
    ELSE PythonSettlementReceived(r)
=============================================================================

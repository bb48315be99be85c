# usdt-pay-sdk: TLA+ models, checks and proofs

This directory is a formal description of the parts of usdt-pay-sdk that have
behaviour worth arguing about: what a starter does with the answer, or the
missing answer, of a call to t-0; what becomes of a customer's deposit when
reports of it are lost, late or repeated; what an LP does with a command it receives
twice; when it publishes prices; how a starter reads its settings, starts and stops;
how it reads and prints amounts; and how the repository scaffolds, releases and
publishes itself. TLC checks every model on a small instance, and TLAPS proves every
safety property and both refinements for every instance.

Paths below are relative to the repository's root. `Module!Name` is a
definition; `PROJECT.json` maps every definition to the lines it stands for.

## 1. The system

t-0 connects acquirers (they ring up sales), issuers (their users pay in USDt)
and liquidity providers (LPs, they pay the acquirer in local currency). t-0
itself is not in the repository. The repository holds, per role, a *starter*
that an integrator copies and completes, thin SDKs over each language's
provider library, the contract (`proto/`), a scaffolding CLI, and the workflows
that release all of this.

    POS ── acquirer starter ──CreatePaymentIntent──▶ t-0 ──CreatePaymentInstructions──▶ issuer starter
             (Go, Java, Python)  GetPaymentQuote      │    ◀──PaymentReceived, SettlementSent── (Node)
                       ◀──PaymentAuthorized, ...──────┤
                                                      ├──ExecuteQuote──▶ LP starter (Node)
                                                      ◀──PublishQuote, FiatSettlementSent──

Every arrow is a unary call that can be lost in either direction. Callbacks are
delivered at least once (README.md:64-67). State-changing calls carry a key: a
retry uses the original key and identical content, and only a *declined*
CreatePaymentIntent takes a fresh key (README.md:70-77).

### 1.1 Inventory

| Component | State it keeps | Operations | What is hard | What makes it correct | Module |
|---|---|---|---|---|---|
| Acquirer outbound calls: `go/starter/acquirer/{cmd,internal}`, `java/.../acquirer/internal`, `python/.../acquirer/internal` | per sale: payment_ref, idempotency key, last outcome; at t-0 the intents by key | fetch quote, create intent, confirm settlement; map a response or an error to Accepted / Rejected / Unknown | a request that outlives the call which made it; three languages that classify differently; retry under the right key | what a sale is told is true of t-0's ledger and stays true; a second intent needs an unanswered attempt; no call stays unresolved | `Outcome`, `IntentCall`, `IntentPromise`; `FiatReceipt` for SettlementReceived |
| LP callbacks and fiat settlement: `node/starter/lp/src/{handler,internal/fiat_settlement_sent}.ts` | nothing (the numbered TODOs ask the integrator for a store); at t-0 the durable result of an execution and the settlements on its books | answer ExecuteQuote; report a transfer and say whether to report it again | commands repeated across a restart; a report overtaking the answer to its command | money never goes out for an execution held as rejected; the LP stops reporting only when t-0 has, or never will have, the settlement | `FiatLeg`; `DepositLeg` for usdtSettlementCompleted |
| LP quote publisher: `node/starter/lp/src/quotes.ts`, `internal/publish_quotes.ts` | a timer; at t-0 the order book | tick now and every refresh, never awaited; stop on a signal | publishes lost, late, out of order; crash loops; a publish in flight at shutdown | bounded exposure, no gap in the book, nothing outlives a stop by more than one validity | `QuotePublisher` |
| Process lifecycle of the five starters: `index.ts` (two), `cmd/main.go`, `Main.java`, `main.py` | server, signal handlers, demo sale, calls in flight, drain limit, exit status | load configuration, listen, install handlers, run the demo sale, drain, exit | a signal at every moment; hanging handlers; a t-0 that does not answer; a second signal | a call in flight gets its grace, a drain exits 0, a signal ends the process | `Lifecycle` |
| Decimal conversions, four languages | none | text to Decimal, Decimal to text, Decimal to token units | 64-bit edges, trailing and leading zeros, sign of small negatives | no amount changes on the way; refused only if it must be | `Decimals` |
| Release workflow: `.github/workflows/release.yaml` | branch, tags, and what each job read | compute version, rewrite sites, validate, atomic push of commit and tag, create release, re-run | unserialised dispatches, developers pushing meanwhile, pushes whose answer is lost | versions advance by one bump, a tag's tree spells the tag's version, no bump commit without a tag | `Release` |
| Publish workflow: `.github/workflows/publish.yaml` | job states, what registries hold, the GitHub Release | gates, five publish jobs, two ways to re-run | registries that keep a version for good; a job failing after its artifact landed; two creators of one Release | what may be public before what; re-running heals | `Publish` |
| Issuer callback and reports: `node/starter/issuer/src/{handler,internal/*}.ts` | none in the starter; in the integrator's hands the addresses reserved, the deposits claimed, the reports and their last outcomes, the refunds; at t-0 the intents, their deadlines and the recorded reports | CreatePaymentInstructions; report PaymentReceived and SettlementSent and say whether to report again | a repeated or late request for instructions; one example address shown to every customer; a report that comes after the deadline, or again, or overtakes another; a refund decided on an outcome | what the issuer is told agrees with t-0's books; a transfer pays for one sale and is forwarded or returned, never both; a shown address is held; every sale ends | `DepositLeg`, `SalePromise`, `Outcome` |
| Acquirer callback handlers: `handler.go`, `AcquirerCallbackHandler.java`, `handler.py` | none | log and acknowledge | at-least-once delivery | every sale's end is acknowledged some time | `DepositLeg` (four of them), `FiatReceipt` (SettlementInitiated) |
| Configuration loaders (five) | none; the environment and `.env` they read | find each setting, check the settings in an order, complain of the first at fault | a setting in the environment that shadows the one just put right in `.env`; five orders of checking | what an operator put right is not complained of again, unless it is shadowed | `Config`, run by `Lifecycle` |
| SDK wrappers (four) | none | pass keys, descriptors and validators to the provider SDK | nothing of their own | | not modelled |
| CLI `init`: `cli/main.go`, `scaffold.go`, `env.go`, `keygen.go` | a directory, no lock | test, create, extract, write `.env`, clean up | a step failing or killed halfway; a directory that existed; another init or the user in the same directory | undisturbed, it leaves a whole project, or (its cleanup apart, which may fail) what it found; another's file is lost only if it came after the test | `Scaffold` |
| CLI template sync, `gomod`, `sumtool`, installers | none | copy and hash files, download a binary | nothing between runs | | not modelled |
| The contract: `proto/`, read through `node/sdk/src/gen/tzero/v1/pay/*_pb.ts` | none | messages, oneofs, enums and what their rules let through | | every message another module puts on the wire is one of the contract's (the type invariants of `DepositLeg` and `FiatReceipt`) | `PayCommon`, `IssuerEdge`, `AcquirerEdge`, `LpEdge` |
| CI workflows | none | build, test; `generate-clients` commits generated code to its pull request | | | not modelled |

Components meet only through calls: `IntentCall`, `FiatLeg` and `DepositLeg` EXTEND
`Outcome` because the outcome a wrapper returns decides what the caller does next.
`FiatReceipt` EXTENDS `FiatLeg`: the LP's report is what the acquirer's confirmation
is about. `DepositLeg` is the other composition, of issuer, acquirer, LP and t-0 over
one wire. `Lifecycle` EXTENDS `Config`, since what a process does first is to complain
of its settings. `IntentCall` implements `IntentPromise`, `DepositLeg` implements
`SalePromise`. The LP process runs the publisher and the callback server together, and
its signal handler stops both; the publisher's side of that is in
`QuotePublisher!StopQuotes`, the server's in `Lifecycle`.

The hazards, each at its line with the properties aimed at it, are in
`PROJECT.json`.

## 2. Modules and how they correspond to the code

### Outcome
One operator per wrapper and per error classifier. A *result* is a response
variant (`success`, `failure`, a failure with a reason number this build does not
list, no variant at all) or an error (a status code, or an exception with none).
The four languages agree on the refusing codes and differ on the rest: Go maps an
error without a code to Unknown, Java, Python and Node raise it; Python raises on
an unlisted reason, because `Reason.Name` does, and the others print the number.
`ReportFiatSettlementSent` is the one wrapper for which FAILED_PRECONDITION means
"ask again" (fiat_settlement_sent.ts:74-79).

### PayCommon, IssuerEdge, AcquirerEdge, LpEdge
The contract as sets: for each RPC the set of its requests and of its responses that
protovalidate lets through, and for each service the set of messages that may be under
way (`Rpc` in `PayCommon`: an RPC's name, a request, and a response or `Pending`).
Identifiers are constants, a Decimal a positive natural number, timestamps `Moments`. They are
translated from the Node SDK's generated code because that is what runs; its doc
comments restate the rules of `proto/`.

### IntentCall, IntentPromise
`phase`, `key` and `current` are what the acquirer knows of a sale; `requests` and
`replies` are the network, `opened` is t-0's ledger of intents, `owner` remembers
for which sale a key was minted and `doubt` which keys had an attempt without an
answer (both only for the properties). MintSale, PriceSale, SendIntent,
ReturnCall and GiveUp are the demo sale and the two wrappers; the wrapper's verdict
is `Outcome!IntentOutcome`. Resend and RetryDeclined are the integrator's retry
path, which the starters describe in comments and do not contain: they follow the
documented rule and are marked external, as are t-0's actions. An attempt the
caller gave up on keeps its request under way, so it may reach t-0 after a
later one under the same key: that is the interesting part of the model.

`IntentPromise` says the same without keys, attempts or messages: a sale is told
accepted only if it has an intent and declined only if it has none, both stay
true, and only a sale that was left in doubt is exempt. `IntentCall!Promise`
instantiates it with `verdict` computed from `phase`, `intents` from
`opened` and `owner`, `doubtful` from `doubt`.

### FiatLeg
`ExecuteQuote` is the shipped handler: it accepts, a repeat included, and keeps
nothing, so `Restart` empties `known`. `Report`, `ReturnReport` and `GiveUp` are
`reportFiatSettlementSent` with its try/catch. t-0's command, durable
result and verdict on a report, the bank and the payout job are external, taken
from lp.proto and the starter's comments. Reports and the answer to the command
travel separately: t-0 may see a report of an execution whose result it still
awaits.

### FiatReceipt
The acquirer's end of the same payment. Once t-0 has the LP's transfer on its books it
announces it (SettlementInitiated, whose handler logs and acknowledges), and the
acquirer looks the transfer up (`Find`) and confirms it under its reference until its wrapper
says stop. The statement may be misread and the bank may have credited another amount
(`Credited`); t-0 then answers AMOUNT_MISMATCH, which the wrapper reports as final for
that content, and the acquirer resubmits what it was really credited (`Correct`, after
acquirer.proto). `RefuseReceipt` is the status code that ends a confirmation unread
(SettlementReceived.java:68-73, settlement_received.go:46-49): the wrapper says
REJECTED, the acquirer stops, and `turnedAway` remembers it for the properties, since an
earlier attempt may have been settled. `GiveUpReceipt` is every other end of the call without a
verdict. `post` holds what the two ever sent each other, so anything may be repeated or late; a
loss is a message nobody takes. One bound lies in a guard: t-0 announces a transfer only
after the LP has stopped reporting every one it wired. Announcing earlier reaches nothing
new, for the acquirer's side reads of the LP's only `recorded`, which never shrinks.

### DepositLeg, SalePromise
t-0 asks the issuer for instructions and opens the intent, the customer pays, the issuer
reports the deposit, forwards what it owes and reports that, and t-0 tells acquirer and LP.
`wire` keeps every message ever sent, answered or not: a loss, a
repeat, a delay and an overtaking are all the taking, or not, of a member. `CreatePaymentInstructions` is the shipped handler: it
shows the same example address for every intent, refuses a moment that has passed (the request's
rule), and otherwise reserves until the moment asked for or for `Ttl`. `Report`, `HearAnswer`,
`GiveUp` and `RefuseUnread` are the two wrappers over `Outcome`; GiveUp includes the answer that names no
variant, which the wrappers treat as no answer. `AcquirerCallback` and
`UsdtSettlementCompleted` are the handlers that acknowledge. `Refund` follows the
comments of payment_received.ts on which reasons leave the deposit with the issuer.

What t-0 decides is external and taken from the generated code's comments: `Usable` from
CreatePaymentInstructions (issuer_pb.ts:500-506), the reasons of `ReportVerdict` from PaymentReceived. Their order
is ours where the contract gives none: t-0 looks first whether the transfer is on file for
another intent. Had it looked at the deadline first, an issuer whose second claim of a
deposit came late would be told INTENT_EXPIRED and refund money that already settled
another sale. That, with two intents behind the same example address, is the case the
refinement is about.

`SalePromise` says it without reports, deadlines or messages: a transfer pays for one
sale at most, and goes on for the sale it paid or back, never both. `DepositLeg!Sale`
instantiates it with what the books say of a sale, and of a transfer what the issuer's reports
and refunds come to. `MoneyIsWhereItBelongs` is what customer and shop may conclude from it.

### QuotePublisher
Time is in minutes and an explicit variable. `Init`, `Tick` and `CrashAndRestart`
publish; `StopQuotes` clears the interval, `Exit` leaves publishes under way to
arrive or not. A publish is never awaited and never retried. `Lag`, `Delay`,
`Losses`, `Restarts` and `Horizon` are bounds of the environment; `Validity` and
`Refresh` are the code's numbers.

### Config, Lifecycle
`Config` has the three settings that can be at fault, the texts a place may hold of each,
the rule that the environment shadows `.env` (also when it is blank there), the ports `parsePort` takes, and each starter's checks in its
order. `Complaint` is the setting of the first check to fail.
`FailToStart` reports it and exits 1; `Mend` is the operator who does to `.env` what the
message asks and starts again (external).

One module for the five starters, because the interesting thing is where they
differ: when the signal handlers are installed (Node in the turn that binds the
port, Python before, Go and Java after the server already serves), who runs the
demo sale (Go's main goroutine looks at the signal only afterwards, Java's main thread
can exit 1 by an exception, Python's task is cancelled) and what a
further signal does (uvicorn stops waiting at a second SIGINT, the others ignore
it). An action whose guard names a language is that language's code.

### Decimals
A text is followed to the wire and on to whoever shows it. Width (`IntMax`) and
exponent range are constants; parsing keeps the digits as written, Go's formatter
negates in fixed width, the others do not. Formatting is modelled by what it does
to the digits, since the properties are about digits: `DigitsOf` takes each digit by
itself, with `Pow10` as the only recursion. Of a whole amount Go and Java write the integer out, so that
zero is one digit whatever its exponent; Node and Python append the zeros. Java's `Decimals.of(BigDecimal)`
has its own way in: it strips zeros off a scale too large (`stripTrailingZeros`, of the JDK) and puts zeros
back where the scale is too small.

### Release
`master` is a sequence of trees, a tree the version each site group spells plus
the groups whose text the workflow's patterns no longer match. `DispatchRun` binds
a run to the head of that moment; `Checkout` reads *that* commit and the tags of
*now*; `Prepare` is version, rewrite and validation on the runner; `Push` and
`PushRefused` are the atomic push. `Rerun` starts the same run again on the same
commit, its failed jobs or all of them. `DeveloperPush` may add, revert to an older tree's versions, or reword a
site. A push that lands may still fail its step.

### Scaffold
A file is known by who wrote it last. Check, Stat, MakeDir, Extract (one file), WriteEnv and
Secure are the steps of `main` and `run` between which another process can act;
Fail is any of run's error paths and may leave the file it was at, RemoveEntry and RemoveDir are the
cleanup's RemoveAll, which asks nobody whose a file is, LeaveRest is RemoveAll failing for whatever
cause, which run ignores, Kill is a signal. `found` and
`touched` are history: was the directory there at the test, has anyone else changed it
since. `touched` is where the guarantees end, not a guard of any action.

### Publish
The `needs:` graph as `Needs`, each publish job in three steps (start, land,
finish) so that it can fail on either side of its upload, the registries that
refuse a version they have (`Immutable`), GitHub's two re-runs, and the
`view || create || view` that both workflows run against one GitHub Release. `Publish`
shares no state with `Release` (its names say so: `PublishNext`, `work`), as the two workflows share none but
the tag that starts the second.

## 3. What the runs check

| Run | Instance | Properties | What it shows |
|---|---|---|---|
| `intent_call` | Go and a Python sale, 2 keys, 2 attempts, one refusing and one open code | `AcceptedIsOnFile`, `DeclinedStaysClosed`, `SecondIntentNeedsDoubt`, `KeepsPromise`, `EveryCallIsResolved` | what a sale is told is true and stays true; a second intent needs an unanswered attempt; the documented retry path always ends in a verdict |
| `second_intent` (violation) | one Java sale | `OneIntentPerSale` | finding 1 |
| `fiat_leg` (88,521 states) | 1 execution, 2 transfers, one of them credited less a bank's fee, either of them read right or wrong, a Python acquirer, restarts without bound, fair | `NoTransferForARejectedExecution`, `RejectedReportIsFinal`, `AcceptedReportIsRecorded`, `ReceiptIsTrue`, `EveryTransferIsSettled` | accepting every repeat never contradicts money already wired; "stop" is only said when t-0 has, or cannot have, the settlement; the acquirer books only what t-0 settled; a report that overtakes the answer to its command is repeated until t-0 has answered it for good, and the transfer is then announced and, misread at first or not, confirmed, unless the bank credited another amount or t-0 refused a report or a confirmation unread |
| `deposit_leg` (177,592 states) | a sale settled on-chain and one in fiat, a deposit of the right amount and one that is short, 1 settlement, 2 ticks, fair | `OutcomesAreTrue`, `ShownAddressIsHeld`, `KeepsSalePromise`, `EverySaleEnds` | the issuer's picture of its reports is t-0's; an address shown twice never pays two sales nor is refunded for one it paid; every sale ends and somebody who cares acknowledges it |
| `quote_publisher` | validity 5, refresh 1, two losses in a row, delay 1, one crash, horizon 9 | `ExposureBounded`, `BookStaysCovered`, `NothingOutlivesAStop` | the starter's numbers leave no gap and no forgotten price |
| `lifecycle` (39,514 states) | the four languages, 2 callbacks, 2 signals, keys unset, blank, malformed or good, three texts of a port in either place, fair | `HandledSignalGivesGrace`, `DrainedExitIsClean`, `MendedStaysMended`, `SignalEndsTheProcess` | an operator who follows the messages gets a process that starts; shutdown gives the grace it promises, exits 0, and ends |
| `decimals` | 8-bit width, exponents -2..2, texts of up to 3+3 digits over 0, 1, 2, 8, BigDecimals to 1300 at scales -3..3 | `ShownIsTheAmount`, `ReadIsTheAmount`, `UnitsAreExact` | no amount changes on any path |
| `decimals_go` (violation) | Go only | `GoShowsAPlainDecimal` | finding 2 |
| `release` | 2 dispatches, 2 site groups, 4 commits | `TaggedTreeAgrees`, `BumpCommitHasItsTag`, `OneBumpAtATime` | unserialised dispatches cannot skip, repeat or half-land a version |
| `scaffold` | 2 inits and a user, a template of 2 files, one file of the user's | `SuccessIsComplete`, `FailureRestores`, `OthersFilesSurvive` | what an init promises of a directory nobody else touched (a failed one may leave its own files where RemoveAll fails too), and that nothing else is lost without such a touch |
| `publish` | 2 failures, any re-runs, fair | `NoCreatorTripsOverTheOther`, `RerunningHeals` | two workflows make one GitHub Release between them, and re-running heals unless a version is spent |
| `publish_ungated` (violation) | 1 failure | `NothingPublishesUntilEverythingBuilds` | finding 3 |

Each passing run but `decimals`, whose values TLC enumerates, also checks its module's
type invariant (`TypeOK`, `ReceiptTypeOK`, `PublishTypeOK`).

### Bounds, and why they are enough

- **intent_call.** Two attempts are what a stale request needs to arrive after
  its successor; two keys are what a second intent needs. The wrappers
  distinguish only refusing codes, open codes, variants and uncoded errors, so one
  code of each class stands for all, and Go and Python are the two extremes of
  what a wrapper does with an uncoded error and an unlisted reason. The safety
  properties and the refinement are proved for every size (section 4); the run
  found them first and shows liveness. A third sale adds no interaction: sales
  share nothing but the pool of keys and names of attempts.
- **deposit_leg.** Two deposits and two intents are what one deposit claimed twice, and one intent
  with either deposit, need. One intent is dated by t-0's request and one takes the
  handler's own time; with window 2, `Ttl` 1 and `Horizon` 2 the one lasts to the
  horizon and the other to moment 1 or 2, as the handler answers, so that reports arrive before, at and after a deadline.
  `Horizon` stops the clock and keeps t-0 from opening an intent whose end it would not see. One settlement can cover either intent, in each direction of payment (`wallet`).
  Messages need no bound: `wire` is a set. Everything but `EverySaleEnds` is proved for
  every size.
- **fiat_leg.** Two transfers of one execution compete, overlap and overtake the answer to
  its command. Restarts are not bounded. A second execution multiplies the states
  beyond a liveness check and is left to the proofs: the safety properties hold for any
  number (section 4). Two readings of an amount are a right and a wrong one; of the two transfers the
  bank credits one in full and one short, so that each can be read right, read wrong and put
  right, or stay at odds with what was announced.
- **quote_publisher.** Horizon 9 lets five quotes stand, a crash double one, two be lost in a
  row and a stop still see its last quote expire. Losses 2 is within `Tolerable` for
  validity 5 and refresh 1, delay 1; a greater one breaks `BookStaysCovered`'s
  precondition, which is why it is named. All three properties are proved for any numbers.
- **lifecycle.** A call that finishes and one that hangs need two callbacks, a
  signal during the drain two signals. The port's texts are one the checks refuse, one they take and
  none; once the process serves, `Forget` drops the settings, which nothing reads any more. The
  safety properties are proved for any callbacks, signals and texts.
- **decimals.** 8 bits and exponents to 2 have the same edges as 64 and 8 (the
  smallest number without a positive twin, texts with one digit too many, more
  zeros than digits). The digits 0, 1, 2 and 8 write 127, 128 and every edge's
  neighbour that matters up to three digits. BigDecimals to 1300 at scale 3 have every
  number of zeros to strip, short of an exponent past the largest one; that case shares its code with
  scale -3, which is covered. Where a scale within the range comes with an unscaled part past the width,
  Java refuses without looking for zeros to strip; `ReadIsTheAmount` says so. All three properties are
  proved for every width, range and text, the real ones included.
- **release.** Two dispatches race in every way a third could; four commits hold the
  initial tree, a developer's commit, and two releases, in any order. The three
  safety properties are proved for any number of dispatches, sites and commits.
- **scaffold.** Two inits reach every pair of steps at once. A template of two
  files has a first, a last and a moment between; the user may write any of them, and `.env`.
  Every property is proved for any number of both.
- **publish.** Two failures are what a spent version and a later one need;
  re-runs are not bounded. The safety property is proved for any number of failures.

Deadlock is checked in `fiat_leg`, `scaffold`, `publish` and `publish_ungated`. Elsewhere the
system really stops: all sales are told, the horizon is reached, the process has
exited, the amount is shown, or every release is done and master is at its
bound.

### Fairness

Only liveness uses it.

- **IntentCall.** The integrator resends an unknown outcome (weak fairness of
  Resend) and every call has a deadline (GiveUp). No message stays under way for
  ever (Arrive). A sale that calls again and again is some time answered with
  something other than a fault, and hears it (strong fairness of
  AnswerConclusively and HearConclusiveAnswer): without it a network that loses
  every call would never be wrong. RetryDeclined is not fair, nobody has to retry a decline.
- **DepositLeg.** The clock runs; t-0 decides what it is told and calls until it is
  answered (README.md:64-67), and the handlers answer; the issuer pays what it owes and reports while
  its outcome says to; a report repeated for ever is answered some time (strong fairness of HearAnswer). Nobody has to
  pay, to claim or to refund, and calls that end without an answer are not fair.
- **FiatLeg, FiatReceipt.** t-0 repeats a command without an answer (README.md:64-67); the
  payout job repeats a report while the outcome says so; the acquirer looks for what was
  announced, confirms it while the outcome says so, and corrects a mismatch, as acquirer.proto asks;
  a message repeated for ever gets through once. Nothing is assumed of Wire, of restarts or of losses.
- **Lifecycle.** The process takes its own steps and timers fire. AnswerCall and
  DemoReturns are *not* fair: a handler may hang and t-0 may never answer.
- **Publish.** GitHub runs a job that can run and skips one that cannot; the operator
  answers a failed run with "Re-run failed jobs", as docs/RELEASE_AND_PUBLISH.md
  tells them to. Nothing obliges anybody to re-run all, nor release.yaml to get
  as far as its GitHub Release. FailJob is bounded by `MaxFlakes`: a registry
  that is down for ever is nothing a workflow can heal.

`QuotePublisher` and `Release` have no liveness property: nothing is promised of
a publisher that may crash, or of releases nobody re-runs.

## 4. What is proved

All theorems hold for every value of the constants that satisfies the ASSUMEs. Those say that constants have
their types, that refusing codes refuse and faults do not, that a null is none of the values it
stands in for, and, in `TextAssumption`, that three texts are texts, for which the provers have no rule.

**IntentCallProofs.** `TypeCorrect`, `AcceptedOnFile`, `DeclineIsFinal`,
`SecondIntent` and `Refinement` (`Spec => KeepsPromise`), for any sales, keys,
attempts, starters and codes, assuming only that `None` is none of them and that
refusing codes refuse. None of the properties is inductive: that a decline is final
depends on what is under way. The inductive invariant says that keys belong to their
sale (`KeysOwned`), that the message a sale waits for carries its key
(`CurrentMessages`), that success is only answered under a key on file
(`SuccessOnFile`), that an unresolved sale's key is in doubt
(`UnresolvedInDoubt`), and, the core of it, `SureKeys`: under a key that no attempt left in
doubt there is at most one message, it belongs to the call its sale waits on, and if it is a
refusal there is no intent under the key. Two lemmas about the wrappers carry the
step (`OutcomeTruth`: accepted is only said of success, rejected only of a refusal;
`FaultTruth`: a call that ends on the acquirer's side is never accepted or rejected),
so the proof is where the claim "the three languages' differences do not matter
for safety" is made exact. The refinement maps every step to a step of
`IntentPromise` or a stutter, under the same invariant.

**QuotePublisherProofs.** `TypeCorrect`, `StopEmptiesTheBook` (`NothingOutlivesAStop`),
`ExposureIsBounded` and `BookIsCovered`, for any validity, period, lag, delay, losses and
crashes. Three invariants, each on top of the last. `PInv`: a quote expires one validity after
the tick that made it, and once the signal came the timer is clear and no quote is younger than the
signal. `EInv`: a reference is the number of a tick (`RefsNameTicks`), and ticks lie at least a period apart but for one
each crash (`TicksApart`), so that the quotes within one validity fit into as many numbers as
the bound counts; that is the one proof about cardinalities. `CInv`: the next tick is due
within a period and its lag (`OnTime`), no publish is forgotten once it is under way longer than the delay
(`NoneForgotten`), no more were lost in a row than `Losses` (`LossesBounded`), ticks follow one another within
that stride (`TicksFollow`), and a book that is not empty has a newest quote (`NewestTaken`). With `Tolerable`, which says that a validity outlasts that many strides and a delay, the
newest quote still stands.

**WorkflowProofs.** Both workflows. Of `Release`: `TypeCorrect`, `TaggedTrees`,
`BumpCommitsAreTagged`, `OneBump` and `HistoryAscends`, for any dispatches, sites, first
version and number of commits. What makes an unserialised workflow safe is `SeenAtHead`: a job
whose commit is still master's head has seen every tag, because a tag only appears together with
a new head. With the fast-forward test of the push, the version it computed from old tags is
the version it would compute now. `LatestExists` (the tags, and every set a job
saw, have a greatest version) stands in for an induction over finite sets: it is
preserved because each new tag is greater than the latest one.
`CheckedOutTree` and `ValidatedTree` carry what the runner holds from step to step. `OneBump` speaks of
one tag and the latest at that moment; `HistoryAscends` is what it comes to for all of them: the
order of versions is the order of commits, and a commit has one version.

Of `Publish`, for any number of failures: `PublishTypeCorrect`, `CreatorsDoNotTrip`, and four that
no run states. The invariant `PublishInv` says that a creator knows of a Release only if there is one
(`CreatorsKnow`), that what succeeded, in this attempt or an earlier one, is on record (`SucceededIsOnRecord`), and that
what has entered its job or is published has its needs behind it (`EnteredHasItsNeeds`,
`PublishedHasItsNeeds`), also after "Re-run all jobs" put everything back.
`BuiltBeforePublished` and `CliAfterItsSdks` are the order in which things can become public. `NoJobIsStuck`
is the safety half of `RerunningHeals`: until a run has ended, some job of it can move.
`SpentIsForGood` is the exception `RerunningHeals` makes, shown to be one: once PyPI has the
version and its job is not green, no re-run brings the CLI of that version out. Its proof
needs `NeedsAreGreen`, that a publish job enters only over green jobs.

**FiatReceiptProofs.** Both ends of a fiat payment. Of `FiatLeg`: `TypeCorrect`, `NoRejectedTransfer`, `RejectionIsFinal` and
`AcceptanceIsOnTheBooks`, for any executions, transfers and codes. The invariant says that
no answer on its way, and no durable result, is a rejection (`AllAccepted`); that an answer to a report
is true while it travels (`AnswersAreTrue`): success means recorded, a refusal that the execution
is on t-0's books under another transfer (`Closed`, which `ClosedStays` shows to be for good) or
that t-0 did not read the report; and that the LP's "rejected" keeps meaning that
(`RefusedForGood`). `OutcomeTruth` is again the step from the wrapper to the ledger: FAILED_PRECONDITION, the
answer to a report that came too early, is not in `Refusing`.

Of `FiatReceipt`: `ReceiptTypeCorrect` and `ReceiptTrue`. A step of the acquirer's side leaves
`FiatLeg`'s invariant alone, and a step of `FiatLeg` only adds to what is recorded. The
invariant says that only a recorded transfer is announced and only an announced one confirmed
(`ToldOfRecorded`, `ConfirmedOnceTold`), that what t-0 answered is so (`VerdictsAreTrue`: accepted only the
amount moved, mismatch only another), and `ReadRight`: an acquirer that has once confirmed what was
moved takes the transfer for nothing else afterwards. The last is what makes a rejection
mean that nothing was settled: without it an acquirer that misreads after it was
accepted, or corrects what was right, would be told REJECTED of money t-0 has settled. With
`ReceiptTruth` (accepted is only said of success, rejected only of a refusal, with a variant or unread) the
outcomes follow, the unread refusals of `turnedAway` excepted. What goes over the wire is shown to be
what the contract lets through, message by message.

**DepositLegProofs.** `TypeCorrect`, `OutcomesTrue`, `AddressHeld`, `Refinement`
(`Spec => KeepsSalePromise`) and `MoneyArrives`, for any intents, transfers, settlements, terms, screenings, codes and bounds of the
clock. The type invariant includes that every message is one of the contract's. The
rest of `IInv` is there for one argument. The issuer may
claim a transfer for a second sale, since both saw the same address, but only after
t-0 accepted the first claim (`SharedIsAccepted`). So a second report is answered
TRANSFER_RECORDED_FOR_ANOTHER_INTENT and nothing else, and a reason that calls for a refund
is only ever given to the one claim there is (`RefundableIsAlone`). What t-0 answered
stays true: a verdict against a report is for good (`Hopeless`, `HopelessStays`),
since the books only grow, an intent that closed stays closed and the clock only runs
forward; an acceptance is on the books with the content reported (`BooksFit`), for one
intent per transfer (`BookedOnce`). So a refund never hits a transfer that paid a sale (`RefundsFit`), and a
settlement covers only what was accepted (`CoveredIsOwed`). `HeldLongEnough` carries
`ShownAddressIsHeld`: the handler's answers to one intent never shorten a
reservation, as a dated intent is asked about with one moment and an undated one answered
with a later one each time. The refinement goes action by action: ClaimDeposit, Report and what the
wrapper hears are stutters, Broadcast forwards, Refund returns, t-0's steps offer, pay,
expire and settle. `MoneyArrives` shows what the refinement is good for: that a transfer pays for one sale, that
a settled sale's transfer was forwarded, and that nothing was forwarded but for a sale it
settles, is proved of `SalePromise` alone, by an invariant of two lines, and holds of
`DepositLeg` because it implements it.

**LifecycleProofs.** `TypeCorrect`, `GraceIsGiven`, `DrainIsClean` and `MendingLasts`,
for any of the starters, callbacks, signals and texts. `LoadsAlone` and `Handles` say
in which stages a process can be without handlers and that none drains unsignalled;
`ComplaintIsJustified` that a complaint names a setting whose effective text fails one
of its checks, and `MendedIsRight` that what the operator wrote fails none of them, so
that a second complaint of it can only be about the environment.

**ScaffoldProofs.** `TypeCorrect`, `Complete`, `Restores` and `OthersSurvive`, for any
inits, template and user's files. The invariant is about one untouched init (`Alone`): until it writes,
the directory is as it tested it (`StillEmpty`), it remembers rightly whether it created it
(`Remembers`), what is there is its own (`OnlyItsOwn`) and as far as it has counted
(`InPlace`). `ElsewhereKeepsAlone` makes that enough: whoever changes the directory touches
every init under way but itself, so nothing need be known of the others. `Restores` says what a failure
leaves: a directory that was found stays, one that init made goes unless RemoveAll itself fails, and
every file left is of that init's own writing.

**DecimalsProofs.** `ShowingKeepsTheAmount`, `ReadingKeepsTheAmount`, `UnitsKeepTheAmount`
(the run's three properties), `AmountTravels` and `GoIsPlainButForTheSmallest`, for every width, range of
exponents, text, BigDecimal, scale and token. TLC sees 8 bits and three digits; here are the 64 bits of the
wire. Most of it is arithmetic of numerals: `NumberSpelled` (a numeral is the sum of its
first digits and the last), `DigitsSpell` (the digits of a number are a numeral that spells it),
`NumberShifted` and `NumberPadded` (zeros behind and before), `SplitShows` (a point in the
right place divides by the power of ten), `WholeIsShown` (an amount without a fraction is spelled with its zeros
or written out), `ZerosAreStripped` (how far stripping goes). These
are about recursive functions, and the induction they need is had without an induction theorem:
`BelowIsWellFounded` lets `WFMin` name a least counterexample in any *set* of numbers
(`Induction`), and from the same fact a recursive definition has a solution (`Recursion`, used
once for `Pow10Def` and once for a numeral's value in `NumberSpelled`). The invariant of the behaviour itself is short:
what was read is the amount given (`Carried`), what was refused could not be carried
(`Refused`), what is shown or counted is what is on the wire (`Shown`). `AmountTravels` joins
the ends, from the text of one language to that of another. `GoIsPlainButForTheSmallest` turns finding 2 into
an equivalence: Go writes a plain decimal of every Decimal but the smallest unscaled number with a
negative exponent, and of that one never.

Model-checked only: liveness (`EveryCallIsResolved`, `EveryTransferIsSettled`,
`EverySaleEnds`, `SignalEndsTheProcess`, `RerunningHeals`), which fairness and ENABLED put out of the proof
system's reach. Every invariant, action property and refinement of a passing run is proved.

## 5. Findings

1. **A refused retry closes an open sale** (`second_intent`). After an unanswered first
   attempt, a retry refused for its own reasons (a revoked key, an expired
   signature) is mapped to Rejected although t-0 holds the first attempt's intent; the
   documented rule then allows a fresh key and a second intent. `SecondIntentNeedsDoubt`
   says this is the only way.
2. **Go prints the smallest unscaled number with two signs** (`decimals_go`):
   decimals.go:69. It is the only number (`GoIsPlainButForTheSmallest`).
3. **The Python SDK does not wait for build-cli** (`publish_ungated`):
   publish.yaml:370 against docs/RELEASE_AND_PUBLISH.md:131. Everything else of that
   sentence is true, re-runs included (`BuiltBeforePublished`).

Three more things the models show, without a run of their own:

- Java and Go serve calls before they handle signals (Main.java:82 and :85,
  cmd/main.go): a signal in that window cuts a call without grace.
  `HandledSignalGivesGrace` excepts it, and Java's exit 1 after an unforeseen exception of the
  demo sale, by name, so that nothing else can.
- A blank setting in the environment shadows a good one in `.env`, and the message of
  a failed start does not say where the blank came from (config.ts:54-62): putting it right
  in `.env` changes nothing. `MendedStaysMended` excepts exactly that.
- Everything the issuer's refunds rest on is that t-0 names the right reason: an issuer that
  shows one address to two customers and claims a transfer twice must be told that the
  transfer is recorded for another intent, and not that the intent has expired.

## 6. Not modelled, and why

- **SDK wrappers** (Node, Go, Java, Python): they pass keys, descriptors and a validator to the
  provider SDK of each language, which is another repository, and keep no state. What they do
  to a call is in `Outcome`, what they do to a shutdown in `Lifecycle`.
- **Validation itself** (`validate_pb.ts`): vendored code, a compiler of rules. What the
  rules let through is in the contract modules.
- **CLI template sync, `gomod`, `sumtool`, installers**: each copies, hashes or downloads
  files once and keeps nothing between runs. Of `init`, flag parsing, `keygen` and
  the texts and modes of files are left out of `Scaffold`.
- **CI workflows**: build and test jobs; nothing outlives them but the generated code that
  `generate-clients` commits to its own pull request.
- **Stores of the integrator**: the starters keep none. A restart between minting a key and
  its answer (cmd/main.go:102), or after an acceptance that nothing wrote down (lp
  handler.ts:38), loses what the numbered TODOs ask the integrator to keep. `FiatLeg!Restart` forgets
  and shows that money already moved is not contradicted. Beyond that there is no behaviour
  of this code to state a property about.
- **The endpoint setting**: it has a default and is taken as it stands. A parse error in
  it is like any other failure to start.

What a further step could take up: one model of an intent over all four parties, by joining
`IntentCall`, `DepositLeg` and `FiatReceipt` over one wire (each now
takes the others' part as external, and their product is beyond a liveness check).

----------------------------- MODULE Lifecycle -----------------------------
(***************************************************************************)
(* A starter's process from start to exit: it binds its callback server,   *)
(* installs its signal handlers, the acquirers run a demo sale against     *)
(* t-0, and a signal drains the calls in flight and exits.  The four       *)
(* languages do the same things in different orders, on different threads  *)
(* of control and with different cancellation, which is where they differ  *)
(* in what a signal can do to a call.                                      *)
(***************************************************************************)
EXTENDS Config

CONSTANTS
    Starters,   \* which starters may run: "node", "go", "java", "python"
    Calls,      \* inbound callbacks
    Written,    \* Written[s]: what environment and .env may say of setting s
    MaxSignals  \* bound: signals sent to the process

ASSUME StartersAssumption ==
    /\ Written \in [Settings -> SUBSET (KeyTexts \cup PortTexts)]
    /\ Starters \subseteq {"node", "go", "java", "python"}
    /\ MaxSignals \in Nat

VARIABLES
    starter,    \* the starter this process runs
    stage,      \* "loading", "listening", "draining" or "exited"
    handling,   \* are the signal handlers installed?
    demo,       \* the demo sale: "none", "calling" or "done"
    call,       \* call[c]: "none", "running", "answered" or "cut"
    limit,      \* the drain limit: "unset", "armed" or "passed"
    signals,    \* signals received
    forced,     \* did a further signal end the drain?
    status,     \* exit status: "none", "zero", "one" or "killed"
    environment, file,  \* what the two places say of the settings
    said,       \* the setting a failed start complained of, "start" or "none"
    mended      \* history: the settings put right in .env on such a complaint

process == <<stage, handling, demo, call, limit, signals, forced, status>>
configured == <<environment, file, said, mended>>
vars == <<starter, process, configured>>

TypeOK ==
    /\ starter \in Starters
    /\ stage \in {"loading", "listening", "draining", "exited"}
    /\ handling \in BOOLEAN
    /\ demo \in {"none", "calling", "done"}
    /\ call \in [Calls -> {"none", "running", "answered", "cut"}]
    /\ limit \in {"unset", "armed", "passed"}
    /\ signals \in 0..MaxSignals
    /\ forced \in BOOLEAN
    /\ status \in {"none", "zero", "one", "killed"}
    /\ environment \in Texts /\ file \in Texts
    /\ said \in Settings \cup {"none", "start"}
    /\ mended \subseteq Settings

\* The Node starters run no demo sale.
Init ==
    /\ starter \in Starters
    /\ stage = "loading"
    /\ handling = FALSE
    /\ demo = IF starter = "node" THEN "done" ELSE "none"
    /\ call = [c \in Calls |-> "none"]
    /\ limit = "unset"
    /\ signals = 0
    /\ forced = FALSE
    /\ status = "none"
    /\ environment \in {t \in Texts : \A s \in Settings : t[s] \in Written[s]}
    /\ file \in {t \in Texts : \A s \in Settings : t[s] \in Written[s]}
    /\ said = "none"
    /\ mended = {}

Running == {c \in Calls : call[c] = "running"}

ExitWith(s) ==
    /\ stage' = "exited"
    /\ status' = s
    /\ call' = [c \in Calls |-> IF c \in Running THEN "cut" ELSE call[c]]

-----------------------------------------------------------------------------
(* Starting.                                                               *)

ComplainsOf == Complaint(starter, Effective(environment, file))

\* Mutant: the web server's own exit status on a failed bind.
FailToStartLeaky ==
    /\ stage = "loading"
    /\ ExitWith("three")
    /\ said' = IF ComplainsOf = "none" THEN "start" ELSE ComplainsOf
    /\ UNCHANGED <<starter, handling, demo, limit, signals, forced, environment, file, mended>>

\* A setting at fault, or a taken port: reported, exit 1.
FailToStart ==
    /\ stage = "loading"
    /\ ExitWith("one")
    /\ said' = IF ComplainsOf = "none" THEN "start" ELSE ComplainsOf
    /\ UNCHANGED <<starter, handling, demo, limit, signals, forced, environment, file, mended>>

\* The operator puts what the message names into .env, as it says, and
\* starts the process again.
Mend ==
    /\ stage = "exited" /\ said \in Settings \ mended
    /\ file' = [file EXCEPT ![said] = IF said = "PORT" THEN "65535" ELSE "key"]
    /\ mended' = mended \cup {said}
    /\ said' = "none"
    /\ stage' = "loading" /\ status' = "none" /\ signals' = 0
    /\ UNCHANGED <<starter, handling, demo, call, limit, forced, environment>>

\* Once the process serves, nothing reads what the places said.
Forget ==
    /\ environment' = [s \in Settings |-> "unset"]
    /\ file' = [s \in Settings |-> "unset"]
    /\ mended' = {}

\* Node installs its handlers in the turn in which the port is bound, before
\* it can serve a call; Python installed them already; Go and Java have not.
Listen ==
    /\ stage = "loading"
    /\ ComplainsOf = "none"
    /\ starter = "python" => handling
    /\ stage' = "listening"
    /\ handling' = IF starter = "node" THEN TRUE ELSE handling
    /\ Forget
    /\ UNCHANGED <<starter, demo, call, limit, signals, forced, status, said>>

InstallHandlers ==
    /\ ~handling
    /\ \/ starter \in {"go", "java"} /\ stage = "listening"
       \/ starter = "python" /\ stage = "loading" /\ ComplainsOf = "none"
    /\ handling' = TRUE
    /\ UNCHANGED <<starter, stage, demo, call, limit, signals, forced, status, configured>>

\* The demo sale starts once the server listens, a signal or not.
StartDemo ==
    /\ demo = "none"
    /\ handling
    /\ stage \in {"listening", "draining"}
    /\ demo' = "calling"
    /\ UNCHANGED <<starter, stage, handling, call, limit, signals, forced, status, configured>>

-----------------------------------------------------------------------------
(* The demo sale.                                                          *)

DemoReturns ==
    /\ demo = "calling"
    /\ stage # "exited"
    /\ demo' = "done"
    /\ UNCHANGED <<starter, stage, handling, call, limit, signals, forced, status, configured>>

\* Mutant: the calls made with a context no signal cancels.
DemoCancelledByDrain ==
    /\ demo = "calling"
    /\ stage = "draining"
    /\ demo' = "done"
    /\ UNCHANGED <<starter, stage, handling, call, limit, signals, forced, status, configured>>

\* Go's calls carry the context the signal cancels; Java's client is closed
\* once the server has drained, Python's task cancelled (in ExitDrained).
DemoCancelled ==
    /\ demo = "calling"
    /\ \/ starter = "go" /\ signals > 0 /\ handling /\ stage # "exited"
       \/ starter = "java" /\ stage = "draining" /\ (Running = {} \/ limit = "passed")
    /\ demo' = "done"
    /\ UNCHANGED <<starter, stage, handling, call, limit, signals, forced, status, configured>>

\* An exception that is no answer from t-0: Python logs it, Java's main
\* reports a failure to start and exits 1, callbacks in flight or not.
DemoRaises ==
    /\ demo = "calling"
    /\ stage # "exited"
    /\ starter \in {"java", "python"}
    /\ demo' = "done"
    /\ IF starter = "java" THEN ExitWith("one") ELSE UNCHANGED <<stage, status, call>>
    /\ UNCHANGED <<starter, handling, limit, signals, forced, configured>>

-----------------------------------------------------------------------------
(* Callbacks.                                                              *)

\* A connection that was busy when the signal came may carry one more call
\* before Node closes it; otherwise a draining server takes none.
TakeCall(c) ==
    /\ call[c] = "none"
    /\ \/ stage = "listening"
       \/ starter = "node" /\ stage = "draining" /\ \E b \in Calls : call[b] = "answered"
    /\ call' = [call EXCEPT ![c] = "running"]
    /\ UNCHANGED <<starter, stage, handling, demo, limit, signals, forced, status, configured>>

AnswerCall(c) ==
    /\ call[c] = "running"
    /\ stage # "exited"
    /\ call' = [call EXCEPT ![c] = "answered"]
    /\ UNCHANGED <<starter, stage, handling, demo, limit, signals, forced, status, configured>>

-----------------------------------------------------------------------------
(* Signals and the drain.                                                  *)

\* No handler yet: the operating system, or the JVM, ends the process.
SignalKills ==
    /\ stage # "exited" /\ ~handling /\ signals < MaxSignals
    /\ signals' = signals + 1
    /\ ExitWith("killed")
    /\ UNCHANGED <<starter, handling, demo, limit, forced, configured>>

\* A second signal changes nothing, but for uvicorn, which stops waiting at
\* the second SIGINT.
Signal ==
    /\ stage # "exited" /\ handling /\ signals < MaxSignals
    /\ signals' = signals + 1
    /\ forced' \in IF starter = "python" /\ signals > 0 THEN BOOLEAN ELSE {forced}
    /\ forced => forced'
    /\ UNCHANGED <<starter, stage, handling, demo, call, limit, status, configured>>

\* Mutant: every connection dropped, not the idle ones only.
BeginDrainDropping ==
    /\ stage = "listening" /\ signals > 0
    /\ starter = "go" => demo = "done"
    /\ stage' = "draining"
    /\ limit' = "armed"
    /\ call' = [c \in Calls |-> IF c \in Running THEN "cut" ELSE call[c]]
    /\ UNCHANGED <<starter, handling, demo, signals, forced, status, configured>>

\* Go's main goroutine looks at the signal only once its demo sale is over.
BeginDrain ==
    /\ stage = "listening" /\ signals > 0
    /\ starter = "go" => demo = "done"
    /\ stage' = "draining"
    /\ limit' = "armed"
    /\ UNCHANGED <<starter, handling, demo, call, signals, forced, status, configured>>

\* The drain limit: 15 s in Node and Python, the SDK's in Go and Java.
PassLimit ==
    /\ limit = "armed"
    /\ stage # "exited"
    /\ limit' = "passed"
    /\ UNCHANGED <<starter, stage, handling, demo, call, signals, forced, status, configured>>

\* Mutant: an exit that takes the outcome of the drain for its status.
ExitDrainedStrict ==
    /\ stage = "draining"
    /\ Running = {} \/ limit = "passed" \/ forced
    /\ ExitWith(IF Running = {} THEN "zero" ELSE "one")
    /\ demo' = IF starter = "python" THEN "done" ELSE demo
    /\ UNCHANGED <<starter, handling, limit, signals, forced, configured>>

\* Drained, or done waiting: exit 0 all the same.
ExitDrained ==
    /\ stage = "draining"
    /\ Running = {} \/ limit = "passed" \/ forced
    /\ ExitWith("zero")
    /\ demo' = IF starter = "python" THEN "done" ELSE demo
    /\ UNCHANGED <<starter, handling, limit, signals, forced, configured>>

-----------------------------------------------------------------------------
Next ==
    \/ FailToStart \/ Mend \/ Listen \/ InstallHandlers \/ StartDemo
    \/ DemoReturns \/ DemoCancelled \/ DemoRaises
    \/ \E c \in Calls : TakeCall(c) \/ AnswerCall(c)
    \/ SignalKills \/ Signal \/ BeginDrain \/ PassLimit \/ ExitDrained

Spec == Init /\ [][Next]_vars

(* The process's own steps are taken; a handler may hang and t-0 may never *)
(* answer the demo sale, so AnswerCall and DemoReturns are not fair.       *)
Fairness ==
    /\ WF_vars(InstallHandlers) /\ WF_vars(Listen) /\ WF_vars(StartDemo)
    /\ WF_vars(DemoCancelled) /\ WF_vars(BeginDrain)
    /\ WF_vars(PassLimit) /\ WF_vars(ExitDrained)

FairSpec == Spec /\ Fairness

-----------------------------------------------------------------------------
(* Properties.                                                             *)

\* A call in flight when the process ends had the whole drain limit to finish
\* in, or an operator insisted (Main.java:179-181, index.ts:87-92).
GraceBeforeCut ==
    \A c \in Calls : call[c] = "cut" => limit = "passed" \/ forced

\* What is left of it when Go and Java serve calls before their handlers are
\* installed and Java exits 1 on an unforeseen exception of the demo sale:
\* only those two cut a call with no grace (index.ts:87-92, main.py:182-201).
HandledSignalGivesGrace ==
    \/ GraceBeforeCut
    \/ starter \in {"go", "java"} /\ status = "killed"
    \/ starter = "java" /\ status = "one"

\* A process that began to drain reports success to its supervisor, whatever
\* the drain had to cut and whatever became of the demo sale meanwhile, the
\* unforeseen exception of Java's demo sale (Main.java:58-67) apart
\* (issuer README.md:234-236, python README.md:27-29).
DrainedExitIsClean ==
    stage = "exited" /\ limit # "unset" =>
        \/ status = "zero"
        \/ starter = "java" /\ status = "one"

\* A setting put right in .env is not complained of again, unless the
\* environment has it too, be it blank: the fault is then there, and the
\* message (config.ts:54-57, 62) points elsewhere.
MendedStaysMended ==
    said \in mended => environment[said] # "unset"

\* A signal always ends the process, though a handler hangs and t-0 never
\* answers the demo sale (main.go:57, Main.java:84).
SignalEndsTheProcess ==
    signals > 0 ~> stage = "exited"
=============================================================================

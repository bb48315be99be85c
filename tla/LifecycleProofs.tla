-------------------------- MODULE LifecycleProofs --------------------------
(***************************************************************************)
(* Proofs about Lifecycle, for any callbacks, any number of signals and    *)
(* anything the environment and .env may say: its types, who may cut a     *)
(* call without grace, with what status a drained process exits, and that  *)
(* what an operator put right in .env stays right.                         *)
(***************************************************************************)
EXTENDS Lifecycle, TLAPS

-----------------------------------------------------------------------------
(* What a starter complains of.                                            *)

Checks == {PrivateKeySet, PrivateKeyUsable, NetworkKeySet, PortValid, NetworkKeyUsable}

LEMMA ChecksOfStarters ==
    ASSUME NEW s
    PROVE  \A n \in 1..5 : Append(loadConfig(s), NetworkKeyUsable)[n] \in Checks
<1>1. CASE s \in {"node", "python"}
  <2>1. loadConfig(s) = <<PrivateKeySet, NetworkKeySet, PortValid, PrivateKeyUsable>>
    BY <1>1 DEF loadConfig
  <2>2. QED
    BY <2>1 DEF Checks
<1>2. CASE s \notin {"node", "python"}
  <2>1. loadConfig(s) = <<PrivateKeySet, PrivateKeyUsable, NetworkKeySet, PortValid>>
    BY <1>2 DEF loadConfig
  <2>2. QED
    BY <2>1 DEF Checks
<1>3. QED
  BY <1>1, <1>2

\* Some setting it is, and the setting's effective text fails one of its checks.
LEMMA ComplaintIsJustified ==
    ASSUME NEW s, NEW settings
    PROVE  \/ Complaint(s, settings) = "none"
           \/ \E check \in Checks : /\ Complaint(s, settings) = check.setting
                                    /\ settings[check.setting] \in check.refuses
<1> DEFINE checks == Append(loadConfig(s), NetworkKeyUsable)
           failing == {n \in 1..5 : settings[checks[n].setting] \in checks[n].refuses}
<1>1. Complaint(s, settings) =
        IF failing = {} THEN "none"
        ELSE checks[CHOOSE n \in failing : \A m \in failing : n <= m].setting
  BY DEF Complaint
<1>2. \A n \in 1..5 : checks[n] \in Checks
  BY ChecksOfStarters
<1> HIDE DEF checks
<1>3. \A n \in failing : n \in 1..5 /\ settings[checks[n].setting] \in checks[n].refuses
  OBVIOUS
<1> HIDE DEF failing
<1>4. CASE failing = {}
  BY <1>1, <1>4
<1>5. CASE failing # {}
  <2>1. \E n \in failing : \A m \in failing : n <= m
    BY <1>3, <1>5
  <2>2. PICK n \in failing : n = CHOOSE k \in failing : \A m \in failing : k <= m
    BY <2>1
  <2>3. Complaint(s, settings) = checks[n].setting
    BY <1>1, <1>5, <2>2
  <2>4. QED
    BY <1>2, <1>3, <2>3
<1>6. QED
  BY <1>4, <1>5

LEMMA ChecksFit ==
    /\ \A check \in Checks : check.setting \in Settings
    /\ \A check \in Checks : check.setting # "PORT" => "key" \notin check.refuses
    /\ \A check \in Checks : check.setting = "PORT" => "65535" \notin check.refuses
<1>1. parsePort("65535") # 0
  <2>1. "65535" \in DOMAIN NumberOf /\ NumberOf["65535"] = 65535
    BY DEF NumberOf
  <2>2. QED
    BY <2>1 DEF parsePort, DigitsOnly
<1>2. QED
  BY <1>1 DEF Checks, PrivateKeySet, PrivateKeyUsable, NetworkKeySet, PortValid,
     NetworkKeyUsable, Settings

-----------------------------------------------------------------------------
(* The inductive invariant.                                                *)

\* Nothing is served, and nothing drained, while the process loads; a failed
\* start leaves it so.
LoadsAlone ==
    stage = "loading" \/ said # "none" =>
      /\ \A c \in Calls : call[c] = "none"
      /\ limit = "unset"

SaysWhenExited == said # "none" => stage = "exited"

\* From the moment it serves, only Go and Java may be without handlers, and
\* no process that took a signal is.
Handles ==
    /\ stage = "listening" /\ ~handling => starter \in {"go", "java"}
    /\ stage # "exited" /\ signals > 0 => handling
    /\ stage = "draining" => signals > 0
    /\ limit # "unset" => stage \in {"draining", "exited"}

\* Nobody is cut before the process exits.
CutAtTheEnd == stage # "exited" => \A c \in Calls : call[c] # "cut"

\* What was put right is right in .env, until the process serves.
MendedIsRight ==
    \A s \in mended : file[s] = IF s = "PORT" THEN "65535" ELSE "key"

IInv ==
    /\ TypeOK
    /\ LoadsAlone
    /\ SaysWhenExited
    /\ Handles
    /\ CutAtTheEnd
    /\ MendedIsRight
    /\ HandledSignalGivesGrace
    /\ DrainedExitIsClean
    /\ MendedStaysMended

LEMMA Initially == Init => IInv
<1> SUFFICES ASSUME Init PROVE IInv
  OBVIOUS
<1>1. TypeOK
  <2>1. environment \in Texts /\ file \in Texts
    BY DEF Init
  <2>2. signals \in 0..MaxSignals
    BY StartersAssumption DEF Init
  <2>3. /\ handling \in BOOLEAN /\ forced \in BOOLEAN
        /\ demo \in {"none", "calling", "done"}
        /\ call \in [Calls -> {"none", "running", "answered", "cut"}]
    BY DEF Init
  <2>4. QED
    BY <2>1, <2>2, <2>3 DEF Init, TypeOK
<1>2. /\ LoadsAlone /\ SaysWhenExited /\ Handles /\ CutAtTheEnd /\ MendedIsRight
      /\ HandledSignalGivesGrace /\ DrainedExitIsClean /\ MendedStaysMended
  BY DEF Init, LoadsAlone, SaysWhenExited, Handles, CutAtTheEnd, MendedIsRight,
     HandledSignalGivesGrace, GraceBeforeCut, DrainedExitIsClean, MendedStaysMended
<1>3. QED
  BY <1>1, <1>2 DEF IInv

\* Exiting cuts the calls in flight and touches no other.
LEMMA ExitCuts ==
    ASSUME TypeOK, NEW s, ExitWith(s)
    PROVE  /\ call' \in [Calls -> {"none", "running", "answered", "cut"}]
           /\ \A c \in Calls : call'[c] = IF call[c] = "running" THEN "cut" ELSE call[c]
           /\ stage' = "exited" /\ status' = s
BY DEF TypeOK, ExitWith, Running

\* A complaint about a setting put right is about what the environment says.
LEMMA ComplaintIsElsewhere ==
    ASSUME IInv, ComplainsOf \in mended
    PROVE  environment[ComplainsOf] # "unset"
<1>1. SUFFICES ASSUME environment[ComplainsOf] = "unset" PROVE FALSE
  OBVIOUS
<1>2. ComplainsOf \in Settings /\ MendedIsRight
  BY DEF IInv, TypeOK
<1>3. PICK check \in Checks : /\ ComplainsOf = check.setting
                              /\ Effective(environment, file)[check.setting] \in check.refuses
  BY <1>2, ComplaintIsJustified DEF ComplainsOf, Settings
<1>4. Effective(environment, file)[ComplainsOf] = file[ComplainsOf]
  BY <1>1, <1>2 DEF Effective
<1>5. file[ComplainsOf] = IF ComplainsOf = "PORT" THEN "65535" ELSE "key"
  BY <1>2 DEF MendedIsRight
<1>6. QED
  BY <1>3, <1>4, <1>5, ChecksFit

LEMMA FailToStartStep ==
    ASSUME IInv, FailToStart PROVE IInv'
<1> USE DEF FailToStart
<1>0. /\ TypeOK /\ LoadsAlone /\ Handles /\ MendedIsRight /\ stage = "loading"
      /\ call' = call /\ stage' = "exited" /\ status' = "one" /\ said = "none"
  <2>1. TypeOK /\ LoadsAlone /\ Handles /\ MendedIsRight /\ SaysWhenExited
    BY DEF IInv
  <2>2. stage = "loading" /\ \A c \in Calls : call[c] = "none"
    BY <2>1 DEF LoadsAlone
  <2>3. \A c \in Calls : call'[c] = call[c]
    BY <2>1, <2>2, ExitCuts
  <2>4. call' = call
    BY <2>1, <2>3, ExitCuts DEF TypeOK
  <2>5. QED
    BY <2>1, <2>2, <2>4, ExitCuts DEF SaysWhenExited
<1>1. ComplainsOf \in Settings \cup {"none"}
  BY ComplaintIsJustified, ChecksFit DEF ComplainsOf
<1>2. TypeOK'
  BY <1>0, <1>1 DEF TypeOK
<1>3. LoadsAlone' /\ SaysWhenExited' /\ Handles' /\ CutAtTheEnd' /\ MendedIsRight'
  BY <1>0 DEF LoadsAlone, SaysWhenExited, Handles, CutAtTheEnd, MendedIsRight
<1>4. HandledSignalGivesGrace' /\ DrainedExitIsClean'
  BY <1>0 DEF LoadsAlone, HandledSignalGivesGrace, GraceBeforeCut, DrainedExitIsClean
<1>5. MendedStaysMended'
  <2>1. "start" \notin mended /\ "none" \notin mended
    BY <1>0 DEF TypeOK, Settings
  <2>2. QED
    BY <2>1, ComplaintIsElsewhere DEF MendedStaysMended
<1>6. QED
  BY <1>2, <1>3, <1>4, <1>5 DEF IInv

LEMMA MendStep ==
    ASSUME IInv, Mend PROVE IInv'
<1> USE DEF Mend
<1>0. TypeOK /\ LoadsAlone /\ MendedIsRight /\ said \in Settings /\ said # "none"
      /\ \A c \in Calls : call[c] = "none" /\ call'[c] = "none"
  BY DEF IInv, LoadsAlone, Settings
<1>1. TypeOK'
  BY <1>0, StartersAssumption DEF TypeOK, Texts, KeyTexts, PortTexts, NumberOf
<1>2. LoadsAlone' /\ SaysWhenExited' /\ Handles' /\ CutAtTheEnd'
  BY <1>0 DEF LoadsAlone, SaysWhenExited, Handles, CutAtTheEnd
<1>3. MendedIsRight'
  <2>1. file \in [Settings -> KeyTexts \cup PortTexts] /\ mended \subseteq Settings
    BY <1>0 DEF TypeOK, Texts
  <2>2. QED
    BY <1>0, <2>1 DEF MendedIsRight
<1>4. MendedStaysMended'
  BY <1>0 DEF TypeOK, MendedStaysMended, Settings
<1>5. HandledSignalGivesGrace' /\ DrainedExitIsClean'
  BY <1>0 DEF HandledSignalGivesGrace, GraceBeforeCut, DrainedExitIsClean
<1>6. QED
  BY <1>1, <1>2, <1>3, <1>4, <1>5 DEF IInv

LEMMA ListenStep ==
    ASSUME IInv, Listen PROVE IInv'
<1> USE DEF Listen, Forget
<1>0. TypeOK /\ LoadsAlone /\ Handles /\ said = "none" /\ stage = "loading"
      /\ \A c \in Calls : call[c] = "none"
  BY DEF IInv, LoadsAlone, SaysWhenExited
<1>1. TypeOK'
  BY <1>0 DEF TypeOK, Texts, KeyTexts
<1>2. LoadsAlone' /\ SaysWhenExited' /\ CutAtTheEnd' /\ MendedIsRight'
  BY <1>0 DEF LoadsAlone, SaysWhenExited, CutAtTheEnd, MendedIsRight
<1>3. Handles'
  <2>1. starter \in {"node", "go", "java", "python"}
    BY <1>0, StartersAssumption DEF TypeOK
  <2>2. QED
    BY <1>0, <2>1 DEF LoadsAlone, Handles
<1>4. HandledSignalGivesGrace' /\ DrainedExitIsClean' /\ MendedStaysMended'
  BY <1>0 DEF HandledSignalGivesGrace, GraceBeforeCut, DrainedExitIsClean, MendedStaysMended
<1>5. QED
  BY <1>1, <1>2, <1>3, <1>4 DEF IInv

\* Steps that touch neither the stage nor the settings.
LEMMA RunningSteps ==
    ASSUME IInv, \/ InstallHandlers \/ StartDemo \/ DemoReturns \/ DemoCancelled
                 \/ Signal \/ BeginDrain \/ PassLimit
    PROVE  IInv'
<1> USE DEF InstallHandlers, StartDemo, DemoReturns, DemoCancelled, Signal, BeginDrain, PassLimit,
        configured
<1>0. /\ TypeOK /\ LoadsAlone /\ SaysWhenExited /\ Handles /\ CutAtTheEnd /\ MendedIsRight
      /\ HandledSignalGivesGrace /\ DrainedExitIsClean /\ MendedStaysMended
  BY DEF IInv
<1>1. TypeOK'
  <2>1. /\ starter' \in Starters /\ status' \in {"none", "zero", "one", "killed"}
        /\ call' \in [Calls -> {"none", "running", "answered", "cut"}]
        /\ environment' \in Texts /\ file' \in Texts
        /\ said' \in Settings \cup {"none", "start"} /\ mended' \subseteq Settings
    BY <1>0 DEF TypeOK
  <2>2. /\ stage' \in {"loading", "listening", "draining", "exited"}
        /\ demo' \in {"none", "calling", "done"} /\ limit' \in {"unset", "armed", "passed"}
    BY <1>0 DEF TypeOK
  <2>3. signals' \in 0..MaxSignals
    BY <1>0, StartersAssumption DEF TypeOK
  <2>4. handling' \in BOOLEAN
    BY <1>0 DEF TypeOK
  <2>5. forced' \in BOOLEAN
    BY <1>0, Zenon DEF TypeOK
  <2>6. QED
    BY <2>1, <2>2, <2>3, <2>4, <2>5 DEF TypeOK
<1>2. LoadsAlone' /\ SaysWhenExited' /\ CutAtTheEnd' /\ MendedIsRight' /\ MendedStaysMended'
  BY <1>0 DEF TypeOK, LoadsAlone, SaysWhenExited, Handles, CutAtTheEnd, MendedIsRight, MendedStaysMended
<1>3. Handles'
  BY <1>0, StartersAssumption DEF TypeOK, LoadsAlone, Handles
<1>4. HandledSignalGivesGrace' /\ DrainedExitIsClean'
  BY <1>0 DEF TypeOK, CutAtTheEnd, HandledSignalGivesGrace, GraceBeforeCut, DrainedExitIsClean
<1>5. QED
  BY <1>1, <1>2, <1>3, <1>4 DEF IInv

LEMMA CallSteps ==
    ASSUME IInv, NEW c \in Calls, TakeCall(c) \/ AnswerCall(c)
    PROVE  IInv'
<1> USE DEF TakeCall, AnswerCall, configured
<1>0. /\ TypeOK /\ LoadsAlone /\ SaysWhenExited /\ Handles /\ CutAtTheEnd /\ MendedIsRight
      /\ HandledSignalGivesGrace /\ DrainedExitIsClean /\ MendedStaysMended
  BY DEF IInv
<1>1. stage \in {"listening", "draining"} /\ said = "none"
  BY <1>0 DEF TypeOK, LoadsAlone, SaysWhenExited
<1>2. TypeOK'
  BY <1>0 DEF TypeOK
<1>3. /\ LoadsAlone' /\ SaysWhenExited' /\ Handles' /\ MendedIsRight'
      /\ MendedStaysMended' /\ DrainedExitIsClean'
  BY <1>0, <1>1 DEF LoadsAlone, SaysWhenExited, Handles, MendedIsRight, MendedStaysMended,
     DrainedExitIsClean
<1>4. CutAtTheEnd' /\ HandledSignalGivesGrace'
  BY <1>0, <1>1 DEF TypeOK, CutAtTheEnd, HandledSignalGivesGrace, GraceBeforeCut
<1>5. QED
  BY <1>2, <1>3, <1>4 DEF IInv

\* The steps that may end the process while it serves or drains.
LEMMA EndingSteps ==
    ASSUME IInv, DemoRaises \/ SignalKills \/ ExitDrained
    PROVE  IInv'
<1> USE DEF DemoRaises, SignalKills, ExitDrained, configured
<1>0. /\ TypeOK /\ LoadsAlone /\ SaysWhenExited /\ Handles /\ CutAtTheEnd /\ MendedIsRight
      /\ HandledSignalGivesGrace /\ DrainedExitIsClean /\ MendedStaysMended
      /\ stage # "exited" /\ said = "none" /\ UNCHANGED <<said, mended, file, environment, starter, limit>>
  BY DEF IInv, SaysWhenExited
<1>1. \/ UNCHANGED <<stage, status, call, signals, handling, forced>>
      \/ /\ starter = "java" /\ ExitWith("one") /\ UNCHANGED <<signals, handling, forced>>
      \/ /\ ~handling /\ ExitWith("killed") /\ UNCHANGED <<handling, forced>>
         /\ signals < MaxSignals /\ signals' = signals + 1
      \/ /\ stage = "draining" /\ (Running = {} \/ limit = "passed" \/ forced) /\ ExitWith("zero")
         /\ UNCHANGED <<signals, handling, forced>>
  OBVIOUS
<1>2. demo' \in {"none", "calling", "done"}
  BY <1>0 DEF TypeOK
<1>3. TypeOK'
  BY <1>0, <1>1, <1>2, ExitCuts, StartersAssumption DEF TypeOK
<1>4. CASE UNCHANGED <<stage, status, call, signals, handling, forced>>
  BY <1>0, <1>3, <1>4 DEF IInv, LoadsAlone, SaysWhenExited, Handles, CutAtTheEnd, MendedIsRight,
     HandledSignalGivesGrace, GraceBeforeCut, DrainedExitIsClean, MendedStaysMended
<1>5. ASSUME NEW s, ExitWith(s)
      PROVE  /\ LoadsAlone' /\ SaysWhenExited' /\ Handles' /\ CutAtTheEnd' /\ MendedIsRight'
             /\ MendedStaysMended'
  BY <1>0, <1>5, ExitCuts DEF LoadsAlone, SaysWhenExited, Handles, CutAtTheEnd, MendedIsRight,
     MendedStaysMended
<1>6. CASE starter = "java" /\ ExitWith("one") /\ UNCHANGED <<signals, handling, forced>>
  <2>1. HandledSignalGivesGrace' /\ DrainedExitIsClean'
    BY <1>0, <1>6, ExitCuts DEF HandledSignalGivesGrace, DrainedExitIsClean
  <2>2. QED
    BY <1>3, <1>5, <1>6, <2>1 DEF IInv
<1>7. CASE ~handling /\ ExitWith("killed")
  <2>1. stage \in {"loading", "listening"} /\ limit = "unset"
    BY <1>0, <1>7 DEF TypeOK, Handles
  <2>2. HandledSignalGivesGrace'
    <3>1. CASE stage = "loading"
      BY <1>0, <1>7, <3>1, ExitCuts DEF LoadsAlone, HandledSignalGivesGrace, GraceBeforeCut
    <3>2. CASE stage = "listening"
      BY <1>0, <1>7, <3>2, ExitCuts DEF Handles, HandledSignalGivesGrace
    <3>3. QED
      BY <2>1, <3>1, <3>2
  <2>3. DrainedExitIsClean'
    BY <1>0, <2>1 DEF DrainedExitIsClean
  <2>4. QED
    BY <1>3, <1>5, <1>7, <2>2, <2>3 DEF IInv
<1>8. CASE /\ stage = "draining" /\ (Running = {} \/ limit = "passed" \/ forced) /\ ExitWith("zero")
           /\ UNCHANGED <<signals, handling, forced>>
  <2>1. DrainedExitIsClean'
    BY <1>8, ExitCuts, <1>0 DEF DrainedExitIsClean
  <2>2. \A c \in Calls : call'[c] = "cut" => call[c] = "running"
    BY <1>0, <1>8, ExitCuts DEF CutAtTheEnd
  <2>3. HandledSignalGivesGrace'
    BY <1>0, <1>8, <2>2 DEF Running, HandledSignalGivesGrace, GraceBeforeCut
  <2>4. QED
    BY <1>3, <1>5, <1>8, <2>1, <2>3 DEF IInv
<1>9. QED
  BY <1>1, <1>4, <1>6, <1>7, <1>8

LEMMA Inductive == IInv /\ [Next]_vars => IInv'
<1> SUFFICES ASSUME IInv, [Next]_vars PROVE IInv'
  OBVIOUS
<1>1. CASE UNCHANGED vars
  BY <1>1 DEF vars, process, configured, IInv, TypeOK, LoadsAlone, SaysWhenExited, Handles,
     CutAtTheEnd, MendedIsRight, HandledSignalGivesGrace, GraceBeforeCut, DrainedExitIsClean,
     MendedStaysMended
<1>2. QED
  BY <1>1, FailToStartStep, MendStep, ListenStep, RunningSteps, CallSteps, EndingSteps DEF Next

LEMMA Invariant == Spec => []IInv
BY Initially, Inductive, PTL DEF Spec

\* Every variable keeps its type, whatever the places say of the settings.
THEOREM TypeCorrect == Spec => []TypeOK
BY Invariant, PTL DEF IInv

\* But for Go's and Java's start and Java's demo exception, no call is cut
\* before the drain limit has passed or an operator insisted
\* (HandledSignalGivesGrace).
THEOREM GraceIsGiven == Spec => []HandledSignalGivesGrace
BY Invariant, PTL DEF IInv

\* A process that began to drain exits 0, Java's demo exception apart
\* (DrainedExitIsClean).
THEOREM DrainIsClean == Spec => []DrainedExitIsClean
BY Invariant, PTL DEF IInv

\* What an operator put right is complained of only where the environment
\* shadows it (MendedStaysMended).
THEOREM MendingLasts == Spec => []MendedStaysMended
BY Invariant, PTL DEF IInv
=============================================================================

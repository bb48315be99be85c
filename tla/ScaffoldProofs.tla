--------------------------- MODULE ScaffoldProofs ---------------------------
(***************************************************************************)
(* Proofs about Scaffold, for any number of inits, any template that holds *)
(* .env.example and any files of the user's.                               *)
(***************************************************************************)
EXTENDS Scaffold, TLAPS

-----------------------------------------------------------------------------
(* The inductive invariant: what an init knows of a directory that nobody  *)
(* else has changed since it tested it.                                    *)

\* Until it writes, the directory is as it was when it tested it.
StillEmpty(i) == step[i] \in {"checked", "stated"} => Empty /\ dir = found[i]

\* It remembers rightly whether it has to clean up.
Remembers(i) ==
    step[i] \in {"stated", "writing", "env_written", "cleaning"} =>
      dirCreated[i] = ~found[i]

\* What is there is its own.
OnlyItsOwn(i) ==
    step[i] \in {"writing", "env_written", "cleaning"} =>
      \A f \in Files : file[f] \in {None, i}

\* It cleans up only what it created, and has written what it counted.
InPlace(i) ==
    /\ step[i] \in {"writing", "env_written"} =>
         dir /\ \A n \in 1..at[i] : file[Template[n]] = i
    /\ step[i] = "env_written" => at[i] = Len(Template) /\ file[Env] = i
    /\ step[i] = "cleaning" => dirCreated[i]

Alone(i) == StillEmpty(i) /\ Remembers(i) /\ OnlyItsOwn(i) /\ InPlace(i)

\* An init counts from zero.
FreshCount(i) == step[i] \in {"idle", "checked", "stated"} => at[i] = 0

IInv ==
    /\ TypeOK
    /\ \A i \in Inits : FreshCount(i)
    /\ \A i \in Inits : ~touched[i] => Alone(i)

-----------------------------------------------------------------------------
LEMMA InitIInv == Init => IInv
BY WritersAssumption, TemplateAssumption
   DEF Init, IInv, TypeOK, FreshCount, Alone, StillEmpty, Remembers, OnlyItsOwn, InPlace,
       Steps, Empty

LEMMA TemplateIsFiles ==
    /\ Len(Template) \in Nat
    /\ \A n \in 1..Len(Template) : Template[n] \in TemplateFiles /\ Template[n] \in Files
    /\ Env \in Files /\ EnvExample \in Files
    /\ TemplateFiles \subseteq Files
BY TemplateAssumption DEF TemplateFiles, Files

LEMMA NextTypeOK == TypeOK /\ [Next]_vars => TypeOK'
<1> SUFFICES ASSUME TypeOK, [Next]_vars PROVE TypeOK'
  OBVIOUS
<1> USE DEF TypeOK, Becomes, Empty, Steps
<1>1. \A who : TouchedBy(who) \in [Inits -> BOOLEAN]
  BY DEF TouchedBy
<1>2. ASSUME NEW i \in Inits, InitStep(i) PROVE TypeOK'
  <2>1. CASE Check(i)
    BY <2>1 DEF Check
  <2>2. CASE Stat(i) \/ MakeDirFails(i) \/ SkipEnv(i) \/ Secure(i) \/ LeaveRest(i) \/ Kill(i)
    BY <2>2 DEF Stat, MakeDirFails, SkipEnv, Secure, LeaveRest, Kill
  <2>3. CASE MakeDir(i)
    BY <2>3, <1>1 DEF MakeDir
  <2>4. CASE Extract(i)
    <3>1. at' \in [Inits -> 0..Len(Template)]
      BY <2>4, TemplateIsFiles DEF Extract
    <3>2. QED
      BY <2>4, <3>1, <1>1, TemplateIsFiles DEF Extract, Write
  <2>5. CASE WriteEnv(i)
    BY <2>5, <1>1, TemplateIsFiles DEF WriteEnv, Write
  <2>6. CASE Fail(i)
    <3>1. step' \in [Inits -> Steps]
      BY <2>6 DEF Fail
    <3>2. Unfinished(i) \in Files
      BY <2>6, TemplateIsFiles DEF Unfinished
    <3>3. CASE UNCHANGED <<dir, file, touched>>
      BY <2>6, <3>1, <3>3 DEF Fail
    <3>4. CASE Write(i, Unfinished(i))
      BY <2>6, <3>1, <3>2, <3>4, <1>1 DEF Fail, Write
    <3>5. QED
      BY <2>6, <3>3, <3>4 DEF Fail
  <2>7. CASE RemoveEntry(i)
    BY <2>7, <1>1 DEF RemoveEntry
  <2>8. CASE RemoveDir(i)
    BY <2>8, <1>1 DEF RemoveDir
  <2>9. QED
    BY <1>2, <2>1, <2>2, <2>3, <2>4, <2>5, <2>6, <2>7, <2>8 DEF InitStep
<1>3. CASE UserMakesDir
  BY <1>3, <1>1 DEF UserMakesDir
<1>4. CASE UserWrites
  BY <1>4, <1>1 DEF UserWrites
<1>5. CASE UserRemovesDir
  BY <1>5, <1>1 DEF UserRemovesDir
<1>6. CASE UNCHANGED vars
  BY <1>6 DEF vars
<1>7. QED
  BY <1>2, <1>3, <1>4, <1>5, <1>6 DEF Next

\* A step of somebody else, as i sees it.
Elsewhere(i) ==
    /\ step'[i] = step[i] /\ at'[i] = at[i]
    /\ dirCreated'[i] = dirCreated[i] /\ found'[i] = found[i]
    /\ \/ UNCHANGED <<dir, file, touched>>
       \/ touched'[i] = (touched[i] \/ UnderWay(i))

\* Whoever changes the directory touches every init under way but itself, so
\* an untouched one finds it as it left it.
LEMMA ElsewhereKeepsAlone ==
    ASSUME NEW i \in Inits, Elsewhere(i), ~touched[i] => Alone(i)
    PROVE  ~touched'[i] => Alone(i)'
<1> SUFFICES ASSUME ~touched'[i] PROVE Alone(i)'
  OBVIOUS
<1>1. CASE UNCHANGED <<dir, file, touched>>
  BY <1>1 DEF Elsewhere, Alone, StillEmpty, Remembers, OnlyItsOwn, InPlace, Empty
<1>2. CASE ~touched[i] /\ ~UnderWay(i)
  BY <1>2 DEF Elsewhere, UnderWay, Alone, StillEmpty, Remembers, OnlyItsOwn, InPlace
<1>3. QED
  BY <1>1, <1>2 DEF Elsewhere

\* A step of one init is a step elsewhere for every other.
LEMMA InitStepElsewhere ==
    ASSUME TypeOK, NEW i \in Inits, NEW j \in Inits, i # j, InitStep(i)
    PROVE  Elsewhere(j)
<1> USE DEF TypeOK, Becomes, Elsewhere
<1>1. CASE Check(i) \/ Stat(i) \/ MakeDirFails(i) \/ SkipEnv(i) \/ Secure(i) \/ LeaveRest(i)
          \/ Kill(i)
  BY <1>1 DEF Check, Stat, MakeDirFails, SkipEnv, Secure, LeaveRest, Kill
<1>2. CASE MakeDir(i)
  BY <1>2 DEF MakeDir, TouchedBy
<1>3. CASE Extract(i) \/ WriteEnv(i)
  BY <1>3 DEF Extract, WriteEnv, Write, TouchedBy
<1>4. CASE Fail(i)
  BY <1>4 DEF Fail, Write, TouchedBy
<1>5. CASE RemoveEntry(i) \/ RemoveDir(i)
  BY <1>5 DEF RemoveEntry, RemoveDir, TouchedBy
<1>6. QED
  BY <1>1, <1>2, <1>3, <1>4, <1>5 DEF InitStep

\* An init's own step keeps what it knows.
LEMMA OwnStepKeepsAlone ==
    ASSUME TypeOK, NEW i \in Inits, InitStep(i), FreshCount(i), ~touched[i] => Alone(i)
    PROVE  ~touched'[i] => Alone(i)'
<1> SUFFICES ASSUME ~touched[i] PROVE Alone(i)'
  <2>1. touched'[i] = touched[i]
    BY DEF InitStep, Check, Stat, MakeDir, MakeDirFails, Extract, WriteEnv, SkipEnv, Secure,
           Fail, RemoveEntry, RemoveDir, LeaveRest, Kill, Write, TouchedBy, TypeOK
  <2>2. QED
    BY <2>1
<1> USE DEF TypeOK, Becomes, Alone, StillEmpty, Remembers, OnlyItsOwn, InPlace
<1>1. CASE Check(i)
  BY <1>1 DEF Check, Empty
<1>2. CASE Stat(i)
  BY <1>2 DEF Stat, Empty
<1>3. CASE MakeDir(i)
  BY <1>3 DEF MakeDir, FreshCount, Empty
<1>4. CASE Extract(i)
  <2>1. at'[i] = at[i] + 1 /\ at[i] + 1 \in 1..Len(Template)
    BY <1>4, TemplateIsFiles DEF Extract
  <2>2. \A f \in Files : file'[f] = IF f = Template[at'[i]] THEN i ELSE file[f]
    BY <1>4, <2>1 DEF Extract, Write
  <2>3. \A n \in 1..at'[i] : file'[Template[n]] = i
    <3> SUFFICES ASSUME NEW n \in 1..at'[i] PROVE file'[Template[n]] = i
      OBVIOUS
    <3>1. Template[n] \in Files
      BY <2>1, TemplateIsFiles
    <3>2. n = at'[i] \/ n \in 1..at[i]
      BY <2>1
    <3>3. QED
      BY <1>4, <2>2, <3>1, <3>2 DEF Extract
  <2>4. QED
    BY <1>4, <2>2, <2>3 DEF Extract, Write
<1>5. CASE WriteEnv(i)
  <2>1. \A f \in Files : file'[f] = IF f = Env THEN i ELSE file[f]
    BY <1>5, TemplateIsFiles DEF WriteEnv, Write
  <2>2. \A n \in 1..at'[i] : file'[Template[n]] = i
    BY <1>5, <2>1, TemplateIsFiles DEF WriteEnv
  <2>3. QED
    BY <1>5, <2>1, <2>2, TemplateIsFiles DEF WriteEnv, Write
<1>6. CASE Fail(i)
  <2>1. step'[i] \in {"cleaning", "failed"} /\ (step'[i] = "cleaning" => dirCreated[i])
    BY <1>6 DEF Fail
  <2>2. \A f \in Files : file'[f] \in {None, i}
    BY <1>6 DEF Fail, Write
  <2>3. QED
    BY <1>6, <2>1, <2>2 DEF Fail
<1>7. CASE RemoveEntry(i)
  BY <1>7 DEF RemoveEntry
<1>8. CASE MakeDirFails(i) \/ SkipEnv(i) \/ Secure(i) \/ RemoveDir(i) \/ LeaveRest(i) \/ Kill(i)
  BY <1>8 DEF MakeDirFails, SkipEnv, Secure, RemoveDir, LeaveRest, Kill
<1>9. QED
  BY <1>1, <1>2, <1>3, <1>4, <1>5, <1>6, <1>7, <1>8 DEF InitStep

\* A user's step is a step elsewhere for every init.
LEMMA UserStepElsewhere ==
    ASSUME TypeOK, NEW i \in Inits, UserMakesDir \/ UserWrites \/ UserRemovesDir
    PROVE  Elsewhere(i)
BY WritersAssumption
   DEF TypeOK, UserMakesDir, UserWrites, UserRemovesDir, Elsewhere, TouchedBy

\* An init's step counts only from "writing" on.
LEMMA OwnStepKeepsCount ==
    ASSUME TypeOK, NEW i \in Inits, InitStep(i), FreshCount(i)
    PROVE  FreshCount(i)'
BY DEF TypeOK, FreshCount, Becomes, InitStep, Check, Stat, MakeDir, MakeDirFails, Extract,
       WriteEnv, SkipEnv, Secure, Fail, RemoveEntry, RemoveDir, LeaveRest, Kill

LEMMA NextIInv == IInv /\ [Next]_vars => IInv'
<1> SUFFICES ASSUME IInv, [Next]_vars PROVE IInv'
  OBVIOUS
<1>1. TypeOK /\ TypeOK'
  BY NextTypeOK DEF IInv
<1>2. ASSUME NEW j \in Inits, Elsewhere(j)
      PROVE  FreshCount(j)' /\ (~touched'[j] => Alone(j)')
  <2>1. FreshCount(j)'
    BY <1>2 DEF IInv, FreshCount, Elsewhere
  <2>2. QED
    BY <1>2, <2>1, ElsewhereKeepsAlone DEF IInv
<1>3. ASSUME NEW i \in Inits, InitStep(i) PROVE IInv'
  <2>1. FreshCount(i)' /\ (~touched'[i] => Alone(i)')
    BY <1>1, <1>3, OwnStepKeepsAlone, OwnStepKeepsCount DEF IInv
  <2>2. \A j \in Inits \ {i} : Elsewhere(j)
    BY <1>1, <1>3, InitStepElsewhere
  <2>3. QED
    BY <1>1, <1>2, <2>1, <2>2 DEF IInv
<1>4. CASE UserMakesDir \/ UserWrites \/ UserRemovesDir
  BY <1>1, <1>2, <1>4, UserStepElsewhere DEF IInv
<1>5. CASE UNCHANGED vars
  <2>1. \A j \in Inits : Elsewhere(j)
    BY <1>5 DEF vars, Elsewhere
  <2>2. QED
    BY <1>1, <1>2, <2>1 DEF IInv
<1>6. QED
  BY <1>3, <1>4, <1>5 DEF Next

LEMMA Inductive == Spec => []IInv
BY InitIInv, NextIInv, PTL DEF Spec

-----------------------------------------------------------------------------
\* The variables have their types, and files are in a directory (main.go:160-213).
THEOREM TypeCorrect == Spec => []TypeOK
<1>1. IInv => TypeOK
  BY DEF IInv
<1>2. QED
  BY Inductive, <1>1, PTL

\* An init that ends well in a directory nobody else changed left every file of
\* the template and a .env, all its own (main.go:180-212, env.go:18-74).
THEOREM Complete == Spec => SuccessIsComplete
<1>1. ASSUME IInv, [Next]_vars, NEW i \in Inits,
             step[i] # "done", step'[i] = "done", ~touched[i]
      PROVE  \A f \in TemplateFiles \cup {Env} : file[f] = i
  <2>1. TypeOK /\ Alone(i)
    BY <1>1 DEF IInv
  <2>2. SkipEnv(i) \/ Secure(i)
    <3>1. PICK j \in Inits : InitStep(j)
      BY <1>1 DEF Next, vars, UserMakesDir, UserWrites, UserRemovesDir
    <3>2. i = j
      BY <1>1, <2>1, <3>1, InitStepElsewhere DEF Elsewhere
    <3>3. QED
      BY <1>1, <2>1, <3>1, <3>2
         DEF TypeOK, Becomes, InitStep, Check, Stat, MakeDir, MakeDirFails, Extract, WriteEnv,
             Fail, RemoveEntry, RemoveDir, LeaveRest, Kill
  <2>3. CASE SkipEnv(i)
    <3>1. \A f \in TemplateFiles : file[f] = i
      BY <2>1, <2>3 DEF SkipEnv, Alone, InPlace, TemplateFiles
    <3>2. QED
      BY <2>3, <3>1, TemplateAssumption, WritersAssumption DEF SkipEnv
  <2>4. CASE Secure(i)
    BY <2>1, <2>4 DEF Secure, Alone, InPlace, TemplateFiles
  <2>5. QED
    BY <2>2, <2>3, <2>4
<1>2. IInv /\ [Next]_vars =>
        \A i \in Inits :
          step[i] # "done" /\ step'[i] = "done" /\ ~touched[i] =>
            \A f \in TemplateFiles \cup {Env} : file[f] = i
  BY <1>1
<1>3. QED
  BY Inductive, <1>2, PTL DEF Spec, SuccessIsComplete

\* An init that fails in a directory nobody else changed leaves one if it found
\* one, and only then unless RemoveAll failed as well, with no file in it but of
\* its own writing (main.go:165-176).
THEOREM Restores == Spec => FailureRestores
<1>1. ASSUME IInv, [Next]_vars, NEW i \in Inits,
             step[i] # "failed", step'[i] = "failed", ~touched[i]
      PROVE  /\ found[i] => dir'
             /\ dir' => found[i] \/ LeaveRest(i)
             /\ \A f \in Files : file'[f] \in {None, i}
  <2>1. TypeOK /\ Alone(i)
    BY <1>1 DEF IInv
  <2>2. InitStep(i)
    <3>1. PICK j \in Inits : InitStep(j)
      BY <1>1 DEF Next, vars, UserMakesDir, UserWrites, UserRemovesDir
    <3>2. i = j
      BY <1>1, <2>1, <3>1, InitStepElsewhere DEF Elsewhere
    <3>3. QED
      BY <3>1, <3>2
  <2>3. MakeDirFails(i) \/ Fail(i) \/ RemoveDir(i) \/ LeaveRest(i)
    BY <1>1, <2>1, <2>2
       DEF TypeOK, Becomes, InitStep, Check, Stat, MakeDir, Extract, WriteEnv, SkipEnv, Secure,
           RemoveEntry, Kill
  <2>4. CASE MakeDirFails(i)
    BY <2>1, <2>4 DEF MakeDirFails, Alone, StillEmpty, Empty
  <2>5. CASE Fail(i)
    <3>1. ~dirCreated[i]
      BY <1>1, <2>1, <2>5 DEF TypeOK, Fail, Becomes
    <3>2. found[i] /\ dir
      BY <2>1, <2>5, <3>1 DEF TypeOK, Fail, Alone, Remembers, InPlace
    <3>3. \A f \in Files : file'[f] \in {None, i}
      BY <2>1, <2>5 DEF TypeOK, Fail, Write, Alone, OnlyItsOwn
    <3>4. QED
      BY <2>5, <3>2, <3>3 DEF Fail, Write
  <2>6. CASE RemoveDir(i)
    BY <2>1, <2>6 DEF TypeOK, RemoveDir, Empty, Alone, Remembers, InPlace
  <2>7. CASE LeaveRest(i)
    BY <2>1, <2>7 DEF TypeOK, LeaveRest, Alone, Remembers, OnlyItsOwn, InPlace
  <2>8. QED
    BY <2>3, <2>4, <2>5, <2>6, <2>7
<1>2. IInv /\ [Next]_vars =>
        \A i \in Inits :
          step[i] # "failed" /\ step'[i] = "failed" /\ ~touched[i] =>
            /\ found[i] => dir'
            /\ dir' => found[i] \/ LeaveRest(i)
            /\ \A f \in Files : file'[f] \in {None, i}
  BY <1>1
<1>3. QED
  BY Inductive, <1>2, PTL DEF Spec, FailureRestores

\* An init changes another's file only if that file came after its test for an
\* empty directory (main.go:115, 172-176; scaffold.go:241-249).
THEOREM OthersSurvive == Spec => OthersFilesSurvive
<1>1. ASSUME IInv, NEW i \in Inits, InitStep(i), ~touched[i],
             NEW f \in Files, file[f] \notin {None, i}
      PROVE  file'[f] = file[f]
  <2>1. step[i] \notin {"writing", "env_written", "cleaning"}
    BY <1>1 DEF IInv, Alone, OnlyItsOwn
  <2>2. QED
    BY <1>1, <2>1
       DEF InitStep, Check, Stat, MakeDir, MakeDirFails, Extract, WriteEnv, SkipEnv, Secure,
           Fail, RemoveEntry, RemoveDir, LeaveRest, Kill, UnderWay
<1>2. IInv =>
        \A i \in Inits : InitStep(i) /\ ~touched[i] =>
          \A f \in Files : file[f] \notin {None, i} => file'[f] = file[f]
  BY <1>1
<1>3. QED
  BY Inductive, <1>2, PTL DEF OthersFilesSurvive
=============================================================================

------------------------------ MODULE Scaffold ------------------------------
(***************************************************************************)
(* `usdt-pay init`: it tests the target directory, creates it, extracts    *)
(* the template file by file, writes .env and, if a step fails, removes    *)
(* the directory provided it created it. Nothing locks the directory:      *)
(* other inits and the user work in it at the same time.                   *)
(*                                                                         *)
(* A file is known by who wrote it last; its text is left out. So are the  *)
(* directories inside the project and above it: MkdirAll makes both.       *)
(***************************************************************************)
EXTENDS Naturals, Sequences

CONSTANTS
    Inits,       \* runs of `usdt-pay init` for one target directory
    Template,    \* the template's files, in the order of WalkDir
    UserFiles,   \* what else a user may keep in the directory
    EnvExample,  \* .env.example
    Env,         \* .env
    User, None

ASSUME WritersAssumption ==
    /\ User \notin Inits
    /\ None \notin Inits \cup {User}

TemplateFiles == {Template[n] : n \in 1..Len(Template)}

\* All five starters ship .env.example.
ASSUME TemplateAssumption ==
    /\ Template \in Seq(TemplateFiles)
    /\ EnvExample \in TemplateFiles

Files == TemplateFiles \cup UserFiles \cup {Env}

VARIABLES
    dir,      \* is the target directory there
    file,     \* who wrote each file of it
    step,     \* where each init is
    at,       \* how many template files it has written
    dirCreated, \* what it remembers of Stat
    found,    \* was the directory there when it tested it
    touched   \* has anyone else changed the directory since it tested it

vars == <<dir, file, step, at, dirCreated, found, touched>>

Empty == \A f \in Files : file[f] = None

UnderWay(i) == step[i] \in {"checked", "stated", "writing", "env_written", "cleaning"}

\* `who` changes the directory.
TouchedBy(who) == [i \in Inits |-> touched[i] \/ (i # who /\ UnderWay(i))]

Becomes(i, s) == step' = [step EXCEPT ![i] = s]

Init ==
    /\ dir \in BOOLEAN
    /\ file = [f \in Files |-> None]
    /\ step = [i \in Inits |-> "idle"]
    /\ at = [i \in Inits |-> 0]
    /\ dirCreated = [i \in Inits |-> FALSE]
    /\ found = [i \in Inits |-> FALSE]
    /\ touched = [i \in Inits |-> FALSE]

-----------------------------------------------------------------------------
(* One init.                                                               *)

\* Mutant: any directory will do.
CheckNothing(i) ==
    /\ step[i] = "idle"
    /\ Becomes(i, "checked")
    /\ found' = [found EXCEPT ![i] = dir]
    /\ UNCHANGED <<dir, file, at, dirCreated, touched>>

\* A directory with an entry is refused. Left out: an entry ReadDir cannot read,
\* which passes for no entry.
Check(i) ==
    /\ step[i] = "idle"
    /\ Becomes(i, IF Empty THEN "checked" ELSE "refused")
    /\ found' = [found EXCEPT ![i] = dir]
    /\ UNCHANGED <<dir, file, at, dirCreated, touched>>

\* Mutant: MkdirAll before Stat.
StatLate(i) ==
    /\ step[i] = "checked"
    /\ Becomes(i, "stated")
    /\ dirCreated' = [dirCreated EXCEPT ![i] = FALSE]
    /\ UNCHANGED <<dir, file, at, found, touched>>

\* Left out: an error of Stat other than absence, which passes for presence.
Stat(i) ==
    /\ step[i] = "checked"
    /\ Becomes(i, "stated")
    /\ dirCreated' = [dirCreated EXCEPT ![i] = ~dir]
    /\ UNCHANGED <<dir, file, at, found, touched>>

MakeDir(i) ==
    /\ step[i] = "stated"
    /\ Becomes(i, "writing")
    /\ dir' = TRUE
    /\ touched' = IF dir THEN touched ELSE TouchedBy(i)
    /\ UNCHANGED <<file, at, dirCreated, found>>

\* The one failure without cleanup.
MakeDirFails(i) ==
    /\ step[i] = "stated"
    /\ Becomes(i, "failed")
    /\ UNCHANGED <<dir, file, at, dirCreated, found, touched>>

\* i writes f, which makes the directory again should it be gone.
Write(i, f) ==
    /\ dir' = TRUE
    /\ file' = [file EXCEPT ![f] = i]
    /\ touched' = TouchedBy(i)

\* The next file of the template.
Extract(i) ==
    /\ step[i] = "writing"
    /\ at[i] < Len(Template)
    /\ Write(i, Template[at[i] + 1])
    /\ at' = [at EXCEPT ![i] = @ + 1]
    /\ UNCHANGED <<step, dirCreated, found>>

\* Mutant: .env as soon as its example is there.
WriteEnvEarly(i) ==
    /\ step[i] = "writing"
    /\ file[EnvExample] # None
    /\ Becomes(i, "env_written")
    /\ Write(i, Env)
    /\ UNCHANGED <<at, dirCreated, found>>

\* .env from .env.example.
WriteEnv(i) ==
    /\ step[i] = "writing"
    /\ at[i] = Len(Template)
    /\ file[EnvExample] # None
    /\ Becomes(i, "env_written")
    /\ Write(i, Env)
    /\ UNCHANGED <<at, dirCreated, found>>

\* Without .env.example there is no .env, and no error.
SkipEnv(i) ==
    /\ step[i] = "writing"
    /\ at[i] = Len(Template)
    /\ file[EnvExample] = None
    /\ Becomes(i, "done")
    /\ UNCHANGED <<dir, file, at, dirCreated, found, touched>>

\* Chmod of .env, the last thing that can fail.
Secure(i) ==
    /\ step[i] = "env_written"
    /\ file[Env] # None
    /\ Becomes(i, "done")
    /\ UNCHANGED <<dir, file, at, dirCreated, found, touched>>

\* The file the failing step was at: half of it may be there.
Unfinished(i) ==
    IF at[i] < Len(Template) THEN Template[at[i] + 1] ELSE Env

\* Extracting, generating the key, reading the example, writing or securing
\* .env fails. Cleanup is for a directory this init created.
Fail(i) ==
    /\ step[i] \in {"writing", "env_written"}
    /\ Becomes(i, IF dirCreated[i] THEN "cleaning" ELSE "failed")
    /\ \/ UNCHANGED <<dir, file, touched>>
       \/ Write(i, Unfinished(i))
    /\ UNCHANGED <<at, dirCreated, found>>

\* RemoveAll, entry by entry, whoever's entry it is.
RemoveEntry(i) ==
    /\ step[i] = "cleaning"
    /\ \E f \in Files :
         /\ file[f] # None
         /\ file' = [file EXCEPT ![f] = None]
    /\ touched' = TouchedBy(i)
    /\ UNCHANGED <<dir, step, at, dirCreated, found>>

\* Mutant: the directory goes while it still has entries.
RemoveDirUnread(i) ==
    /\ step[i] = "cleaning"
    /\ Becomes(i, "failed")
    /\ dir' = FALSE
    /\ touched' = TouchedBy(i)
    /\ UNCHANGED <<file, at, dirCreated, found>>

RemoveDir(i) ==
    /\ step[i] = "cleaning"
    /\ Empty
    /\ Becomes(i, "failed")
    /\ dir' = FALSE
    /\ touched' = TouchedBy(i)
    /\ UNCHANGED <<file, at, dirCreated, found>>

\* RemoveAll fails, because somebody else is filling the directory, a file is
\* locked or the disk says no; run ignores it.
LeaveRest(i) ==
    /\ step[i] = "cleaning"
    /\ Becomes(i, "failed")
    /\ UNCHANGED <<dir, file, at, dirCreated, found, touched>>

\* No signal is handled: what was written stays.
Kill(i) ==
    /\ UnderWay(i)
    /\ Becomes(i, "killed")
    /\ UNCHANGED <<dir, file, at, dirCreated, found, touched>>

InitStep(i) ==
    \/ Check(i) \/ Stat(i) \/ MakeDir(i) \/ MakeDirFails(i)
    \/ Extract(i) \/ WriteEnv(i) \/ SkipEnv(i) \/ Secure(i)
    \/ Fail(i) \/ RemoveEntry(i) \/ RemoveDir(i) \/ LeaveRest(i)
    \/ Kill(i)

-----------------------------------------------------------------------------
(* The user.                                                               *)

UserMakesDir ==
    /\ ~dir
    /\ dir' = TRUE
    /\ touched' = TouchedBy(User)
    /\ UNCHANGED <<file, step, at, dirCreated, found>>

UserWrites ==
    /\ dir
    /\ \E f \in Files : file' = [file EXCEPT ![f] = User]
    /\ touched' = TouchedBy(User)
    /\ UNCHANGED <<dir, step, at, dirCreated, found>>

UserRemovesDir ==
    /\ dir
    /\ dir' = FALSE
    /\ file' = [f \in Files |-> None]
    /\ touched' = TouchedBy(User)
    /\ UNCHANGED <<step, at, dirCreated, found>>

-----------------------------------------------------------------------------
Next ==
    \/ \E i \in Inits : InitStep(i)
    \/ UserMakesDir
    \/ UserWrites
    \/ UserRemovesDir

Spec == Init /\ [][Next]_vars

-----------------------------------------------------------------------------
Steps == {"idle", "refused", "checked", "stated", "writing", "env_written",
          "cleaning", "done", "failed", "killed"}

\* The variables have their types, and files are in a directory.
TypeOK ==
    /\ dir \in BOOLEAN
    /\ file \in [Files -> Inits \cup {User, None}]
    /\ step \in [Inits -> Steps]
    /\ at \in [Inits -> 0..Len(Template)]
    /\ dirCreated \in [Inits -> BOOLEAN]
    /\ found \in [Inits -> BOOLEAN]
    /\ touched \in [Inits -> BOOLEAN]
    /\ ~dir => Empty

\* An init that ends well left a whole project of its own: every file of the
\* template and a .env with the key it printed. One whose directory somebody
\* else changed meanwhile may say "Project Created Successfully!" over less.
SuccessIsComplete ==
    [][\A i \in Inits :
         step[i] # "done" /\ step'[i] = "done" /\ ~touched[i] =>
           \A f \in TemplateFiles \cup {Env} : file[f] = i]_vars

\* An init that fails never takes away a directory that was there, removes the
\* one it made, unless the removal itself failed, and leaves no file in it but
\* of its own writing. What somebody else changed meanwhile is excepted.
FailureRestores ==
    [][\A i \in Inits :
         step[i] # "failed" /\ step'[i] = "failed" /\ ~touched[i] =>
           /\ found[i] => dir'
           /\ dir' => found[i] \/ LeaveRest(i)
           /\ \A f \in Files : file'[f] \in {None, i}]_vars

\* An init overwrites or removes another's file only if that file came after
\* the test for an empty directory: neither extraction nor cleanup asks whose
\* a file is.
OthersFilesSurvive ==
    [][\A i \in Inits : InitStep(i) /\ ~touched[i] =>
         \A f \in Files : file[f] \notin {None, i} => file'[f] = file[f]]_vars
=============================================================================

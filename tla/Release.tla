------------------------------- MODULE Release -------------------------------
(***************************************************************************)
(* The release job of .github/workflows/release.yaml: several dispatches,  *)
(* none of them serialised by a concurrency group, each computing a        *)
(* version from the tags its checkout saw, rewriting every version site    *)
(* and pushing a commit and a tag in one atomic push, while developers     *)
(* push to the same branch and operators re-run what failed.               *)
(***************************************************************************)
EXTENDS Integers, Sequences, FiniteSets

CONSTANTS Dispatches,   \* workflow_dispatch runs
          Sites,        \* the groups of files that spell the version
          FirstVersion, \* the version the tree carries before any release
          MaxCommits    \* bound: commits master may hold

\* The group that holds java/gradle.properties, read by the first release.
Gradle == "java"

Version == Nat \X Nat \X Nat

ASSUME ReleaseAssumption == /\ Gradle \in Sites
                            /\ FirstVersion \in Version
                            /\ MaxCommits \in Nat \ {0}

Bumps == {"patch", "minor", "major"}

(***************************************************************************)
(* A commit is the tree it holds: the version each site spells, the sites  *)
(* whose text the workflow's patterns no longer match, and whether the     *)
(* release job made it.                                                    *)
(***************************************************************************)
Tree == [sites: [Sites -> Version], loose: SUBSET Sites, bumped: BOOLEAN]

FirstTree == [sites |-> [s \in Sites |-> FirstVersion], loose |-> {}, bumped |-> FALSE]

VARIABLES
    master,  \* the commits of the branch, oldest first
    tags,    \* the tags of the remote: the version and the commit tagged
    job      \* what each dispatch's release job holds

vars == <<master, tags, job>>

Tag == [ver: Version, at: Nat]

Steps == {"undispatched", "queued", "checkedOut", "validated", "pushed", "succeeded",
          "failed", "skipped"}

Job == [step: Steps, base: Nat, bump: Bumps, seen: SUBSET Tag, ver: Version, tree: Tree]

Precedes(v, w) == \/ v[1] < w[1]
                  \/ v[1] = w[1] /\ v[2] < w[2]
                  \/ v[1] = w[1] /\ v[2] = w[2] /\ v[3] < w[3]

\* git tag -l 'v[0-9]*' --sort=-v:refname | head -n1
Latest(ts) == CHOOSE v \in {t.ver : t \in ts} : \A t \in ts : ~Precedes(v, t.ver)

BumpOf(v, b) == IF b = "major" THEN <<v[1] + 1, 0, 0>>
                ELSE IF b = "minor" THEN <<v[1], v[2] + 1, 0>>
                ELSE <<v[1], v[2], v[3] + 1>>

\* Calculate version: the tree's own version is the first release.
NextVersion(ts, tree, b) ==
    IF ts = {} THEN tree.sites[Gradle] ELSE BumpOf(Latest(ts), b)

\* Mutant: a site whose pattern matches nothing is lost.
BumpedDroppingSites(tree, v) ==
    [sites  |-> [s \in Sites \ tree.loose |-> v],
     loose  |-> tree.loose,
     bumped |-> TRUE]

\* The update steps: a pattern that no longer matches rewrites nothing.
Bumped(tree, v) ==
    [sites  |-> [s \in Sites |-> IF s \in tree.loose THEN tree.sites[s] ELSE v],
     loose  |-> tree.loose,
     bumped |-> TRUE]

\* Mutant: one site that spells the version will do.
ValidOneSite(tree, v) == \E s \in Sites : tree.sites[s] = v

\* Validate updated files: what a pattern no longer finds is a mismatch too.
Valid(tree, v) == \A s \in Sites : s \notin tree.loose /\ tree.sites[s] = v

Init ==
    /\ master = <<FirstTree>>
    /\ tags = {}
    /\ job = [d \in Dispatches |->
                [step |-> "undispatched", base |-> 1, bump |-> "patch", seen |-> {},
                 ver |-> FirstVersion, tree |-> FirstTree]]

\* The run is bound to the branch's head as it is when somebody dispatches
\* it; a dispatch against another branch skips the job.
DispatchRun(d) ==
    /\ job[d].step = "undispatched"
    /\ \E b \in Bumps, onMaster \in BOOLEAN :
         job' = [job EXCEPT ![d].step = IF onMaster THEN "queued" ELSE "skipped",
                            ![d].base = Len(master),
                            ![d].bump = b]
    /\ UNCHANGED <<master, tags>>

\* The checkout is of the run's own commit, with every tag there is by now.
Checkout(d) ==
    /\ job[d].step = "queued"
    /\ job' = [job EXCEPT ![d].step = "checkedOut",
                          ![d].seen = tags,
                          ![d].tree = master[job[d].base]]
    /\ UNCHANGED <<master, tags>>

\* Calculate version, the four update steps and Validate, all on the runner.
Prepare(d) ==
    /\ job[d].step = "checkedOut"
    /\ LET v == NextVersion(job[d].seen, job[d].tree, job[d].bump)
           t == Bumped(job[d].tree, v)
       IN  job' = [job EXCEPT ![d].step = IF Valid(t, v) THEN "validated" ELSE "failed",
                              ![d].ver = v, ![d].tree = t]
    /\ UNCHANGED <<master, tags>>

\* The remote takes a push of HEAD:master only as a fast-forward, and a tag
\* only if it is new; --atomic refuses both when it refuses one.
FastForward(d) == job[d].base = Len(master)
NewTag(d)      == \A t \in tags : t.ver # job[d].ver

NewTagOf(d)    == [ver |-> job[d].ver, at |-> Len(master) + 1]

\* Mutant: a push that may land the branch and not the tag.
PushBranchFirst(d) ==
    /\ job[d].step = "validated"
    /\ FastForward(d)
    /\ Len(master) < MaxCommits
    /\ master' = Append(master, job[d].tree)
    /\ \/ /\ tags' = tags \cup {NewTagOf(d)}
          /\ job' = [job EXCEPT ![d].step = "pushed"]
       \/ /\ tags' = tags
          /\ job' = [job EXCEPT ![d].step = "failed"]

\* Mutant: a push that does not insist on a fast-forward.
PushForced(d) ==
    /\ job[d].step = "validated"
    /\ NewTag(d)
    /\ Len(master) < MaxCommits
    /\ master' = Append(master, job[d].tree)
    /\ tags' = tags \cup {NewTagOf(d)}
    /\ job' = [job EXCEPT ![d].step = "pushed"]

\* The push lands; the step still fails when its answer never arrives.
Push(d) ==
    /\ job[d].step = "validated"
    /\ FastForward(d)
    /\ NewTag(d)
    /\ Len(master) < MaxCommits
    /\ master' = Append(master, job[d].tree)
    /\ tags' = tags \cup {NewTagOf(d)}
    /\ \E s \in {"pushed", "failed"} : job' = [job EXCEPT ![d].step = s]

PushRefused(d) ==
    /\ job[d].step = "validated"
    /\ ~(FastForward(d) /\ NewTag(d))
    /\ job' = [job EXCEPT ![d].step = "failed"]
    /\ UNCHANGED <<master, tags>>

\* Create GitHub Release, the last step.
CreateRelease(d) ==
    /\ job[d].step = "pushed"
    /\ job' = [job EXCEPT ![d].step = "succeeded"]
    /\ UNCHANGED <<master, tags>>

\* Any step of a job under way can fail: the npm gate, the registry, a tool.
FailStep(d) ==
    /\ job[d].step \in {"queued", "checkedOut", "validated", "pushed"}
    /\ job' = [job EXCEPT ![d].step = "failed"]
    /\ UNCHANGED <<master, tags>>

\* Re-run failed or all jobs: the same run, so the same commit.
Rerun(d) ==
    /\ job[d].step \in {"failed", "succeeded"}
    /\ job' = [job EXCEPT ![d].step = "queued"]
    /\ UNCHANGED <<master, tags>>

\* A developer's commit: more code, a revert to an older tree's versions, or
\* a version site reworded out of its pattern's reach.
DeveloperPush ==
    /\ Len(master) < MaxCommits
    /\ \E i \in 1 .. Len(master), loose \in SUBSET Sites :
         master' = Append(master, [sites |-> master[i].sites, loose |-> loose, bumped |-> FALSE])
    /\ UNCHANGED <<tags, job>>

JobStep(d) == \/ DispatchRun(d) \/ Checkout(d) \/ Prepare(d)
              \/ Push(d) \/ PushRefused(d) \/ CreateRelease(d) \/ FailStep(d) \/ Rerun(d)

Next == DeveloperPush \/ \E d \in Dispatches : JobStep(d)

Spec == Init /\ [][Next]_vars

-----------------------------------------------------------------------------
\* Every variable holds what the workflow can put there.
TypeOK ==
    /\ master \in Seq(Tree) /\ Len(master) > 0
    /\ tags \subseteq Tag
    /\ job \in [Dispatches -> Job]
    /\ \A d \in Dispatches : job[d].base \in 1 .. Len(master)

(***************************************************************************)
(* However dispatches interleave, a tag that appears is exactly one bump   *)
(* past the latest tag of that moment -- not of the moment the job read    *)
(* its tags -- and the first tag is the version master's tree carried. No  *)
(* version is skipped and none is bumped twice.                            *)
(***************************************************************************)
OneBumpAtATime ==
    [][\A t \in tags' \ tags :
          IF tags = {} THEN t.ver = master[Len(master)].sites[Gradle]
          ELSE \E b \in Bumps : t.ver = BumpOf(Latest(tags), b)]_vars

(***************************************************************************)
(* What publish.yaml will build from a tag is a commit of master in which  *)
(* every site spells the tag's version, even when the site had drifted or  *)
(* a pattern had stopped matching before the release.                      *)
(***************************************************************************)
TaggedTreeAgrees ==
    \A t \in tags : /\ t.at \in 1 .. Len(master)
                    /\ \A s \in Sites : master[t.at].sites[s] = t.ver

(***************************************************************************)
(* Master never carries a bump commit without its tag: the half-landed     *)
(* push from which a re-dispatch would bump twice.                         *)
(***************************************************************************)
BumpCommitHasItsTag ==
    \A i \in 1 .. Len(master) : master[i].bumped => \E t \in tags : t.at = i
==============================================================================

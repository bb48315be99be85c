--------------------------- MODULE WorkflowProofs ---------------------------
(***************************************************************************)
(* Proofs about the two workflows. Release, for every set of dispatches,   *)
(* of version sites and every bound: the inductive invariant says why a    *)
(* stale checkout never reaches the remote, as a job whose commit is still *)
(* the head of master has seen every tag there is. Publish, however often  *)
(* its jobs fail and are run again: what a job needed stays in the world   *)
(* or on record when the job itself is forgotten by a re-run.              *)
(***************************************************************************)
EXTENDS Release, Publish, TLAPS

\* Latest(ts) is one of the versions of ts and none of them is later.
HasLatest(ts) ==
    ts # {} => \E v \in {t.ver : t \in ts} : \A t \in ts : ~Precedes(v, t.ver)

LatestExists == HasLatest(tags) /\ \A d \in Dispatches : HasLatest(job[d].seen)

\* A job still at the head of master has seen every tag.
SeenAtHead ==
    \A d \in Dispatches :
        (job[d].step \in {"checkedOut", "validated"} /\ job[d].base = Len(master))
            => job[d].seen = tags

CheckedOutTree ==
    \A d \in Dispatches : job[d].step = "checkedOut" => job[d].tree = master[job[d].base]

ValidatedTree ==
    \A d \in Dispatches : job[d].step = "validated" =>
        /\ job[d].ver = NextVersion(job[d].seen, master[job[d].base], job[d].bump)
        /\ job[d].tree.bumped
        /\ \A s \in Sites : job[d].tree.sites[s] = job[d].ver

IInv == /\ TypeOK
        /\ LatestExists
        /\ SeenAtHead
        /\ CheckedOutTree
        /\ ValidatedTree
        /\ TaggedTreeAgrees
        /\ BumpCommitHasItsTag

\* The greatest version of a set of tags is a version, later than none of them.
LEMMA LatestIsLatest ==
    ASSUME NEW ts \in SUBSET Tag, ts # {}, HasLatest(ts)
    PROVE  /\ Latest(ts) \in Version
           /\ Latest(ts) \in {t.ver : t \in ts}
           /\ \A t \in ts : ~Precedes(Latest(ts), t.ver)
<1>1. \E v \in {t.ver : t \in ts} : \A t \in ts : ~Precedes(v, t.ver)
  BY DEF HasLatest
<1>2. /\ Latest(ts) \in {t.ver : t \in ts}
      /\ \A t \in ts : ~Precedes(Latest(ts), t.ver)
  BY <1>1 DEF Latest
<1>3. \A t \in ts : t.ver \in Version
  BY DEF Tag
<1> QED
  BY <1>2, <1>3

\* A bump of a version is a version, and follows whatever that one followed.
LEMMA BumpFollows ==
    ASSUME NEW v \in Version, NEW b \in Bumps
    PROVE  /\ BumpOf(v, b) \in Version
           /\ ~Precedes(BumpOf(v, b), BumpOf(v, b))
           /\ \A w \in Version : ~Precedes(v, w) => ~Precedes(BumpOf(v, b), w)
<1>1. v[1] \in Nat /\ v[2] \in Nat /\ v[3] \in Nat
  BY DEF Version
<1>2. \A w \in Version : w[1] \in Nat /\ w[2] \in Nat /\ w[3] \in Nat
  BY DEF Version
<1>3. CASE b = "major"
  <2>1. BumpOf(v, b) = <<v[1] + 1, 0, 0>>
    BY <1>3 DEF BumpOf
  <2> QED
    BY <2>1, <1>1, <1>2 DEF Precedes, Version
<1>4. CASE b = "minor"
  <2>1. BumpOf(v, b) = <<v[1], v[2] + 1, 0>>
    BY <1>4 DEF BumpOf
  <2> QED
    BY <2>1, <1>1, <1>2 DEF Precedes, Version
<1>5. CASE b = "patch"
  <2>1. BumpOf(v, b) = <<v[1], v[2], v[3] + 1>>
    BY <1>5 DEF BumpOf
  <2> QED
    BY <2>1, <1>1, <1>2 DEF Precedes, Version
<1> QED
  BY <1>3, <1>4, <1>5 DEF Bumps

\* The version a job computes is a version.
LEMMA NextVersionIsVersion ==
    ASSUME NEW ts \in SUBSET Tag, HasLatest(ts), NEW tree \in Tree, NEW b \in Bumps
    PROVE  NextVersion(ts, tree, b) \in Version
<1>1. CASE ts = {}
  BY <1>1, ReleaseAssumption DEF NextVersion, Tree
<1>2. CASE ts # {}
  <2>1. Latest(ts) \in Version
    BY <1>2, LatestIsLatest
  <2> QED
    BY <1>2, <2>1, BumpFollows DEF NextVersion
<1> QED
  BY <1>1, <1>2

\* A set of tags that gains the first version, or a bump of its latest one,
\* still has a latest version.
LEMMA NewTagIsLatest ==
    ASSUME NEW ts \in SUBSET Tag, HasLatest(ts), NEW tag \in Tag,
           NEW tree \in Tree, NEW b \in Bumps, tag.ver = NextVersion(ts, tree, b)
    PROVE  HasLatest(ts \cup {tag})
<1>1. tag.ver \in {t.ver : t \in ts \cup {tag}}
  OBVIOUS
<1>2. ~Precedes(tag.ver, tag.ver)
  <2>1. \A v \in Version : ~Precedes(v, v)
    BY DEF Precedes, Version
  <2> QED
    BY <2>1 DEF Tag
<1>3. \A t \in ts : ~Precedes(tag.ver, t.ver)
  <2> SUFFICES ASSUME NEW t \in ts PROVE ~Precedes(tag.ver, t.ver)
    OBVIOUS
  <2>1. /\ Latest(ts) \in Version
        /\ ~Precedes(Latest(ts), t.ver)
    BY LatestIsLatest
  <2>2. t.ver \in Version
    BY DEF Tag
  <2>3. tag.ver = BumpOf(Latest(ts), b)
    BY DEF NextVersion
  <2> QED
    BY <2>1, <2>2, <2>3, BumpFollows
<1>4. \A t \in ts \cup {tag} : ~Precedes(tag.ver, t.ver)
  BY <1>2, <1>3
<1> QED
  BY <1>1, <1>4 DEF HasLatest

\* The rewritten tree is a tree.
LEMMA BumpedIsTree ==
    ASSUME NEW tree \in Tree, NEW v \in Version
    PROVE  Bumped(tree, v) \in Tree
BY DEF Bumped, Tree

LEMMA InitInvariant == Init => IInv
<1> SUFFICES ASSUME Init PROVE IInv
  OBVIOUS
<1>1. FirstTree \in Tree
  BY ReleaseAssumption DEF FirstTree, Tree
<1>2. TypeOK
  BY <1>1, ReleaseAssumption DEF Init, TypeOK, Job, Steps, Bumps, Tag
<1>3. LatestExists
  BY DEF Init, LatestExists, HasLatest
<1>4. SeenAtHead /\ CheckedOutTree /\ ValidatedTree
  BY DEF Init, SeenAtHead, CheckedOutTree, ValidatedTree
<1>5. TaggedTreeAgrees /\ BumpCommitHasItsTag
  BY DEF Init, TaggedTreeAgrees, BumpCommitHasItsTag, FirstTree
<1> QED
  BY <1>2, <1>3, <1>4, <1>5 DEF IInv

\* What a job that pushes knows: its version follows the tags of the remote.
LEMMA PushedVersion ==
    ASSUME IInv, NEW d \in Dispatches, job[d].step = "validated", FastForward(d)
    PROVE  /\ job[d].ver = NextVersion(tags, master[Len(master)], job[d].bump)
           /\ job[d].ver \in Version /\ job[d].bump \in Bumps /\ job[d].tree \in Tree
           /\ master[Len(master)] \in Tree
           /\ NewTagOf(d) \in Tag
           /\ HasLatest(tags \cup {NewTagOf(d)})
<1>1. job[d] \in Job /\ master \in Seq(Tree) /\ Len(master) > 0 /\ tags \in SUBSET Tag
  BY DEF IInv, TypeOK
<1>2. job[d].base = Len(master) /\ job[d].seen = tags
  BY DEF IInv, SeenAtHead, FastForward
<1>3. job[d].ver = NextVersion(tags, master[Len(master)], job[d].bump)
  BY <1>2 DEF IInv, ValidatedTree
<1>4. job[d].ver \in Version /\ job[d].bump \in Bumps /\ job[d].tree \in Tree
  BY <1>1 DEF Job
<1>5. master[Len(master)] \in Tree /\ Len(master) \in Nat
  BY <1>1
<1>6. NewTagOf(d) \in Tag /\ NewTagOf(d).ver = job[d].ver
  BY <1>4, <1>5 DEF NewTagOf, Tag
<1>7. HasLatest(tags)
  BY DEF IInv, LatestExists
<1>8. HasLatest(tags \cup {NewTagOf(d)})
  BY <1>1, <1>3, <1>4, <1>5, <1>6, <1>7, NewTagIsLatest
<1> QED
  BY <1>3, <1>4, <1>5, <1>6, <1>8

\* A step of one job that leaves the remote alone: what every other job
\* knows of the remote is unchanged, so only job d need be looked at.
LEMMA LocalStep ==
    ASSUME IInv, NEW d \in Dispatches, NEW j \in Job,
           job' = [job EXCEPT ![d] = j], master' = master, tags' = tags,
           j.base \in 1 .. Len(master),
           HasLatest(j.seen),
           (j.step \in {"checkedOut", "validated"} /\ j.base = Len(master)) => j.seen = tags,
           j.step = "checkedOut" => j.tree = master[j.base],
           j.step = "validated" =>
               /\ j.ver = NextVersion(j.seen, master[j.base], j.bump)
               /\ j.tree.bumped
               /\ \A s \in Sites : j.tree.sites[s] = j.ver
    PROVE  IInv'
<1>1. job'[d] = j /\ \A e \in Dispatches \ {d} : job'[e] = job[e]
  BY DEF IInv, TypeOK
<1>2. TypeOK'
  <2>1. job' \in [Dispatches -> Job]
    BY DEF IInv, TypeOK
  <2>2. \A e \in Dispatches : job'[e].base \in 1 .. Len(master)
    BY <1>1 DEF IInv, TypeOK
  <2> QED
    BY <2>1, <2>2 DEF IInv, TypeOK
<1>3. LatestExists'
  BY <1>1 DEF IInv, LatestExists
<1>4. SeenAtHead'
  BY <1>1 DEF IInv, SeenAtHead
<1>5. CheckedOutTree'
  BY <1>1 DEF IInv, CheckedOutTree
<1>6. ValidatedTree'
  BY <1>1 DEF IInv, ValidatedTree
<1>7. TaggedTreeAgrees' /\ BumpCommitHasItsTag'
  BY DEF IInv, TaggedTreeAgrees, BumpCommitHasItsTag
<1> QED
  BY <1>2, <1>3, <1>4, <1>5, <1>6, <1>7 DEF IInv

\* A job that only moves to a step in which nothing is held against it.
LEMMA StepOnly ==
    ASSUME IInv, NEW d \in Dispatches, NEW st \in Steps \ {"checkedOut", "validated"},
           job' = [job EXCEPT ![d].step = st], master' = master, tags' = tags
    PROVE  IInv'
<1> DEFINE j == [job[d] EXCEPT !.step = st]
<1>1. job[d] \in Job /\ job[d].base \in 1 .. Len(master) /\ HasLatest(job[d].seen)
  BY DEF IInv, TypeOK, LatestExists
<1>2. j \in Job /\ j.step = st /\ j.base = job[d].base /\ j.seen = job[d].seen
  BY <1>1 DEF Job, Steps
<1>3. job' = [job EXCEPT ![d] = j]
  BY DEF IInv, TypeOK
<1> HIDE DEF j
<1> QED
  BY <1>1, <1>2, <1>3, LocalStep

\* A step that appends one commit to master and at most one tag of it, and
\* leaves every job where it knows nothing the remote could contradict.
LEMMA PushPreserves ==
    ASSUME IInv, NEW d \in Dispatches, Push(d)
    PROVE  IInv'
<1> DEFINE tag == NewTagOf(d)
<1>1. PICK st \in {"pushed", "failed"} : job' = [job EXCEPT ![d].step = st]
  BY DEF Push
<1>2. /\ job[d].step = "validated" /\ FastForward(d)
      /\ master' = Append(master, job[d].tree) /\ tags' = tags \cup {tag}
  BY DEF Push
<1>3. /\ job[d].ver \in Version /\ job[d].tree \in Tree /\ tag \in Tag
      /\ HasLatest(tags \cup {tag})
  BY <1>2, PushedVersion
<1>4. /\ master \in Seq(Tree) /\ Len(master) > 0 /\ Len(master) \in Nat
      /\ job \in [Dispatches -> Job]
      /\ \A e \in Dispatches : job[e].base \in 1 .. Len(master)
  BY DEF IInv, TypeOK
<1>5. /\ master' \in Seq(Tree) /\ Len(master') = Len(master) + 1
      /\ master'[Len(master) + 1] = job[d].tree
      /\ \A i \in 1 .. Len(master) : master'[i] = master[i]
  BY <1>2, <1>3, <1>4
<1>6. tag.ver = job[d].ver /\ tag.at = Len(master) + 1
  BY DEF NewTagOf
<1>7. job' \in [Dispatches -> Job]
  BY <1>1, <1>4 DEF Job, Steps
<1>8. /\ job'[d].step = st
      /\ \A e \in Dispatches : /\ job'[e].base = job[e].base /\ job'[e].seen = job[e].seen
                               /\ job'[e].ver = job[e].ver /\ job'[e].tree = job[e].tree
                               /\ job'[e].bump = job[e].bump
      /\ \A e \in Dispatches \ {d} : job'[e].step = job[e].step
  BY <1>1, <1>4 DEF Job
<1> HIDE DEF tag
<1>9. TypeOK'
  <2>1. \A e \in Dispatches : job'[e].base \in 1 .. Len(master')
    BY <1>4, <1>5, <1>8
  <2>2. tags' \subseteq Tag
    BY <1>2, <1>3 DEF IInv, TypeOK
  <2> QED
    BY <1>4, <1>5, <1>7, <2>1, <2>2 DEF TypeOK
<1>10. LatestExists'
  BY <1>2, <1>3, <1>8 DEF IInv, LatestExists
<1>11. SeenAtHead'
  <2>1. \A e \in Dispatches : job'[e].base # Len(master')
    BY <1>4, <1>5, <1>8
  <2> QED
    BY <2>1 DEF SeenAtHead
<1>12. CheckedOutTree'
  BY <1>1, <1>4, <1>5, <1>8 DEF IInv, CheckedOutTree
<1>13. ValidatedTree'
  <2> SUFFICES ASSUME NEW e \in Dispatches, job'[e].step = "validated"
               PROVE  /\ job'[e].ver = NextVersion(job'[e].seen, master'[job'[e].base], job'[e].bump)
                      /\ job'[e].tree.bumped
                      /\ \A s \in Sites : job'[e].tree.sites[s] = job'[e].ver
    BY DEF ValidatedTree
  <2>1. e # d /\ job[e].step = "validated"
    BY <1>1, <1>8
  <2>2. master'[job'[e].base] = master[job[e].base]
    BY <1>4, <1>5, <1>8
  <2> QED
    BY <1>8, <2>1, <2>2 DEF IInv, ValidatedTree
<1>14. TaggedTreeAgrees'
  <2> SUFFICES ASSUME NEW t \in tags'
               PROVE  /\ t.at \in 1 .. Len(master')
                      /\ \A s \in Sites : master'[t.at].sites[s] = t.ver
    BY DEF TaggedTreeAgrees
  <2>1. CASE t \in tags
    BY <1>4, <1>5, <2>1 DEF IInv, TaggedTreeAgrees
  <2>2. CASE t = tag
    <3>1. \A s \in Sites : job[d].tree.sites[s] = job[d].ver
      BY <1>2 DEF IInv, ValidatedTree
    <3> QED
      BY <1>4, <1>5, <1>6, <2>2, <3>1
  <2> QED
    BY <1>2, <2>1, <2>2
<1>15. BumpCommitHasItsTag'
  <2> SUFFICES ASSUME NEW i \in 1 .. Len(master'), master'[i].bumped
               PROVE  \E t \in tags' : t.at = i
    BY DEF BumpCommitHasItsTag
  <2>1. CASE i \in 1 .. Len(master)
    BY <1>2, <1>5, <2>1 DEF IInv, BumpCommitHasItsTag
  <2>2. CASE i = Len(master) + 1
    BY <1>2, <1>6, <2>2
  <2> QED
    BY <1>4, <1>5, <2>1, <2>2
<1> QED
  BY <1>9, <1>10, <1>11, <1>12, <1>13, <1>14, <1>15 DEF IInv

LEMMA DeveloperPreserves ==
    ASSUME IInv, DeveloperPush
    PROVE  IInv'
<1>1. PICK i \in 1 .. Len(master), loose \in SUBSET Sites :
        master' = Append(master, [sites |-> master[i].sites, loose |-> loose, bumped |-> FALSE])
  BY DEF DeveloperPush
<1> DEFINE new == [sites |-> master[i].sites, loose |-> loose, bumped |-> FALSE]
<1>2. tags' = tags /\ job' = job
  BY DEF DeveloperPush
<1>3. /\ master \in Seq(Tree) /\ Len(master) > 0 /\ Len(master) \in Nat
      /\ \A e \in Dispatches : job[e].base \in 1 .. Len(master)
  BY DEF IInv, TypeOK
<1>4. new \in Tree /\ ~new.bumped
  <2>1. master[i] \in Tree
    BY <1>3
  <2> QED
    BY <2>1 DEF Tree
<1>5. /\ master' \in Seq(Tree) /\ Len(master') = Len(master) + 1
      /\ master'[Len(master) + 1] = new
      /\ \A k \in 1 .. Len(master) : master'[k] = master[k]
  BY <1>1, <1>3, <1>4
<1> HIDE DEF new
<1>6. TypeOK'
  BY <1>2, <1>3, <1>5 DEF IInv, TypeOK
<1>7. LatestExists'
  BY <1>2 DEF IInv, LatestExists
<1>8. SeenAtHead'
  BY <1>2, <1>3, <1>5 DEF SeenAtHead
<1>9. CheckedOutTree'
  BY <1>2, <1>3, <1>5 DEF IInv, CheckedOutTree
<1>10. ValidatedTree'
  BY <1>2, <1>3, <1>5 DEF IInv, ValidatedTree
<1>11. TaggedTreeAgrees'
  BY <1>2, <1>3, <1>5 DEF IInv, TaggedTreeAgrees
<1>12. BumpCommitHasItsTag'
  BY <1>2, <1>3, <1>4, <1>5 DEF IInv, BumpCommitHasItsTag
<1> QED
  BY <1>6, <1>7, <1>8, <1>9, <1>10, <1>11, <1>12 DEF IInv

LEMMA CheckoutPreserves ==
    ASSUME IInv, NEW d \in Dispatches, Checkout(d)
    PROVE  IInv'
<1> DEFINE j == [job[d] EXCEPT !.step = "checkedOut", !.seen = tags,
                               !.tree = master[job[d].base]]
<1>1. /\ job \in [Dispatches -> Job] /\ job[d] \in Job /\ job[d].base \in 1 .. Len(master)
      /\ tags \subseteq Tag /\ HasLatest(tags) /\ master \in Seq(Tree)
  BY DEF IInv, TypeOK, LatestExists
<1>2. master[job[d].base] \in Tree
  BY <1>1
<1>3. /\ j \in Job /\ j.step = "checkedOut" /\ j.base = job[d].base /\ j.seen = tags
      /\ j.tree = master[j.base]
  BY <1>1, <1>2 DEF Job, Steps
<1>4. job' = [job EXCEPT ![d] = j] /\ master' = master /\ tags' = tags
  BY <1>1 DEF Checkout
<1> HIDE DEF j
<1> QED
  BY <1>1, <1>3, <1>4, LocalStep

\* Prepare computes from the tags the checkout saw, and only a tree whose
\* every site spells the version leaves it validated.
LEMMA PreparePreserves ==
    ASSUME IInv, NEW d \in Dispatches, Prepare(d)
    PROVE  IInv'
<1> DEFINE v == NextVersion(job[d].seen, job[d].tree, job[d].bump)
           t == Bumped(job[d].tree, v)
           st == IF Valid(t, v) THEN "validated" ELSE "failed"
           j == [job[d] EXCEPT !.step = st, !.ver = v, !.tree = t]
<1>1. /\ job \in [Dispatches -> Job] /\ job[d] \in Job /\ job[d].base \in 1 .. Len(master)
      /\ HasLatest(job[d].seen)
  BY DEF IInv, TypeOK, LatestExists
<1>2. /\ job[d].step = "checkedOut" /\ job[d].tree = master[job[d].base]
      /\ (job[d].base = Len(master) => job[d].seen = tags)
  BY DEF Prepare, IInv, CheckedOutTree, SeenAtHead
<1>3. v \in Version
  BY <1>1, NextVersionIsVersion DEF Job
<1>4. t \in Tree /\ t.bumped
  <2>1. t \in Tree
    BY <1>1, <1>3, BumpedIsTree DEF Job
  <2>2. t.bumped
    BY DEF Bumped
  <2> QED
    BY <2>1, <2>2
<1>5. st \in Steps /\ st # "checkedOut"
  BY DEF Steps
<1>6. st = "validated" => \A s \in Sites : t.sites[s] = v
  BY DEF Valid
<1>7. job' = [job EXCEPT ![d] = j] /\ master' = master /\ tags' = tags
  BY <1>1 DEF Prepare
<1>8. v = NextVersion(job[d].seen, master[job[d].base], job[d].bump)
  BY <1>2
<1> HIDE DEF v, t, st
<1>9. /\ j \in Job /\ j.step = st /\ j.base = job[d].base /\ j.seen = job[d].seen
      /\ j.ver = v /\ j.tree = t /\ j.bump = job[d].bump
  BY <1>1, <1>3, <1>4, <1>5 DEF Job
<1> HIDE DEF j
<1> QED
  BY <1>1, <1>2, <1>4, <1>5, <1>6, <1>7, <1>8, <1>9, LocalStep

LEMMA DispatchPreserves ==
    ASSUME IInv, NEW d \in Dispatches, DispatchRun(d)
    PROVE  IInv'
<1>1. PICK b \in Bumps, st \in {"queued", "skipped"} :
        job' = [job EXCEPT ![d].step = st, ![d].base = Len(master), ![d].bump = b]
  BY DEF DispatchRun
<1> DEFINE j == [job[d] EXCEPT !.step = st, !.base = Len(master), !.bump = b]
<1>2. /\ job \in [Dispatches -> Job] /\ job[d] \in Job /\ HasLatest(job[d].seen)
      /\ Len(master) \in Nat /\ Len(master) > 0
  BY DEF IInv, TypeOK, LatestExists
<1>3. j \in Job /\ j.step = st /\ j.base = Len(master) /\ j.seen = job[d].seen
  BY <1>2 DEF Job, Steps
<1>4. job' = [job EXCEPT ![d] = j] /\ master' = master /\ tags' = tags
  BY <1>1, <1>2 DEF DispatchRun
<1> HIDE DEF j
<1>5. j.base \in 1 .. Len(master) /\ HasLatest(j.seen) /\ j.step \notin {"checkedOut", "validated"}
  BY <1>2, <1>3
<1> QED
  BY <1>3, <1>4, <1>5, LocalStep

LEMMA NextPreserves ==
    ASSUME IInv, Next
    PROVE  IInv'
<1>1. CASE DeveloperPush
  BY <1>1, DeveloperPreserves
<1>2. ASSUME NEW d \in Dispatches, JobStep(d) PROVE IInv'
  <2>1. CASE DispatchRun(d)
    BY <2>1, DispatchPreserves
  <2>2. CASE Checkout(d)
    BY <2>2, CheckoutPreserves
  <2>3. CASE Prepare(d)
    BY <2>3, PreparePreserves
  <2>4. CASE Push(d)
    BY <2>4, PushPreserves
  <2>5. CASE PushRefused(d)
    BY <2>5, StepOnly DEF PushRefused, Steps
  <2>6. CASE CreateRelease(d)
    BY <2>6, StepOnly DEF CreateRelease, Steps
  <2>7. CASE FailStep(d)
    BY <2>7, StepOnly DEF FailStep, Steps
  <2>8. CASE Rerun(d)
    BY <2>8, StepOnly DEF Rerun, Steps
  <2> QED
    BY <1>2, <2>1, <2>2, <2>3, <2>4, <2>5, <2>6, <2>7, <2>8 DEF JobStep
<1> QED
  BY <1>1, <1>2 DEF Next

LEMMA StutterPreserves ==
    ASSUME IInv, UNCHANGED vars
    PROVE  IInv'
<1>1. job' = job /\ master' = master /\ tags' = tags
  BY DEF vars
<1>2. TypeOK' /\ LatestExists' /\ SeenAtHead'
  BY <1>1 DEF IInv, TypeOK, LatestExists, SeenAtHead
<1>3. CheckedOutTree' /\ ValidatedTree'
  BY <1>1 DEF IInv, CheckedOutTree, ValidatedTree
<1>4. TaggedTreeAgrees' /\ BumpCommitHasItsTag'
  BY <1>1 DEF IInv, TaggedTreeAgrees, BumpCommitHasItsTag
<1> QED
  BY <1>2, <1>3, <1>4 DEF IInv

LEMMA InvariantHolds == Spec => []IInv
<1>1. IInv /\ [Next]_vars => IInv'
  BY NextPreserves, StutterPreserves
<1> QED
  BY <1>1, InitInvariant, PTL DEF Spec

\* Every reachable state is well typed, for any dispatches and any sites.
THEOREM TypeCorrect == Spec => []TypeOK
<1>1. IInv => TypeOK
  BY DEF IInv
<1> QED
  BY <1>1, InvariantHolds, PTL

\* Every tag is of a commit of master whose every version site spells it
\* (the Validate step of release.yaml, 364-407).
THEOREM TaggedTrees == Spec => []TaggedTreeAgrees
<1>1. IInv => TaggedTreeAgrees
  BY DEF IInv
<1> QED
  BY <1>1, InvariantHolds, PTL

\* No bump commit reaches master without its tag (git push --atomic).
THEOREM BumpCommitsAreTagged == Spec => []BumpCommitHasItsTag
<1>1. IInv => BumpCommitHasItsTag
  BY DEF IInv
<1> QED
  BY <1>1, InvariantHolds, PTL

\* However many dispatches race, each new tag is one bump past the latest
\* tag of the moment it lands (Calculate version and the atomic push).
THEOREM OneBump == Spec => OneBumpAtATime
<1> DEFINE A == \A t \in tags' \ tags :
                   IF tags = {} THEN t.ver = master[Len(master)].sites[Gradle]
                   ELSE \E b \in Bumps : t.ver = BumpOf(Latest(tags), b)
<1>1. ASSUME IInv, [Next]_vars PROVE A
  <2> SUFFICES ASSUME NEW t \in tags' \ tags
               PROVE IF tags = {} THEN t.ver = master[Len(master)].sites[Gradle]
                     ELSE \E b \in Bumps : t.ver = BumpOf(Latest(tags), b)
    OBVIOUS
  <2>1. PICK d \in Dispatches : Push(d)
    BY <1>1 DEF Next, JobStep, DispatchRun, Checkout, Prepare, PushRefused, CreateRelease,
                FailStep, Rerun, DeveloperPush, vars
  <2>2. t.ver = job[d].ver
    BY <2>1 DEF Push, NewTagOf
  <2>3. /\ job[d].ver = NextVersion(tags, master[Len(master)], job[d].bump)
        /\ job[d].bump \in Bumps
    BY <1>1, <2>1, PushedVersion DEF Push
  <2> QED
    BY <2>2, <2>3 DEF NextVersion
<1>2. Spec => [][A]_vars
  BY <1>1, InvariantHolds, PTL DEF Spec
<1> QED
  BY <1>2 DEF OneBumpAtATime

\* The order of the versions is the order of the commits, and a commit has one
\* version.
TagsAscend ==
    \A t, u \in tags : /\ t.at < u.at => Precedes(t.ver, u.ver)
                       /\ t.at = u.at => t = u

\* A bump follows every version that the bumped one does not precede.
LEMMA BumpPassesAll ==
    ASSUME NEW v \in Version, NEW b \in Bumps, NEW w \in Version, ~Precedes(v, w)
    PROVE  Precedes(w, BumpOf(v, b))
<1>1. /\ v[1] \in Nat /\ v[2] \in Nat /\ v[3] \in Nat
      /\ w[1] \in Nat /\ w[2] \in Nat /\ w[3] \in Nat
  BY DEF Version
<1>2. CASE b = "major"
  <2>1. BumpOf(v, b) = <<v[1] + 1, 0, 0>>
    BY <1>2 DEF BumpOf
  <2> QED
    BY <2>1, <1>1 DEF Precedes
<1>3. CASE b = "minor"
  <2>1. BumpOf(v, b) = <<v[1], v[2] + 1, 0>>
    BY <1>3 DEF BumpOf
  <2> QED
    BY <2>1, <1>1 DEF Precedes
<1>4. CASE b = "patch"
  <2>1. BumpOf(v, b) = <<v[1], v[2], v[3] + 1>>
    BY <1>4 DEF BumpOf
  <2> QED
    BY <2>1, <1>1 DEF Precedes
<1> QED
  BY <1>2, <1>3, <1>4 DEF Bumps

\* However dispatches race, fail and are run again, the tag that sorts last is
\* the one of the latest bump commit: what the next release asks git for
\* (release.yaml:261).
THEOREM HistoryAscends == Spec => []TagsAscend
<1>1. Init => TagsAscend
  BY DEF Init, TagsAscend
<1>2. ASSUME IInv, TagsAscend, [Next]_vars
      PROVE  TagsAscend'
  <2>1. CASE tags' = tags
    BY <1>2, <2>1 DEF TagsAscend
  <2>2. CASE tags' # tags
    <3>1. PICK d \in Dispatches : Push(d)
      BY <1>2, <2>2 DEF Next, JobStep, DispatchRun, Checkout, Prepare, PushRefused,
                        CreateRelease, FailStep, Rerun, DeveloperPush, vars
    <3> DEFINE tag == NewTagOf(d)
    <3>2. /\ tags' = tags \cup {tag} /\ tag.at = Len(master) + 1 /\ tag.ver = job[d].ver
          /\ job[d].ver = NextVersion(tags, master[Len(master)], job[d].bump)
          /\ job[d].bump \in Bumps
      BY <1>2, <3>1, PushedVersion DEF Push, NewTagOf
    <3>3. /\ tags \in SUBSET Tag /\ HasLatest(tags) /\ Len(master) \in Nat
          /\ \A t \in tags : t.at \in 1 .. Len(master) /\ t.ver \in Version
      BY <1>2 DEF IInv, TypeOK, LatestExists, TaggedTreeAgrees, Tag
    <3> HIDE DEF tag
    <3>4. ASSUME NEW t \in tags
          PROVE  t.at < tag.at /\ Precedes(t.ver, tag.ver)
      <4>1. /\ Latest(tags) \in Version /\ ~Precedes(Latest(tags), t.ver)
        BY <3>3, LatestIsLatest
      <4>2. tag.ver = BumpOf(Latest(tags), job[d].bump)
        BY <3>2 DEF NextVersion
      <4>3. Precedes(t.ver, tag.ver)
        BY <3>2, <3>3, <4>1, <4>2, BumpPassesAll
      <4>4. t.at < tag.at
        BY <3>2, <3>3
      <4> QED
        BY <4>3, <4>4
    <3>5. tag.at \in Nat /\ \A t \in tags : t.at \in Nat
      BY <3>2, <3>3
    <3> SUFFICES ASSUME NEW t \in tags \cup {tag}, NEW u \in tags \cup {tag}
                 PROVE  /\ t.at < u.at => Precedes(t.ver, u.ver)
                        /\ t.at = u.at => t = u
      BY <3>2 DEF TagsAscend
    <3>6. CASE t \in tags /\ u \in tags
      BY <1>2, <3>6 DEF TagsAscend
    <3>7. CASE t \in tags /\ u = tag
      BY <3>4, <3>5, <3>7
    <3>8. CASE t = tag /\ u \in tags
      BY <3>4, <3>5, <3>8
    <3>9. CASE t = tag /\ u = tag
      BY <3>5, <3>9
    <3> QED
      BY <3>6, <3>7, <3>8, <3>9
  <2> QED
    BY <2>1, <2>2
<1> QED
  BY <1>1, <1>2, InvariantHolds, PTL DEF Spec

-----------------------------------------------------------------------------
(* Publish.                                                                *)

\* A publish job under way, or done.
Entered == {"running", "landed", "succeeded"}

\* Who created the Release knows that it is there.
CreatorsKnow ==
    \A c \in Creators : /\ creator[c] # "failed"
                        /\ creator[c] \in {"viewAgain", "ok"} => exists

\* What succeeded in this attempt is on record: a gate was green, an
\* artifact is in the world.
SucceededIsOnRecord ==
    /\ \A g \in Gates : work[g] = "succeeded" => g \in passed
    /\ \A p \in Shelves : work[p] \in {"landed", "succeeded"} => p \in out

\* A publish job that was entered had what it needs.
EnteredHasItsNeeds == \A p \in Shelves : work[p] \in Entered => Needs(p) \subseteq passed \cup out

\* What is out had all it needs, in this attempt or in an earlier one.
PublishedHasItsNeeds == \A p \in out : Needs(p) \subseteq passed \cup out

\* The CLI assets are on a Release.
CliIsOnARelease == "publish-cli" \in out => exists

PublishInv ==
    /\ PublishTypeOK
    /\ CreatorsKnow
    /\ SucceededIsOnRecord
    /\ EnteredHasItsNeeds
    /\ PublishedHasItsNeeds
    /\ CliIsOnARelease

\* Only the Python SDK may be out while something does not build.
PublishedIsBuilt ==
    /\ out # {} => Gates \ {"build-cli"} \subseteq passed
    /\ out \ {"publish-python-sdk"} # {} => Gates \subseteq passed

\* The CLI is the last thing out, on a Release that is there.
CliComesLast ==
    "publish-cli" \in out => {"publish-python-sdk", "publish-go"} \subseteq out /\ exists

\* The jobs are gates and shelves, and no job is both.
LEMMA JobSets ==
  /\ Jobs = Gates \cup Shelves /\ Gates \cap Shelves = {} /\ Immutable \subseteq Shelves
  /\ {"publish-cli", "publish-python-sdk", "publish-go"} \subseteq Shelves
  /\ "release" \notin Jobs /\ Creators = {"release", "publish-cli"}
BY DEF Jobs, Gates, Builds, Shelves, Immutable, Creators

LEMMA PublishInitInv == PublishInit => PublishInv
<1> SUFFICES ASSUME PublishInit
             PROVE  PublishInv
  OBVIOUS
<1>1. PublishTypeOK
  <2>1. work \in [Jobs -> {"waiting", "running", "landed"} \cup Ended]
    BY DEF PublishInit
  <2>2. \A g \in Gates : work[g] \in {"waiting"} \cup Ended
    BY JobSets DEF PublishInit
  <2>3. creator \in [Creators -> {"view", "create", "viewAgain", "ok", "failed"}]
    BY DEF PublishInit
  <2>4. flakes \in 0 .. MaxFlakes
    BY PublishAssumption DEF PublishInit
  <2> QED
    BY <2>1, <2>2, <2>3, <2>4 DEF PublishInit, PublishTypeOK
<1>2. CreatorsKnow
  BY DEF PublishInit, CreatorsKnow
<1>3. SucceededIsOnRecord
  BY JobSets DEF PublishInit, SucceededIsOnRecord
<1>4. EnteredHasItsNeeds
  BY JobSets DEF PublishInit, EnteredHasItsNeeds, Entered
<1>5. PublishedHasItsNeeds /\ CliIsOnARelease
  BY DEF PublishInit, PublishedHasItsNeeds, CliIsOnARelease
<1> QED
  BY <1>1, <1>2, <1>3, <1>4, <1>5 DEF PublishInv

\* A step of one job: the others stay where they are.
LEMMA OneJobMoves ==
  ASSUME PublishInv, NEW j \in Jobs, NEW s, work' = [work EXCEPT ![j] = s]
  PROVE  work'[j] = s /\ \A k \in Jobs : k # j => work'[k] = work[k]
BY DEF PublishInv, PublishTypeOK

\* A job that ends, or is skipped, takes nothing away from what is on record.
LEMMA EndingPreserves ==
  ASSUME PublishInv, NEW j \in Jobs, NEW s \in {"failed", "skipped"},
         work' = [work EXCEPT ![j] = s],
         UNCHANGED <<out, passed, creator, exists>>, flakes' \in 0 .. MaxFlakes
  PROVE  PublishInv'
<1>1. work'[j] = s /\ \A k \in Jobs : k # j => work'[k] = work[k]
  BY OneJobMoves
<1>2. PublishTypeOK'
  BY <1>1, JobSets DEF PublishInv, PublishTypeOK, Ended
<1>3. SucceededIsOnRecord' /\ EnteredHasItsNeeds'
  BY <1>1, JobSets DEF PublishInv, SucceededIsOnRecord, EnteredHasItsNeeds, Entered
<1> QED
  BY <1>2, <1>3 DEF PublishInv, CreatorsKnow, PublishedHasItsNeeds, CliIsOnARelease

LEMMA GatePreserves ==
  ASSUME PublishInv, NEW g \in Gates, Gate(g)
  PROVE  PublishInv'
<1>1. work'[g] = "succeeded" /\ \A k \in Jobs : k # g => work'[k] = work[k]
  BY JobSets, OneJobMoves DEF Gate
<1>2. PublishTypeOK'
  BY <1>1, JobSets DEF PublishInv, PublishTypeOK, Gate, Ended
<1>3. SucceededIsOnRecord'
  BY <1>1, JobSets DEF PublishInv, SucceededIsOnRecord, Gate
<1>4. EnteredHasItsNeeds' /\ PublishedHasItsNeeds'
  BY <1>1, JobSets DEF PublishInv, EnteredHasItsNeeds, PublishedHasItsNeeds, Gate
<1> QED
  BY <1>2, <1>3, <1>4 DEF PublishInv, CreatorsKnow, CliIsOnARelease, Gate

LEMMA StartPreserves ==
  ASSUME PublishInv, NEW p \in Shelves, Start(p)
  PROVE  PublishInv'
<1>1. work'[p] = "running" /\ \A k \in Jobs : k # p => work'[k] = work[k]
  BY JobSets, OneJobMoves DEF Start
<1>2. /\ UNCHANGED <<out, passed, exists, flakes>>
      /\ creator' \in [Creators -> {"view", "create", "viewAgain", "ok", "failed"}]
      /\ \A c \in Creators : creator'[c] \in {"view", creator[c]}
  BY DEF PublishInv, PublishTypeOK, Start
<1>3. PublishTypeOK'
  <2>1. work' \in [Jobs -> {"waiting", "running", "landed"} \cup Ended]
    BY JobSets DEF PublishInv, PublishTypeOK, Start
  <2>2. \A g \in Gates : work'[g] \in {"waiting"} \cup Ended
    BY <1>1, JobSets DEF PublishInv, PublishTypeOK
  <2> QED
    BY <1>2, <2>1, <2>2 DEF PublishInv, PublishTypeOK
<1>4. CreatorsKnow'
  BY <1>2 DEF PublishInv, CreatorsKnow
<1>5. SucceededIsOnRecord'
  BY <1>1, <1>2, JobSets DEF PublishInv, SucceededIsOnRecord
<1>6. EnteredHasItsNeeds'
  <2>1. Needs(p) \subseteq Jobs
    BY JobSets DEF Needs
  <2>2. \A n \in Needs(p) : n \in passed \cup out
    BY <2>1, JobSets DEF Start, Ready, PublishInv, SucceededIsOnRecord
  <2> QED
    BY <1>1, <1>2, <2>2, JobSets DEF PublishInv, EnteredHasItsNeeds
<1> QED
  BY <1>2, <1>3, <1>4, <1>5, <1>6
  DEF PublishInv, PublishedHasItsNeeds, CliIsOnARelease

LEMMA LandPreserves ==
  ASSUME PublishInv, NEW p \in Shelves, Land(p)
  PROVE  PublishInv'
<1>1. work'[p] = "landed" /\ \A k \in Jobs : k # p => work'[k] = work[k]
  BY JobSets, OneJobMoves DEF Land
<1>2. PublishTypeOK'
  BY <1>1, JobSets DEF PublishInv, PublishTypeOK, Land
<1>3. SucceededIsOnRecord'
  BY <1>1, JobSets DEF PublishInv, SucceededIsOnRecord, Land
<1>4. Needs(p) \subseteq passed \cup out
  BY DEF PublishInv, EnteredHasItsNeeds, Entered, Land, MayLand
<1>5. EnteredHasItsNeeds'
  BY <1>1, <1>4, JobSets DEF PublishInv, EnteredHasItsNeeds, Land
<1>6. PublishedHasItsNeeds'
  BY <1>4 DEF PublishInv, PublishedHasItsNeeds, Land
<1>7. CliIsOnARelease'
  BY JobSets DEF PublishInv, CliIsOnARelease, CreatorsKnow, Land, MayLand
<1> QED
  BY <1>2, <1>3, <1>5, <1>6, <1>7 DEF PublishInv, CreatorsKnow, Land

LEMMA FinishPreserves ==
  ASSUME PublishInv, NEW p \in Shelves, Finish(p)
  PROVE  PublishInv'
<1>1. work'[p] = "succeeded" /\ \A k \in Jobs : k # p => work'[k] = work[k]
  BY JobSets, OneJobMoves DEF Finish
<1>2. PublishTypeOK'
  BY <1>1, JobSets DEF PublishInv, PublishTypeOK, Finish, Ended
<1>3. SucceededIsOnRecord'
  BY <1>1, JobSets DEF PublishInv, SucceededIsOnRecord, Finish
<1>4. EnteredHasItsNeeds'
  BY <1>1, JobSets DEF PublishInv, EnteredHasItsNeeds, Entered, Finish
<1> QED
  BY <1>2, <1>3, <1>4 DEF PublishInv, CreatorsKnow, PublishedHasItsNeeds, CliIsOnARelease, Finish

LEMMA FailJobPreserves ==
  ASSUME PublishInv, NEW j \in Jobs, FailJob(j)
  PROVE  PublishInv'
<1>1. flakes' \in 0 .. MaxFlakes
  BY PublishAssumption DEF FailJob, PublishInv, PublishTypeOK
<1> QED
  BY <1>1, EndingPreserves DEF FailJob

\* Both kinds of re-run forget job states, and nothing else.
LEMMA RerunPreserves ==
  ASSUME PublishInv, RerunFailed \/ RerunAll
  PROVE  PublishInv'
<1>1. /\ UNCHANGED <<out, passed, creator, exists, flakes>>
      /\ \A j \in Jobs : work'[j] = "waiting" \/ (work'[j] = "succeeded" /\ work[j] = "succeeded")
      /\ work' \in [Jobs -> {"waiting", "succeeded"}]
  BY DEF PublishInv, PublishTypeOK, RerunFailed, RerunAll
<1>2. PublishTypeOK'
  BY <1>1, JobSets DEF PublishInv, PublishTypeOK, Ended
<1>3. SucceededIsOnRecord' /\ EnteredHasItsNeeds'
  BY <1>1, JobSets DEF PublishInv, SucceededIsOnRecord, EnteredHasItsNeeds, Entered
<1> QED
  BY <1>1, <1>2, <1>3 DEF PublishInv, CreatorsKnow, PublishedHasItsNeeds, CliIsOnARelease

LEMMA CreatorPreserves ==
  ASSUME PublishInv, NEW c \in Creators, CreatorStep(c)
  PROVE  PublishInv'
<1>1. UNCHANGED <<work, out, passed, flakes>> /\ exists' \in BOOLEAN /\ (exists => exists')
  BY DEF CreatorStep, View, Create, ViewAgain, PublishInv, PublishTypeOK
<1>2. PICK s \in {"view", "create", "viewAgain", "ok"} :
        creator' = [creator EXCEPT ![c] = s] /\ (s \in {"viewAgain", "ok"} => exists')
  <2>1. CASE View(c)
    BY <2>1 DEF View
  <2>2. CASE Create(c)
    BY <2>2 DEF Create
  <2>3. CASE ViewAgain(c)
    BY <2>3 DEF ViewAgain, PublishInv, CreatorsKnow
  <2> QED
    BY <2>1, <2>2, <2>3 DEF CreatorStep
<1>3. PublishTypeOK'
  BY <1>1, <1>2 DEF PublishInv, PublishTypeOK
<1>4. CreatorsKnow'
  BY <1>1, <1>2 DEF PublishInv, PublishTypeOK, CreatorsKnow
<1> QED
  BY <1>1, <1>3, <1>4
  DEF PublishInv, SucceededIsOnRecord, EnteredHasItsNeeds, PublishedHasItsNeeds, CliIsOnARelease

LEMMA PublishStepPreserves == PublishInv /\ [PublishNext]_publishVars => PublishInv'
<1> SUFFICES ASSUME PublishInv, [PublishNext]_publishVars
             PROVE  PublishInv'
  OBVIOUS
<1>1. ASSUME NEW j \in Jobs, WorkStep(j)
      PROVE  PublishInv'
  <2>1. CASE Skip(j)
    BY <2>1, EndingPreserves DEF Skip, PublishInv, PublishTypeOK
  <2>2. CASE FailJob(j)
    BY <2>2, FailJobPreserves
  <2>3. CASE j \in Gates /\ Gate(j)
    BY <2>3, GatePreserves
  <2>4. CASE j \in Shelves /\ Start(j)
    BY <2>4, StartPreserves
  <2>5. CASE j \in Shelves /\ Land(j)
    BY <2>5, LandPreserves
  <2>6. CASE j \in Shelves /\ Refuse(j)
    BY <2>6, EndingPreserves DEF Refuse, PublishInv, PublishTypeOK
  <2>7. CASE j \in Shelves /\ Finish(j)
    BY <2>7, FinishPreserves
  <2> QED
    BY <1>1, <2>1, <2>2, <2>3, <2>4, <2>5, <2>6, <2>7 DEF WorkStep
<1>2. ASSUME NEW c \in Creators, CreatorStep(c)
      PROVE  PublishInv'
  BY <1>2, CreatorPreserves
<1>3. CASE RerunFailed \/ RerunAll
  BY <1>3, RerunPreserves
<1>4. CASE UNCHANGED publishVars
  BY <1>4 DEF publishVars, PublishInv, PublishTypeOK, CreatorsKnow, SucceededIsOnRecord,
              EnteredHasItsNeeds, PublishedHasItsNeeds, CliIsOnARelease
<1> QED
  BY <1>1, <1>2, <1>3, <1>4 DEF PublishNext

LEMMA PublishInvHolds == PublishSpec => []PublishInv
BY PublishInitInv, PublishStepPreserves, PTL DEF PublishSpec

\* The states of a tag's publish run are well typed, whatever the bound on
\* failures (publish.yaml).
THEOREM PublishTypeCorrect == PublishSpec => []PublishTypeOK
<1>1. PublishInv => PublishTypeOK
  BY DEF PublishInv
<1> QED
  BY PublishInvHolds, <1>1, PTL

\* Who finds the Release created after looking for it in vain finds it when
\* looking again (publish.yaml:530-536).
THEOREM CreatorsDoNotTrip == PublishSpec => []NoCreatorTripsOverTheOther
<1>1. PublishInv => NoCreatorTripsOverTheOther
  BY DEF PublishInv, CreatorsKnow, NoCreatorTripsOverTheOther
<1> QED
  BY PublishInvHolds, <1>1, PTL

\* However jobs fail and are run again, nothing is out before preflight and
\* every build it names were green, and only the Python SDK does not name all
\* of them: what docs/RELEASE_AND_PUBLISH.md:131 says, as far as it is true.
THEOREM BuiltBeforePublished == PublishSpec => []PublishedIsBuilt
<1>1. PublishInv => PublishedIsBuilt
  <2> SUFFICES ASSUME PublishInv
               PROVE  PublishedIsBuilt
    OBVIOUS
  <2>1. out \subseteq Shelves /\ Gates \cap Shelves = {}
    BY JobSets DEF PublishInv, PublishTypeOK
  <2>2. ASSUME NEW p \in out
        PROVE  /\ Gates \ {"build-cli"} \subseteq passed
               /\ p # "publish-python-sdk" => Gates \subseteq passed
    <3>1. Needs(p) \subseteq passed \cup out
      BY DEF PublishInv, PublishedHasItsNeeds
    <3>2. Gates \ {"build-cli"} \subseteq Needs(p)
          /\ (p # "publish-python-sdk" => Gates \subseteq Needs(p))
      BY <2>1 DEF Needs
    <3> QED
      BY <2>1, <3>1, <3>2
  <2> QED
    BY <2>2 DEF PublishedIsBuilt
<1> QED
  BY PublishInvHolds, <1>1, PTL

\* The CLI's assets are there only with the two SDKs its templates need, and
\* on a Release that exists (publish.yaml:480, 525-537).
THEOREM CliAfterItsSdks == PublishSpec => []CliComesLast
<1>1. PublishInv => CliComesLast
  <2> SUFFICES ASSUME PublishInv, "publish-cli" \in out
               PROVE  {"publish-python-sdk", "publish-go"} \subseteq out /\ exists
    BY DEF CliComesLast
  <2>1. exists
    BY DEF PublishInv, CliIsOnARelease
  <2>2. Needs("publish-cli") = Gates \cup {"publish-python-sdk", "publish-go"}
    BY DEF Needs, Gates, Builds
  <2>3. Needs("publish-cli") \subseteq passed \cup out
    BY DEF PublishInv, PublishedHasItsNeeds
  <2>4. passed \subseteq Gates
    BY DEF PublishInv, PublishTypeOK
  <2> QED
    BY <2>1, <2>2, <2>3, <2>4, JobSets
<1> QED
  BY PublishInvHolds, <1>1, PTL

\* A job that can start, be skipped, or go on without anybody's help.
CanMove(j) ==
    \/ Ready(j)
    \/ work[j] = "waiting" /\ \E n \in Needs(j) : work[n] \in {"failed", "skipped"}
    \/ work[j] = "landed"
    \/ work[j] = "running" /\ \/ MayLand(j)
                              \/ j \in Immutable \cap out
                              \/ j = "publish-cli" /\ creator[j] \in {"view", "create", "viewAgain"}

NobodyWaitsForever == RunEnded \/ \E j \in Jobs : CanMove(j)

\* A publish job under way that cannot land is refused or still looks for its
\* Release: no creator is in a state it does not leave.
LEMMA UnderWayMoves ==
  ASSUME PublishInv, NEW p \in Jobs, work[p] \in {"running", "landed"}
  PROVE  CanMove(p)
<1>1. CASE p = "publish-cli" /\ work[p] = "running"
  <2>1. creator[p] \in {"view", "create", "viewAgain", "ok"} /\ p \notin Immutable
    BY <1>1 DEF PublishInv, PublishTypeOK, CreatorsKnow, Creators, Immutable
  <2> QED
    BY <1>1, <2>1 DEF CanMove, MayLand
<1>2. CASE p # "publish-cli"
  BY <1>2 DEF CanMove, MayLand
<1> QED
  BY <1>1, <1>2 DEF CanMove

\* A waiting job all of whose needs ended is started or skipped.
LEMMA WaitingMoves ==
  ASSUME NEW j \in Jobs, work[j] = "waiting", \A n \in Needs(j) : work[n] \in Ended
  PROVE  CanMove(j)
BY DEF CanMove, Ready, Ended

\* While a run has not ended some job can move: no job waits for one that
\* waits for it, and none is stuck half-way (publish.yaml:234-537).
THEOREM NoJobIsStuck == PublishSpec => []NobodyWaitsForever
<1>1. PublishInv => NobodyWaitsForever
  <2> SUFFICES ASSUME PublishInv, \A j \in Jobs : ~CanMove(j)
               PROVE  RunEnded
    BY DEF NobodyWaitsForever
  <2>1. \A j \in Jobs : work[j] = "waiting" \/ work[j] \in Ended
    BY UnderWayMoves DEF PublishInv, PublishTypeOK
  <2>2. \A g \in Gates : work[g] \in Ended
    BY <2>1, JobSets, WaitingMoves DEF Needs
  <2>3. \A p \in Shelves \ {"publish-cli"} : work[p] \in Ended
    <3>1. \A p \in Shelves \ {"publish-cli"} : Needs(p) \subseteq Gates
      BY DEF Needs
    <3> QED
      BY <2>1, <2>2, <3>1, JobSets, WaitingMoves
  <2>4. work["publish-cli"] \in Ended
    <3>1. Needs("publish-cli") \subseteq Gates \cup (Shelves \ {"publish-cli"})
      BY DEF Needs, Shelves
    <3> QED
      BY <2>1, <2>2, <2>3, <3>1, JobSets, WaitingMoves
  <2> QED
    BY <2>2, <2>3, <2>4, JobSets DEF RunEnded
<1> QED
  BY PublishInvHolds, <1>1, PTL

\* A job is under way, or done, only in an attempt in which its needs are green.
NeedsAreGreen ==
    \A p \in Shelves : work[p] \in Entered => \A n \in Needs(p) : work[n] = "succeeded"

\* PyPI has the version and its job is not green: every re-run of it will be
\* refused, and the CLI is not out yet.
CliIsLost ==
    /\ "publish-python-sdk" \in out
    /\ work["publish-python-sdk"] \notin {"landed", "succeeded"}
    /\ "publish-cli" \notin out

LEMMA NeedsAreGreenHolds == PublishSpec => []NeedsAreGreen
<1>1. PublishInit => NeedsAreGreen
  BY JobSets DEF PublishInit, NeedsAreGreen, Entered
<1>2. PublishInv /\ NeedsAreGreen /\ [PublishNext]_publishVars => NeedsAreGreen'
  <2> SUFFICES ASSUME PublishInv, NeedsAreGreen, [PublishNext]_publishVars
               PROVE  NeedsAreGreen'
    OBVIOUS
  <2>1. \A p \in Shelves : Needs(p) \subseteq Jobs /\ p \notin Needs(p)
    BY JobSets DEF Needs
  <2>2. ASSUME NEW j \in Jobs, NEW s, work' = [work EXCEPT ![j] = s], work[j] # "succeeded",
               \/ s \notin Entered
               \/ work[j] \in Entered
               \/ j \in Gates
               \/ Ready(j)
        PROVE  NeedsAreGreen'
    <3>1. work'[j] = s /\ \A k \in Jobs : k # j => work'[k] = work[k]
      BY <2>2, OneJobMoves
    <3> SUFFICES ASSUME NEW p \in Shelves, work'[p] \in Entered, NEW n \in Needs(p)
                 PROVE  work'[n] = "succeeded"
      BY DEF NeedsAreGreen
    <3>2. n \in Jobs /\ p \in Jobs /\ n # p /\ p \notin Gates
      BY <2>1, JobSets
    <3>3. work[n] = "succeeded"
      <4>1. CASE p # j
        BY <3>1, <3>2, <4>1 DEF NeedsAreGreen
      <4>2. CASE p = j
        BY <2>2, <3>1, <3>2, <4>2 DEF NeedsAreGreen, Ready
      <4> QED
        BY <4>1, <4>2
    <3> QED
      BY <2>2, <3>1, <3>2, <3>3
  <2>3. ASSUME NEW j \in Jobs, WorkStep(j)
        PROVE  NeedsAreGreen'
    <3>1. CASE Skip(j)
      BY <2>2, <3>1 DEF Skip, Entered
    <3>2. CASE FailJob(j)
      BY <2>2, <3>2 DEF FailJob, Ready, Entered
    <3>3. CASE j \in Gates /\ Gate(j)
      BY <2>2, <3>3 DEF Gate, Ready
    <3>4. CASE j \in Shelves /\ Start(j)
      BY <2>2, <3>4 DEF Start, Ready
    <3>5. CASE j \in Shelves /\ Land(j)
      BY <2>2, <3>5 DEF Land, MayLand, Entered
    <3>6. CASE j \in Shelves /\ Refuse(j)
      BY <2>2, <3>6 DEF Refuse, Entered
    <3>7. CASE j \in Shelves /\ Finish(j)
      BY <2>2, <3>7 DEF Finish, Entered
    <3> QED
      BY <2>3, <3>1, <3>2, <3>3, <3>4, <3>5, <3>6, <3>7 DEF WorkStep
  <2>4. CASE RerunFailed \/ RerunAll
    <3>1. \A j \in Jobs : \/ work'[j] = "waiting"
                          \/ (work'[j] = "succeeded" /\ work[j] = "succeeded")
      BY <2>4 DEF RerunFailed, RerunAll
    <3>2. RerunAll => \A j \in Jobs : work'[j] = "waiting"
      BY DEF RerunAll
    <3>3. RerunFailed => \A j \in Jobs : work[j] = "succeeded" => work'[j] = "succeeded"
      BY DEF RerunFailed
    <3> QED
      BY <2>1, <2>4, <3>1, <3>2, <3>3, JobSets DEF NeedsAreGreen, Entered
  <2>5. ASSUME NEW c \in Creators, CreatorStep(c)
        PROVE  NeedsAreGreen'
    BY <2>5 DEF CreatorStep, View, Create, ViewAgain, NeedsAreGreen
  <2>6. CASE UNCHANGED publishVars
    BY <2>6 DEF publishVars, NeedsAreGreen
  <2> QED
    BY <2>3, <2>4, <2>5, <2>6 DEF PublishNext
<1> QED
  BY <1>1, <1>2, PublishInvHolds, PTL DEF PublishSpec

\* The hazard of a registry that keeps a version for good: once the Python SDK
\* is on PyPI and its job is not green, no re-run brings the CLI of that
\* version out (publish.yaml:413, 480).
THEOREM SpentIsForGood == PublishSpec => [](CliIsLost => []CliIsLost)
<1>1. NeedsAreGreen /\ PublishInv /\ CliIsLost /\ [PublishNext]_publishVars => CliIsLost'
  <2> SUFFICES ASSUME NeedsAreGreen, PublishInv, CliIsLost, [PublishNext]_publishVars
               PROVE  CliIsLost'
    OBVIOUS
  <2> DEFINE sdk == "publish-python-sdk"
             cli == "publish-cli"
  <2>1. /\ sdk \in Shelves /\ cli \in Shelves /\ sdk \in Jobs /\ sdk \in Immutable
        /\ sdk \in Needs(cli) /\ sdk # cli /\ sdk \notin Gates /\ sdk # "release"
    BY JobSets DEF Needs, Immutable, Gates, Builds
  <2>2. work[cli] \notin Entered
    BY <2>1 DEF NeedsAreGreen, CliIsLost
  <2>3. ASSUME NEW j \in Jobs, NEW s, work' = [work EXCEPT ![j] = s],
               j = sdk => s \notin {"landed", "succeeded"}, out' \in {out, out \cup {j}},
               j = cli => out' = out
        PROVE  CliIsLost'
    <3>1. work'[j] = s /\ \A k \in Jobs : k # j => work'[k] = work[k]
      BY <2>3, OneJobMoves
    <3> QED
      BY <2>1, <2>3, <3>1 DEF CliIsLost
  <2>4. ASSUME NEW j \in Jobs, WorkStep(j)
        PROVE  CliIsLost'
    <3>1. CASE Skip(j)
      BY <2>3, <3>1 DEF Skip
    <3>2. CASE FailJob(j)
      BY <2>3, <3>2 DEF FailJob
    <3>3. CASE j \in Gates /\ Gate(j)
      BY <2>1, <2>3, <3>3 DEF Gate
    <3>4. CASE j \in Shelves /\ Start(j)
      BY <2>3, <3>4 DEF Start
    <3>5. CASE j \in Shelves /\ Land(j)
      <4>1. j # sdk /\ j # cli
        BY <2>1, <2>2, <3>5 DEF Land, MayLand, CliIsLost, Entered
      <4> QED
        BY <2>3, <3>5, <4>1 DEF Land
    <3>6. CASE j \in Shelves /\ Refuse(j)
      BY <2>3, <3>6 DEF Refuse
    <3>7. CASE j \in Shelves /\ Finish(j)
      <4>1. j # sdk
        BY <3>7 DEF Finish, CliIsLost
      <4> QED
        BY <2>3, <3>7, <4>1 DEF Finish
    <3> QED
      BY <2>4, <3>1, <3>2, <3>3, <3>4, <3>5, <3>6, <3>7 DEF WorkStep
  <2>5. CASE RerunFailed \/ RerunAll
    BY <2>1, <2>5 DEF RerunFailed, RerunAll, CliIsLost
  <2>6. ASSUME NEW c \in Creators, CreatorStep(c)
        PROVE  CliIsLost'
    BY <2>6 DEF CreatorStep, View, Create, ViewAgain, CliIsLost
  <2>7. CASE UNCHANGED publishVars
    BY <2>7 DEF publishVars, CliIsLost
  <2> QED
    BY <2>4, <2>5, <2>6, <2>7 DEF PublishNext
<1>2. PublishSpec => [](NeedsAreGreen /\ PublishInv)
  BY NeedsAreGreenHolds, PublishInvHolds, PTL
<1> QED
  BY <1>1, <1>2, PTL DEF PublishSpec

==============================================================================

------------------------------- MODULE Publish -------------------------------
(***************************************************************************)
(* .github/workflows/publish.yaml, for one tag: the graph of jobs, what    *)
(* each publish job leaves outside (npm, Maven Central and PyPI keep a     *)
(* version for good; the Go module tag and the CLI assets can be sent      *)
(* again), the failures a job can meet before and after it got there, the  *)
(* two ways an operator re-runs the workflow, and the GitHub Release that  *)
(* this workflow and release.yaml both create.                             *)
(***************************************************************************)
EXTENDS Integers, FiniteSets

CONSTANT MaxFlakes  \* bound: failures the runs of one tag meet

ASSUME PublishAssumption == MaxFlakes \in Nat

Builds  == {"build-java", "build-node", "build-python", "build-go", "build-cli"}
Gates   == Builds \cup {"preflight"}
Shelves == {"publish-node-sdk", "publish-java", "publish-python-sdk", "publish-go", "publish-cli"}
Jobs    == Gates \cup Shelves

\* Registries that refuse a version they have.
Immutable == {"publish-node-sdk", "publish-java", "publish-python-sdk"}

\* The needs: of each publish job: the five builds and preflight, but for
\* publish-python-sdk, which does not wait for build-cli.
Needs(j) ==
    IF j \in Gates THEN {}
    ELSE IF j = "publish-python-sdk" THEN Gates \ {"build-cli"}
    ELSE IF j = "publish-cli" THEN Gates \cup {"publish-python-sdk", "publish-go"}
    ELSE Gates

\* The two jobs that make sure the GitHub Release exists.
Creators == {"release", "publish-cli"}

VARIABLES
    work,     \* the state of each job in the current attempt of the run
    out,      \* the publish jobs whose artifact the world has
    passed,   \* the gates that were green in some attempt
    creator,  \* where each creator is in: view || create || view
    exists,   \* whether the GitHub Release exists
    flakes    \* failures met so far

publishVars == <<work, out, passed, creator, exists, flakes>>

Ended == {"succeeded", "failed", "skipped"}

\* Mutant: only release.yaml's creator is there.
PublishInitOneCreator ==
    /\ work = [j \in Jobs |-> "waiting"]
    /\ out = {}
    /\ passed = {}
    /\ creator = [c \in {"release"} |-> "view"]
    /\ exists = FALSE
    /\ flakes = 0

PublishInit ==
    /\ work = [j \in Jobs |-> "waiting"]
    /\ out = {}
    /\ passed = {}
    /\ creator = [c \in Creators |-> "view"]
    /\ exists = FALSE
    /\ flakes = 0

Ready(j) == work[j] = "waiting" /\ \A n \in Needs(j) : work[n] = "succeeded"

Gate(g) ==
    /\ Ready(g)
    /\ work' = [work EXCEPT ![g] = "succeeded"]
    /\ passed' = passed \cup {g}
    /\ UNCHANGED <<out, creator, exists, flakes>>

\* A job one of whose needs did not succeed is skipped.
Skip(j) ==
    /\ work[j] = "waiting"
    /\ \E n \in Needs(j) : work[n] \in {"failed", "skipped"}
    /\ work' = [work EXCEPT ![j] = "skipped"]
    /\ UNCHANGED <<out, passed, creator, exists, flakes>>

\* A publish job begins with its checkout and version check.
Start(p) ==
    /\ Ready(p)
    /\ work' = [work EXCEPT ![p] = "running"]
    /\ creator' = IF p = "publish-cli" THEN [creator EXCEPT ![p] = "view"] ELSE creator
    /\ UNCHANGED <<out, passed, exists, flakes>>

\* The upload, the module tag's push: a second push of the same tag and a
\* second upload with --clobber succeed; the CLI uploads to its Release.
MayLand(p) == /\ work[p] = "running"
              /\ p \in Immutable => p \notin out
              /\ p = "publish-cli" => creator[p] = "ok"

Land(p) ==
    /\ MayLand(p)
    /\ out' = out \cup {p}
    /\ work' = [work EXCEPT ![p] = "landed"]
    /\ UNCHANGED <<passed, creator, exists, flakes>>

\* A registry refuses the version it already has.
Refuse(p) ==
    /\ work[p] = "running"
    /\ p \in Immutable \cap out
    /\ work' = [work EXCEPT ![p] = "failed"]
    /\ UNCHANGED <<out, passed, creator, exists, flakes>>

\* What follows the upload: publish-go scaffolds and builds against the tag.
Finish(p) ==
    /\ work[p] = "landed"
    /\ work' = [work EXCEPT ![p] = "succeeded"]
    /\ UNCHANGED <<out, passed, creator, exists, flakes>>

\* A job under way can fail, before its artifact landed or after.
FailJob(j) ==
    /\ \/ j \in Gates /\ Ready(j)
       \/ work[j] \in {"running", "landed"}
    /\ flakes < MaxFlakes
    /\ flakes' = flakes + 1
    /\ work' = [work EXCEPT ![j] = "failed"]
    /\ UNCHANGED <<out, passed, creator, exists>>

RunEnded == \A j \in Jobs : work[j] \in Ended

\* Mutant: the jobs skipped because of a failed one stay skipped.
RerunFailedOnly ==
    /\ RunEnded
    /\ \E j \in Jobs : work[j] = "failed"
    /\ work' = [j \in Jobs |-> IF work[j] = "failed" THEN "waiting" ELSE work[j]]
    /\ UNCHANGED <<out, passed, creator, exists, flakes>>

\* Re-run failed jobs: the failed ones and those that depend on them.
RerunFailed ==
    /\ RunEnded
    /\ \E j \in Jobs : work[j] = "failed"
    /\ work' = [j \in Jobs |-> IF work[j] = "succeeded" THEN work[j] ELSE "waiting"]
    /\ UNCHANGED <<out, passed, creator, exists, flakes>>

\* Re-run all jobs: the publishes that succeeded are entered again.
RerunAll ==
    /\ RunEnded
    /\ work' = [j \in Jobs |-> "waiting"]
    /\ UNCHANGED <<out, passed, creator, exists, flakes>>

-----------------------------------------------------------------------------
\* gh release view || gh release create || gh release view, each a call.
Creating(c) == c = "publish-cli" => work[c] = "running"

View(c) ==
    /\ Creating(c)
    /\ creator[c] = "view"
    /\ creator' = [creator EXCEPT ![c] = IF exists THEN "ok" ELSE "create"]
    /\ UNCHANGED <<work, out, passed, exists, flakes>>

\* Mutant: a create that fails is the end of it.
CreateUnchecked(c) ==
    /\ Creating(c)
    /\ creator[c] = "create"
    /\ exists' = TRUE
    /\ creator' = [creator EXCEPT ![c] = IF exists THEN "failed" ELSE "ok"]
    /\ UNCHANGED <<work, out, passed, flakes>>

\* Creating what exists fails, which the trailing view forgives. (The views
\* publish-cli repeats for five minutes before this only narrow the race.)
Create(c) ==
    /\ Creating(c)
    /\ creator[c] = "create"
    /\ exists' = TRUE
    /\ creator' = [creator EXCEPT ![c] = IF exists THEN "viewAgain" ELSE "ok"]
    /\ UNCHANGED <<work, out, passed, flakes>>

ViewAgain(c) ==
    /\ Creating(c)
    /\ creator[c] = "viewAgain"
    /\ creator' = [creator EXCEPT ![c] = IF exists THEN "ok" ELSE "failed"]
    /\ UNCHANGED <<work, out, passed, exists, flakes>>

CreatorStep(c) == View(c) \/ Create(c) \/ ViewAgain(c)

WorkStep(j) == \/ Skip(j) \/ FailJob(j)
               \/ j \in Gates /\ Gate(j)
               \/ j \in Shelves /\ (Start(j) \/ Land(j) \/ Refuse(j) \/ Finish(j))

PublishNext == \/ \E j \in Jobs : WorkStep(j)
               \/ \E c \in Creators : CreatorStep(c)
               \/ RerunFailed \/ RerunAll

PublishSpec == PublishInit /\ [][PublishNext]_publishVars

\* GitHub runs every job that can run; the operator answers a failed run
\* with Re-run failed jobs. Nothing obliges anybody to re-run all, and
\* release.yaml may fail before it creates its Release.
PublishFairSpec ==
    /\ PublishSpec
    /\ \A g \in Gates : WF_publishVars(Gate(g))
    /\ \A j \in Jobs : WF_publishVars(Skip(j))
    /\ \A p \in Shelves : /\ WF_publishVars(Start(p)) /\ WF_publishVars(Land(p))
                          /\ WF_publishVars(Refuse(p)) /\ WF_publishVars(Finish(p))
    /\ WF_publishVars(CreatorStep("publish-cli"))
    /\ WF_publishVars(RerunFailed)

-----------------------------------------------------------------------------
\* Every variable holds what the workflow can put there.
PublishTypeOK ==
    /\ work \in [Jobs -> {"waiting", "running", "landed"} \cup Ended]
    /\ \A g \in Gates : work[g] \in {"waiting"} \cup Ended
    /\ out \subseteq Shelves
    /\ passed \subseteq Gates
    /\ creator \in [Creators -> {"view", "create", "viewAgain", "ok", "failed"}]
    /\ exists \in BOOLEAN
    /\ flakes \in 0 .. MaxFlakes

\* Neither workflow fails because the other one created the Release first.
NoCreatorTripsOverTheOther == \A c \in Creators : creator[c] # "failed"

(***************************************************************************)
(* Re-running the failed jobs, as the operating notes have it, publishes   *)
(* everything at the same version, unless some registry already has an     *)
(* artifact whose job failed: the version the notes call spent.            *)
(***************************************************************************)
Spent == \E p \in Immutable \cap out : work[p] = "failed"

RerunningHeals == <>(out = Shelves \/ Spent)

(***************************************************************************)
(* Nothing publishes until everything builds and the preflight passes, as  *)
(* docs/RELEASE_AND_PUBLISH.md has it: publish-python-sdk does not wait    *)
(* for build-cli.                                                          *)
(***************************************************************************)
NothingPublishesUntilEverythingBuilds == out # {} => Gates \subseteq passed
==============================================================================

--------------------------- MODULE CatalogRelease ---------------------------
(***************************************************************************)
(* The release pipeline: the history of main, the runs of                  *)
(* .github/workflows/release.yml that it and manual dispatches start, and  *)
(* the tags and releases those runs leave on the remote.                   *)
(*                                                                         *)
(* A commit is named by its place in main.  A commit is abstracted to the  *)
(* two things the workflow reads of it: the number in VERSION and the      *)
(* content of tiles/.  The workflow has no `concurrency:` group, so any    *)
(* number of runs interleave, one action per step of the job.              *)
(***************************************************************************)
EXTENDS Integers, Sequences, FiniteSets

CONSTANTS
  Runs,         \* identities of workflow runs
  Corpora,      \* possible contents of tiles/
  MaxVersion,   \* bound: VERSION is 1 .. MaxVersion
  MaxCommits,   \* bound: commits on main
  MaxReruns,    \* bound: "re-run failed jobs" clicks
  MaxStrays,    \* bound: catalog-vN tags pushed by something but this job
  MaxFixtures,  \* bound: releases published outside the merge flow
  NoRelease     \* the value of releases[v] when v has none

ASSUME BoundsAssumption ==
  /\ MaxVersion \in Nat \ {0} /\ MaxCommits \in Nat \ {0}
  /\ MaxReruns \in Nat
  /\ MaxStrays \in Nat /\ MaxFixtures \in Nat

Versions == 1 .. MaxVersion
Channels == {"dev", "stable"}

\* src is the commit the bundle was built from (0: not built from main, a
\* hardware fixture); pre is GitHub's prerelease flag.
Commit  == [version : Versions, corpus : Corpora]
Release == [src : Nat, pre : BOOLEAN]

ASSUME NoReleaseAssumption == NoRelease \notin Release

\* The steps of the publish job that a run may stand before, and how it ends:
\* green ("published", "nothing"), red by the job's own rules ("refused"), or
\* red because a step could not be carried out ("broken").
\* "delete" and "cleanup" stand before the two requests of
\* `gh release delete --cleanup-tag`.
Working == {"build", "gate", "sign", "guard", "create", "proof",
            "delete", "cleanup"}
Green   == {"published", "nothing"}
Red     == {"refused", "broken"}
RunState == [pc : {"idle"} \cup Working \cup Green \cup Red,
             event : {"push", "dispatch"}, sha : Nat,
             channel : Channels, createdTag : BOOLEAN,
             tookDown : BOOLEAN]  \* history: an attempt deleted its release

VARIABLES
  main,      \* the commits of the main branch
  run,       \* the state of each run
  tags,      \* the commit each catalog-vN tag names, NoTag when absent
  releases,  \* the release published under each catalog-vN, or NoRelease
  reruns,    \* how many reruns were started
  strays     \* the versions whose tag something else pushed

remote == <<tags, releases>>
vars   == <<main, run, tags, releases, reruns, strays>>

NoTag == 0

TypeOK ==
  /\ main \in Seq(Commit) /\ Len(main) \in 1 .. MaxCommits
  /\ run \in [Runs -> RunState]
  /\ tags \in [Versions -> Nat]
  /\ releases \in [Versions -> Release \cup {NoRelease}]
  /\ reruns \in 0 .. MaxReruns
  /\ strays \subseteq Versions

-----------------------------------------------------------------------------
Idle == [pc |-> "idle", event |-> "push", sha |-> 0, channel |-> "dev",
         createdTag |-> FALSE, tookDown |-> FALSE]

\* Version 1 of some corpus is on main and published as a full release.
Init ==
  /\ \E c \in Corpora : main = <<[version |-> 1, corpus |-> c]>>
  /\ run = [r \in Runs |-> Idle]
  /\ tags = [v \in Versions |-> IF v = 1 THEN 1 ELSE NoTag]
  /\ releases = [v \in Versions |->
       IF v = 1 THEN [src |-> 1, pre |-> FALSE] ELSE NoRelease]
  /\ reruns = 0
  /\ strays = {}

\* The commit a run checked out, and the number it reads from VERSION.
Sha(r) == run[r].sha
Ver(r) == main[Sha(r)].version

Published == {v \in Versions : releases[v] # NoRelease}

\* Mutant: a version one above the highest is not enough.
AboveLatestByTwo(v) == \A w \in Published : w + 1 < v

\* `[ "$version" -gt "$latest" ]`, latest being the highest catalog-vN in the
\* release list, prerelease or full, 0 when there is none.
AboveLatest(v) == \A w \in Published : w < v

\* Mutant: the diff of VERSION alone.
DiffVersionQuiet(sha) == main[sha].version = main[sha - 1].version

\* `git diff --quiet "$BEFORE" "$GITHUB_SHA" -- tiles/ VERSION`: a push run's
\* predecessor is the commit main held before it.
DiffQuiet(sha) == main[sha] = main[sha - 1]

\* Mutant: the guard asks whether the tag exists, not what it names.
TargetGuardByName(v, built) == {2, IF tags[v] = NoTag THEN 3 ELSE 0}

\* scripts/release-target-guard.sh: what the remote's tag says about the built
\* commit.  2 (the remote could not be read) is always possible.
TargetGuard(v, built) ==
  {2} \cup (IF tags[v] = NoTag THEN {3}
            ELSE IF tags[v] = built THEN {0} ELSE {1})

Goto(r, label) == run' = [run EXCEPT ![r].pc = label]

-----------------------------------------------------------------------------
(* What starts a run.                                                      *)

Start(r, event, sha, channel) ==
  /\ run[r].pc = "idle"
  /\ run' = [run EXCEPT ![r] = [pc |-> "build", event |-> event, sha |-> sha,
                                channel |-> channel, createdTag |-> FALSE,
                                tookDown |-> FALSE]]

\* A push to main, by a merge or directly: nothing about main itself relates
\* the VERSION or tiles/ of a commit to those of its predecessor.
Push(r, v, c) ==
  /\ Len(main) < MaxCommits
  /\ main' = Append(main, [version |-> v, corpus |-> c])
  /\ Start(r, "push", Len(main) + 1, "dev")
  /\ UNCHANGED <<remote, reruns, strays>>

\* A manual dispatch runs on the commit main holds, for the chosen channel.
Dispatch(r, ch) ==
  /\ Start(r, "dispatch", Len(main), ch)
  /\ UNCHANGED <<main, remote, reruns, strays>>

\* "Re-run failed jobs": the same commit and event from the start of the job.
Rerun(r) ==
  /\ run[r].pc \in Red
  /\ reruns < MaxReruns
  /\ reruns' = reruns + 1
  /\ run' = [run EXCEPT ![r].pc = "build", ![r].createdTag = FALSE]
  /\ UNCHANGED <<main, remote, strays>>

-----------------------------------------------------------------------------
(* The steps of a run.                                                     *)

\* The build job, which the publish job needs: the corpus builds, twice to
\* the same bytes.  (A corpus that does not is a Fault here.)
Build(r) ==
  /\ run[r].pc = "build"
  /\ Goto(r, "gate")
  /\ UNCHANGED <<main, remote, reruns, strays>>

\* "Is there anything to publish?"
GateVerdict(r) ==
  IF AboveLatest(Ver(r)) THEN "sign"
  ELSE IF run[r].event = "push" /\ DiffQuiet(Sha(r)) THEN "nothing"
  ELSE "refused"

Gate(r) ==
  /\ run[r].pc = "gate"
  /\ Goto(r, GateVerdict(r))
  /\ UNCHANGED <<main, remote, reruns, strays>>

\* Stage the credential, build and sign the bundle of the checked-out commit,
\* verify the signature: all local to the runner.
Sign(r) ==
  /\ run[r].pc = "sign"
  /\ Goto(r, "guard")
  /\ UNCHANGED <<main, remote, reruns, strays>>

\* The first guard of the publish step: only a tag that is absent (3) or
\* already on the built commit (0) lets it go on.
AfterGuard(rc) ==
  CASE rc \in {0, 3} -> "create" [] rc = 1 -> "refused" [] OTHER -> "broken"

GuardBefore(r) ==
  /\ run[r].pc = "guard"
  /\ \E rc \in TargetGuard(Ver(r), Sha(r)) :
       run' = [run EXCEPT ![r].pc = AfterGuard(rc),
                          ![r].createdTag = (rc = 3)]
  /\ UNCHANGED <<main, remote, reruns, strays>>

\* `gh release create`: fails if the tag already has a release; creates a
\* missing tag on --target, and leaves a tag that exists where it is.
CreateTolerated(r) ==  \* Mutant: `gh release create ... || true`
  /\ run[r].pc = "create"
  /\ releases[Ver(r)] # NoRelease
  /\ Goto(r, "proof")
  /\ UNCHANGED <<main, remote, reruns, strays>>

CreateRefused(r) ==
  /\ run[r].pc = "create"
  /\ releases[Ver(r)] # NoRelease
  /\ Goto(r, "refused")
  /\ UNCHANGED <<main, remote, reruns, strays>>

CreateOrReplace(r) ==  \* Mutant: the assets of an existing release replaced
  /\ run[r].pc = "create"
  /\ releases' = [releases EXCEPT ![Ver(r)] =
       [src |-> Sha(r), pre |-> run[r].channel # "stable"]]
  /\ tags' = [tags EXCEPT ![Ver(r)] = IF @ = NoTag THEN Sha(r) ELSE @]
  /\ Goto(r, "proof")
  /\ UNCHANGED <<main, reruns, strays>>

CreateRelease(r) ==
  /\ run[r].pc = "create"
  /\ releases[Ver(r)] = NoRelease
  /\ releases' = [releases EXCEPT ![Ver(r)] =
       [src |-> Sha(r), pre |-> run[r].channel # "stable"]]
  /\ tags' = [tags EXCEPT ![Ver(r)] = IF @ = NoTag THEN Sha(r) ELSE @]
  /\ Goto(r, "proof")
  /\ UNCHANGED <<main, reruns, strays>>

\* Mutant: anything but a proven match deletes.
DeleteUnlessProven(r, rc) == rc # 0 /\ run[r].createdTag

\* Only a proven mismatch (1) of a tag this run set out to create deletes.
MustDelete(r, rc) == rc = 1 /\ run[r].createdTag

\* The second guard of the publish step.
AfterProof(rc) ==
  CASE rc = 0 -> "published" [] rc = 2 -> "broken" [] OTHER -> "refused"

GuardAfter(r) ==
  /\ run[r].pc = "proof"
  /\ \E rc \in TargetGuard(Ver(r), Sha(r)) :
       Goto(r, IF MustDelete(r, rc) THEN "delete" ELSE AfterProof(rc))
  /\ UNCHANGED <<main, remote, reruns, strays>>

\* Mutant: the version is dropped from the map instead of emptied.
DropRelease(r) ==
  /\ run[r].pc = "delete"
  /\ releases' = [w \in Versions \ {Ver(r)} |-> releases[w]]
  /\ run' = [run EXCEPT ![r].pc = "cleanup", ![r].tookDown = TRUE]
  /\ UNCHANGED <<main, tags, reruns, strays>>

\* `gh release delete --cleanup-tag` is two requests.  The first deletes the
\* release; when it fails the job reports that and is red.
DeleteRelease(r) ==
  /\ run[r].pc = "delete"
  /\ \/ Goto(r, "refused") /\ UNCHANGED releases
     \/ /\ releases' = [releases EXCEPT ![Ver(r)] = NoRelease]
        /\ run' = [run EXCEPT ![r].pc = "cleanup", ![r].tookDown = TRUE]
  /\ UNCHANGED <<main, tags, reruns, strays>>

\* The second deletes the tag by name, whatever it names by then; it may fail
\* as well.  Either way the job ends with `exit 1`.
CleanupTag(r) ==
  /\ run[r].pc = "cleanup"
  /\ Goto(r, "refused")
  /\ \/ UNCHANGED tags
     \/ tags' = [tags EXCEPT ![Ver(r)] = NoTag]
  /\ UNCHANGED <<main, releases, reruns, strays>>

\* Any step can fail for a reason of its own, and the runner can be lost
\* between two steps: the run is red and what it did so far stays.
Fault(r) ==
  /\ run[r].pc \in Working
  /\ Goto(r, "broken")
  /\ UNCHANGED <<main, remote, reruns, strays>>

-----------------------------------------------------------------------------
(* What people do to the remote.                                           *)

\* gh release edit catalog-vN --prerelease=false --latest
Promote(v) ==
  /\ v \in Published
  /\ releases[v].pre
  /\ releases' = [releases EXCEPT ![v].pre = FALSE]
  /\ UNCHANGED <<main, run, tags, reruns, strays>>

\* A catalog-vN tag pushed by something other than this job, on any commit.
StrayTag(v) ==
  /\ Cardinality(strays) < MaxStrays
  /\ tags[v] = NoTag
  /\ \E sha \in 1 .. Len(main) : tags' = [tags EXCEPT ![v] = sha]
  /\ strays' = strays \cup {v}
  /\ UNCHANGED <<main, run, releases, reruns>>

\* A release published outside the merge flow (the hardware fixtures).
Fixtures == {v \in Published : releases[v].src = 0}

FixtureRelease(v) ==
  /\ Cardinality(Fixtures) < MaxFixtures
  /\ releases[v] = NoRelease /\ tags[v] = NoTag
  /\ \E pre \in BOOLEAN :
       releases' = [releases EXCEPT ![v] = [src |-> 0, pre |-> pre]]
  /\ tags' = [tags EXCEPT ![v] = Len(main)]
  /\ UNCHANGED <<main, run, reruns, strays>>

-----------------------------------------------------------------------------
Step(r) ==
  \/ Build(r) \/ Gate(r) \/ Sign(r) \/ GuardBefore(r)
  \/ CreateRefused(r) \/ CreateRelease(r)
  \/ GuardAfter(r) \/ DeleteRelease(r) \/ CleanupTag(r)

DirectPush == \E r \in Runs, v \in Versions, c \in Corpora : Push(r, v, c)

Pipeline ==
  \/ \E r \in Runs : Step(r) \/ Fault(r) \/ Rerun(r)
  \/ \E r \in Runs, ch \in Channels : Dispatch(r, ch)
  \/ \E v \in Versions : Promote(v) \/ StrayTag(v) \/ FixtureRelease(v)

Next == DirectPush \/ Pipeline

Spec == Init /\ [][Next]_vars

-----------------------------------------------------------------------------
(* Properties.                                                             *)

\* The release of version v carries corpus c of main.
Holds(v, c) ==
  v \in Published /\ releases[v].src # 0 /\ main[releases[v].src].corpus = c

\* Whatever runs interleaved, were lost or rerun, and wherever stray tags
\* appeared: a run that ended "published" has its release for good, the bundle
\* of the commit it built, and the tag on that commit.  It can lose the tag,
\* and only the tag, and only to another run of the same VERSION that took a
\* release of its own down: that run's request to delete the tag may come
\* after this one has published on it.
PublishedIsProven ==
  \A r \in Runs : run[r].pc = "published" =>
    /\ releases[Ver(r)] # NoRelease /\ releases[Ver(r)].src = Sha(r)
    /\ \/ tags[Ver(r)] = Sha(r)
       \/ \E s \in Runs \ {r} : run[s].tookDown /\ Ver(s) = Ver(r)

\* A version is published once: no two runs, of the same commit or of two
\* commits with the same VERSION, both report having published it.
OnePublisher ==
  \A r, s \in Runs :
    run[r].pc = "published" /\ run[s].pc = "published" /\ Ver(r) = Ver(s)
      => r = s

\* A corpus that reached main is never lost in silence: a release holds it,
\* or the run of the push that brought it is still working or red.
NoSilentLoss ==
  \A i \in 1 .. Len(main) :
    \/ \E v \in Versions : Holds(v, main[i].corpus)
    \/ \E r \in Runs :
         /\ run[r].pc \in Working \cup Red
         /\ run[r].event = "push" /\ main[Sha(r)].corpus = main[i].corpus

\* A release is taken down only by the run that created it, after a mismatch
\* that a stray tag made, and never one whose publication a run has reported.
\* A tag that exists is never moved; it is deleted only by a run that took its
\* own release of that version down.  (The code's two requests allow no more:
\* by the second one the tag may be one another run has published on.)
DeletesOnlyItsOwn ==
  [][\A v \in Versions :
       /\ v \in Published /\ releases'[v] = NoRelease =>
            /\ v \in strays
            /\ \A s \in Runs : run[s].pc = "published" => Ver(s) # v
            /\ \E r \in Runs :
                 /\ run[r].pc = "delete" /\ run'[r].pc = "cleanup"
                 /\ Ver(r) = v /\ releases[v].src = Sha(r)
       /\ tags[v] # NoTag /\ tags'[v] # tags[v] =>
            /\ tags'[v] = NoTag
            /\ \E r \in Runs :
                 /\ run[r].pc = "cleanup" /\ run'[r].pc = "refused"
                 /\ run[r].tookDown /\ Ver(r) = v]_vars

-----------------------------------------------------------------------------
(* The inductive invariant behind these properties.                        *)

\* A run owns the release of its version from creating it until it ends or
\* deletes it.
Owns(r) == run[r].pc \in {"proof", "delete", "published"}

\* Runs and bundles name commits that main holds; a push has a predecessor.
OnMain ==
  /\ \A r \in Runs : run[r].pc # "idle" =>
       /\ Sha(r) \in 1 .. Len(main)
       /\ run[r].event = "push" => Sha(r) >= 2
  /\ \A v \in Published : releases[v].src \in 0 .. Len(main)

Owned ==
  /\ \A r \in Runs : Owns(r) =>
       Ver(r) \in Published /\ releases[Ver(r)].src = Sha(r)
  /\ \A r, s \in Runs : Owns(r) /\ Owns(s) /\ Ver(r) = Ver(s) => r = s

\* The release main started from is nobody's to take down.
FirstKept ==
  /\ 1 \in Published /\ releases[1].src = 1
  /\ \A r \in Runs : Owns(r) => Ver(r) # 1

NothingIsSame ==
  \A r \in Runs : run[r].pc = "nothing" =>
    run[r].event = "push" /\ DiffQuiet(Sha(r))

EveryPushRuns ==
  \A i \in 2 .. Len(main) : \E r \in Runs :
    run[r].pc # "idle" /\ run[r].event = "push" /\ Sha(r) = i

\* The content of tiles/ was brought by the first commit or by one that
\* changed it.
EveryCorpusBrought ==
  \A i \in 1 .. Len(main) : \E j \in 1 .. i :
    /\ main[j].corpus = main[i].corpus
    /\ j = 1 \/ main[j].corpus # main[j - 1].corpus

\* A published run has its tag, or lost it to the run that took it down.
TagProven ==
  \A r \in Runs : run[r].pc = "published" =>
    \/ tags[Ver(r)] = Sha(r)
    \/ \E s \in Runs \ {r} : run[s].tookDown /\ Ver(s) = Ver(r)

\* Without a stray tag, a tag and its release come together and agree.
JobsTags ==
  \A v \in Versions \ strays :
    /\ tags[v] = NoTag <=> releases[v] = NoRelease
    /\ v \in Published => releases[v].src \in {0, tags[v]}

\* Only a stray tag makes a run take its release down.
TakenDown ==
  \A r \in Runs :
    /\ run[r].pc \in {"delete", "cleanup"} => Ver(r) \in strays
    /\ run[r].pc = "cleanup" => run[r].tookDown
    /\ run[r].tookDown => run[r].pc # "idle" /\ Ver(r) \in strays

CoreInv ==
  /\ TypeOK /\ OnMain /\ Owned /\ FirstKept
  /\ NothingIsSame /\ EveryPushRuns /\ EveryCorpusBrought

TagInv == TagProven /\ JobsTags /\ TakenDown

ReleaseInv == CoreInv /\ TagInv

-----------------------------------------------------------------------------
(* What release.yml says of itself and the runs show it does not keep.     *)

\* "this job refuses to republish or go backwards": a bundle built from main
\* is released only above every release there is.
NeverGoesBackwards ==
  [][\A v \in Versions :
       v \notin Published /\ releases'[v] # NoRelease
         => releases'[v].src = 0 \/ AboveLatest(v)]_vars


=============================================================================

------------------------ MODULE CatalogReleaseProofs ------------------------
(***************************************************************************)
(* Proofs about the release pipeline, for any number of runs, commits,     *)
(* versions, reruns, stray tags and fixtures.                              *)
(***************************************************************************)
EXTENDS CatalogRelease, FiniteSetTheorems, TLAPS

Labels == {"idle"} \cup Working \cup Green \cup Red

\* A run that moves on, and sets or keeps its created_tag, is still a run.
LEMMA MovedOn ==
  ASSUME run \in [Runs -> RunState], NEW r \in Runs,
         NEW l \in Labels, NEW b \in BOOLEAN
  PROVE  [run EXCEPT ![r].pc = l, ![r].createdTag = b] \in [Runs -> RunState]
<1>1. [run[r] EXCEPT !.pc = l, !.createdTag = b] \in RunState
  BY DEF RunState, Labels
<1>2. [run EXCEPT ![r].pc = l, ![r].createdTag = b]
        = [run EXCEPT ![r] = [run[r] EXCEPT !.pc = l, !.createdTag = b]]
  OBVIOUS
<1> QED
  BY <1>1, <1>2

\* The gate and both guards lead to a place a run can be in.
LEMMA VerdictLabels ==
  /\ \A r \in Runs : GateVerdict(r) \in Labels
  /\ \A rc : AfterGuard(rc) \in Labels /\ AfterProof(rc) \in Labels
BY DEF GateVerdict, AfterGuard, AfterProof, Labels, Working, Green, Red

\* So is one whose deletion of its release is recorded.
LEMMA TookDownMovedOn ==
  ASSUME run \in [Runs -> RunState], NEW r \in Runs, NEW l \in Labels
  PROVE  [run EXCEPT ![r].pc = l, ![r].tookDown = TRUE]
           \in [Runs -> RunState]
<1>1. [run[r] EXCEPT !.pc = l, !.tookDown = TRUE] \in RunState
  BY DEF RunState, Labels
<1>2. [run EXCEPT ![r].pc = l, ![r].tookDown = TRUE]
        = [run EXCEPT ![r] = [run[r] EXCEPT !.pc = l, !.tookDown = TRUE]]
  OBVIOUS
<1> QED
  BY <1>1, <1>2

\* The repository starts well typed.
LEMMA TypeCorrectInit == Init => TypeOK
<1> USE BoundsAssumption DEF TypeOK, Versions
<1> SUFFICES ASSUME Init PROVE TypeOK
  OBVIOUS
<1>1. main \in Seq(Commit) /\ Len(main) = 1
  BY DEF Init, Commit
<1>2. run \in [Runs -> RunState]
  BY DEF Init, Idle, RunState, Channels
<1>3. tags \in [Versions -> Nat]
  BY DEF Init, NoTag
<1>4. releases \in [Versions -> Release \cup {NoRelease}]
  BY DEF Init, Release
<1> QED
  BY <1>1, <1>2, <1>3, <1>4 DEF Init

\* Every action of the pipeline keeps the types.
LEMMA TypeCorrectNext == TypeOK /\ [Next]_vars => TypeOK'
<1> USE BoundsAssumption DEF TypeOK, Versions, remote
<1> SUFFICES ASSUME TypeOK, [Next]_vars PROVE TypeOK'
  OBVIOUS
<1> USE DEF RunState, Working, Green, Red, Channels
<1>1. ASSUME NEW r \in Runs, NEW v \in Versions, NEW c \in Corpora,
             Push(r, v, c)
      PROVE  TypeOK'
  BY <1>1 DEF Push, Start, Commit
<1>2. ASSUME NEW r \in Runs, NEW ch \in Channels, Dispatch(r, ch)
      PROVE  TypeOK'
  BY <1>2 DEF Dispatch, Start
<1>3. ASSUME NEW r \in Runs, Rerun(r) PROVE TypeOK'
  <2>1. run' = [run EXCEPT ![r].pc = "build", ![r].createdTag = FALSE]
    BY <1>3 DEF Rerun
  <2>2. run' \in [Runs -> RunState]
    BY <2>1, MovedOn DEF Labels
  <2> QED
    BY <1>3, <2>2 DEF Rerun
<1>4. ASSUME NEW r \in Runs, Build(r) PROVE TypeOK'
  BY <1>4 DEF Build, Goto
<1>5. ASSUME NEW r \in Runs, Gate(r) PROVE TypeOK'
  BY <1>5, VerdictLabels DEF Gate, Goto, Labels
<1>6. ASSUME NEW r \in Runs, Sign(r) PROVE TypeOK'
  BY <1>6 DEF Sign, Goto
<1>7. ASSUME NEW r \in Runs, GuardBefore(r) PROVE TypeOK'
  <2>1. PICK rc \in TargetGuard(Ver(r), Sha(r)) :
          run' = [run EXCEPT ![r].pc = AfterGuard(rc),
                             ![r].createdTag = (rc = 3)]
    BY <1>7 DEF GuardBefore
  <2>2. (rc = 3) \in BOOLEAN /\ AfterGuard(rc) \in Labels
    BY VerdictLabels
  <2>3. run' \in [Runs -> RunState]
    BY <2>1, <2>2, MovedOn
  <2> QED
    BY <1>7, <2>3 DEF GuardBefore
<1>8. ASSUME NEW r \in Runs, CreateRefused(r) PROVE TypeOK'
  BY <1>8 DEF CreateRefused, Goto
<1>9. ASSUME NEW r \in Runs, CreateRelease(r) PROVE TypeOK'
  BY <1>9 DEF CreateRelease, Goto, Release, Sha
<1>10. ASSUME NEW r \in Runs, GuardAfter(r) PROVE TypeOK'
  <2>1. PICK l \in Labels : run' = [run EXCEPT ![r].pc = l]
    BY <1>10, VerdictLabels DEF GuardAfter, Goto, Labels
  <2>2. run' \in [Runs -> RunState]
    BY <2>1 DEF Labels
  <2> QED
    BY <1>10, <2>2 DEF GuardAfter
<1>16. ASSUME NEW r \in Runs, DeleteRelease(r) PROVE TypeOK'
  <2>1. [run EXCEPT ![r].pc = "cleanup", ![r].tookDown = TRUE]
          \in [Runs -> RunState]
    BY TookDownMovedOn DEF Labels
  <2>2. [run EXCEPT ![r].pc = "refused"] \in [Runs -> RunState]
    OBVIOUS
  <2>3. [releases EXCEPT ![Ver(r)] = NoRelease]
          \in [Versions -> Release \cup {NoRelease}]
    OBVIOUS
  <2> QED
    BY <1>16, <2>1, <2>2, <2>3 DEF DeleteRelease, Goto
<1>17. ASSUME NEW r \in Runs, CleanupTag(r) PROVE TypeOK'
  <2>1. [tags EXCEPT ![Ver(r)] = NoTag] \in [Versions -> Nat]
    BY DEF NoTag
  <2>2. [run EXCEPT ![r].pc = "refused"] \in [Runs -> RunState]
    OBVIOUS
  <2> QED
    BY <1>17, <2>1, <2>2 DEF CleanupTag, Goto
<1>11. ASSUME NEW r \in Runs, Fault(r) PROVE TypeOK'
  BY <1>11 DEF Fault, Goto
<1>12. ASSUME NEW v \in Versions, Promote(v) PROVE TypeOK'
  BY <1>12, NoReleaseAssumption DEF Promote, Published, Release
<1>13. ASSUME NEW v \in Versions, StrayTag(v) PROVE TypeOK'
  BY <1>13 DEF StrayTag
<1>14. ASSUME NEW v \in Versions, FixtureRelease(v) PROVE TypeOK'
  BY <1>14 DEF FixtureRelease, Release
<1>15. CASE UNCHANGED vars
  BY <1>15 DEF vars
<1> QED
  BY <1>1, <1>2, <1>3, <1>4, <1>5, <1>6, <1>7, <1>8, <1>9, <1>10, <1>11,
     <1>12, <1>13, <1>14, <1>15, <1>16, <1>17
     DEF Next, DirectPush, Pipeline, Step

\* Every value has its type, in every reachable state of the pipeline.
THEOREM TypeCorrect == Spec => []TypeOK
BY TypeCorrectInit, TypeCorrectNext, PTL DEF Spec

-----------------------------------------------------------------------------
(* The inductive invariant.                                                *)

\* It holds of the repository as it starts.
LEMMA CoreInit == Init => CoreInv
<1> SUFFICES ASSUME Init PROVE CoreInv
  OBVIOUS
<1>1. TypeOK
  BY TypeCorrectInit
<1>2. main \in Seq(Commit) /\ Len(main) = 1
  BY BoundsAssumption DEF Init, Commit, Versions
<1>3. \A r \in Runs : run[r].pc = "idle"
  BY DEF Init, Idle
<1>4. 1 \in Versions /\ \A v \in Published : v = 1
  BY BoundsAssumption DEF Init, Published, Versions
<1>5. releases[1] = [src |-> 1, pre |-> FALSE] /\ releases[1] # NoRelease
  <2>1. releases[1] = [src |-> 1, pre |-> FALSE]
    BY <1>4 DEF Init
  <2>2. [src |-> 1, pre |-> FALSE] \in Release
    BY DEF Release
  <2> QED
    BY <2>1, <2>2, NoReleaseAssumption
<1>6. OnMain
  BY <1>2, <1>3, <1>4, <1>5 DEF OnMain
<1>7. Owned /\ NothingIsSame
  BY <1>3 DEF Owned, NothingIsSame, Owns
<1>8. FirstKept
  BY <1>3, <1>4, <1>5 DEF FirstKept, Published, Owns
<1>9. EveryPushRuns /\ EveryCorpusBrought
  BY <1>2 DEF EveryPushRuns, EveryCorpusBrought
<1> QED
  BY <1>1, <1>6, <1>7, <1>8, <1>9 DEF CoreInv

\* A step that moves one run on, without making it an owner, and leaves main
\* and the releases alone keeps it.
LEMMA QuietStep ==
  ASSUME CoreInv, TypeOK', NEW r \in Runs,
         UNCHANGED <<main, releases>>,
         \A s \in Runs \ {r} : run'[s] = run[s],
         run[r].pc # "idle", run'[r].pc # "idle",
         run'[r].sha = run[r].sha, run'[r].event = run[r].event,
         Owns(r)' => Owns(r),
         run'[r].pc = "nothing" =>
           run[r].event = "push" /\ DiffQuiet(Sha(r))
  PROVE  CoreInv'
<1> USE DEF CoreInv
<1>1. main' = main /\ releases' = releases /\ Published' = Published
  BY DEF Published
<1>2. \A s \in Runs : /\ run'[s].sha = run[s].sha /\ run'[s].event = run[s].event
                      /\ run'[s].pc = "idle" <=> run[s].pc = "idle"
  OBVIOUS
<1>3. \A s \in Runs : Owns(s)' => Owns(s)
  BY DEF Owns
<1>4. \A s \in Runs : Sha(s)' = Sha(s) /\ Ver(s)' = Ver(s)
  BY <1>1, <1>2 DEF Sha, Ver
<1>5. OnMain'
  BY <1>1, <1>2, <1>4 DEF OnMain
<1>6. Owned'
  BY <1>1, <1>3, <1>4 DEF Owned
<1>7. FirstKept'
  BY <1>1, <1>3, <1>4 DEF FirstKept
<1>8. NothingIsSame'
  BY <1>1, <1>2, <1>4 DEF NothingIsSame, DiffQuiet
<1>9. EveryPushRuns'
  BY <1>1, <1>2, <1>4 DEF EveryPushRuns
<1>10. EveryCorpusBrought'
  BY <1>1 DEF EveryCorpusBrought
<1> QED
  BY <1>5, <1>6, <1>7, <1>8, <1>9, <1>10

\* A commit on main and a run on it: VERSION there is a version.
LEMMA VersionOfRun ==
  ASSUME CoreInv, NEW r \in Runs, run[r].pc # "idle"
  PROVE  Sha(r) \in 1 .. Len(main) /\ Ver(r) \in Versions
<1>1. Sha(r) \in 1 .. Len(main)
  BY DEF CoreInv, OnMain
<1>2. \A i \in 1 .. Len(main) : main[i] \in Commit
  BY DEF CoreInv, TypeOK
<1> QED
  BY <1>1, <1>2 DEF Commit, Ver

\* A push: main grows by one commit, and the run of that commit starts.
LEMMA PushKeepsCore ==
  ASSUME CoreInv, TypeOK', NEW r \in Runs, NEW v \in Versions,
         NEW c \in Corpora, Push(r, v, c)
  PROVE  CoreInv'
<1> DEFINE n == Len(main) + 1
<1> USE DEF CoreInv
<1>1. /\ Len(main) \in Nat /\ Len(main) >= 1 /\ Len(main') = n
      /\ \A i \in 1 .. Len(main) : main'[i] = main[i]
      /\ main'[n].corpus = c
  BY DEF Push, TypeOK, Commit
<1>2. tags' = tags /\ releases' = releases /\ Published' = Published
  BY DEF Push, remote, Published
<1>3. /\ run[r].pc = "idle" /\ run'[r].pc = "build"
      /\ run'[r].event = "push" /\ run'[r].sha = n
      /\ \A s \in Runs \ {r} : run'[s] = run[s]
  BY DEF Push, Start, TypeOK
<1>4. ASSUME NEW s \in Runs \ {r}, run[s].pc # "idle"
      PROVE  Sha(s)' = Sha(s) /\ Sha(s) \in 1 .. Len(main) /\ Ver(s)' = Ver(s)
  BY <1>1, <1>3, <1>4 DEF Sha, Ver, OnMain
<1>5. \A s \in Runs : Owns(s)' => s # r /\ Owns(s) /\ run'[s] = run[s]
                                 /\ run[s].pc # "idle"
  BY <1>3 DEF Owns
<1>6. OnMain'
  BY <1>1, <1>2, <1>3, <1>4 DEF OnMain, Sha
<1>7. Owned'
  BY <1>2, <1>4, <1>5 DEF Owned
<1>8. FirstKept'
  BY <1>2, <1>4, <1>5 DEF FirstKept
<1>9. NothingIsSame'
  <2> SUFFICES ASSUME NEW s \in Runs, run'[s].pc = "nothing"
               PROVE  run'[s].event = "push" /\ DiffQuiet(Sha(s))'
    BY DEF NothingIsSame
  <2>1. s # r /\ run'[s] = run[s] /\ run[s].pc = "nothing"
    BY <1>3
  <2>2. run[s].event = "push" /\ main[Sha(s)] = main[Sha(s) - 1]
    BY <2>1 DEF NothingIsSame, DiffQuiet
  <2>3. Sha(s) \in 2 .. Len(main) /\ Sha(s)' = Sha(s)
    BY <2>1, <2>2, <1>1, <1>4 DEF OnMain
  <2> QED
    BY <2>1, <2>2, <2>3, <1>1 DEF DiffQuiet
<1>10. EveryPushRuns'
  <2> SUFFICES ASSUME NEW i \in 2 .. n
               PROVE  \E s \in Runs : /\ run'[s].pc # "idle"
                                      /\ run'[s].event = "push"
                                      /\ run'[s].sha = i
    BY <1>1 DEF EveryPushRuns, Sha
  <2>1. CASE i = n
    BY <2>1, <1>3
  <2>2. CASE i \in 2 .. Len(main)
    BY <2>2, <1>3 DEF EveryPushRuns, Sha
  <2> QED
    BY <2>1, <2>2, <1>1
<1>11. EveryCorpusBrought'
  <2> SUFFICES ASSUME NEW i \in 1 .. n
               PROVE  \E j \in 1 .. i :
                        /\ main'[j].corpus = main'[i].corpus
                        /\ j = 1 \/ main'[j].corpus # main'[j - 1].corpus
    BY <1>1 DEF EveryCorpusBrought
  <2>1. ASSUME NEW k \in 1 .. Len(main)
        PROVE  \E j \in 1 .. k :
                 /\ main'[j].corpus = main'[k].corpus
                 /\ j = 1 \/ main'[j].corpus # main'[j - 1].corpus
    <3>1. PICK j \in 1 .. k :
            /\ main[j].corpus = main[k].corpus
            /\ j = 1 \/ main[j].corpus # main[j - 1].corpus
      BY DEF EveryCorpusBrought
    <3>2. main'[j] = main[j] /\ main'[k] = main[k]
          /\ (j # 1 => main'[j - 1] = main[j - 1])
      BY <1>1
    <3> QED
      BY <3>1, <3>2
  <2>2. CASE i = n
    <3>1. CASE main'[n].corpus # main'[Len(main)].corpus
      BY <2>2, <3>1, <1>1
    <3>2. CASE main'[n].corpus = main'[Len(main)].corpus
      BY <2>1, <2>2, <3>2, <1>1
    <3> QED
      BY <3>1, <3>2
  <2> QED
    BY <2>1, <2>2, <1>1
<1> QED
  BY <1>6, <1>7, <1>8, <1>9, <1>10, <1>11

\* A dispatch: a run starts on the commit main holds.
LEMMA DispatchKeepsCore ==
  ASSUME CoreInv, TypeOK', NEW r \in Runs, NEW ch \in Channels,
         Dispatch(r, ch)
  PROVE  CoreInv'
<1> USE DEF CoreInv
<1>1. main' = main /\ tags' = tags /\ releases' = releases
      /\ Published' = Published
  BY DEF Dispatch, remote, Published
<1>2. /\ run[r].pc = "idle" /\ run'[r].pc = "build"
      /\ run'[r].event = "dispatch" /\ run'[r].sha = Len(main)
      /\ \A s \in Runs \ {r} : run'[s] = run[s]
  BY DEF Dispatch, Start, TypeOK
<1>3. \A s \in Runs \ {r} : Sha(s)' = Sha(s) /\ Ver(s)' = Ver(s)
  BY <1>1, <1>2 DEF Sha, Ver
<1>4. \A s \in Runs : Owns(s)' => s # r /\ Owns(s) /\ run'[s] = run[s]
  BY <1>2 DEF Owns
<1>5. OnMain'
  BY <1>1, <1>2, <1>3 DEF OnMain, Sha, TypeOK
<1>6. Owned'
  BY <1>1, <1>3, <1>4 DEF Owned
<1>7. FirstKept'
  BY <1>1, <1>3, <1>4 DEF FirstKept
<1>8. NothingIsSame'
  BY <1>1, <1>2, <1>3 DEF NothingIsSame, DiffQuiet
<1>9. EveryPushRuns'
  BY <1>1, <1>2, <1>3 DEF EveryPushRuns
<1>10. EveryCorpusBrought'
  BY <1>1 DEF EveryCorpusBrought
<1> QED
  BY <1>5, <1>6, <1>7, <1>8, <1>9, <1>10

\* The creation of a release: its run becomes the one owner of its version.
LEMMA CreateKeepsCore ==
  ASSUME CoreInv, TypeOK', NEW r \in Runs, CreateRelease(r)
  PROVE  CoreInv'
<1> USE DEF CoreInv
<1>1. Sha(r) \in 1 .. Len(main) /\ Ver(r) \in Versions
  BY VersionOfRun DEF CreateRelease
<1>2. /\ main' = main
      /\ run[r].pc = "create" /\ run' = [run EXCEPT ![r].pc = "proof"]
      /\ releases[Ver(r)] = NoRelease
  BY DEF CreateRelease, Goto
<1>3. /\ run'[r].pc = "proof" /\ run'[r].sha = run[r].sha
      /\ run'[r].event = run[r].event
      /\ \A s \in Runs \ {r} : run'[s] = run[s]
  BY <1>2 DEF TypeOK, RunState
<1>4. /\ releases'[Ver(r)] \in Release /\ releases'[Ver(r)].src = Sha(r)
      /\ \A v \in Versions \ {Ver(r)} :
           releases'[v] = releases[v] /\ tags'[v] = tags[v]
  <2>1. releases' = [releases EXCEPT ![Ver(r)] =
                       [src |-> Sha(r), pre |-> run[r].channel # "stable"]]
    BY DEF CreateRelease
  <2>2. [src |-> Sha(r), pre |-> run[r].channel # "stable"] \in Release
    BY <1>1 DEF Release, TypeOK
  <2>3. \A v \in Versions \ {Ver(r)} : tags'[v] = tags[v]
    BY DEF CreateRelease, TypeOK
  <2> QED
    BY <1>1, <2>1, <2>2, <2>3 DEF TypeOK
<1>5. Published' = Published \cup {Ver(r)} /\ Ver(r) \notin Published
  BY <1>1, <1>2, <1>4, NoReleaseAssumption DEF Published
<1>6. \A s \in Runs : /\ Sha(s)' = Sha(s) /\ Ver(s)' = Ver(s)
                      /\ run'[s].event = run[s].event
                      /\ run'[s].pc = "idle" <=> run[s].pc = "idle"
  BY <1>2, <1>3 DEF Sha, Ver
<1>7. \A s \in Runs \ {r} : Owns(s)' => /\ Owns(s) /\ run'[s] = run[s]
                                       /\ Ver(s) # Ver(r) /\ Ver(s) \in Versions
  BY <1>3, <1>5 DEF Owns, Owned, Published
<1>8. OnMain'
  BY <1>1, <1>2, <1>4, <1>5, <1>6 DEF OnMain, Published
<1>9. Owned'
  BY <1>3, <1>4, <1>5, <1>6, <1>7 DEF Owned
<1>10. FirstKept'
  <2>1. 1 \in Published /\ Ver(r) # 1 /\ 1 \in Versions
    BY <1>5 DEF FirstKept, Published
  <2> QED
    BY <2>1, <1>4, <1>5, <1>6, <1>7 DEF FirstKept
<1>11. NothingIsSame'
  BY <1>2, <1>3, <1>6 DEF NothingIsSame, DiffQuiet
<1>12. EveryPushRuns'
  BY <1>2, <1>6 DEF EveryPushRuns
<1>13. EveryCorpusBrought'
  BY <1>2 DEF EveryCorpusBrought
<1> QED
  BY <1>8, <1>9, <1>10, <1>11, <1>12, <1>13

\* The deletion: the one owner of its version takes its own release down.
LEMMA DeleteKeepsCore ==
  ASSUME CoreInv, TypeOK', NEW r \in Runs, run[r].pc = "delete",
         UNCHANGED main,
         releases' = [releases EXCEPT ![Ver(r)] = NoRelease],
         run' = [run EXCEPT ![r].pc = "cleanup", ![r].tookDown = TRUE]
  PROVE  CoreInv'
<1> USE DEF CoreInv
<1>1. Sha(r) \in 1 .. Len(main) /\ Ver(r) \in Versions
  BY VersionOfRun
<1>2. /\ run'[r].pc = "cleanup" /\ run'[r].sha = run[r].sha
      /\ run'[r].event = run[r].event
      /\ \A s \in Runs \ {r} : run'[s] = run[s]
  BY DEF TypeOK, RunState
<1>3. \A v \in Versions \ {Ver(r)} : releases'[v] = releases[v]
  BY <1>1 DEF TypeOK
<1>4. Published' = Published \ {Ver(r)}
  BY <1>1, <1>3 DEF Published, TypeOK
<1>5. Owns(r) /\ Ver(r) # 1
  BY DEF Owns, FirstKept
<1>6. \A s \in Runs : /\ Sha(s)' = Sha(s) /\ Ver(s)' = Ver(s)
                      /\ run'[s].event = run[s].event
                      /\ run'[s].pc = "idle" <=> run[s].pc = "idle"
                      /\ run'[s].pc = "nothing" <=> run[s].pc = "nothing"
  BY <1>2 DEF Sha, Ver
<1>7. \A s \in Runs : Owns(s)' =>
         /\ s # r /\ Owns(s) /\ Ver(s) \in Published \ {Ver(r)}
         /\ Ver(s) \in Versions /\ releases'[Ver(s)] = releases[Ver(s)]
  BY <1>2, <1>3, <1>5 DEF Owns, Owned, Published
<1>8. OnMain'
  BY <1>3, <1>4, <1>6 DEF OnMain, Published
<1>9. Owned'
  BY <1>4, <1>6, <1>7 DEF Owned
<1>10. FirstKept'
  <2>1. 1 \in Versions \ {Ver(r)} /\ 1 \in Published
    BY <1>5 DEF FirstKept, Published
  <2> QED
    BY <2>1, <1>3, <1>4, <1>6, <1>7 DEF FirstKept
<1>11. NothingIsSame'
  BY <1>6 DEF NothingIsSame, DiffQuiet
<1>12. EveryPushRuns'
  <2> SUFFICES ASSUME NEW i \in 2 .. Len(main)
               PROVE  \E s \in Runs : /\ run'[s].pc # "idle"
                                      /\ run'[s].event = "push"
                                      /\ Sha(s)' = i
    BY DEF EveryPushRuns
  <2>1. PICK s \in Runs : /\ run[s].pc # "idle" /\ run[s].event = "push"
                          /\ Sha(s) = i
    BY DEF EveryPushRuns
  <2>2. run'[s].pc # "idle" /\ run'[s].event = "push" /\ Sha(s)' = i
    BY <1>6, <2>1
  <2> QED
    BY <2>2
<1>13. EveryCorpusBrought'
  BY DEF EveryCorpusBrought
<1> QED
  BY <1>8, <1>9, <1>10, <1>11, <1>12, <1>13

\* What people do to the remote: bundles that are there keep their source,
\* and a new one is a fixture.
LEMMA PeopleKeepCore ==
  ASSUME CoreInv, TypeOK', UNCHANGED <<main, run>>,
         \A v \in Published :
           v \in Published' /\ releases'[v].src = releases[v].src,
         \A v \in Published' \ Published : releases'[v].src = 0
  PROVE  CoreInv'
<1> USE DEF CoreInv
<1>1. \A s \in Runs : /\ Sha(s)' = Sha(s) /\ Ver(s)' = Ver(s)
                      /\ Owns(s)' = Owns(s)
  BY DEF Sha, Ver, Owns
<1>2. OnMain'
  <2>1. \A s \in Runs : run'[s].pc # "idle" =>
          /\ Sha(s)' \in 1 .. Len(main')
          /\ run'[s].event = "push" => Sha(s)' >= 2
    BY <1>1 DEF OnMain
  <2>2. 0 \in 0 .. Len(main)
    BY DEF TypeOK
  <2>3. \A v \in Published' : releases'[v].src \in 0 .. Len(main')
    <3> SUFFICES ASSUME NEW v \in Published'
                 PROVE  releases'[v].src \in 0 .. Len(main)
      OBVIOUS
    <3>1. CASE v \in Published
      BY <3>1 DEF OnMain
    <3>2. CASE v \notin Published
      BY <3>2, <2>2
    <3> QED
      BY <3>1, <3>2
  <2> QED
    BY <2>1, <2>3 DEF OnMain
<1>4. Owned'
  BY <1>1 DEF Owned
<1>5. FirstKept'
  BY <1>1 DEF FirstKept
<1>6. NothingIsSame' /\ EveryPushRuns' /\ EveryCorpusBrought'
  BY <1>1 DEF NothingIsSame, DiffQuiet, EveryPushRuns, EveryCorpusBrought
<1> QED
  BY <1>2, <1>4, <1>5, <1>6

\* Every step of the pipeline keeps the core of the invariant.
LEMMA CoreNext == CoreInv /\ [Next]_vars => CoreInv'
<1> SUFFICES ASSUME CoreInv, [Next]_vars PROVE CoreInv'
  OBVIOUS
<1> USE DEF remote
<1>0. TypeOK /\ TypeOK'
  BY TypeCorrectNext DEF CoreInv
<1>1. ASSUME NEW r \in Runs, NEW v \in Versions, NEW c \in Corpora,
             Push(r, v, c)
      PROVE  CoreInv'
  BY <1>0, <1>1, PushKeepsCore
<1>2. ASSUME NEW r \in Runs, NEW ch \in Channels, Dispatch(r, ch)
      PROVE  CoreInv'
  BY <1>0, <1>2, DispatchKeepsCore
<1>3. ASSUME NEW r \in Runs, Rerun(r) PROVE CoreInv'
  <2>1. /\ UNCHANGED <<main, releases>>
        /\ \A s \in Runs \ {r} : run'[s] = run[s]
        /\ run[r].pc # "idle" /\ run'[r].pc = "build"
        /\ run'[r].sha = run[r].sha /\ run'[r].event = run[r].event
    BY <1>0, <1>3 DEF Rerun, TypeOK, RunState, Red
  <2> QED
    BY <1>0, <2>1, QuietStep DEF Owns
<1>4. ASSUME NEW r \in Runs, NEW l, Goto(r, l), UNCHANGED <<main, releases>>,
             run[r].pc # "idle", l # "idle",
             Owns(r) \/ l \notin {"proof", "delete", "published"},
             l = "nothing" => run[r].event = "push" /\ DiffQuiet(Sha(r))
      PROVE  CoreInv'
  <2>1. /\ \A s \in Runs \ {r} : run'[s] = run[s]
        /\ run'[r].pc = l
        /\ run'[r].sha = run[r].sha /\ run'[r].event = run[r].event
    BY <1>0, <1>4 DEF Goto, TypeOK, RunState
  <2>2. Owns(r)' => Owns(r)
    BY <1>4, <2>1 DEF Owns
  <2> QED
    BY <1>0, <1>4, <2>1, <2>2, QuietStep
<1>5. ASSUME NEW r \in Runs, Build(r) PROVE CoreInv'
  BY <1>4, <1>5 DEF Build
<1>6. ASSUME NEW r \in Runs, Gate(r) PROVE CoreInv'
  <2>1. /\ GateVerdict(r) \in {"sign", "nothing", "refused"}
        /\ GateVerdict(r) = "nothing" =>
             run[r].event = "push" /\ DiffQuiet(Sha(r))
    BY DEF GateVerdict
  <2> QED
    BY <1>4, <1>6, <2>1 DEF Gate
<1>7. ASSUME NEW r \in Runs, Sign(r) PROVE CoreInv'
  BY <1>4, <1>7 DEF Sign
<1>8. ASSUME NEW r \in Runs, GuardBefore(r) PROVE CoreInv'
  <2>1. PICK rc \in TargetGuard(Ver(r), Sha(r)) :
          run' = [run EXCEPT ![r].pc = AfterGuard(rc),
                             ![r].createdTag = (rc = 3)]
    BY <1>8 DEF GuardBefore
  <2>2. AfterGuard(rc) \in {"create", "refused", "broken"}
    BY DEF AfterGuard
  <2>3. /\ \A s \in Runs \ {r} : run'[s] = run[s]
        /\ run'[r].pc = AfterGuard(rc)
        /\ run'[r].sha = run[r].sha /\ run'[r].event = run[r].event
    BY <1>0, <2>1 DEF TypeOK, RunState
  <2>4. UNCHANGED <<main, releases>> /\ run[r].pc # "idle"
    BY <1>8 DEF GuardBefore
  <2> QED
    BY <1>0, <2>2, <2>3, <2>4, QuietStep DEF Owns
<1>9. ASSUME NEW r \in Runs, CreateRefused(r) PROVE CoreInv'
  BY <1>4, <1>9 DEF CreateRefused
<1>10. ASSUME NEW r \in Runs, CreateRelease(r) PROVE CoreInv'
  BY <1>0, <1>10, CreateKeepsCore
<1>11. ASSUME NEW r \in Runs, GuardAfter(r) PROVE CoreInv'
  <2>1. PICK l : Goto(r, l) /\ l \in {"published", "broken", "refused", "delete"}
    BY <1>11 DEF GuardAfter, AfterProof
  <2>2. /\ UNCHANGED <<main, releases>>
        /\ run[r].pc # "idle" /\ Owns(r)
        /\ l # "idle" /\ l # "nothing"
    BY <1>11, <2>1 DEF GuardAfter, Owns
  <2> QED
    BY <2>1, <2>2, <1>4
<1>17. ASSUME NEW r \in Runs, DeleteRelease(r) PROVE CoreInv'
  <2>1. CASE Goto(r, "refused") /\ UNCHANGED releases
    BY <1>4, <1>17, <2>1 DEF DeleteRelease
  <2>2. CASE /\ releases' = [releases EXCEPT ![Ver(r)] = NoRelease]
             /\ run' = [run EXCEPT ![r].pc = "cleanup", ![r].tookDown = TRUE]
    BY <1>0, <1>17, <2>2, DeleteKeepsCore DEF DeleteRelease
  <2> QED
    BY <1>17, <2>1, <2>2 DEF DeleteRelease
<1>18. ASSUME NEW r \in Runs, CleanupTag(r) PROVE CoreInv'
  BY <1>4, <1>18 DEF CleanupTag
<1>12. ASSUME NEW r \in Runs, Fault(r) PROVE CoreInv'
  BY <1>4, <1>12 DEF Fault, Working
<1>13. ASSUME NEW v \in Versions, Promote(v) PROVE CoreInv'
  <2>1. releases[v] \in Release /\ releases' = [releases EXCEPT ![v].pre = FALSE]
    BY <1>0, <1>13 DEF Promote, Published, TypeOK
  <2>2. releases'[v] \in Release /\ releases'[v].src = releases[v].src
    BY <1>0, <2>1 DEF TypeOK, Release
  <2>3. \A w \in Versions \ {v} : releases'[w] = releases[w]
    BY <1>0, <2>1 DEF TypeOK
  <2>4. Published' = Published
    BY <2>2, <2>3, <1>13, NoReleaseAssumption DEF Promote, Published
  <2>5. \A w \in Published : releases'[w].src = releases[w].src
    BY <2>2, <2>3 DEF Published
  <2>6. UNCHANGED <<main, run>>
    BY <1>13 DEF Promote
  <2> QED
    BY <1>0, <2>4, <2>5, <2>6, PeopleKeepCore
<1>14. ASSUME NEW v \in Versions, StrayTag(v) PROVE CoreInv'
  <2>1. Published' = Published /\ UNCHANGED <<main, run, releases>>
    BY <1>14 DEF StrayTag, Published
  <2> QED
    BY <1>0, <2>1, PeopleKeepCore
<1>15. ASSUME NEW v \in Versions, FixtureRelease(v) PROVE CoreInv'
  <2>1. /\ releases[v] = NoRelease
        /\ \A w \in Versions \ {v} : releases'[w] = releases[w]
        /\ releases'[v].src = 0
    BY <1>0, <1>15 DEF FixtureRelease, TypeOK
  <2>2. \A w \in Published : w \in Published' /\ releases'[w] = releases[w]
    BY <2>1 DEF Published
  <2>3. \A w \in Published' \ Published : w = v
    BY <2>1 DEF Published
  <2>4. UNCHANGED <<main, run>>
    BY <1>15 DEF FixtureRelease
  <2> QED
    BY <1>0, <2>1, <2>2, <2>3, <2>4, PeopleKeepCore
<1>16. CASE UNCHANGED vars
  <2>1. UNCHANGED <<main, run, releases>> /\ Published' = Published
    BY <1>16 DEF vars, Published
  <2> QED
    BY <1>0, <2>1, PeopleKeepCore
<1> QED
  BY <1>1, <1>2, <1>3, <1>5, <1>6, <1>7, <1>8, <1>9, <1>10, <1>11,
     <1>12, <1>13, <1>14, <1>15, <1>16, <1>17, <1>18
     DEF Next, DirectPush, Pipeline, Step

-----------------------------------------------------------------------------
(* Tags, and who may take them away.                                       *)

\* No tag but version 1's, and no run, when the repository starts.
LEMMA TagInit == Init => TagInv
<1> SUFFICES ASSUME Init PROVE TagInv
  OBVIOUS
<1>1. [src |-> 1, pre |-> FALSE] \in Release
  BY DEF Release
<1>2. [src |-> 1, pre |-> FALSE] # NoRelease
  BY <1>1, NoReleaseAssumption
<1>3. JobsTags
  BY <1>2 DEF Init, JobsTags, Published, NoTag
<1>4. \A r \in Runs : run[r].pc = "idle" /\ ~run[r].tookDown
  BY DEF Init, Idle
<1> QED
  BY <1>3, <1>4 DEF TagInv, TagProven, TakenDown

\* Runs that work keep their commit and their version, whatever main gains.
LEMMA VersionStays ==
  ASSUME ReleaseInv, Next, NEW s \in Runs, run[s].pc # "idle"
  PROVE  Sha(s)' = Sha(s) /\ Ver(s)' = Ver(s)
<1> USE DEF ReleaseInv, CoreInv
<1>1. Sha(s) \in 1 .. Len(main) /\ main \in Seq(Commit) /\ run \in [Runs -> RunState]
  BY DEF OnMain, TypeOK
<1>2. CASE DirectPush
  <2>1. PICK r \in Runs, v \in Versions, c \in Corpora : Push(r, v, c)
    BY <1>2 DEF DirectPush
  <2>2. run'[s] = run[s]
    BY <1>1, <2>1 DEF Push, Start
  <2>3. main'[Sha(s)] = main[Sha(s)]
    BY <1>1, <2>1 DEF Push, Commit
  <2> QED
    BY <2>2, <2>3 DEF Sha, Ver
<1>3. CASE Pipeline
  <2>1. main' = main
    BY <1>3 DEF Pipeline, Step, Build, Gate, Sign, GuardBefore, CreateRefused,
         CreateRelease, GuardAfter, DeleteRelease, CleanupTag, Fault, Rerun,
         Dispatch, Promote, StrayTag, FixtureRelease
  <2>2. run'[s].sha = run[s].sha
    <3>1. ASSUME NEW r \in Runs, NEW l, Goto(r, l) PROVE run'[s].sha = run[s].sha
      BY <1>1, <3>1 DEF Goto, RunState
    <3>2. ASSUME NEW r \in Runs, GuardBefore(r) PROVE run'[s].sha = run[s].sha
      BY <1>1, <3>2 DEF GuardBefore, RunState
    <3>3. ASSUME NEW r \in Runs, Step(r) \/ Fault(r)
          PROVE  run'[s].sha = run[s].sha
      <4>1. CASE GuardBefore(r)
        BY <3>2, <4>1
      <4>2. CASE DeleteRelease(r)
        BY <1>1, <3>1, <4>2 DEF DeleteRelease, RunState
      <4>3. CASE \E l : Goto(r, l)
        BY <3>1, <4>3
      <4> QED
        BY <3>3, <4>1, <4>2, <4>3 DEF Step, Build, Gate, Sign, CreateRefused,
             CreateRelease, GuardAfter, CleanupTag, Fault
    <3>4. ASSUME NEW r \in Runs, Rerun(r) PROVE run'[s].sha = run[s].sha
      BY <1>1, <3>4 DEF Rerun, RunState
    <3>5. ASSUME NEW r \in Runs, NEW ch \in Channels, Dispatch(r, ch)
          PROVE  run'[s].sha = run[s].sha
      BY <1>1, <3>5 DEF Dispatch, Start
    <3> QED
      BY <1>3, <3>3, <3>4, <3>5 DEF Pipeline, Promote, StrayTag, FixtureRelease
  <2> QED
    BY <2>1, <2>2 DEF Sha, Ver
<1> QED
  BY <1>2, <1>3 DEF Next

\* The version a run that works is at is a version, and so is its commit.
LEMMA WorkingVersion ==
  ASSUME ReleaseInv, NEW s \in Runs, run[s].pc # "idle"
  PROVE  Sha(s) \in 1 .. Len(main) /\ Ver(s) \in Versions /\ Sha(s) # NoTag
BY VersionOfRun DEF ReleaseInv, NoTag

\* A run that took its release down remains one that did.
LEMMA ExcuseStays ==
  ASSUME ReleaseInv, Next, NEW r \in Runs, run[r].pc # "idle",
         \A s \in Runs : run[s].tookDown => run'[s].tookDown,
         \E s \in Runs \ {r} : run[s].tookDown /\ Ver(s) = Ver(r)
  PROVE  \E s \in Runs \ {r} : run'[s].tookDown /\ Ver(s)' = Ver(r)'
<1>1. PICK s \in Runs \ {r} : run[s].tookDown /\ Ver(s) = Ver(r)
  OBVIOUS
<1>2. run[s].pc # "idle"
  BY <1>1 DEF ReleaseInv, TagInv, TakenDown
<1>3. Ver(s)' = Ver(s) /\ Ver(r)' = Ver(r)
  BY <1>2, VersionStays
<1> QED
  BY <1>1, <1>3

\* A run moves on and the remote stays: what it may become is what the tag and
\* the strays say.
LEMMA TagQuietStep ==
  ASSUME ReleaseInv, Next, NEW r \in Runs, UNCHANGED <<remote, strays>>,
         \A s \in Runs \ {r} : run'[s] = run[s],
         run'[r].tookDown = run[r].tookDown,
         run'[r].pc \notin {"idle", "cleanup"},
         run'[r].pc = "published" =>
           run[r].pc # "idle" /\ tags[Ver(r)] = Sha(r),
         run'[r].pc = "delete" => run[r].pc # "idle" /\ Ver(r) \in strays
  PROVE  TagInv'
<1> USE DEF remote
<1>1. JobsTags'
  BY DEF ReleaseInv, TagInv, JobsTags, Published
<1>2. TakenDown'
  <2> SUFFICES ASSUME NEW s \in Runs
               PROVE  /\ run'[s].pc \in {"delete", "cleanup"} => Ver(s)' \in strays
                      /\ run'[s].pc = "cleanup" => run'[s].tookDown
                      /\ run'[s].tookDown =>
                           run'[s].pc # "idle" /\ Ver(s)' \in strays
    BY DEF TakenDown
  <2>1. run[s].pc # "idle" => Ver(s)' = Ver(s)
    BY VersionStays
  <2>2. /\ run[s].pc \in {"delete", "cleanup"} => Ver(s) \in strays
        /\ run[s].pc = "cleanup" => run[s].tookDown
        /\ run[s].tookDown => run[s].pc # "idle" /\ Ver(s) \in strays
    BY DEF ReleaseInv, TagInv, TakenDown
  <2> QED
    BY <2>1, <2>2, Zenon
<1>3. TagProven'
  <2> SUFFICES ASSUME NEW s \in Runs, run'[s].pc = "published"
               PROVE  \/ tags'[Ver(s)'] = Sha(s)'
                      \/ \E t \in Runs \ {s} :
                           run'[t].tookDown /\ Ver(t)' = Ver(s)'
    BY DEF TagProven
  <2>1. /\ run[s].pc # "idle"
        /\ \/ tags[Ver(s)] = Sha(s)
           \/ \E t \in Runs \ {s} : run[t].tookDown /\ Ver(t) = Ver(s)
    BY DEF ReleaseInv, TagInv, TagProven
  <2>2. Ver(s)' = Ver(s) /\ Sha(s)' = Sha(s) /\ tags' = tags
    BY <2>1, VersionStays
  <2>3. \A t \in Runs : run[t].tookDown => run'[t].tookDown
    OBVIOUS
  <2>4. CASE tags[Ver(s)] = Sha(s)
    BY <2>2, <2>4
  <2>5. CASE \E t \in Runs \ {s} : run[t].tookDown /\ Ver(t) = Ver(s)
    BY <2>1, <2>3, <2>5, ExcuseStays
  <2> QED
    BY <2>1, <2>4, <2>5
<1> QED
  BY <1>1, <1>2, <1>3 DEF TagInv

\* Runs that stay where they are, or move without touching what the tags are
\* judged by, keep what is said of them while strays may grow.
LEMMA TakenDownStays ==
  ASSUME ReleaseInv, Next, strays \subseteq strays',
         \A s \in Runs :
           /\ run'[s].tookDown = run[s].tookDown
           /\ run'[s].pc = run[s].pc \/ run'[s].pc \notin {"idle", "delete", "cleanup"}
  PROVE  TakenDown'
<1> SUFFICES ASSUME NEW s \in Runs
             PROVE  /\ run'[s].pc \in {"delete", "cleanup"} => Ver(s)' \in strays'
                    /\ run'[s].pc = "cleanup" => run'[s].tookDown
                    /\ run'[s].tookDown =>
                         run'[s].pc # "idle" /\ Ver(s)' \in strays'
  BY DEF TakenDown
<1>1. run[s].pc # "idle" => Ver(s)' = Ver(s)
  BY VersionStays
<1>2. /\ run[s].pc \in {"delete", "cleanup"} => Ver(s) \in strays
      /\ run[s].pc = "cleanup" => run[s].tookDown
      /\ run[s].tookDown => run[s].pc # "idle" /\ Ver(s) \in strays
  BY DEF ReleaseInv, TagInv, TakenDown
<1> QED
  BY <1>1, <1>2, Zenon

\* Published runs keep their tag or their excuse while no tag that is there is
\* moved or deleted and no run reports success.
LEMMA TagProvenStays ==
  ASSUME ReleaseInv, Next,
         \A v \in Versions : tags[v] # NoTag => tags'[v] = tags[v],
         \A s \in Runs :
           /\ run'[s].pc = "published" => run[s].pc = "published"
           /\ run[s].tookDown => run'[s].tookDown
  PROVE  TagProven'
<1> SUFFICES ASSUME NEW s \in Runs, run'[s].pc = "published"
             PROVE  \/ tags'[Ver(s)'] = Sha(s)'
                    \/ \E t \in Runs \ {s} :
                         run'[t].tookDown /\ Ver(t)' = Ver(s)'
  BY DEF TagProven
<1>1. run[s].pc = "published"
  OBVIOUS
<1>2. /\ Ver(s)' = Ver(s) /\ Sha(s)' = Sha(s)
      /\ Ver(s) \in Versions /\ Sha(s) # NoTag
  BY <1>1, VersionStays, WorkingVersion
<1>3. CASE tags[Ver(s)] = Sha(s)
  BY <1>2, <1>3
<1>4. CASE \E t \in Runs \ {s} : run[t].tookDown /\ Ver(t) = Ver(s)
  BY <1>1, <1>4, ExcuseStays
<1> QED
  BY <1>1, <1>3, <1>4 DEF ReleaseInv, TagInv, TagProven

\* The creation of a release: of a version without a stray tag, it makes the
\* tag as well.
LEMMA CreateKeepsTags ==
  ASSUME ReleaseInv, Next, NEW r \in Runs, CreateRelease(r)
  PROVE  TagInv'
<1>1. TypeOK /\ Sha(r) \in 1 .. Len(main) /\ Ver(r) \in Versions /\ Sha(r) # NoTag
  BY WorkingVersion DEF CreateRelease, ReleaseInv, CoreInv
<1>2. /\ run[r].pc = "create" /\ run' = [run EXCEPT ![r].pc = "proof"]
      /\ releases[Ver(r)] = NoRelease /\ strays' = strays
  BY DEF CreateRelease, Goto
<1>3. /\ run'[r].pc = "proof" /\ run'[r].tookDown = run[r].tookDown
      /\ \A s \in Runs \ {r} : run'[s] = run[s]
  BY <1>1, <1>2 DEF TypeOK, RunState
<1>4. /\ releases'[Ver(r)] \in Release /\ releases'[Ver(r)].src = Sha(r)
      /\ \A v \in Versions \ {Ver(r)} :
           releases'[v] = releases[v] /\ tags'[v] = tags[v]
      /\ tags'[Ver(r)] = IF tags[Ver(r)] = NoTag THEN Sha(r) ELSE tags[Ver(r)]
  <2>1. releases' = [releases EXCEPT ![Ver(r)] =
                       [src |-> Sha(r), pre |-> run[r].channel # "stable"]]
    BY DEF CreateRelease
  <2>2. [src |-> Sha(r), pre |-> run[r].channel # "stable"] \in Release
    BY <1>1 DEF Release, TypeOK
  <2>3. /\ tags'[Ver(r)] = IF tags[Ver(r)] = NoTag THEN Sha(r) ELSE tags[Ver(r)]
        /\ \A v \in Versions \ {Ver(r)} : tags'[v] = tags[v]
    BY <1>1 DEF CreateRelease, TypeOK
  <2> QED
    BY <1>1, <2>1, <2>2, <2>3 DEF TypeOK
<1>5. JobsTags'
  <2>1. ASSUME NEW v \in Versions \ strays
        PROVE  /\ tags'[v] = NoTag <=> releases'[v] = NoRelease
               /\ releases'[v] # NoRelease => releases'[v].src \in {0, tags'[v]}
    <3>1. /\ tags[v] = NoTag <=> releases[v] = NoRelease
          /\ releases[v] # NoRelease => releases[v].src \in {0, tags[v]}
      BY DEF ReleaseInv, TagInv, JobsTags, Published
    <3>2. CASE v = Ver(r)
      BY <1>1, <1>2, <1>4, <3>1, <3>2, NoReleaseAssumption
    <3>3. CASE v # Ver(r)
      BY <1>4, <3>1, <3>3
    <3> QED
      BY <3>2, <3>3
  <2> QED
    BY <1>2, <2>1 DEF JobsTags, Published
<1>6. TakenDown'
  BY <1>2, <1>3, TakenDownStays
<1>7. TagProven'
  <2>1. \A v \in Versions : tags[v] # NoTag => tags'[v] = tags[v]
    BY <1>4
  <2>2. \A s \in Runs : /\ run'[s].pc = "published" => run[s].pc = "published"
                        /\ run[s].tookDown => run'[s].tookDown
    BY <1>3
  <2> QED
    BY <2>1, <2>2, TagProvenStays
<1> QED
  BY <1>5, <1>6, <1>7 DEF TagInv

\* The first request of a deletion: the version has a stray tag.
LEMMA DeleteKeepsTags ==
  ASSUME ReleaseInv, Next, NEW r \in Runs, run[r].pc = "delete",
         UNCHANGED <<tags, strays>>,
         releases' = [releases EXCEPT ![Ver(r)] = NoRelease],
         run' = [run EXCEPT ![r].pc = "cleanup", ![r].tookDown = TRUE]
  PROVE  TagInv'
<1>1. TypeOK /\ Ver(r) \in Versions /\ Ver(r) \in strays /\ Ver(r)' = Ver(r)
  BY WorkingVersion, VersionStays DEF ReleaseInv, CoreInv, TagInv, TakenDown
<1>2. /\ run'[r].pc = "cleanup" /\ run'[r].tookDown
      /\ \A s \in Runs \ {r} : run'[s] = run[s]
  BY <1>1 DEF TypeOK, RunState
<1>3. \A v \in Versions \ {Ver(r)} : releases'[v] = releases[v]
  BY <1>1 DEF TypeOK
<1>4. JobsTags'
  BY <1>1, <1>3 DEF ReleaseInv, TagInv, JobsTags, Published
<1>5. TakenDown'
  <2> SUFFICES ASSUME NEW s \in Runs
               PROVE  /\ run'[s].pc \in {"delete", "cleanup"} => Ver(s)' \in strays
                      /\ run'[s].pc = "cleanup" => run'[s].tookDown
                      /\ run'[s].tookDown =>
                           run'[s].pc # "idle" /\ Ver(s)' \in strays
    BY DEF TakenDown
  <2>1. run[s].pc # "idle" => Ver(s)' = Ver(s)
    BY VersionStays
  <2>2. /\ run[s].pc \in {"delete", "cleanup"} => Ver(s) \in strays
        /\ run[s].pc = "cleanup" => run[s].tookDown
        /\ run[s].tookDown => run[s].pc # "idle" /\ Ver(s) \in strays
    BY DEF ReleaseInv, TagInv, TakenDown
  <2> QED
    BY <1>1, <1>2, <2>1, <2>2, Zenon
<1>6. TagProven'
  <2>1. \A s \in Runs : /\ run'[s].pc = "published" => run[s].pc = "published"
                        /\ run[s].tookDown => run'[s].tookDown
    BY <1>2, Zenon
  <2> QED
    BY <2>1, TagProvenStays
<1> QED
  BY <1>4, <1>5, <1>6 DEF TagInv

\* The second request: the tag goes, and whoever published on it has the run
\* that sent the request to blame.
LEMMA CleanupKeepsTags ==
  ASSUME ReleaseInv, Next, NEW r \in Runs, CleanupTag(r)
  PROVE  TagInv'
<1>1. /\ TypeOK /\ Ver(r) \in Versions /\ Ver(r) \in strays /\ Ver(r)' = Ver(r)
      /\ run[r].tookDown
  BY WorkingVersion, VersionStays
     DEF CleanupTag, ReleaseInv, CoreInv, TagInv, TakenDown
<1>2. /\ run[r].pc = "cleanup" /\ UNCHANGED <<releases, strays>>
      /\ run' = [run EXCEPT ![r].pc = "refused"]
  BY DEF CleanupTag, Goto
<1>3. /\ run'[r].pc = "refused" /\ run'[r].tookDown = run[r].tookDown
      /\ \A s \in Runs \ {r} : run'[s] = run[s]
  BY <1>1, <1>2 DEF TypeOK, RunState
<1>4. \A v \in Versions \ {Ver(r)} : tags'[v] = tags[v]
  BY <1>1 DEF CleanupTag, TypeOK
<1>5. JobsTags'
  BY <1>1, <1>2, <1>4 DEF ReleaseInv, TagInv, JobsTags, Published
<1>6. TakenDown'
  BY <1>2, <1>3, TakenDownStays
<1>7. TagProven'
  <2> SUFFICES ASSUME NEW s \in Runs, run'[s].pc = "published"
               PROVE  \/ tags'[Ver(s)'] = Sha(s)'
                      \/ \E t \in Runs \ {s} :
                           run'[t].tookDown /\ Ver(t)' = Ver(s)'
    BY DEF TagProven
  <2>1. s # r /\ run[s].pc = "published"
    BY <1>3
  <2>2. Ver(s)' = Ver(s) /\ Sha(s)' = Sha(s) /\ Ver(s) \in Versions
    BY <2>1, VersionStays, WorkingVersion
  <2>3. CASE Ver(s) = Ver(r)
    <3>1. r \in Runs \ {s} /\ run'[r].tookDown /\ Ver(r)' = Ver(s)'
      BY <1>1, <1>3, <2>1, <2>2, <2>3
    <3> QED
      BY <3>1
  <2>4. CASE Ver(s) # Ver(r)
    <3>1. tags'[Ver(s)] = tags[Ver(s)]
      BY <1>4, <2>2, <2>4
    <3>2. \A t \in Runs : run[t].tookDown => run'[t].tookDown
      BY <1>3
    <3>3. CASE tags[Ver(s)] = Sha(s)
      BY <2>2, <3>1, <3>3
    <3>4. CASE \E t \in Runs \ {s} : run[t].tookDown /\ Ver(t) = Ver(s)
      BY <2>1, <3>2, <3>4, ExcuseStays
    <3> QED
      BY <2>1, <3>3, <3>4 DEF ReleaseInv, TagInv, TagProven
  <2> QED
    BY <2>3, <2>4
<1> QED
  BY <1>5, <1>6, <1>7 DEF TagInv

\* Every step of the pipeline keeps what is said of the tags.
LEMMA TagNext == ReleaseInv /\ [Next]_vars => TagInv'
<1> SUFFICES ASSUME ReleaseInv, [Next]_vars PROVE TagInv'
  OBVIOUS
<1>0. CASE UNCHANGED vars
  <2>1. /\ UNCHANGED <<main, run, tags, releases, strays>>
        /\ Published' = Published
        /\ \A s \in Runs : Ver(s)' = Ver(s) /\ Sha(s)' = Sha(s)
    BY <1>0 DEF vars, Published, Ver, Sha
  <2> QED
    BY <2>1 DEF ReleaseInv, TagInv, TagProven, JobsTags, TakenDown
<1> SUFFICES ASSUME Next PROVE TagInv'
  BY <1>0
<1> USE DEF remote
<1>1. TypeOK
  BY DEF ReleaseInv, CoreInv
<1>2. \A r \in Runs : run[r].pc = "idle" => run[r].tookDown = FALSE
  BY <1>1 DEF ReleaseInv, TagInv, TakenDown, TypeOK, RunState
<1>3. ASSUME NEW r \in Runs, NEW event, NEW sha, NEW ch,
             Start(r, event, sha, ch), UNCHANGED <<remote, strays>>
      PROVE  TagInv'
  <2>1. /\ run[r].pc = "idle" /\ run'[r].pc = "build"
        /\ run'[r].tookDown = FALSE
        /\ \A s \in Runs \ {r} : run'[s] = run[s]
    BY <1>1, <1>3 DEF Start, TypeOK
  <2>2. run'[r].tookDown = run[r].tookDown
    BY <1>2, <2>1
  <2> QED
    BY <1>3, <2>1, <2>2, TagQuietStep
<1>4. ASSUME NEW r \in Runs, NEW l, Goto(r, l), UNCHANGED <<remote, strays>>,
             l \notin {"idle", "cleanup"}, run[r].pc # "idle",
             l = "published" => tags[Ver(r)] = Sha(r),
             l = "delete" => Ver(r) \in strays
      PROVE  TagInv'
  <2>1. /\ \A s \in Runs \ {r} : run'[s] = run[s]
        /\ run'[r].pc = l /\ run'[r].tookDown = run[r].tookDown
    BY <1>1, <1>4 DEF Goto, TypeOK, RunState
  <2> QED
    BY <1>4, <2>1, TagQuietStep
<1>5. ASSUME NEW r \in Runs, NEW v \in Versions, NEW c \in Corpora,
             Push(r, v, c)
      PROVE  TagInv'
  BY <1>3, <1>5 DEF Push
<1>6. ASSUME NEW r \in Runs, NEW ch \in Channels, Dispatch(r, ch)
      PROVE  TagInv'
  BY <1>3, <1>6 DEF Dispatch
<1>7. ASSUME NEW r \in Runs, Rerun(r) PROVE TagInv'
  <2>1. /\ \A s \in Runs \ {r} : run'[s] = run[s]
        /\ run'[r].pc = "build" /\ run'[r].tookDown = run[r].tookDown
        /\ UNCHANGED <<remote, strays>>
    BY <1>1, <1>7 DEF Rerun, TypeOK, RunState
  <2> QED
    BY <2>1, TagQuietStep
<1>8. ASSUME NEW r \in Runs, Build(r) PROVE TagInv'
  BY <1>4, <1>8 DEF Build
<1>9. ASSUME NEW r \in Runs, Gate(r) PROVE TagInv'
  <2>1. GateVerdict(r) \in {"sign", "nothing", "refused"}
    BY DEF GateVerdict
  <2> QED
    BY <1>4, <1>9, <2>1 DEF Gate
<1>10. ASSUME NEW r \in Runs, Sign(r) PROVE TagInv'
  BY <1>4, <1>10 DEF Sign
<1>11. ASSUME NEW r \in Runs, GuardBefore(r) PROVE TagInv'
  <2>1. PICK rc \in TargetGuard(Ver(r), Sha(r)) :
          run' = [run EXCEPT ![r].pc = AfterGuard(rc),
                             ![r].createdTag = (rc = 3)]
    BY <1>11 DEF GuardBefore
  <2>2. AfterGuard(rc) \in {"create", "refused", "broken"}
    BY DEF AfterGuard
  <2>3. /\ \A s \in Runs \ {r} : run'[s] = run[s]
        /\ run'[r].pc = AfterGuard(rc)
        /\ run'[r].tookDown = run[r].tookDown
    BY <1>1, <2>1 DEF TypeOK, RunState
  <2>4. UNCHANGED <<remote, strays>>
    BY <1>11 DEF GuardBefore
  <2> QED
    BY <2>2, <2>3, <2>4, TagQuietStep
<1>12. ASSUME NEW r \in Runs, CreateRefused(r) PROVE TagInv'
  BY <1>4, <1>12 DEF CreateRefused
<1>13. ASSUME NEW r \in Runs, CreateRelease(r) PROVE TagInv'
  BY <1>13, CreateKeepsTags
<1>14. ASSUME NEW r \in Runs, GuardAfter(r) PROVE TagInv'
  <2>1. PICK rc \in TargetGuard(Ver(r), Sha(r)) :
          Goto(r, IF MustDelete(r, rc) THEN "delete" ELSE AfterProof(rc))
    BY <1>14 DEF GuardAfter
  <2>2. run[r].pc = "proof" /\ UNCHANGED <<remote, strays>>
    BY <1>14 DEF GuardAfter
  <2>3. CASE MustDelete(r, rc)
    <3>1. tags[Ver(r)] # NoTag /\ tags[Ver(r)] # Sha(r)
      BY <2>3 DEF MustDelete, TargetGuard
    <3>2. /\ Ver(r) \in Published /\ releases[Ver(r)].src = Sha(r)
          /\ Ver(r) \in Versions /\ Sha(r) # NoTag
      BY <2>2, WorkingVersion DEF ReleaseInv, CoreInv, Owned, Owns
    <3>3. Ver(r) \in strays
      BY <3>1, <3>2 DEF ReleaseInv, TagInv, JobsTags, NoTag
    <3> QED
      BY <1>4, <2>1, <2>2, <2>3, <3>3
  <2>4. CASE ~MustDelete(r, rc)
    <3>1. /\ AfterProof(rc) \in {"published", "broken", "refused"}
          /\ AfterProof(rc) = "published" => rc = 0
      BY DEF AfterProof
    <3>2. rc = 0 => tags[Ver(r)] = Sha(r)
      BY DEF TargetGuard
    <3>3. Goto(r, AfterProof(rc))
      BY <2>1, <2>4
    <3> QED
      BY <1>4, <2>2, <3>1, <3>2, <3>3
  <2> QED
    BY <2>3, <2>4
<1>15. ASSUME NEW r \in Runs, DeleteRelease(r) PROVE TagInv'
  <2>1. CASE Goto(r, "refused") /\ UNCHANGED releases
    BY <1>4, <1>15, <2>1 DEF DeleteRelease
  <2>2. CASE /\ releases' = [releases EXCEPT ![Ver(r)] = NoRelease]
             /\ run' = [run EXCEPT ![r].pc = "cleanup", ![r].tookDown = TRUE]
    BY <1>15, <2>2, DeleteKeepsTags DEF DeleteRelease
  <2> QED
    BY <1>15, <2>1, <2>2 DEF DeleteRelease
<1>16. ASSUME NEW r \in Runs, CleanupTag(r) PROVE TagInv'
  BY <1>16, CleanupKeepsTags
<1>17. ASSUME NEW r \in Runs, Fault(r) PROVE TagInv'
  BY <1>4, <1>17 DEF Fault, Working
<1>18. ASSUME NEW v \in Versions, run' = run, strays \subseteq strays',
              \A w \in Versions : tags[w] # NoTag => tags'[w] = tags[w],
              JobsTags'
       PROVE  TagInv'
  <2>1. TakenDown'
    BY <1>18, TakenDownStays
  <2>2. TagProven'
    BY <1>18, TagProvenStays
  <2> QED
    BY <1>18, <2>1, <2>2 DEF TagInv
<1>19. ASSUME NEW v \in Versions, Promote(v) PROVE TagInv'
  <2>1. releases[v] \in Release /\ UNCHANGED <<run, tags, strays>>
    BY <1>1, <1>19 DEF Promote, Published, TypeOK
  <2>2. /\ releases'[v] \in Release /\ releases'[v].src = releases[v].src
        /\ \A w \in Versions \ {v} : releases'[w] = releases[w]
    BY <1>1, <1>19, <2>1 DEF Promote, TypeOK, Release
  <2>3. JobsTags'
    BY <2>1, <2>2, NoReleaseAssumption
       DEF ReleaseInv, TagInv, JobsTags, Published
  <2> QED
    BY <1>18, <2>1, <2>3
<1>20. ASSUME NEW v \in Versions, StrayTag(v) PROVE TagInv'
  <2>1. /\ tags[v] = NoTag /\ strays' = strays \cup {v}
        /\ UNCHANGED <<run, releases>>
        /\ \A w \in Versions \ {v} : tags'[w] = tags[w]
    BY <1>1, <1>20 DEF StrayTag, TypeOK
  <2>2. JobsTags'
    BY <2>1 DEF ReleaseInv, TagInv, JobsTags, Published
  <2> QED
    BY <1>18, <2>1, <2>2
<1>21. ASSUME NEW v \in Versions, FixtureRelease(v) PROVE TagInv'
  <2>1. PICK pre \in BOOLEAN :
          releases' = [releases EXCEPT ![v] = [src |-> 0, pre |-> pre]]
    BY <1>21 DEF FixtureRelease
  <2>2. [src |-> 0, pre |-> pre] \in Release
    BY DEF Release
  <2>3. /\ tags[v] = NoTag /\ UNCHANGED <<run, strays>>
        /\ releases'[v] # NoRelease /\ releases'[v].src = 0
        /\ tags'[v] = Len(main) /\ Len(main) >= 1
        /\ \A w \in Versions \ {v} :
             releases'[w] = releases[w] /\ tags'[w] = tags[w]
    BY <1>1, <1>21, <2>1, <2>2, NoReleaseAssumption DEF FixtureRelease, TypeOK
  <2>4. JobsTags'
    BY <2>3 DEF ReleaseInv, TagInv, JobsTags, Published, NoTag
  <2> QED
    BY <1>18, <2>3, <2>4
<1> QED
  BY <1>5, <1>6, <1>7, <1>8, <1>9, <1>10, <1>11, <1>12, <1>13, <1>14,
     <1>15, <1>16, <1>17, <1>19, <1>20, <1>21
     DEF Next, DirectPush, Pipeline, Step

\* The invariant holds at first, and every step keeps it.
LEMMA InvInit == Init => ReleaseInv
BY CoreInit, TagInit DEF ReleaseInv

LEMMA InvNext == ReleaseInv /\ [Next]_vars => ReleaseInv'
BY CoreNext, TagNext DEF ReleaseInv

\* So it holds in every reachable state.
LEMMA InvHolds == Spec => []ReleaseInv
BY InvInit, InvNext, PTL DEF Spec

-----------------------------------------------------------------------------
(* What it gives.                                                          *)

\* A green publish keeps its release, the bundle of the built commit, whatever
\* ran beside it; its tag names that commit, unless another run of the same
\* VERSION took a release of its own down and the tag with it.
THEOREM PublishedProven == Spec => []PublishedIsProven
<1>1. ASSUME ReleaseInv, NEW r \in Runs, run[r].pc = "published"
      PROVE  /\ releases[Ver(r)] # NoRelease /\ releases[Ver(r)].src = Sha(r)
             /\ \/ tags[Ver(r)] = Sha(r)
                \/ \E s \in Runs \ {r} : run[s].tookDown /\ Ver(s) = Ver(r)
  <2>1. releases[Ver(r)] # NoRelease /\ releases[Ver(r)].src = Sha(r)
    BY <1>1 DEF ReleaseInv, CoreInv, Owned, Owns, Published
  <2>2. \/ tags[Ver(r)] = Sha(r)
        \/ \E s \in Runs \ {r} : run[s].tookDown /\ Ver(s) = Ver(r)
    BY <1>1 DEF ReleaseInv, TagInv, TagProven
  <2> QED
    BY <2>1, <2>2
<1>2. ReleaseInv => PublishedIsProven
  BY <1>1 DEF PublishedIsProven
<1> QED
  BY <1>2, InvHolds, PTL

\* No two runs report the publication of one version.
THEOREM OnePublisherProven == Spec => []OnePublisher
<1>1. ReleaseInv => OnePublisher
  BY DEF ReleaseInv, CoreInv, Owned, Owns, OnePublisher
<1> QED
  BY <1>1, InvHolds, PTL

\* Every corpus main ever held is released, or a run of the push that brought
\* it is working or red: no green run hides an unpublished corpus.
THEOREM NoSilentLossProven == Spec => []NoSilentLoss
<1>1. ASSUME ReleaseInv, NEW i \in 1 .. Len(main)
      PROVE  \/ \E v \in Versions : Holds(v, main[i].corpus)
             \/ \E r \in Runs :
                  /\ run[r].pc \in Working \cup Red
                  /\ run[r].event = "push"
                  /\ main[Sha(r)].corpus = main[i].corpus
  <2>1. PICK j \in 1 .. i : /\ main[j].corpus = main[i].corpus
                            /\ j = 1 \/ main[j].corpus # main[j - 1].corpus
    BY <1>1 DEF ReleaseInv, CoreInv, EveryCorpusBrought
  <2>2. CASE j = 1
    <3>1. 1 \in Versions /\ 1 \in Published /\ releases[1].src = 1
      BY <1>1 DEF ReleaseInv, CoreInv, FirstKept, Published
    <3> QED
      BY <2>1, <2>2, <3>1 DEF Holds
  <2>3. CASE j # 1
    <3>1. j \in 2 .. Len(main)
      BY <1>1, <2>3 DEF ReleaseInv, CoreInv, TypeOK
    <3>2. PICK r \in Runs : /\ run[r].pc # "idle" /\ run[r].event = "push"
                            /\ Sha(r) = j
      BY <1>1, <3>1 DEF ReleaseInv, CoreInv, EveryPushRuns
    <3>3. run[r].pc \in Working \cup Green \cup Red
      BY <1>1, <3>2 DEF ReleaseInv, CoreInv, TypeOK, RunState
    <3>4. CASE run[r].pc \in Working \cup Red
      BY <2>1, <3>2, <3>4
    <3>5. CASE run[r].pc = "published"
      <4>1. Ver(r) \in Published /\ releases[Ver(r)].src = j
        BY <1>1, <3>2, <3>5 DEF ReleaseInv, CoreInv, Owned, Owns
      <4> QED
        BY <2>1, <3>1, <4>1 DEF Holds, Published
    <3>6. CASE run[r].pc = "nothing"
      <4>1. main[j] = main[j - 1]
        BY <1>1, <3>2, <3>6 DEF ReleaseInv, CoreInv, NothingIsSame, DiffQuiet
      <4> QED
        BY <2>1, <2>3, <4>1
    <3> QED
      BY <3>3, <3>4, <3>5, <3>6 DEF Green
  <2> QED
    BY <2>2, <2>3
<1>2. ReleaseInv => NoSilentLoss
  BY <1>1 DEF NoSilentLoss
<1> QED
  BY <1>2, InvHolds, PTL

\* A release is taken down only by the run that created it, of a version with
\* a stray tag, and never one some run has reported; a tag is deleted only by
\* a run that took its own release of that version down, and never moved.
THEOREM DeletesOnlyItsOwnProven == Spec => DeletesOnlyItsOwn
<1> DEFINE Kept(v) == v \in Published /\ releases'[v] = NoRelease =>
             /\ v \in strays
             /\ \A s \in Runs : run[s].pc = "published" => Ver(s) # v
             /\ \E r \in Runs :
                  /\ run[r].pc = "delete" /\ run'[r].pc = "cleanup"
                  /\ Ver(r) = v /\ releases[v].src = Sha(r)
           TagKept(v) == tags[v] # NoTag /\ tags'[v] # tags[v] =>
             /\ tags'[v] = NoTag
             /\ \E r \in Runs :
                  /\ run[r].pc = "cleanup" /\ run'[r].pc = "refused"
                  /\ run[r].tookDown /\ Ver(r) = v
           Promise == \A v \in Versions : Kept(v) /\ TagKept(v)
<1>1. ReleaseInv /\ [Next]_vars => [Promise]_vars
  <2> SUFFICES ASSUME ReleaseInv, Next, NEW v \in Versions
               PROVE  Kept(v) /\ TagKept(v)
    OBVIOUS
  <2>0. TypeOK
    BY DEF ReleaseInv, CoreInv
  <2>1. CASE UNCHANGED remote
    BY <2>1 DEF remote, Published
  <2>2. ASSUME NEW r \in Runs, CreateRelease(r) PROVE Kept(v) /\ TagKept(v)
    <3>1. v \in Published => releases'[v] = releases[v]
      BY <2>0, <2>2 DEF TypeOK, CreateRelease, Published
    <3>2. tags[v] # NoTag => tags'[v] = tags[v]
      BY <2>0, <2>2 DEF TypeOK, CreateRelease
    <3> QED
      BY <3>1, <3>2 DEF Published
  <2>3. ASSUME NEW r \in Runs, DeleteRelease(r) PROVE Kept(v) /\ TagKept(v)
    <3>1. CASE v # Ver(r) \/ UNCHANGED releases
      BY <2>0, <2>3, <3>1 DEF DeleteRelease, TypeOK, Published
    <3>2. CASE /\ v = Ver(r)
               /\ run' = [run EXCEPT ![r].pc = "cleanup", ![r].tookDown = TRUE]
      <4>1. run[r].pc = "delete" /\ run'[r].pc = "cleanup" /\ tags' = tags
        BY <2>0, <2>3, <3>2 DEF DeleteRelease, TypeOK, RunState
      <4>2. v \in strays
        BY <3>2, <4>1 DEF ReleaseInv, TagInv, TakenDown
      <4>3. /\ releases[v].src = Sha(r)
            /\ \A s \in Runs : run[s].pc = "published" => Ver(s) # v
        BY <3>2, <4>1 DEF ReleaseInv, CoreInv, Owned, Owns
      <4> QED
        BY <3>2, <4>1, <4>2, <4>3
    <3> QED
      BY <2>3, <3>1, <3>2 DEF DeleteRelease
  <2>4. ASSUME NEW r \in Runs, CleanupTag(r) PROVE Kept(v) /\ TagKept(v)
    <3>1. /\ run[r].pc = "cleanup" /\ run'[r].pc = "refused"
          /\ run[r].tookDown /\ releases' = releases
      BY <2>0, <2>4 DEF CleanupTag, Goto, TypeOK, RunState, ReleaseInv, TagInv,
                        TakenDown
    <3>2. \/ tags'[v] = tags[v]
          \/ v = Ver(r) /\ tags'[v] = NoTag
      BY <2>0, <2>4 DEF CleanupTag, TypeOK
    <3> QED
      BY <3>1, <3>2 DEF Published
  <2>5. ASSUME NEW w \in Versions, Promote(w) PROVE Kept(v) /\ TagKept(v)
    <3>1. releases[w] \in Release /\ tags' = tags
      BY <2>0, <2>5 DEF Promote, Published, TypeOK
    <3>2. releases'[w] \in Release /\ (v # w => releases'[v] = releases[v])
      BY <2>0, <2>5, <3>1 DEF Promote, TypeOK, Release
    <3> QED
      BY <3>1, <3>2, NoReleaseAssumption DEF Published
  <2>6. ASSUME NEW w \in Versions, StrayTag(w) PROVE Kept(v) /\ TagKept(v)
    <3>1. releases' = releases /\ (tags[v] # NoTag => tags'[v] = tags[v])
      BY <2>0, <2>6 DEF StrayTag, TypeOK
    <3> QED
      BY <3>1 DEF Published
  <2>7. ASSUME NEW w \in Versions, FixtureRelease(w) PROVE Kept(v) /\ TagKept(v)
    <3>1. /\ v \in Published => releases'[v] = releases[v]
          /\ tags[v] # NoTag => tags'[v] = tags[v]
      BY <2>0, <2>7 DEF FixtureRelease, TypeOK, Published
    <3> QED
      BY <3>1 DEF Published
  <2>8. \/ UNCHANGED remote
        \/ \E r \in Runs : CreateRelease(r) \/ DeleteRelease(r) \/ CleanupTag(r)
        \/ \E w \in Versions : Promote(w) \/ StrayTag(w) \/ FixtureRelease(w)
    BY DEF Next, DirectPush, Pipeline, Step, Push, Dispatch, Rerun, Build,
           Gate, Sign, GuardBefore, CreateRefused, GuardAfter, Fault
  <2> QED
    BY <2>1, <2>2, <2>3, <2>4, <2>5, <2>6, <2>7, <2>8
<1>2. Promise <=>
        \A v \in Versions :
          /\ v \in Published /\ releases'[v] = NoRelease =>
               /\ v \in strays
               /\ \A s \in Runs : run[s].pc = "published" => Ver(s) # v
               /\ \E r \in Runs :
                    /\ run[r].pc = "delete" /\ run'[r].pc = "cleanup"
                    /\ Ver(r) = v /\ releases[v].src = Sha(r)
          /\ tags[v] # NoTag /\ tags'[v] # tags[v] =>
               /\ tags'[v] = NoTag
               /\ \E r \in Runs :
                    /\ run[r].pc = "cleanup" /\ run'[r].pc = "refused"
                    /\ run[r].tookDown /\ Ver(r) = v
  OBVIOUS
<1> HIDE DEF Promise
<1> QED
  BY <1>1, <1>2, InvHolds, PTL DEF Spec, DeletesOnlyItsOwn

-----------------------------------------------------------------------------
(* Where nothing but the job pushes catalog-vN tags.                       *)

\* Then a version has its tag exactly when it has its release (JobsTags).
NoStrays == strays = {}

\* All a step does to the releases: nothing, a new one, or a promotion.
FeedStep ==
  \/ UNCHANGED releases
  \/ \E v \in Versions \ Published, rel \in Release :
       /\ rel.src \in 0 .. Len(main)
       /\ releases' = [releases EXCEPT ![v] = rel]
  \/ \E v \in Published : releases' = [releases EXCEPT ![v].pre = FALSE]

\* No release changes its source or goes away.
LEMMA BundlesStay ==
  ASSUME MaxStrays = 0, ReleaseInv, NoStrays, [Next]_vars
  PROVE  NoStrays' /\ FeedStep
<1> USE DEF ReleaseInv, CoreInv, remote, NoStrays
<1>1. CASE UNCHANGED <<releases, strays>>
  BY <1>1 DEF FeedStep
<1>2. ASSUME NEW r \in Runs, CreateRelease(r) PROVE NoStrays' /\ FeedStep
  <2> DEFINE rel == [src |-> Sha(r), pre |-> run[r].channel # "stable"]
  <2>1. Sha(r) \in 1 .. Len(main) /\ Ver(r) \in Versions
    BY <1>2, VersionOfRun DEF CreateRelease
  <2>2. rel \in Release /\ rel # NoRelease /\ rel.src \in 0 .. Len(main)
    <3>1. Sha(r) \in Nat /\ (run[r].channel # "stable") \in BOOLEAN
      BY <2>1
    <3>2. rel \in Release /\ rel.src = Sha(r)
      BY <3>1 DEF Release
    <3> QED
      BY <2>1, <3>2, NoReleaseAssumption DEF TypeOK
  <2>3. /\ releases[Ver(r)] = NoRelease /\ strays' = strays
        /\ releases' = [releases EXCEPT ![Ver(r)] = rel]
    BY <1>2, <2>1 DEF CreateRelease, TypeOK
  <2>4. Ver(r) \in Versions \ Published
    BY <2>1, <2>3 DEF Published
  <2> QED
    BY <2>2, <2>3, <2>4 DEF FeedStep
<1>3. ASSUME NEW r \in Runs, DeleteRelease(r) PROVE FALSE
  BY <1>3 DEF DeleteRelease, TagInv, TakenDown
<1>4. ASSUME NEW v \in Versions, Promote(v) PROVE NoStrays' /\ FeedStep
  <2>1. /\ v \in Published /\ releases[v] \in Release
        /\ releases' = [releases EXCEPT ![v].pre = FALSE]
        /\ UNCHANGED strays
    BY <1>4 DEF Promote, Published, TypeOK
  <2> QED
    BY <2>1 DEF FeedStep
<1>5. ASSUME NEW v \in Versions, StrayTag(v) PROVE FALSE
  BY <1>5, FS_EmptySet DEF StrayTag
<1>6. ASSUME NEW v \in Versions, FixtureRelease(v)
      PROVE  NoStrays' /\ FeedStep
  <2>1. PICK pre \in BOOLEAN :
          releases' = [releases EXCEPT ![v] = [src |-> 0, pre |-> pre]]
    BY <1>6 DEF FixtureRelease
  <2> DEFINE rel == [src |-> 0, pre |-> pre]
  <2>2. rel \in Release /\ rel # NoRelease /\ rel.src \in 0 .. Len(main)
    BY NoReleaseAssumption DEF Release, TypeOK
  <2>3. v \in Versions \ Published /\ strays' = strays
    BY <1>6, <2>1, <2>2 DEF FixtureRelease, Published
  <2> QED
    BY <2>1, <2>2, <2>3 DEF FeedStep
<1>7. \/ UNCHANGED <<releases, strays>>
      \/ \E r \in Runs : CreateRelease(r) \/ DeleteRelease(r)
      \/ \E v \in Versions : Promote(v) \/ StrayTag(v) \/ FixtureRelease(v)
  BY DEF vars, Next, DirectPush, Pipeline, Step, Push, Dispatch, Rerun, Build,
         Gate, Sign, GuardBefore, CreateRefused, GuardAfter, CleanupTag, Fault
<1> QED
  BY <1>1, <1>2, <1>3, <1>4, <1>5, <1>6, <1>7

=============================================================================

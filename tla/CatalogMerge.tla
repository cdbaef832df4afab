---------------------------- MODULE CatalogMerge ----------------------------
(***************************************************************************)
(* The way a change reaches main: pull requests and the `version` job of   *)
(* .github/workflows/lint.yml, the early copy of the release gate, composed *)
(* with the release pipeline that every merge starts.                      *)
(*                                                                         *)
(* A pull request is abstracted to the commit it branched from, the number *)
(* in its VERSION and whether it touches tiles/.  A check that passed stays *)
(* green until the branch is pushed again, while main and the releases move *)
(* on under it.                                                            *)
(***************************************************************************)
EXTENDS CatalogRelease

CONSTANTS
  PRs,           \* identities of pull requests
  StrictChecks,  \* branch protection asks for a branch up to date with main
  Disciplined    \* nobody pushes to main directly, nor changes VERSION in a
                 \* pull request that leaves tiles/ alone

ASSUME SettingsAssumption == {StrictChecks, Disciplined} \subseteq BOOLEAN

VARIABLE pr  \* the state of each pull request

mergeVars == <<main, run, tags, releases, reruns, strays, pr>>

\* base: the main commit it contains, once merged its own; at, lookup, seen:
\* main's length at the last check, whether that check could read the release
\* list, and the list.
PR == [st : {"none", "open", "merged"}, base : Nat, version : Versions,
       tiles : BOOLEAN, check : {"none", "green", "red"},
       at : Nat, lookup : BOOLEAN, seen : SUBSET Versions]

MergeTypeOK == TypeOK /\ pr \in [PRs -> PR]

NoPR == [st |-> "none", base |-> 1, version |-> 1, tiles |-> FALSE,
         check |-> "none", at |-> 0, lookup |-> FALSE, seen |-> {}]

MergeInit == Init /\ pr = [p \in PRs |-> NoPR]

-----------------------------------------------------------------------------
Tip == main[Len(main)]

\* What VERSION reads in the merge of p with main: git merges the one-line
\* file three ways and gives up when both sides changed it differently.
BaseVersion(p) == main[pr[p].base].version

Mergeable(p) ==
  \/ BaseVersion(p) \in {pr[p].version, Tip.version}
  \/ pr[p].version = Tip.version

MergedVersion(p) ==
  IF pr[p].version = BaseVersion(p) THEN Tip.version ELSE pr[p].version

\* A branch pushed with this VERSION on top of today's main.
Branch(p, v, tiles) ==
  /\ Disciplined /\ ~tiles => v = Tip.version
  /\ pr' = [pr EXCEPT ![p] = [NoPR EXCEPT !.st = "open", !.base = Len(main),
                                          !.version = v, !.tiles = tiles]]
  /\ UNCHANGED vars

OpenPR(p, v, tiles) == pr[p].st = "none" /\ Branch(p, v, tiles)

\* main was merged into the branch, or VERSION bumped again: checks start over.
UpdateBranch(p, v) ==
  /\ pr[p].st = "open"
  /\ pr[p].base # Len(main) \/ pr[p].check = "red"
  /\ Branch(p, v, pr[p].tiles)

\* Mutant: the base branch only.
VersionJobBaseOnly(tiles, have, lookup) == tiles => have > Tip.version

\* Mutant: off by one.
VersionJobNotBelow(tiles, have, lookup) ==
  tiles => have >= Tip.version /\ (lookup => AboveLatest(have))

\* "a corpus change must bump VERSION": passes a change that leaves tiles/
\* alone; otherwise the merged VERSION must exceed the base branch's and, if
\* the release list could be read, every published one.
VersionJob(tiles, have, lookup) ==
  tiles => have > Tip.version /\ (lookup => AboveLatest(have))

\* What the check shows on the pull request.
Conclusion(p, lookup) ==
  IF VersionJob(pr[p].tiles, MergedVersion(p), lookup) THEN "green" ELSE "red"

Checked(p, lookup) ==
  [pr[p] EXCEPT !.check = Conclusion(p, lookup), !.at = Len(main),
                !.lookup = lookup, !.seen = Published]

\* The job runs on the merge of the branch with today's main, which exists
\* only when the two merge.
Check(p) ==
  /\ pr[p].st = "open" /\ pr[p].check = "none" /\ Mergeable(p)
  /\ \E lookup \in BOOLEAN :
       pr' = [pr EXCEPT ![p] = Checked(p, lookup)]
  /\ UNCHANGED vars

\* The merge button, or Renovate's automerge: the required check is green.
\* The change to tiles/ lands on what main holds by now.
Merge(p, r) ==
  /\ pr[p].st = "open" /\ pr[p].check = "green" /\ Mergeable(p)
  /\ StrictChecks => pr[p].base = Len(main)
  /\ \E c \in IF pr[p].tiles THEN Corpora ELSE {Tip.corpus} :
       Push(r, MergedVersion(p), c)
  /\ pr' = [pr EXCEPT ![p] =
               [@ EXCEPT !.st = "merged", !.base = Len(main) + 1]]

MergeNext ==
  \/ \E p \in PRs, v \in Versions :
       UpdateBranch(p, v) \/ \E tiles \in BOOLEAN : OpenPR(p, v, tiles)
  \/ \E p \in PRs : Check(p) \/ \E r \in Runs : Merge(p, r)
  \/ ~Disciplined /\ DirectPush /\ UNCHANGED pr
  \/ Pipeline /\ UNCHANGED pr

MergeSafety == MergeInit /\ [][MergeNext]_mergeVars

\* A runner is found for every run and its steps are carried out.
MergeSpec ==
  MergeSafety /\ \A r \in Runs : WF_mergeVars(Step(r) /\ UNCHANGED pr)

-----------------------------------------------------------------------------
\* r is the run of a merge whose tiles/ change passed a check that could read
\* the releases, main not having moved between that check and the merge.
FreshRun(p, r) ==
  /\ pr[p].st = "merged" /\ pr[p].tiles /\ pr[p].lookup
  /\ run[r].event = "push" /\ Sha(r) = pr[p].base /\ pr[p].base = pr[p].at + 1

\* The early copy of the gate is faithful to the gate ("so the failure lands
\* on the PR that can still fix it"): when a bump passed the check on the main
\* it was merged into and the check could read the releases, its run is
\* refused only if a version at or above its own was released since.
EarlyGateAgrees ==
  \A p \in PRs, r \in Runs :
    FreshRun(p, r) /\ run[r].pc = "refused" =>
      \E w \in Published \ pr[p].seen : w >= Ver(r)

\* "the `version` job in lint.yml refuses a corpus change that does not bump
\* VERSION": on main no tiles/ change leaves VERSION where it was.  Holds when
\* branches must be up to date.
CorpusChangeBumps ==
  \A i \in 2 .. Len(main) :
    main[i].corpus # main[i - 1].corpus =>
      main[i].version > main[i - 1].version

\* "apps arrive without a firmware upgrade": what was merged, or a later state
\* of it, is eventually in a release, unless some run could not be carried
\* out.  No interleaving of the runs of several merges loses it.
MergedIsReleased ==
  \A i \in 1 .. MaxCommits :
    Len(main) >= i ~>
      \/ \E v \in Versions, j \in i .. Len(main) : Holds(v, main[j].corpus)
      \/ \E r \in Runs : run[r].pc = "broken"

=============================================================================

----------------------- MODULE CatalogComposedProofs ------------------------
(***************************************************************************)
(* Proofs about what the release pipeline is composed with: the clusters   *)
(* that poll the feed (CatalogFleet), for any number of runs, commits,     *)
(* versions and clusters, where nothing but the job pushes catalog-vN      *)
(* tags; and the way of a change to main (CatalogMerge), for any number of *)
(* pull requests too.                                                      *)
(***************************************************************************)
EXTENDS CatalogFleet, CatalogMerge, CatalogReleaseProofs

-----------------------------------------------------------------------------
(* The fleet.                                                              *)

\* A cluster holds nothing, or the bundle published under the version.
HeldIsPublished ==
  \A c \in Clusters :
    \/ held[c] = [version |-> 0, src |-> 0]
    \/ /\ held[c].version \in Published
       /\ held[c] = [version |-> held[c].version,
                     src |-> releases[held[c].version].src]

FleetInv == /\ ReleaseInv /\ NoStrays /\ HeldIsPublished
            /\ held = [c \in Clusters |-> held[c]]

\* The fleet starts that way, and as a feed does.
LEMMA FleetInvInit == FleetInit => FleetInv /\ Feed!FeedInit
BY InvInit
   DEF NoStrays, FleetInit, FleetInv, HeldIsPublished, Init, Feed!FeedInit, Versions

\* A step of the pipeline is, for the clusters, a publication, a promotion or
\* nothing.
LEMMA PipelineIsFeed ==
  ASSUME MaxStrays = 0, FleetInv, [Next]_vars, UNCHANGED held
  PROVE  FleetInv' /\ [Feed!FeedNext]_(Feed!feedVars)
<1>1. ReleaseInv' /\ NoStrays' /\ FeedStep /\ TypeOK
  BY InvNext, BundlesStay DEF FleetInv, ReleaseInv, CoreInv
<1>2. CASE UNCHANGED releases
  BY <1>1, <1>2 DEF FleetInv, HeldIsPublished, Published, Feed!feedVars
<1>3. ASSUME NEW v \in Versions \ Published, NEW rel \in Release,
             rel.src \in 0 .. Len(main),
             releases' = [releases EXCEPT ![v] = rel]
      PROVE  FleetInv' /\ [Feed!FeedNext]_(Feed!feedVars)
  <2>1. releases[v] = NoRelease
    BY <1>3 DEF Published
  <2>2. \A w \in Published : releases'[w] = releases[w] /\ w \in Published'
    BY <1>1, <1>3 DEF TypeOK, Published
  <2>3. HeldIsPublished'
    BY <2>2 DEF FleetInv, HeldIsPublished
  <2>4. Len(main) \in 1 .. MaxCommits /\ MaxCommits \in Nat
    BY <1>1, BoundsAssumption DEF TypeOK
  <2>5. rel \in Feed!FeedRelease
    BY <1>3, <2>4 DEF Release, Feed!FeedRelease
  <2>6. Feed!Publish(v)
    BY <1>3, <2>1, <2>5 DEF Feed!Publish
  <2> QED
    BY <1>1, <2>3, <2>6 DEF FleetInv, Feed!FeedNext, Versions
<1>4. ASSUME NEW v \in Published,
             releases' = [releases EXCEPT ![v].pre = FALSE]
      PROVE  FleetInv' /\ [Feed!FeedNext]_(Feed!feedVars)
  <2>1. v \in Versions /\ releases[v] # NoRelease /\ releases[v] \in Release
    BY <1>1 DEF Published, TypeOK
  <2>2. releases'[v] \in Release /\ releases'[v].src = releases[v].src
        /\ \A w \in Versions \ {v} : releases'[w] = releases[w]
    BY <1>1, <1>4, <2>1 DEF TypeOK, Release
  <2>3. \A w \in Published :
          releases'[w].src = releases[w].src /\ w \in Published'
    BY <2>1, <2>2, NoReleaseAssumption DEF Published
  <2>4. HeldIsPublished'
    BY <2>3 DEF FleetInv, HeldIsPublished
  <2>5. Feed!PromoteInFeed(v)
    BY <1>4, <2>1 DEF Feed!PromoteInFeed
  <2> QED
    BY <1>1, <2>1, <2>4, <2>5 DEF FleetInv, Feed!FeedNext, Versions
<1> QED
  BY <1>1, <1>2, <1>3, <1>4 DEF FeedStep

\* A poll is the feed's own step.
LEMMA FetchIsFeed ==
  ASSUME FleetInv, NEW c \in Clusters, Fetch(c)
  PROVE  FleetInv' /\ [Feed!FeedNext]_(Feed!feedVars)
<1>1. PICK v \in Feed!Eligible(c) :
        /\ held' = [held EXCEPT ![c] =
                       [version |-> v, src |-> releases[v].src]]
        /\ UNCHANGED releases
  BY DEF Fetch, Feed!Adopt
<1>2. v \in Published
  BY DEF Feed!Eligible, Feed!InFeed, Published, Versions
<1>3. UNCHANGED <<main, run, tags, releases, reruns, strays>>
  BY <1>1 DEF Fetch
<1>4. ReleaseInv' /\ NoStrays'
  <2>1. [Next]_vars
    BY <1>3 DEF vars
  <2>2. NoStrays'
    BY <1>3 DEF FleetInv, NoStrays
  <2> QED
    BY <2>1, <2>2, InvNext DEF FleetInv
<1>5. /\ held'[c] = [version |-> v, src |-> releases[v].src]
      /\ \A d \in Clusters \ {c} : held'[d] = held[d]
      /\ held' = [d \in Clusters |-> held'[d]]
  BY <1>1 DEF FleetInv
<1>6. HeldIsPublished'
  BY <1>2, <1>3, <1>5 DEF FleetInv, HeldIsPublished, Published
<1> QED
  BY <1>4, <1>5, <1>6 DEF Fetch, FleetInv, Feed!FeedNext

\* Every step of the two together is one of the feed's, or a stutter.
LEMMA FleetStep ==
  ASSUME MaxStrays = 0, FleetInv, [FleetNext]_fleetVars
  PROVE  FleetInv' /\ [Feed!FeedNext]_(Feed!feedVars)
<1>1. CASE Next /\ UNCHANGED held
  BY <1>1, PipelineIsFeed
<1>2. ASSUME NEW c \in Clusters, Fetch(c)
      PROVE  FleetInv' /\ [Feed!FeedNext]_(Feed!feedVars)
  BY <1>2, FetchIsFeed
<1>3. CASE UNCHANGED fleetVars
  BY <1>3, PipelineIsFeed DEF fleetVars, vars
<1> QED
  BY <1>1, <1>2, <1>3 DEF FleetNext

\* No run, however it interleaves with others, fails or is rerun, replaces or
\* takes back a bundle a cluster may have fetched: the pipeline and the polls
\* implement the feed.
THEOREM ImplementsFeedProven ==
  ASSUME MaxStrays = 0 PROVE FleetSpec => ImplementsFeed
<1>1. FleetInit => FleetInv /\ Feed!FeedInit
  BY FleetInvInit
<1>2. FleetInv /\ [FleetNext]_fleetVars
        => FleetInv' /\ [Feed!FeedNext]_(Feed!feedVars)
  BY FleetStep
<1> QED
  BY <1>1, <1>2, PTL DEF FleetSpec, ImplementsFeed, Feed!FeedSafety

\* Two clusters that hold the same version hold the same bundle.
THEOREM FleetOneBundleProven ==
  ASSUME MaxStrays = 0 PROVE FleetSpec => []FleetOneBundle
<1>1. FleetInit => FleetInv
  BY FleetInvInit
<1>2. FleetInv /\ [FleetNext]_fleetVars => FleetInv'
  BY FleetStep
<1>3. FleetInv => FleetOneBundle
  <2> SUFFICES ASSUME FleetInv, NEW c \in Clusters, NEW d \in Clusters,
                      held[c].version = held[d].version
               PROVE  held[c] = held[d]
    BY DEF FleetOneBundle, Feed!OneBundlePerVersion
  <2>1. 0 \notin Published
    BY DEF Published, Versions
  <2> QED
    BY <2>1 DEF FleetInv, HeldIsPublished
<1> QED
  BY <1>1, <1>2, <1>3, PTL DEF FleetSpec

-----------------------------------------------------------------------------
(* Merging is one way to push: the pipeline's theorems hold here too.      *)

\* What main would read in VERSION is a version, whatever is merged.
LEMMA MergedTyped ==
  ASSUME MergeTypeOK, NEW p \in PRs, pr[p].base \in 1 .. Len(main)
  PROVE  Tip \in Commit /\ MergedVersion(p) \in Versions
<1>1. \A i \in 1 .. Len(main) : main[i] \in Commit
  BY DEF MergeTypeOK, TypeOK
<1>2. Len(main) \in 1 .. Len(main)
  BY DEF MergeTypeOK, TypeOK
<1>3. Tip \in Commit /\ BaseVersion(p) \in Versions
  BY <1>1, <1>2 DEF Tip, BaseVersion, Commit
<1> QED
  BY <1>3 DEF MergedVersion, MergeTypeOK, PR, Commit

\* A pull request contains a commit of main, and is checked against a main no
\* older than that.
Anchored(p) ==
  /\ pr[p].st = "open" => pr[p].base \in 1 .. Len(main)
  /\ pr[p].st = "open" /\ pr[p].check # "none" =>
       pr[p].at \in pr[p].base .. Len(main)
  /\ pr[p].st = "merged" => pr[p].base \in 2 .. Len(main)

\* A green check of a tiles/ change still means what it meant while main stays
\* where it was.
GreenMeans(p) ==
  pr[p].st = "open" /\ pr[p].check = "green" /\ pr[p].tiles
    /\ pr[p].at = Len(main) =>
      /\ MergedVersion(p) > Tip.version
      /\ pr[p].lookup => \A w \in pr[p].seen : w < MergedVersion(p)

\* What it said of the releases stays true of the commit it became.
SeenBelow(p) ==
  pr[p].st = "merged" /\ pr[p].tiles /\ pr[p].lookup
    /\ pr[p].base = pr[p].at + 1 =>
      \A w \in pr[p].seen : w < main[pr[p].base].version

PRInv(p) == Anchored(p) /\ GreenMeans(p) /\ SeenBelow(p)

MergeInv == MergeTypeOK /\ ReleaseInv /\ \A p \in PRs : PRInv(p)

\* Only a push moves main, and it appends to it.
LEMMA MainGrows ==
  ASSUME TypeOK
  PROVE  /\ Pipeline => UNCHANGED main
         /\ \A r \in Runs, v \in Versions, c \in Corpora : Push(r, v, c) =>
              /\ Len(main') = Len(main) + 1
              /\ main'[Len(main')] = [version |-> v, corpus |-> c]
              /\ \A i \in 1 .. Len(main) : main'[i] = main[i]
<1>1. Pipeline => UNCHANGED main
  <2>1. ASSUME NEW r \in Runs, Step(r) \/ Fault(r) \/ Rerun(r)
        PROVE  UNCHANGED main
    BY <2>1 DEF Step, Build, Gate, Sign, GuardBefore, CreateRefused,
                CreateRelease, GuardAfter, DeleteRelease, CleanupTag, Fault,
                Rerun
  <2>2. ASSUME NEW r \in Runs, NEW ch \in Channels, Dispatch(r, ch)
        PROVE  UNCHANGED main
    BY <2>2 DEF Dispatch
  <2>3. ASSUME NEW v \in Versions,
               Promote(v) \/ StrayTag(v) \/ FixtureRelease(v)
        PROVE  UNCHANGED main
    BY <2>3 DEF Promote, StrayTag, FixtureRelease
  <2> QED
    BY <2>1, <2>2, <2>3 DEF Pipeline
<1>2. ASSUME NEW r \in Runs, NEW v \in Versions, NEW c \in Corpora,
             Push(r, v, c)
      PROVE  /\ Len(main') = Len(main) + 1
             /\ main'[Len(main')] = [version |-> v, corpus |-> c]
             /\ \A i \in 1 .. Len(main) : main'[i] = main[i]
  BY <1>2 DEF Push, TypeOK
<1> QED
  BY <1>1, <1>2

\* No pull request is open at first.
LEMMA MergeInvInit == MergeInit => MergeInv
<1> SUFFICES ASSUME MergeInit PROVE MergeInv
  OBVIOUS
<1>1. TypeOK /\ ReleaseInv
  BY TypeCorrectInit, InvInit DEF MergeInit
<1>2. NoPR \in PR
  BY BoundsAssumption DEF NoPR, PR, Versions
<1>3. MergeTypeOK
  BY <1>1, <1>2 DEF MergeInit, MergeTypeOK
<1>4. \A p \in PRs : pr[p].st = "none"
  BY DEF MergeInit, NoPR
<1> QED
  BY <1>1, <1>3, <1>4 DEF MergeInv, PRInv, Anchored, GreenMeans, SeenBelow

\* A merge pushes a version and a corpus.
LEMMA MergeIsPush ==
  ASSUME MergeInv, NEW p \in PRs, NEW r \in Runs, Merge(p, r)
  PROVE  \E v \in Versions, c \in Corpora :
           /\ v = MergedVersion(p)
           /\ ~pr[p].tiles => c = Tip.corpus
           /\ Push(r, v, c)
<1>1. Tip \in Commit /\ MergedVersion(p) \in Versions
  BY MergedTyped DEF MergeInv, PRInv, Anchored, Merge
<1> QED
  BY <1>1 DEF Merge, Commit

\* Every step here is a step of the pipeline, or none of its business.
LEMMA MergeIsRelease == MergeInv /\ [MergeNext]_mergeVars => [Next]_vars
<1> SUFFICES ASSUME MergeInv, [MergeNext]_mergeVars PROVE [Next]_vars
  OBVIOUS
<1>1. ASSUME NEW p \in PRs, NEW r \in Runs, Merge(p, r) PROVE Next
  BY <1>1, MergeIsPush DEF Next, DirectPush
<1>2. ASSUME NEW p \in PRs, NEW v \in Versions, NEW tiles \in BOOLEAN,
             UpdateBranch(p, v) \/ OpenPR(p, v, tiles)
      PROVE  UNCHANGED vars
  BY <1>2 DEF UpdateBranch, OpenPR, Branch
<1>3. DirectPush \/ Pipeline => Next
  BY DEF Next
<1>4. CASE UNCHANGED mergeVars
  BY <1>4 DEF mergeVars, vars
<1>5. ASSUME NEW p \in PRs, Check(p) PROVE UNCHANGED vars
  BY <1>5 DEF Check
<1>6. TRUE \in BOOLEAN
  OBVIOUS
<1> QED
  BY <1>1, <1>2, <1>3, <1>4, <1>5, <1>6 DEF MergeNext

\* A pull request that a step leaves alone: if merged it keeps its commit, if
\* open its check is good only as long as main stays.
LEMMA OthersKeep ==
  ASSUME MergeInv, NEW p \in PRs, pr'[p] = pr[p],
         Len(main') \in Nat, Len(main') >= Len(main),
         \A i \in 1 .. Len(main) : main'[i] = main[i]
  PROVE  PRInv(p)'
<1>1. Len(main) \in Nat /\ Len(main) >= 1 /\ pr[p] \in PR
  BY DEF MergeInv, MergeTypeOK, TypeOK
<1>2. Anchored(p) /\ GreenMeans(p) /\ SeenBelow(p)
  BY DEF MergeInv, PRInv
<1>3. Anchored(p)'
  BY <1>1, <1>2 DEF Anchored
<1>4. GreenMeans(p)'
  <2> SUFFICES ASSUME pr[p].st = "open", pr[p].check = "green",
                      pr[p].tiles, pr[p].at = Len(main')
               PROVE  /\ MergedVersion(p)' > (Tip.version)'
                      /\ pr[p].lookup =>
                           \A w \in pr[p].seen : w < MergedVersion(p)'
    BY DEF GreenMeans
  <2>1. pr[p].base \in 1 .. Len(main) /\ pr[p].at \in pr[p].base .. Len(main)
    BY <1>2 DEF Anchored
  <2>2. Len(main') = Len(main)
    BY <1>1, <2>1
  <2>3. Tip' = Tip /\ BaseVersion(p)' = BaseVersion(p)
    BY <1>1, <2>1, <2>2 DEF Tip, BaseVersion
  <2>4. MergedVersion(p)' = MergedVersion(p)
    BY <2>3 DEF MergedVersion
  <2> QED
    BY <1>2, <2>2, <2>3, <2>4 DEF GreenMeans
<1>5. SeenBelow(p)'
  BY <1>1, <1>2 DEF Anchored, SeenBelow
<1> QED
  BY <1>3, <1>4, <1>5 DEF PRInv

\* A push that is nobody's merge, and any other step of the pipeline.
LEMMA PipelineKeeps ==
  ASSUME MergeInv, [Next]_vars, UNCHANGED pr
  PROVE  MergeInv'
<1>1. ReleaseInv' /\ TypeOK' /\ TypeOK /\ MergeTypeOK'
  BY InvNext DEF MergeInv, ReleaseInv, CoreInv, MergeTypeOK
<1>2. /\ Len(main') \in Nat /\ Len(main') >= Len(main)
      /\ \A i \in 1 .. Len(main) : main'[i] = main[i]
  <2>1. Len(main) \in Nat
    BY <1>1 DEF TypeOK
  <2>2. CASE UNCHANGED main
    BY <2>1, <2>2
  <2>3. CASE DirectPush
    <3>1. PICK r \in Runs, v \in Versions, c \in Corpora : Push(r, v, c)
      BY <2>3 DEF DirectPush
    <3>2. /\ Len(main') = Len(main) + 1
          /\ \A i \in 1 .. Len(main) : main'[i] = main[i]
      BY <1>1, <3>1, MainGrows
    <3> QED
      BY <2>1, <3>2
  <2> QED
    BY <1>1, <2>2, <2>3, MainGrows DEF Next, vars
<1>3. \A p \in PRs : PRInv(p)'
  BY <1>2, OthersKeep
<1> QED
  BY <1>1, <1>3 DEF MergeInv

\* A branch is pushed: its checks start over.
LEMMA BranchKeeps ==
  ASSUME MergeInv, NEW p \in PRs, NEW v \in Versions, NEW tiles \in BOOLEAN,
         Branch(p, v, tiles)
  PROVE  MergeInv'
<1> DEFINE new == [NoPR EXCEPT !.st = "open", !.base = Len(main),
                               !.version = v, !.tiles = tiles]
<1>1. TypeOK /\ Len(main) \in Nat /\ Len(main) >= 1
  BY DEF MergeInv, MergeTypeOK, TypeOK
<1>2. new \in PR /\ new.st = "open" /\ new.check = "none"
      /\ new.base = Len(main)
  BY <1>1 DEF NoPR, PR
<1>3. pr' = [pr EXCEPT ![p] = new] /\ UNCHANGED vars
  BY DEF Branch
<1>4. ReleaseInv' /\ TypeOK'
  BY <1>3, InvNext DEF MergeInv, ReleaseInv, CoreInv
<1>5. MergeTypeOK'
  BY <1>2, <1>3, <1>4 DEF MergeInv, MergeTypeOK
<1>6. pr'[p] = new /\ \A q \in PRs \ {p} : pr'[q] = pr[q]
  BY <1>3 DEF MergeInv, MergeTypeOK
<1>7. main' = main /\ Len(main') >= Len(main)
  BY <1>1, <1>3 DEF vars
<1>8. \A q \in PRs \ {p} : PRInv(q)'
  BY <1>1, <1>6, <1>7, OthersKeep
<1>9. PRInv(p)'
  BY <1>1, <1>2, <1>6, <1>7 DEF PRInv, Anchored, GreenMeans, SeenBelow
<1> QED
  BY <1>4, <1>5, <1>8, <1>9 DEF MergeInv

\* What a check makes of the record of a pull request.
LEMMA CheckedRecord ==
  ASSUME NEW p \in PRs, pr[p] \in PR, NEW lookup \in BOOLEAN,
         Len(main) \in Nat, Published \subseteq Versions
  PROVE  /\ Checked(p, lookup) \in PR
         /\ Checked(p, lookup).st = pr[p].st
         /\ Checked(p, lookup).base = pr[p].base
         /\ Checked(p, lookup).version = pr[p].version
         /\ Checked(p, lookup).tiles = pr[p].tiles
         /\ Checked(p, lookup).check = Conclusion(p, lookup)
         /\ Checked(p, lookup).at = Len(main)
         /\ Checked(p, lookup).lookup = lookup
         /\ Checked(p, lookup).seen = Published
<1> DEFINE k  == Conclusion(p, lookup)
           x  == pr[p]
           y1 == [x EXCEPT !.check = k]
           y2 == [y1 EXCEPT !.at = Len(main)]
           y3 == [y2 EXCEPT !.lookup = lookup]
           y4 == [y3 EXCEPT !.seen = Published]
<1>0. k \in {"green", "red"} /\ x \in PR
  BY DEF Conclusion
<1>5. Checked(p, lookup) = y4
  BY DEF Checked
<1> HIDE DEF k, x
<1>1. /\ y1 \in PR
      /\ y1.st = x.st /\ y1.base = x.base /\ y1.version = x.version
      /\ y1.tiles = x.tiles /\ y1.check = k
  BY <1>0 DEF PR
<1> HIDE DEF y1
<1>2. /\ y2 \in PR
      /\ y2.st = x.st /\ y2.base = x.base /\ y2.version = x.version
      /\ y2.tiles = x.tiles /\ y2.check = k /\ y2.at = Len(main)
  BY <1>1 DEF PR
<1> HIDE DEF y2
<1>3. /\ y3 \in PR
      /\ y3.st = x.st /\ y3.base = x.base /\ y3.version = x.version
      /\ y3.tiles = x.tiles /\ y3.check = k /\ y3.at = Len(main)
      /\ y3.lookup = lookup
  BY <1>2 DEF PR
<1> HIDE DEF y3
<1>4. /\ y4 \in PR
      /\ y4.st = x.st /\ y4.base = x.base /\ y4.version = x.version
      /\ y4.tiles = x.tiles /\ y4.check = k /\ y4.at = Len(main)
      /\ y4.lookup = lookup /\ y4.seen = Published
  BY <1>3 DEF PR
<1> HIDE DEF y4
<1> QED
  BY <1>4, <1>5 DEF k, x

\* A check records the main and the releases it looked at.
LEMMA CheckKeeps ==
  ASSUME MergeInv, NEW p \in PRs, Check(p)
  PROVE  MergeInv'
<1>1. PICK lookup \in BOOLEAN :
        pr' = [pr EXCEPT ![p] = Checked(p, lookup)]
  BY DEF Check
<1>2. pr[p].st = "open" /\ UNCHANGED vars /\ main' = main
  BY DEF Check, vars
<1>3. /\ TypeOK /\ Len(main) \in Nat /\ pr[p] \in PR
      /\ Published \subseteq Versions
  BY DEF MergeInv, MergeTypeOK, TypeOK, Published
<1>4. ReleaseInv' /\ TypeOK'
  BY <1>2, InvNext DEF MergeInv, ReleaseInv, CoreInv
<1> DEFINE new == Checked(p, lookup)
<1>12. /\ new \in PR /\ new.st = "open" /\ new.base = pr[p].base
       /\ new.version = pr[p].version /\ new.tiles = pr[p].tiles
       /\ new.check = Conclusion(p, lookup) /\ new.at = Len(main)
       /\ new.lookup = lookup /\ new.seen = Published
  BY <1>2, <1>3, CheckedRecord
<1>13. pr'[p] = new
  BY <1>1 DEF MergeInv, MergeTypeOK
<1> HIDE DEF new
<1>5. /\ pr'[p].st = "open" /\ pr'[p].base = pr[p].base
      /\ pr'[p].version = pr[p].version /\ pr'[p].tiles = pr[p].tiles
      /\ pr'[p].check = Conclusion(p, lookup)
      /\ pr'[p].at = Len(main) /\ pr'[p].lookup = lookup
      /\ pr'[p].seen = Published
      /\ pr'[p] \in PR
  BY <1>12, <1>13
<1>6. \A q \in PRs \ {p} : pr'[q] = pr[q]
  BY <1>1 DEF MergeInv, MergeTypeOK
<1>7. MergeTypeOK'
  BY <1>1, <1>4, <1>5, <1>6 DEF MergeInv, MergeTypeOK
<1>8. MergedVersion(p)' = MergedVersion(p) /\ Tip' = Tip
  BY <1>2, <1>5 DEF MergedVersion, Tip, BaseVersion
<1>9. \A q \in PRs \ {p} : PRInv(q)'
  BY <1>2, <1>3, <1>6, OthersKeep
<1>10. Anchored(p)' /\ SeenBelow(p)'
  BY <1>2, <1>3, <1>5 DEF MergeInv, PRInv, Anchored, SeenBelow
<1>11. GreenMeans(p)'
  BY <1>5, <1>8 DEF GreenMeans, Conclusion, VersionJob, AboveLatest
<1> QED
  BY <1>4, <1>7, <1>9, <1>10, <1>11 DEF MergeInv, PRInv

\* A merge: the pull request becomes the commit it pushed.
LEMMA MergeKeeps ==
  ASSUME MergeInv, NEW p \in PRs, NEW r \in Runs, Merge(p, r)
  PROVE  MergeInv'
<1>1. PICK v \in Versions, c \in Corpora :
        v = MergedVersion(p) /\ Push(r, v, c)
  BY MergeIsPush
<1>2. TypeOK /\ Len(main) \in Nat /\ Len(main) >= 1 /\ pr[p] \in PR
  BY DEF MergeInv, MergeTypeOK, TypeOK
<1>3. ReleaseInv' /\ TypeOK'
  BY <1>1, InvNext DEF MergeInv, ReleaseInv, CoreInv, Next, DirectPush
<1>11. /\ Len(main') = Len(main) + 1
       /\ main'[Len(main')] = [version |-> v, corpus |-> c]
       /\ \A i \in 1 .. Len(main) : main'[i] = main[i]
  BY <1>1, <1>2, MainGrows
<1>4. /\ Len(main') = Len(main) + 1 /\ main'[Len(main')].version = v
      /\ \A i \in 1 .. Len(main) : main'[i] = main[i]
  BY <1>11
<1>5. /\ pr[p].st = "open" /\ pr[p].check = "green"
      /\ pr' = [pr EXCEPT ![p] =
                   [@ EXCEPT !.st = "merged", !.base = Len(main) + 1]]
  BY DEF Merge
<1> DEFINE new == [pr[p] EXCEPT !.st = "merged", !.base = Len(main) + 1]
<1>0. new \in PR
  <2> DEFINE y == [pr[p] EXCEPT !.st = "merged"]
  <2>1. y \in PR
    BY <1>2 DEF PR
  <2>2. new = [y EXCEPT !.base = Len(main) + 1] /\ Len(main) + 1 \in Nat
    BY <1>2
  <2> HIDE DEF y, new
  <2> QED
    BY <2>1, <2>2 DEF PR
<1>12. pr' = [pr EXCEPT ![p] = new]
  BY <1>5
<1>6. /\ pr'[p] \in PR
      /\ pr'[p].st = "merged" /\ pr'[p].base = Len(main) + 1
      /\ pr'[p].tiles = pr[p].tiles /\ pr'[p].lookup = pr[p].lookup
      /\ pr'[p].at = pr[p].at /\ pr'[p].seen = pr[p].seen
      /\ \A q \in PRs \ {p} : pr'[q] = pr[q]
  BY <1>0, <1>2, <1>12 DEF MergeInv, MergeTypeOK, PR
<1>7. MergeTypeOK'
  BY <1>3, <1>5, <1>6 DEF MergeInv, MergeTypeOK
<1>8. \A q \in PRs \ {p} : PRInv(q)'
  BY <1>2, <1>4, <1>6, OthersKeep
<1>9. Anchored(p)' /\ GreenMeans(p)'
  BY <1>2, <1>4, <1>6 DEF Anchored, GreenMeans
<1>10. SeenBelow(p)'
  <2> SUFFICES ASSUME pr[p].tiles, pr[p].lookup,
                      Len(main) + 1 = pr[p].at + 1
               PROVE  \A w \in pr[p].seen : w < main'[Len(main) + 1].version
    BY <1>6 DEF SeenBelow
  <2>1. pr[p].at = Len(main)
    BY <1>2 DEF PR
  <2> QED
    BY <1>1, <1>4, <1>5, <2>1 DEF MergeInv, PRInv, GreenMeans
<1> QED
  BY <1>3, <1>7, <1>8, <1>9, <1>10 DEF MergeInv, PRInv

\* Every step of pull requests and pipeline keeps the invariant.
LEMMA MergeInvNext == MergeInv /\ [MergeNext]_mergeVars => MergeInv'
<1> SUFFICES ASSUME MergeInv, [MergeNext]_mergeVars PROVE MergeInv'
  OBVIOUS
<1>1. ASSUME NEW p \in PRs, NEW v \in Versions, UpdateBranch(p, v)
      PROVE  MergeInv'
  BY <1>1, BranchKeeps DEF UpdateBranch, MergeInv, MergeTypeOK, PR
<1>2. ASSUME NEW p \in PRs, NEW v \in Versions, NEW tiles \in BOOLEAN,
             OpenPR(p, v, tiles)
      PROVE  MergeInv'
  BY <1>2, BranchKeeps DEF OpenPR
<1>3. ASSUME NEW p \in PRs, Check(p) PROVE MergeInv'
  BY <1>3, CheckKeeps
<1>4. ASSUME NEW p \in PRs, NEW r \in Runs, Merge(p, r) PROVE MergeInv'
  BY <1>4, MergeKeeps
<1>5. CASE [Next]_vars /\ UNCHANGED pr
  BY <1>5, PipelineKeeps
<1> QED
  BY <1>1, <1>2, <1>3, <1>4, <1>5 DEF MergeNext, mergeVars, vars, Next

\* The pull requests and the commits of main are well typed.
THEOREM MergeTypeCorrect == MergeSafety => []MergeTypeOK
<1>1. MergeInv => MergeTypeOK
  BY DEF MergeInv
<1> QED
  BY <1>1, MergeInvInit, MergeInvNext, PTL DEF MergeSafety

\* Whatever the settings of the repository, what reaches main by pull requests
\* and direct pushes is a behaviour of the release pipeline: its theorems hold
\* of the two together.
THEOREM MergeImplementsRelease == MergeSafety => Spec
<1>1. MergeInit => Init
  BY DEF MergeInit
<1> QED
  BY <1>1, MergeInvInit, MergeInvNext, MergeIsRelease, PTL
     DEF MergeSafety, Spec

-----------------------------------------------------------------------------
(* Up-to-date branches: every corpus change on main bumps VERSION.         *)

\* A merge of a branch that is up to date pushes what its check looked at.
LEMMA MergeBumps ==
  ASSUME StrictChecks, MergeInv, CorpusChangeBumps,
         NEW p \in PRs, NEW r \in Runs, Merge(p, r)
  PROVE  CorpusChangeBumps'
<1>1. PICK v \in Versions, c \in Corpora :
        /\ v = MergedVersion(p)
        /\ ~pr[p].tiles => c = Tip.corpus
        /\ Push(r, v, c)
  BY MergeIsPush
<1>2. TypeOK /\ Len(main) \in Nat /\ Len(main) >= 1 /\ pr[p] \in PR
  BY DEF MergeInv, MergeTypeOK, TypeOK
<1>3. /\ Len(main') = Len(main) + 1
      /\ main'[Len(main')] = [version |-> v, corpus |-> c]
      /\ \A i \in 1 .. Len(main) : main'[i] = main[i]
  BY <1>1, <1>2, MainGrows
<1>4. c # Tip.corpus => v > Tip.version
  <2> SUFFICES ASSUME c # Tip.corpus PROVE v > Tip.version
    OBVIOUS
  <2>1. /\ pr[p].st = "open" /\ pr[p].check = "green" /\ pr[p].tiles
        /\ pr[p].base = Len(main)
    BY <1>1 DEF Merge
  <2>2. pr[p].at \in pr[p].base .. Len(main)
    BY <2>1 DEF MergeInv, PRInv, Anchored
  <2>3. pr[p].at = Len(main)
    BY <1>2, <2>1, <2>2
  <2> QED
    BY <1>1, <2>1, <2>3 DEF MergeInv, PRInv, GreenMeans
<1> SUFFICES ASSUME NEW i \in 2 .. Len(main'),
                    main'[i].corpus # main'[i - 1].corpus
             PROVE  main'[i].version > main'[i - 1].version
  BY DEF CorpusChangeBumps
<1>5. CASE i = Len(main')
  <2>1. i - 1 = Len(main) /\ main'[i - 1] = Tip
    BY <1>2, <1>3, <1>5 DEF Tip
  <2>2. main'[i].version = v /\ main'[i].corpus = c
    BY <1>3, <1>5
  <2> QED
    BY <1>4, <2>1, <2>2
<1>6. CASE i # Len(main')
  <2>1. /\ i \in 2 .. Len(main)
        /\ main'[i] = main[i] /\ main'[i - 1] = main[i - 1]
    BY <1>2, <1>3, <1>6
  <2> QED
    BY <2>1 DEF CorpusChangeBumps
<1> QED
  BY <1>5, <1>6

\* "the `version` job in lint.yml refuses a corpus change that does not bump
\* VERSION" is true of every state of main when branches must be up to date
\* and nobody goes round the pull requests.
THEOREM CorpusChangeBumpsProven ==
  ASSUME StrictChecks, Disciplined PROVE MergeSafety => []CorpusChangeBumps
<1>1. MergeInit => CorpusChangeBumps
  BY DEF MergeInit, Init, CorpusChangeBumps
<1>2. MergeInv /\ CorpusChangeBumps /\ [MergeNext]_mergeVars
        => CorpusChangeBumps'
  <2> SUFFICES ASSUME MergeInv, CorpusChangeBumps, [MergeNext]_mergeVars
               PROVE  CorpusChangeBumps'
    OBVIOUS
  <2>1. ASSUME UNCHANGED main PROVE CorpusChangeBumps'
    BY <2>1 DEF CorpusChangeBumps
  <2>2. ASSUME NEW p \in PRs, NEW r \in Runs, Merge(p, r)
        PROVE  CorpusChangeBumps'
    BY <2>2, MergeBumps
  <2>3. \/ UNCHANGED main
        \/ \E p \in PRs, r \in Runs : Merge(p, r)
    <3>1. Pipeline => UNCHANGED main
      BY MainGrows DEF MergeInv, MergeTypeOK
    <3>2. \A p \in PRs, v \in Versions, tiles \in BOOLEAN :
            UpdateBranch(p, v) \/ OpenPR(p, v, tiles) \/ Check(p)
              => UNCHANGED main
      BY DEF UpdateBranch, OpenPR, Branch, Check, vars
    <3>3. CASE UNCHANGED mergeVars
      BY <3>3 DEF mergeVars
    <3>4. 1 \in Versions /\ TRUE \in BOOLEAN
      BY BoundsAssumption DEF Versions
    <3> QED
      BY <3>1, <3>2, <3>3, <3>4 DEF MergeNext
  <2> QED
    BY <2>1, <2>2, <2>3
<1> QED
  BY <1>1, <1>2, MergeInvInit, MergeInvNext, PTL DEF MergeSafety

-----------------------------------------------------------------------------
(* The early copy of the gate.                                             *)

\* Something released since the check stands at or above the run's version.
Overtaken(p, r) == \E w \in Published \ pr[p].seen : w >= Ver(r)

\* A run that starts is not refused yet, and a merge makes no older run fresh.
LEMMA PushAgrees ==
  ASSUME MergeInv, EarlyGateAgrees, NEW q \in PRs, NEW s \in Runs,
         NEW v \in Versions, NEW c \in Corpora, Push(s, v, c),
         NEW r \in Runs, FreshRun(q, r)', run'[r].pc = "refused",
         \/ pr'[q] = pr[q]
         \/ pr'[q].base = Len(main) + 1
  PROVE  Overtaken(q, r)'
<1>1. TypeOK /\ Len(main) \in Nat /\ Len(main) >= 1
  BY DEF MergeInv, MergeTypeOK, TypeOK
<1>2. /\ Len(main') = Len(main) + 1
      /\ \A i \in 1 .. Len(main) : main'[i] = main[i]
  BY <1>1, MainGrows
<1>3. /\ run'[s].pc = "build" /\ releases' = releases
      /\ \A t \in Runs \ {s} : run'[t] = run[t]
  BY <1>1 DEF Push, Start, TypeOK, remote
<1>4. r # s /\ run'[r] = run[r] /\ run[r].pc = "refused"
  BY <1>3
<1>5. Sha(r) \in 1 .. Len(main) /\ Sha(r)' = Sha(r)
  BY <1>4, WorkingVersion DEF MergeInv, Sha
<1>6. pr'[q].base # Len(main) + 1
  BY <1>1, <1>5 DEF FreshRun
<1>7. pr'[q] = pr[q] /\ FreshRun(q, r)
  BY <1>4, <1>5, <1>6 DEF FreshRun
<1>8. Ver(r)' = Ver(r) /\ Published' = Published
  BY <1>2, <1>3, <1>5 DEF Ver, Published
<1> QED
  BY <1>4, <1>7, <1>8 DEF EarlyGateAgrees, Overtaken

\* A step of the pipeline that is not a push: what refuses a run is there, and
\* was not when the check looked.
LEMMA PipelineAgrees ==
  ASSUME MaxStrays = 0, MergeInv, NoStrays, EarlyGateAgrees,
         Pipeline \/ UNCHANGED vars, UNCHANGED pr,
         NEW p \in PRs, NEW r \in Runs, FreshRun(p, r)',
         run'[r].pc = "refused"
  PROVE  Overtaken(p, r)'
<1>1. TypeOK /\ ReleaseInv /\ UNCHANGED main /\ [Next]_vars
  BY MainGrows DEF MergeInv, MergeTypeOK, vars, Next
<1>2. FeedStep
  BY <1>1, BundlesStay
<1>3. Published \subseteq Published'
  <2>1. CASE UNCHANGED releases
    BY <2>1 DEF Published
  <2>2. ASSUME NEW v \in Versions \ Published, NEW rel \in Release,
               releases' = [releases EXCEPT ![v] = rel]
        PROVE  Published \subseteq Published'
    BY <1>1, <2>2 DEF TypeOK, Published
  <2>3. ASSUME NEW v \in Published,
               releases' = [releases EXCEPT ![v].pre = FALSE]
        PROVE  Published \subseteq Published'
    <3>1. v \in Versions /\ releases[v] \in Release
      BY <1>1 DEF TypeOK, Published
    <3>2. releases'[v] \in Release
          /\ \A w \in Versions \ {v} : releases'[w] = releases[w]
      BY <1>1, <2>3, <3>1 DEF TypeOK, Release
    <3> QED
      BY <3>2, NoReleaseAssumption DEF Published
  <2> QED
    BY <1>2, <2>1, <2>2, <2>3 DEF FeedStep
<1>4. run'[r].sha = run[r].sha => Ver(r)' = Ver(r) /\ Sha(r)' = Sha(r)
  BY <1>1 DEF Ver, Sha
<1>5. CASE run'[r] = run[r]
  <2>1. FreshRun(p, r) /\ run[r].pc = "refused" /\ Ver(r)' = Ver(r)
    BY <1>4, <1>5 DEF FreshRun
  <2> QED
    BY <1>3, <2>1 DEF EarlyGateAgrees, Overtaken
<1>6. ASSUME NEW w \in Published, w >= Ver(r), run[r].pc # "idle",
             run'[r].sha = run[r].sha, run'[r].event = run[r].event
      PROVE  Overtaken(p, r)'
  <2>1. Ver(r)' = Ver(r) /\ Sha(r)' = Sha(r)
    BY <1>4, <1>6
  <2>2. FreshRun(p, r)
    BY <1>6, <2>1 DEF FreshRun
  <2>3. \A u \in pr[p].seen : u < Ver(r)
    BY <2>2 DEF MergeInv, PRInv, SeenBelow, FreshRun, Ver
  <2>4. w \in Versions /\ Ver(r) \in Versions
    BY <1>1, <1>6, WorkingVersion DEF Published
  <2>5. w \notin pr[p].seen
    BY <1>6, <2>3, <2>4 DEF Versions
  <2> QED
    BY <1>3, <1>6, <2>1, <2>5 DEF Overtaken
<1>7. ASSUME NEW l, Goto(r, l) PROVE run'[r] = [run[r] EXCEPT !.pc = l]
  BY <1>1, <1>7 DEF Goto, TypeOK
<1>8. ASSUME Gate(r) PROVE Overtaken(p, r)'
  <2>1. /\ run[r].pc = "gate" /\ run'[r].pc = GateVerdict(r)
        /\ run'[r].sha = run[r].sha /\ run'[r].event = run[r].event
    <3>1. run[r].pc = "gate" /\ Goto(r, GateVerdict(r))
      BY <1>8 DEF Gate
    <3>2. run'[r] = [run[r] EXCEPT !.pc = GateVerdict(r)]
      BY <1>7, <3>1
    <3> QED
      BY <1>1, <3>1, <3>2 DEF TypeOK, RunState
  <2>2. ~AboveLatest(Ver(r))
    BY <2>1 DEF GateVerdict
  <2>3. Ver(r) \in Versions /\ Published \subseteq Versions
    BY <1>1, <2>1, WorkingVersion DEF Published
  <2>4. \E w \in Published : w >= Ver(r)
    <3>1. PICK w \in Published : ~(w < Ver(r))
      BY <2>2 DEF AboveLatest
    <3>2. w \in Int /\ Ver(r) \in Int
      BY <2>3, BoundsAssumption DEF Versions
    <3> QED
      BY <3>1, <3>2
  <2> QED
    BY <1>6, <2>1, <2>4
<1>9. ASSUME GuardBefore(r) PROVE Overtaken(p, r)'
  <2>1. PICK rc \in TargetGuard(Ver(r), Sha(r)) :
          run' = [run EXCEPT ![r].pc = AfterGuard(rc),
                             ![r].createdTag = (rc = 3)]
    BY <1>9 DEF GuardBefore
  <2>2. /\ run[r].pc = "guard" /\ run'[r].pc = AfterGuard(rc)
        /\ run'[r].sha = run[r].sha /\ run'[r].event = run[r].event
    BY <1>1, <1>9, <2>1 DEF GuardBefore, TypeOK, RunState
  <2>3. rc = 1
    BY <2>2 DEF AfterGuard, TargetGuard
  <2>4. tags[Ver(r)] # NoTag /\ Ver(r) \in Versions
    BY <1>1, <2>2, <2>3, WorkingVersion DEF TargetGuard
  <2>5. Ver(r) \in Published /\ Ver(r) >= Ver(r)
    BY <1>1, <2>4 DEF ReleaseInv, TagInv, JobsTags, NoStrays, Published, Versions
  <2> QED
    BY <1>6, <2>2, <2>5
<1>10. ASSUME CreateRefused(r) PROVE Overtaken(p, r)'
  <2>1. /\ run[r].pc = "create" /\ releases[Ver(r)] # NoRelease
        /\ run'[r].sha = run[r].sha /\ run'[r].event = run[r].event
    BY <1>1, <1>7, <1>10 DEF CreateRefused, TypeOK, RunState
  <2>2. Ver(r) \in Published /\ Ver(r) >= Ver(r)
    BY <1>1, <2>1, WorkingVersion DEF Published, Versions
  <2> QED
    BY <1>6, <2>1, <2>2
<1>11. ASSUME GuardAfter(r) PROVE FALSE
  <2>1. /\ Sha(r) \in 1 .. Len(main) /\ Ver(r) \in Published
        /\ releases[Ver(r)].src = Sha(r) /\ Ver(r) \in Versions
    BY <1>1, <1>11, WorkingVersion
       DEF GuardAfter, ReleaseInv, CoreInv, Owned, Owns, Published
  <2>2. tags[Ver(r)] = Sha(r) /\ tags[Ver(r)] # NoTag
    BY <1>1, <2>1 DEF ReleaseInv, TagInv, JobsTags, NoStrays, Published, NoTag
  <2>3. PICK rc \in TargetGuard(Ver(r), Sha(r)) :
          Goto(r, IF MustDelete(r, rc) THEN "delete" ELSE AfterProof(rc))
    BY <1>11 DEF GuardAfter
  <2>4. rc \in {0, 2} /\ AfterProof(rc) # "refused"
    BY <2>2 DEF TargetGuard, AfterProof
  <2>5. Goto(r, AfterProof(rc))
    BY <2>3, <2>4 DEF MustDelete
  <2>6. run'[r].pc = AfterProof(rc)
    BY <1>1, <2>5 DEF Goto, TypeOK, RunState
  <2> QED
    BY <2>4, <2>6
<1>13. ASSUME NEW s \in Runs, DeleteRelease(s) \/ CleanupTag(s) PROVE FALSE
  BY <1>1, <1>13 DEF DeleteRelease, CleanupTag, ReleaseInv, TagInv, TakenDown,
                     NoStrays
<1>12. \/ run'[r] = run[r] \/ Gate(r) \/ GuardBefore(r) \/ CreateRefused(r)
       \/ GuardAfter(r)
  <2>1. ASSUME NEW l, NEW s \in Runs, Goto(s, l)
        PROVE  run'[s].pc = l /\ \A t \in Runs \ {s} : run'[t] = run[t]
    BY <1>1, <2>1 DEF Goto, TypeOK, RunState
  <2>2. ASSUME NEW s \in Runs, Step(s)
        PROVE  \/ run'[r] = run[r] \/ Gate(r) \/ GuardBefore(r)
               \/ CreateRefused(r) \/ GuardAfter(r)
    <3>1. CASE s = r
      <4>1. ~(Build(r) \/ Sign(r) \/ CreateRelease(r))
        <5>1. Build(r) => Goto(r, "gate")
          BY DEF Build
        <5>2. Sign(r) => Goto(r, "guard")
          BY DEF Sign
        <5>3. CreateRelease(r) => Goto(r, "proof")
          BY DEF CreateRelease
        <5> QED
          BY <2>1, <5>1, <5>2, <5>3
      <4> QED
        BY <1>13, <2>2, <3>1, <4>1 DEF Step
    <3>2. CASE s # r
      <4>1. CASE GuardBefore(s)
        <5>1. PICK rc \in TargetGuard(Ver(s), Sha(s)) :
                run' = [run EXCEPT ![s].pc = AfterGuard(rc),
                                   ![s].createdTag = (rc = 3)]
          BY <4>1 DEF GuardBefore
        <5>2. run'[r] = run[r]
          BY <1>1, <3>2, <5>1 DEF TypeOK
        <5> QED
          BY <5>2
      <4>2. CASE ~GuardBefore(s)
        <5>1. \E l : Goto(s, l)
          BY <1>13, <2>2, <4>2 DEF Step, Build, Gate, Sign, CreateRefused,
                                   CreateRelease, GuardAfter
        <5> QED
          BY <2>1, <3>2, <5>1
      <4> QED
        BY <4>1, <4>2
    <3> QED
      BY <3>1, <3>2
  <2>3. ASSUME NEW s \in Runs, Fault(s) PROVE run'[r] = run[r]
    BY <2>1, <2>3 DEF Fault
  <2>4. ASSUME NEW s \in Runs, Rerun(s) PROVE run'[r] = run[r]
    BY <1>1, <2>4 DEF Rerun, TypeOK, RunState
  <2>5. ASSUME NEW s \in Runs, NEW ch \in Channels, Dispatch(s, ch)
        PROVE  run'[r] = run[r]
    BY <1>1, <2>5 DEF Dispatch, Start, TypeOK
  <2>6. ASSUME NEW v \in Versions,
               Promote(v) \/ StrayTag(v) \/ FixtureRelease(v)
        PROVE  run'[r] = run[r]
    BY <2>6 DEF Promote, StrayTag, FixtureRelease
  <2> QED
    BY <2>2, <2>3, <2>4, <2>5, <2>6 DEF Pipeline, vars
<1> QED
  BY <1>5, <1>8, <1>9, <1>10, <1>11, <1>12

\* The early copy of the gate is faithful to the gate, whatever the settings:
\* a bump that passed on the main it was merged into is refused later only
\* because something at or above it was released since.
THEOREM EarlyGateAgreesProven ==
  ASSUME MaxStrays = 0 PROVE MergeSafety => []EarlyGateAgrees
<1> DEFINE Inv == MergeInv /\ NoStrays /\ EarlyGateAgrees
<1>1. MergeInit => Inv
  <2>1. MergeInit => EarlyGateAgrees
    BY DEF MergeInit, NoPR, EarlyGateAgrees, FreshRun
  <2> QED
    BY <2>1, MergeInvInit DEF MergeInit, Init, NoStrays
<1>2. Inv /\ [MergeNext]_mergeVars => Inv'
  <2> SUFFICES ASSUME Inv, [MergeNext]_mergeVars PROVE Inv'
    OBVIOUS
  <2>1. MergeInv' /\ NoStrays'
    BY MergeInvNext, MergeIsRelease, BundlesStay DEF MergeInv
  <2> SUFFICES ASSUME NEW q \in PRs, NEW r \in Runs, FreshRun(q, r)',
                      run'[r].pc = "refused"
               PROVE  Overtaken(q, r)'
    BY <2>1 DEF EarlyGateAgrees, Overtaken
  <2>2. CASE (Pipeline \/ UNCHANGED vars) /\ UNCHANGED pr
    BY <2>2, PipelineAgrees
  <2>3. CASE DirectPush /\ UNCHANGED pr
    BY <2>3, PushAgrees DEF DirectPush
  <2>4. ASSUME NEW p \in PRs, NEW s \in Runs, Merge(p, s)
        PROVE  Overtaken(q, r)'
    <3>1. PICK v \in Versions, c \in Corpora : Push(s, v, c)
      BY <2>4, MergeIsPush
    <3>2. pr'[q] = pr[q] \/ pr'[q].base = Len(main) + 1
      BY <2>4 DEF Merge, MergeInv, MergeTypeOK, PR
    <3> QED
      BY <3>1, <3>2, PushAgrees
  <2>5. ASSUME NEW p \in PRs, UNCHANGED vars, pr'[p].st = "open",
               \A t \in PRs \ {p} : pr'[t] = pr[t]
        PROVE  Overtaken(q, r)'
    <3>1. q # p /\ pr'[q] = pr[q]
      BY <2>5 DEF FreshRun
    <3>2. UNCHANGED <<main, run, releases>> /\ Published' = Published
      BY <2>5 DEF vars, Published
    <3>3. FreshRun(q, r) /\ run[r].pc = "refused" /\ Ver(r)' = Ver(r)
      BY <3>1, <3>2 DEF FreshRun, Ver, Sha
    <3> QED
      BY <3>1, <3>2, <3>3 DEF EarlyGateAgrees, Overtaken
  <2>6. ASSUME NEW p \in PRs, NEW v \in Versions, NEW tiles \in BOOLEAN,
               Branch(p, v, tiles)
        PROVE  Overtaken(q, r)'
    <3>1. pr'[p].st = "open" /\ \A t \in PRs \ {p} : pr'[t] = pr[t]
      BY <2>6 DEF Branch, MergeInv, MergeTypeOK, NoPR
    <3> QED
      BY <2>5, <2>6, <3>1 DEF Branch
  <2>7. ASSUME NEW p \in PRs, Check(p) PROVE Overtaken(q, r)'
    <3>1. PICK lookup \in BOOLEAN :
            pr' = [pr EXCEPT ![p] = Checked(p, lookup)]
      BY <2>7 DEF Check
    <3>2. Checked(p, lookup).st = pr[p].st
      BY CheckedRecord DEF MergeInv, MergeTypeOK, TypeOK, Published
    <3>3. pr'[p].st = "open" /\ \A t \in PRs \ {p} : pr'[t] = pr[t]
      BY <2>7, <3>1, <3>2 DEF Check, MergeInv, MergeTypeOK
    <3> QED
      BY <2>5, <2>7, <3>3 DEF Check
  <2>8. CASE UNCHANGED mergeVars
    BY <2>2, <2>8 DEF mergeVars, vars
  <2>9. ASSUME NEW p \in PRs, NEW v \in Versions, UpdateBranch(p, v)
        PROVE  Overtaken(q, r)'
    BY <2>6, <2>9 DEF UpdateBranch, MergeInv, MergeTypeOK, PR
  <2>10. ASSUME NEW p \in PRs, NEW v \in Versions, NEW tiles \in BOOLEAN,
                OpenPR(p, v, tiles)
         PROVE  Overtaken(q, r)'
    BY <2>6, <2>10 DEF OpenPR
  <2> QED
    BY <2>2, <2>3, <2>4, <2>7, <2>8, <2>9, <2>10 DEF MergeNext
<1> QED
  BY <1>1, <1>2, PTL DEF MergeSafety

=============================================================================

---------------------------- MODULE CatalogFleet ----------------------------
(***************************************************************************)
(* The release pipeline together with the clusters that poll its releases, *)
(* as an implementation of CatalogFeed: the feed is the release list.      *)
(***************************************************************************)
EXTENDS CatalogRelease

CONSTANTS Clusters, ChannelOf

ASSUME FleetAssumption ==
  ChannelOf \in [Clusters -> {"stable", "dev", "olddev"}]

VARIABLE held  \* the bundle each cluster holds

fleetVars == <<main, run, tags, releases, reruns, strays, held>>

Feed == INSTANCE CatalogFeed WITH feed <- releases, Sources <- 0 .. MaxCommits

FleetInit == Init /\ held = [c \in Clusters |-> [version |-> 0, src |-> 0]]

\* The daily poll: the control plane fetches and verifies a release asset.
Fetch(c) == Feed!Adopt(c) /\ UNCHANGED <<main, run, tags, reruns, strays>>

FleetNext ==
  \/ Next /\ UNCHANGED held
  \/ \E c \in Clusters : Fetch(c)

\* The workflow's steps need no fairness for what clusters are promised; each
\* cluster polls for ever.
FleetSpec == FleetInit /\ [][FleetNext]_fleetVars
               /\ \A c \in Clusters : WF_fleetVars(Fetch(c))

-----------------------------------------------------------------------------
\* The pipeline keeps the promise of the feed: no run, however it interleaves
\* with others, fails or is rerun, replaces or takes back a published bundle.
\* (Where nothing but the job pushes catalog-vN tags.)
ImplementsFeed == Feed!FeedSafety

FleetOneBundle == Feed!OneBundlePerVersion
FleetReached   == Feed!ReachesFleet


=============================================================================

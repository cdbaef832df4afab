---------------------------- MODULE CatalogFeed ----------------------------
(***************************************************************************)
(* What the catalog promises to a cluster, with the machinery left out: a  *)
(* version is published once and its bundle never changes or goes away; a  *)
(* prerelease can be promoted, in place; and a cluster adopts the highest  *)
(* version its channel takes, never one at or below what it holds.         *)
(*                                                                         *)
(* The cluster is the control plane, which is not in this repository: its  *)
(* rules are the ones release.yml's header states and relies on.           *)
(***************************************************************************)
EXTENDS Integers

CONSTANTS
  MaxVersion,  \* versions are 1 .. MaxVersion, at least one
  Sources,     \* what a bundle can be built from, 0 and 1 among them
  Clusters,    \* the clusters that poll the feed
  ChannelOf,   \* the channel of each: "stable", "dev" or "olddev"
  NoRelease    \* the value of feed[v] when v is not published

VARIABLES
  feed,  \* the release of each version
  held   \* the version and the bundle each cluster holds

feedVars == <<feed, held>>

FeedRelease == [src : Sources, pre : BOOLEAN]
Bundle      == [version : 0 .. MaxVersion, src : Sources]

FeedTypeOK ==
  /\ feed \in [1 .. MaxVersion -> FeedRelease \cup {NoRelease}]
  /\ held \in [Clusters -> Bundle]

InFeed == {v \in 1 .. MaxVersion : feed[v] # NoRelease}

\* Before any cluster has polled.
FeedInit ==
  /\ feed = [v \in 1 .. MaxVersion |->
       IF v = 1 THEN [src |-> 1, pre |-> FALSE] ELSE NoRelease]
  /\ held = [c \in Clusters |-> [version |-> 0, src |-> 0]]

\* Versions appear in any order: a lower one may follow a higher one.
Publish(v) ==
  /\ feed[v] = NoRelease
  /\ \E rel \in FeedRelease : feed' = [feed EXCEPT ![v] = rel]
  /\ UNCHANGED held

PromoteInFeed(v) ==
  /\ feed[v] # NoRelease
  /\ feed' = [feed EXCEPT ![v].pre = FALSE]
  /\ UNCHANGED held

\* Mutant: every dev cluster is on the older control-plane build.
TakenByOldDev(ch, pre) == IF ch = "stable" THEN ~pre ELSE pre

\* A stable cluster takes full releases, a dev cluster either kind, and a dev
\* cluster on an older control-plane build prereleases only.
Taken(ch, pre) ==
  CASE ch = "stable" -> ~pre [] ch = "dev" -> TRUE [] ch = "olddev" -> pre

Eligible(c) == {v \in InFeed : Taken(ChannelOf[c], feed[v].pre)}

\* The cluster refuses a version that does not exceed the one it holds.
Adopt(c) ==
  \E v \in Eligible(c) :
    /\ \A w \in Eligible(c) : w <= v
    /\ v > held[c].version
    /\ held' = [held EXCEPT ![c] = [version |-> v, src |-> feed[v].src]]
    /\ UNCHANGED feed

FeedNext ==
  \/ \E v \in 1 .. MaxVersion : Publish(v) \/ PromoteInFeed(v)
  \/ \E c \in Clusters : Adopt(c)

FeedSafety == FeedInit /\ [][FeedNext]_feedVars

\* Every cluster keeps polling.
FeedSpec == FeedSafety /\ \A c \in Clusters : WF_feedVars(Adopt(c))

-----------------------------------------------------------------------------
\* Two clusters that hold the same version hold the same bundle, whenever
\* each of them fetched it and on whichever channel.
OneBundlePerVersion ==
  \A c, d \in Clusters : held[c].version = held[d].version => held[c] = held[d]

\* A version reaches every stable cluster once it is a full release, and
\* every dev cluster once it is published at all: promoting it meanwhile does
\* not take it away from dev (release.yml, "CHANNELS").  The cluster ends up
\* with it or with something newer.
ReachesFleet ==
  \A c \in Clusters, v \in 1 .. MaxVersion :
    ChannelOf[c] # "olddev" =>
      (v \in Eligible(c) ~> held[c].version >= v)

=============================================================================

----------------------------- MODULE TileGates ------------------------------
(***************************************************************************)
(* The way of a tile into a signed catalog: pull requests that edit tile   *)
(* directories, the `tiles` job of lint.yml (the corpus tests and          *)
(* tilelint), merges that may find another main, direct pushes, and the    *)
(* bundle that release.yml builds, proves reproducible and signs.          *)
(***************************************************************************)
EXTENDS TileRules

CONSTANTS
  First,     \* the corpus at the start: a directory for each tile
  PRs,       \* identities of pull requests
  Edits,     \* <<tile, field, value>>: the edits each of them may make
  Pushed,    \* and those that may be pushed to main directly
  MaxEdits,  \* bound: edits of a pull request
  MaxPushes  \* bound: direct pushes

Ids == DOMAIN First

IsCorpus(c) == DOMAIN c = Ids /\ \A id \in Ids : IsDir(c[id])

IsEdit(e) == e[1] \in Ids /\ e[2] \in DOMAIN Values /\ Fits(e[2], e[3])

ASSUME GatesAssumption ==
  /\ IsCorpus(First) /\ {MaxEdits, MaxPushes} \subseteq Nat
  /\ \A e \in Pushed \cup UNION {Edits[p] : p \in PRs} : IsEdit(e)

VARIABLES
  main,     \* the tile directories on main
  pr,       \* the state of each pull request
  pushes,   \* how many direct pushes happened
  raced,    \* something reached main that no check saw there
  release   \* one run of release.yml, on the commit it was started for

vars == <<main, pr, pushes, raced, release>>

\* seen: the main of its green check.
IsPR(r) ==
  /\ r.st \in {"none", "open", "merged"} /\ r.edits \in 0 .. MaxEdits
  /\ IsCorpus(r.base) /\ IsCorpus(r.head) /\ IsCorpus(r.seen)
  /\ r.gate \in {"none", "green", "red"}

TypeOK ==
  /\ IsCorpus(main) /\ DOMAIN pr = PRs /\ \A p \in PRs : IsPR(pr[p])
  /\ pushes \in 0 .. MaxPushes /\ raced \in BOOLEAN
  /\ release.st \in {"idle", "built", "failed", "signed"}
  /\ IsCorpus(release.corpus)

Green(corpus) == \A id \in Ids : Problems(id, corpus[id]) = {}

NoPR == [st |-> "none", base |-> First, head |-> First, edits |-> 0,
         gate |-> "none", seen |-> First]

Init ==
  /\ main = First /\ Green(First) /\ pushes = 0 /\ raced = FALSE
  /\ pr = [p \in PRs |-> NoPR]
  /\ release = [st |-> "idle", corpus |-> First, built |-> NoBundle,
                signed |-> NoBundle]

-----------------------------------------------------------------------------
\* An entry is added, or taken out where it is; another field is set.
Edited(corpus, e) ==
  [corpus EXCEPT ![e[1]][e[2]] =
     IF e[2] \notin Sets THEN e[3]
     ELSE IF e[3] \in @ THEN @ \ {e[3]} ELSE @ \cup {e[3]}]

Open(p) ==
  /\ pr[p].st = "none"
  /\ pr' = [pr EXCEPT ![p].st = "open", ![p].base = main, ![p].head = main]
  /\ UNCHANGED <<main, pushes, raced, release>>

\* A push to the branch starts its checks over.
Branch(p, head, edits) ==
  /\ pr[p].st = "open"
  /\ pr' = [pr EXCEPT ![p].head = head, ![p].edits = @ + edits,
                      ![p].gate = "none", ![p].seen = First]
  /\ UNCHANGED <<main, pushes, raced, release>>

Edit(p, e) ==
  pr[p].edits < MaxEdits /\ Branch(p, Edited(pr[p].head, e), 1)

\* The author pastes the block that lint prints.
Paste(p, id) ==
  /\ "declare it" \in Problems(id, pr[p].head[id])
  /\ Branch(p, [pr[p].head EXCEPT ![id] = Pasted(@)], 0)

\* git merges a set entry by entry, and gives up on a field that both sides
\* set differently.
Clash(base, mine, theirs) ==
  mine # base /\ theirs # base /\ mine # theirs

Mergeable(p) ==
  ~\E id \in Ids, f \in (DOMAIN Values) \ Sets :
     Clash(pr[p].base[id][f], pr[p].head[id][f], main[id][f])

Merge3(f, base, mine, theirs) ==
  IF f \in Sets THEN (theirs \ (base \ mine)) \cup (mine \ base)
  ELSE IF mine = base THEN theirs ELSE mine

Merged(p) ==
  [id \in Ids |-> [f \in DOMAIN Values |->
     Merge3(f, pr[p].base[id][f], pr[p].head[id][f], main[id][f])]]

\* Mutant: the branch is checked, not its merge.
TilesJobOnBranch(p) == Green(pr[p].head)

\* lint.yml tiles, on the merge with today's main: the shipped corpus builds,
\* and is clean.
TilesJob(p) == BuildBundle(Merged(p), "test") # NoBundle /\ Green(Merged(p))

Lint(p) ==
  /\ pr[p].st = "open" /\ pr[p].gate = "none" /\ Mergeable(p)
  /\ pr' = IF TilesJob(p)
           THEN [pr EXCEPT ![p].gate = "green", ![p].seen = main]
           ELSE [pr EXCEPT ![p].gate = "red"]
  /\ UNCHANGED <<main, pushes, raced, release>>

\* The required check is green; main may have moved since it ran.
Merge(p) ==
  /\ pr[p].st = "open" /\ pr[p].gate = "green" /\ Mergeable(p)
  /\ main' = Merged(p)
  /\ raced' = (raced \/ pr[p].seen # main)
  /\ pr' = [pr EXCEPT ![p] = [NoPR EXCEPT !.st = "merged"]]
  /\ UNCHANGED <<pushes, release>>

DirectPush(e) ==
  /\ pushes < MaxPushes /\ pushes' = pushes + 1
  /\ main' = Edited(main, e) /\ raced' = TRUE
  /\ UNCHANGED <<pr, release>>

-----------------------------------------------------------------------------
\* The build job of a run that a merge or a push to main started: two builds
\* of the commit, at two moments, must not differ.
Build ==
  /\ release.st = "idle" /\ main # release.corpus
  /\ LET at(now) == BuildBundle(main, PublishTime("", "commit", now))
     IN release' = [release EXCEPT
          !.st = IF at("build") = NoBundle \/ at("build") # at("proof")
                 THEN "failed" ELSE "built",
          !.corpus = main, !.built = at("build")]
  /\ UNCHANGED <<main, pr, pushes, raced>>

\* The publish job checks out the same commit, builds it again and signs.
Sign ==
  /\ release.st = "built"
  /\ release' = [release EXCEPT
       !.st = "signed",
       !.signed = BuildBundle(release.corpus,
                              PublishTime("", "commit", "publish"))]
  /\ UNCHANGED <<main, pr, pushes, raced>>

Next ==
  \/ \E p \in PRs : Open(p) \/ Lint(p) \/ Merge(p)
  \/ \E p \in PRs : \/ \E e \in Edits[p] : Edit(p, e)
                    \/ \E id \in Ids : Paste(p, id)
  \/ \E e \in Pushed : DirectPush(e)
  \/ Build \/ Sign

Spec == Init /\ [][Next]_vars

-----------------------------------------------------------------------------
(* What Docker makes of a mount, which no reader here decides.  A short    *)
(* form with a leading dot is a path for it, and so is one that a variable *)
(* stands for; a path behind blanks is counted as one, whatever it does.   *)

DockerVolume(m) ==
  \/ m.form = "short" /\ m.kind = "name"
  \/ m.form = "volume" /\ m.kind # "none"

DockerBind(m) ==
  \/ m.form = "short" /\ m.kind \in {"path", "padded", "disguised"}
  \/ m.form = "bind" /\ m.kind # "none"

DockerAnonymous(m) ==
  \/ m.form = "bare"
  \/ m.form = "volume" /\ m.kind = "none"

\* The mode of a namespace that is not the service's own, any entry of the
\* other keys.
Reaches(o) ==
  o.key \in Namespaces => o.value \in {"host", "service:", "container:"}

\* The keys that take privilege and that no reader reads.
Unread ==
  {"uts", "cgroup", "device_cgroup_rules", "gpus", "runtime", "configs",
   "secrets", "use_api_socket", "post_start"}

\* A fact that the owner is asked about, or that needs no asking.
Consented(d, fact) == fact \in (d.grants \cup Grantless) \ TrustChain

\* What a stack does is answered for: data has a backup class, what reaches
\* out of the containers is granted, no secret is written down, and the web
\* port is behind the node's proxy.  With these exceptions, each of them a
\* thing the readers do not look at: where a top-level volume keeps its data,
\* which may be a path of the node; a path that starts with another dot or a
\* variable, which passes for a volume; a path behind blanks, which passes
\* for a volume with one reader and for a path with the other; the keys in
\* Unread; what is written outside `environment:`; and an anonymous volume,
\* which is noticed only.
Answered(id, d) ==
  /\ \A t \in d.top : t.name \in d.volumes
  /\ \A m \in d.mounts :
       /\ DockerVolume(m) => m.name \in d.volumes
       /\ DockerBind(m) =>
            \/ Consented(d, BindFact(m))
            \/ m.form = "short" /\ m.kind = "padded"
            \/ m.form = "short" /\ m.kind = "disguised" /\ m.name \in d.volumes
       /\ DockerAnonymous(m) => <<"anonymous", m.name>> \in Notices(d)
  /\ \A o \in d.options :
       o.key \notin Unread /\ Reaches(o) => Consented(d, Fact(o))
  /\ \A e \in d.env :
       e.value = "literal" /\ SecretNamed(e.key) /\ e.style # "elsewhere" =>
         <<id, e.svc, e.key>> \in Exempt
  /\ \A p \in d.ports : p.published = d.web =>
       p.host = "127.0.0.1" \/ HostNetwork \in Taken(d)

\* "a corpus that cannot be linted cannot be published either": however a
\* corpus reached main, past a stale check or past all of them, each stack in
\* a signed catalog is answered for, but for the exceptions that Answered
\* names.
SignedIsAnswered ==
  release.st = "signed" =>
    \A id \in Ids : LET d == release.corpus[id]
                    IN d.compose # "none" => Answered(id, d)

\* The linter and the builder, two paths through the same readers, agree on
\* every branch and on main: a tile that is clean is published, and the one
\* thing lint asks for beyond the builder is a reason for the privilege.
LintMeansBuilds ==
  \A corpus \in {main} \cup {pr[p].head : p \in PRs}, id \in Ids :
    LET d == corpus[id]
    IN Accepted(id, d) <=> Problems(id, d) \subseteq {"no why"}

\* main is clean, whatever requests were merged in whatever order, unless one
\* was merged on a main its check had not seen, or main was pushed to.
CleanUnlessRaced == raced \/ Green(main)

\* The block that lint prints does what it says: pasting it takes the refusal
\* of the privilege away and brings no other problem.
PasteFixes ==
  [][\A p \in PRs, id \in Ids :
       Paste(p, id) =>
         Problems(id, pr'[p].head[id]) =
           Problems(id, pr[p].head[id]) \ {"safety", "declare it"}]_vars

\* "is this the artifact we reviewed?": a corpus that builds is never refused
\* as irreproducible, and what is signed is what the build job built, with
\* every field of the committed tile.json in it, also one that nothing here
\* knows.
SignedIsBuilt ==
  /\ release.st = "failed" =>
       \E id \in Ids : ~Accepted(id, release.corpus[id])
  /\ release.st = "signed" =>
       /\ release.signed = release.built
       /\ \A id \in Ids : release.signed.tiles[id].tile.extra
                             = release.corpus[id].extra

=============================================================================

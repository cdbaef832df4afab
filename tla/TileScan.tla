------------------------------ MODULE TileScan ------------------------------
(***************************************************************************)
(* The supply-chain gate of one tile (cmd/tilescan): pull requests that    *)
(* move its image pins, the comparison that lint.yml's supply-chain job    *)
(* runs on them, and the checked-in provenance/<id>.json that -write       *)
(* refreshes, under a vulnerability database that keeps moving.            *)
(*                                                                         *)
(* A pin is a number, its place in the sorted order of references.  Trivy  *)
(* finds vulnerabilities, by today's database, and licenses, by name.      *)
(***************************************************************************)
EXTENDS Integers, FiniteSets

CONSTANTS
  Pins,             \* the pins the tile's images can have
  Repository,       \* the image repository of each pin
  Licenses,         \* the names of the licenses in each pin's image
  MaxCount,         \* bound: the ceilings that are recorded
  Databases,        \* the findings in each pin's image, by one database
  PRs,              \* identities of pull requests
  MaxDbUpdates      \* bound: updates of the vulnerability database

\* nr tells findings of one kind apart.
Finding == [class : {"os-pkgs", "lang-pkgs"}, fixed : BOOLEAN,
            severity : {"LOW", "HIGH", "CRITICAL"}, nr : Nat]

ASSUME ScanAssumption ==
  /\ Pins \subseteq Nat \ {0} /\ IsFiniteSet(Pins)
  /\ DOMAIN Repository = Pins
  /\ Licenses \in [Pins -> SUBSET STRING]
  /\ {MaxCount, MaxDbUpdates} \subseteq Nat
  /\ \A findings \in Databases, x \in Pins :
       findings[x] \subseteq Finding /\ IsFiniteSet(findings[x])

VARIABLES
  db,      \* the findings of each pin, by today's database
  main,    \* the tile on main: its pins and its provenance file
  pr,      \* the state of each pull request
  updates  \* how many updates of the database happened

vars == <<db, main, pr, updates>>

\* The two lists of words; a license is named by the word it contains.
SourceAvailable == {"SSPL", "BUSL", "BUSINESS SOURCE", "ELASTIC-2",
                    "ELASTIC LICENSE", "COMMONS-CLAUSE", "COMMONS CLAUSE"}
Copyleft == {"AGPL", "GPL-3", "SSPL"}

\* image 0: there is no file.  exception: the reviewed ceiling, and whether
\* it has a reason.
NoException == [ceiling |-> 0, reason |-> FALSE]
Exception   == {NoException} \cup [ceiling : 1 .. MaxCount, reason : BOOLEAN]
Provenance ==
  [image : {0} \cup Pins, sourceAvailable : SUBSET SourceAvailable,
   copyleft : SUBSET Copyleft, exception : Exception]
Tree == [images : SUBSET Pins, prov : Provenance]

\* base: the main it branched from; edited: its author set the exception;
\* seen: the pins that its green check compared it with.
PR == [st : {"none", "open", "merged"}, base : Tree, tree : Tree,
       edited : BOOLEAN, gate : {"none", "green", "red"}, seen : SUBSET Pins]

TypeOK ==
  /\ db \in Databases
  /\ main \in Tree
  /\ pr \in [PRs -> PR]
  /\ updates \in 0 .. MaxDbUpdates

NoFile  == [image |-> 0, sourceAvailable |-> {}, copyleft |-> {},
            exception |-> NoException]
NewTile == [images |-> {}, prov |-> NoFile]
NoPR == [st |-> "none", base |-> NewTile, tree |-> NewTile, edited |-> FALSE,
         gate |-> "none", seen |-> {}]

-----------------------------------------------------------------------------
(* A scan.                                                                 *)

Vulns(x) == {v \in db[x] : v.severity \in {"HIGH", "CRITICAL"}}

\* What upstream has fixed in the app's own dependencies.
AppFixable(x) ==
  Cardinality({v \in Vulns(x) : v.fixed /\ v.class = "lang-pkgs"})

Relicensed(x) == Licenses[x] \cap SourceAvailable # {}

-----------------------------------------------------------------------------
(* pairImages.                                                             *)

Of(S, r) == {x \in S : Repository[x] = r}

\* The place of x among the pins of its repository in S.
Place(S, x) == Cardinality({y \in Of(S, Repository[x]) : y <= x})

Least(S) == CHOOSE x \in S : \A y \in S : x <= y

\* Mutant: pairing by position in the two sorted lists.
PairByPosition(old, new, x) ==
  LET at(S, y) == Cardinality({z \in S : z <= y})
      paired == {y \in old : at(old, y) = at(new, x)}
  IN IF paired = {} THEN 0 ELSE Least(paired)

\* The old pin a new pin is compared with, 0 when it is only reported
\* ("added").  The pins of a repository are taken in order: each gets an old
\* pin of it that went away, and once those are used up the first that stayed.
Pair(old, new, x) ==
  LET r    == Repository[x]
      gone == {y \in Of(old \ new, r) :
                 Place(old \ new, y) = Place(new \ old, x)}
      kept == Of(old \cap new, r)
  IN IF gone # {} THEN Least(gone) ELSE IF kept # {} THEN Least(kept) ELSE 0

-----------------------------------------------------------------------------
(* The comparison.                                                         *)

\* A ceiling without a reason is no ceiling.
Ceiling(prov) == IF prov.exception.reason THEN prov.exception.ceiling ELSE 0

\* compareAgainst, one changed pin: worse than the pin it replaces, and not
\* within the ceiling recorded in the tree that is checked.
Regression(was, now, prov) ==
  /\ AppFixable(now) > AppFixable(was)
  /\ ~(Ceiling(prov) > 0 /\ AppFixable(now) <= Ceiling(prov))

\* A tile without pins on the base is new: its images are only reported.
Added(old, new) == {x \in new \ old : old = {} \/ Pair(old, new, x) = 0}

\* Mutant: a new image is not scanned for its licenses.
PassesUnlicensed(old, new, prov) ==
  \A x \in (new \ old) \ Added(old, new) :
    ~Regression(Pair(old, new, x), x, prov)

\* Everything scanned, the run passes when no new image is source-available
\* and no changed pin is a regression.
Passes(old, new, prov) ==
  /\ \A x \in Added(old, new) : ~Relicensed(x)
  /\ \A x \in (new \ old) \ Added(old, new) :
       ~Regression(Pair(old, new, x), x, prov)

-----------------------------------------------------------------------------
(* What -write leaves in the file, and what verifying it reports.          *)

\* Mutant: the scan is written straight over the file.
WriteScanOnly(prov, image) ==
  [image |-> image, sourceAvailable |-> Licenses[image] \cap SourceAvailable,
   copyleft |-> Licenses[image] \cap Copyleft, exception |-> NoException]

\* report: the scan of one image, with the file's exception carried across.
WriteReport(prov, image) ==
  [image |-> image, sourceAvailable |-> Licenses[image] \cap SourceAvailable,
   copyleft |-> Licenses[image] \cap Copyleft, exception |-> prov.exception]

\* Mutant: the first image keeps the file.
WrittenFirst(prov, scanned) ==
  IF scanned = {} THEN prov ELSE WriteReport(prov, Least(scanned))

\* Every image of the tile is written to the one file of the tile, so the last
\* one that could be scanned stays.
Written(prov, scanned) ==
  IF scanned = {} THEN prov
  ELSE WriteReport(prov, CHOOSE x \in scanned : \A y \in scanned : y <= x)

\* report without -write: the file is not what a scan of x gives now, or x has
\* a source-available license or fixable findings of its own.
Reported(tree, x) ==
  {r \in {"drift", "source-available", "app-level"} :
     \/ r = "drift" /\ WriteReport(tree.prov, x) # tree.prov
     \/ r = "source-available" /\ Relicensed(x)
     \/ r = "app-level" /\ AppFixable(x) > 0}

-----------------------------------------------------------------------------
\* The tile is not on main yet, or runs some images; it may have a file that
\* was scanned from one of them, with an exception or without.
Init ==
  /\ db \in Databases
  /\ \E images \in SUBSET {x \in Pins : ~Relicensed(x)}, e \in Exception :
       \E prov \in {NoFile}
                     \cup {WriteReport([exception |-> e], x) : x \in images} :
         main = [images |-> images, prov |-> prov]
  /\ pr = [p \in PRs |-> NoPR]
  /\ updates = 0

-----------------------------------------------------------------------------
(* A pull request.                                                         *)

\* git merges the compose file pin by pin and the provenance file field by
\* field, and gives up when both sides changed the same one.
Clash(base, mine, theirs) == mine # base /\ theirs # base /\ mine # theirs

Pick(base, mine, theirs) == IF mine = base THEN theirs ELSE mine

Mergeable(p) ==
  LET b == pr[p].base  t == pr[p].tree
  IN /\ b.images \ t.images \subseteq main.images
     /\ (t.images \ b.images) \cap main.images = {}
     /\ ~\E f \in DOMAIN b.prov : Clash(b.prov[f], t.prov[f], main.prov[f])

Merged(p) ==
  LET b == pr[p].base  t == pr[p].tree
  IN [images |-> (main.images \ (b.images \ t.images))
                    \cup (t.images \ b.images),
      prov |-> [f \in DOMAIN b.prov |->
                  Pick(b.prov[f], t.prov[f], main.prov[f])]]

\* Pushing to the branch starts the check over.
Branch(p, tree, edited) ==
  /\ pr' = [pr EXCEPT ![p].tree = tree, ![p].edited = edited,
                      ![p].gate = "none", ![p].seen = {}]
  /\ UNCHANGED <<db, main, updates>>

\* A pull request, by Renovate or by hand, gives the tile other pins.
Open(p, images) ==
  /\ pr[p].st = "none" /\ images # main.images
  /\ pr' = [pr EXCEPT ![p] = [NoPR EXCEPT !.st = "open", !.base = main,
                        !.tree = [main EXCEPT !.images = images]]]
  /\ UNCHANGED <<db, main, updates>>

\* Its author runs tilescan -write; some scans may fail.
Write(p, scanned) ==
  /\ pr[p].st = "open" /\ scanned \subseteq pr[p].tree.images
  /\ Branch(p, [pr[p].tree EXCEPT !.prov = Written(@, scanned)],
            pr[p].edited)

\* Its author accepts a ceiling, or forgets the reason.
Accept(p, exception) ==
  /\ pr[p].st = "open" /\ pr[p].tree.prov.image # 0
  /\ pr[p].tree.prov.exception # exception
  /\ Branch(p, [pr[p].tree EXCEPT !.prov.exception = exception], TRUE)

\* lint.yml supply-chain, on the merge with today's main: both sides are
\* scanned in this one run.  A scan that fails fails the run; a base whose
\* compose file `git show` cannot give has no pins.
Gate(p) ==
  /\ pr[p].st = "open" /\ pr[p].gate = "none" /\ Mergeable(p)
  /\ \/ pr' = [pr EXCEPT ![p].gate = "red"]
     \/ \E imagesAtRef \in {main.images, {}} :
          /\ Passes(imagesAtRef, Merged(p).images, Merged(p).prov)
          /\ pr' = [pr EXCEPT ![p].gate = "green", ![p].seen = imagesAtRef]
  /\ UNCHANGED <<db, main, updates>>

\* The required check is green; main may have moved since it ran.
Merge(p) ==
  /\ pr[p].st = "open" /\ pr[p].gate = "green" /\ Mergeable(p)
  /\ main' = Merged(p)
  /\ pr' = [pr EXCEPT ![p] = [NoPR EXCEPT !.st = "merged"]]
  /\ UNCHANGED <<db, updates>>

\* The vulnerability database learns something.
DbUpdate ==
  /\ updates < MaxDbUpdates /\ updates' = updates + 1
  /\ db' \in Databases \ {db}
  /\ UNCHANGED <<main, pr>>

Next ==
  \/ \E p \in PRs, S \in (SUBSET Pins) \ {{}} : Open(p, S) \/ Write(p, S)
  \/ \E p \in PRs, e \in Exception : Accept(p, e)
  \/ \E p \in PRs : Gate(p) \/ Merge(p)
  \/ DbUpdate

Spec == Init /\ [][Next]_vars

-----------------------------------------------------------------------------
\* What the maintainers could have fixed, as scan.go describes it.
OwnFixed(x) == Cardinality({v \in db[x] : /\ v.fixed /\ v.class = "lang-pkgs"
                                          /\ v.severity # "LOW"})

\* "an update may not make things worse", on the counts of the gate's own run:
\* when it turns green, no repository that did not gain pins, or kept one, is
\* worse than its worst pin was, beyond a ceiling with a reason.  However the
\* pins of a repository were moved, doubled or swapped.  A base that could not
\* be read waives this, and only this.
RatchetHolds ==
  [][\A p \in PRs : pr[p].gate = "none" /\ pr'[p].gate = "green" =>
       LET old == pr'[p].seen  t == Merged(p)  new == t.images
       IN \A x \in new \ old :
            LET r == Repository[x]  e == t.prov.exception
            IN \/ Of(old, r) = {}
               \/ /\ Cardinality(Of(new, r)) > Cardinality(Of(old, r))
                  /\ Of(old \cap new, r) = {}
               \/ \E y \in Of(old, r) : OwnFixed(x) <= OwnFixed(y)
               \/ e.reason /\ OwnFixed(x) <= e.ceiling]_vars

\* A tile gets no image with a source-available license of a repository it did
\* not run: every one that comes to main was, by a green check, compared with a
\* main that ran an image of its repository, also when main moved between that
\* check and the merge, or could not be read by it.  (The licenses of a moved
\* pin are not read at all.)
SourceAvailableOnlyReplaces ==
  [][\A p \in PRs : pr[p].st = "open" /\ pr'[p].st = "merged" =>
       \A x \in main'.images \ main.images :
         Licenses[x] \cap SourceAvailable # {} =>
           Of(pr[p].seen, Repository[x]) # {}]_vars

\* A reviewed exception leaves or enters main only by a request whose author
\* touched it, however many times -write rewrote the file in between, by
\* whomever, on whichever main.
ExceptionsAreReviewed ==
  [][main'.prov.exception # main.prov.exception =>
       \E p \in PRs :
         pr[p].st = "open" /\ pr'[p].st = "merged" /\ pr[p].edited]_vars

\* What -write leaves of a tile verifies for one image, the last that was
\* scanned, and every other image is reported as drift: the tile has one file.
OneImageVerifies ==
  [][\A p \in PRs : \A S \in (SUBSET pr[p].tree.images) \ {{}} :
       Write(p, S) =>
         \A x \in pr[p].tree.images :
           "drift" \notin Reported(pr'[p].tree, x) <=>
             x \in S /\ \A y \in S : y <= x]_vars

=============================================================================

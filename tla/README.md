# A TLA+ model of rasputin-app-catalog

The repository is the corpus of app tiles of Rasputin and the machinery that
gets a tile from a request to a cluster: an intake on GitHub issues, the checks
of a pull request, the pipeline that signs and publishes a catalog version, and
the one-shot scripts inside tiles that migrate or seed what an earlier install
left behind. The Go code is a set of short-lived commands; what is hard lies
between them: workflow runs that interleave, state that is read in one step and
used in another, services that fail half way, and checks that go stale.

## 1. Inventory

| Part | State | Operations | Talks to |
|---|---|---|---|
| Release pipeline (`.github/workflows/release.yml`, `scripts/release-target-guard.sh`) | `main`, each run's step and `created_tag`, the `catalog-vN` tags, the releases and their prerelease flag | build, gate, sign, guard, `gh release create`, guard, delete; dispatch, rerun, promotion | every merge starts a run; runs meet only on the remote |
| Catalog feed | the release of each version; what each cluster holds | publish, promote, poll and adopt | the control plane, in another repository |
| Version job (`lint.yml`, `version`) | the check of a pull request, VERSION on both sides | open, update, check, merge | reads the releases; its merge starts a release run |
| Supply-chain gate (`cmd/tilescan`, `internal/scan`, `lint.yml` `supply-chain`) | the image pins of a tile, `provenance/<id>.json` with its reviewed exception | `-baseline` comparison, `-write`, verification | trivy and its moving database; git's three-way merge |
| Database bridges (`tiles/romm`, `tiles/immich`) | the passwords in a database's volume, the one-shot's position | wait, log in, alter, verify; deploy, stop, revert, backup, restore | the database, the app that waits for the one-shot |
| Config seed (`tiles/home-assistant`) | five files in a volume | test, redirect, write | Home Assistant, the owner |
| Intake (`app-request.yml`, `draft-tile.yml`, `cmd/triage`) | an issue's body and labels, triage runs, dispatches | edit, validate, comment, label; require, capture, draft | the author, the drafting agent |
| Registry probe (`internal/registry`) | one retry loop: tries, the response in hand, the sleep | token, manifest, retry, back off | a registry; `cmd/triage` and `cmd/tilelint` judge its answer |
| Compose readers (`internal/compose`) | none: functions of a compose file | extract the safety facts, list volumes, parse ports, find literal secrets | called by lint and by the builder, each on its own |
| Tile lint (`cmd/tilelint`) | none: a function of a tile directory; the required check it feeds | check a tile, print notices, suggest a declaration | the readers, the external `tileschema`, the registry probe |
| Bundle builder (`internal/corpus`, `cmd/catalogbundle`) | none: a function of the corpus and of `SOURCE_DATE_EPOCH` | load, refuse, publish; built twice by `release.yml`, then a third time to be signed | the readers, `tileschema`; the lint job runs it too, through its tests |
| Renovate, secret and workflow scanners, the other tiles | none of their own | | |

What is hard in each, and what makes it correct:

* **Release pipeline.** There is no `concurrency:` group. The gate reads the
  release list minutes before the release is created, the tag guard runs before
  and after the creation, a runner can be lost between any two steps, and other
  hands push tags and releases. Correct means: a version has one publisher,
  its tag names the commit its bundle was built from, nothing but a run's own
  unproven release is ever taken down, and no corpus is lost without a red run.
  Taking a release down is two requests, and in between the version is free for
  another run.
* **Feed.** A version's bundle never changes; promotion does not take a version
  away; what is published reaches every cluster of its channel.
* **Version job.** A green check outlives the main it was made on. It must be a
  faithful early copy of the release gate and must not let a corpus change
  through without a new VERSION.
* **Supply-chain gate.** Pins are paired by their order among those that went
  and stayed; the exception is a human decision inside a file that a tool
  rewrites; the check compares against the main of its own run.
* **Bridges.** Statements commit one by one; a restored backup can hold any
  intermediate state; the app must never start on a published password, and the
  bridge must never be locked out by its own unfinished work. It gives up after
  120 seconds, and nothing in the repository starts it again.
* **Config seed.** A shell redirection creates a file before it is written, and
  a file that exists counts as seeded.
* **Intake.** Edits start overlapping runs; the label and the body are read in
  two steps.
* **Readers, lint and builder.** What may ship is decided twice, by rules that
  are written apart (`checkTile` and `BuildBundle`), on facts that four readers
  extract apart, each with its own idea of what an entry of a compose file is.
  A check can be stale when its request is merged, and main can be pushed to.
  Correct means: the two agree on every tile; a stack whose catalog is signed
  is answered for (backup class, grant, no written secret, web port behind the
  proxy) even when no check saw it, as far as the readers look; what they do not
  look at is known by name; the bundle that is signed is the one that was built;
  and the declaration that lint suggests is worth pasting.
* **Probe.** Every body is closed, only a real answer ends the retries early,
  the sleep is bounded, and two programs that judge one answer agree.

## 2. Plan

Order, most important behaviour first; done unless marked.

1. `CatalogRelease`, then `CatalogReleaseProofs`.
2. `CatalogFeed` (abstract) and `CatalogFleet`, its refinement by the pipeline.
3. `CatalogMerge`, composed with `CatalogRelease`; `CatalogComposedProofs` for
   this composition and the one with the fleet.
4. `LegacyBridge`, `ConfigSeed`; `LegacyBridgeProofs`, `ConfigSeedProofs`.
5. `TileScan`, with findings by class and severity, licenses by name, and a
   base that `git show` cannot read; `TileScanProofs`.
6. `AppRequest` and `Intake`: the checks of `cmd/triage` and the two workflows
   around them.
7. `RegistryProbe` and `RegistryProbeProofs`; `IntakeProofs`.
8. `ComposeReaders`, `TileRules` and `TileGates`: from the readers to what lint
   and the builder decide, and from there to the signed catalog; then
   `TileGatesProofs`.
9. The deletion of a release as the two requests it is, bridges that nobody
   deploys again, and keys of a compose file that no reader reads. Every safety
   and action property that a passing run checks has its theorem. *Next*:
   `FleetOneBundle` and `ImplementsFeed` rest on a remote without stray tags;
   what a stray tag breaks for a cluster is stated only in section 7.

Abstract specifications: `CatalogFeed` (what the catalog promises a cluster) is
the one stated and checked. The modules keep recursion out of every
specification, so that each can be proved about.

## 3. The modules and the code

`CatalogRelease` has one action per step of the `publish` job: `Build`, `Gate`,
`Sign`, `GuardBefore`, `CreateRefused`/`CreateRelease`, `GuardAfter`,
`DeleteRelease`, `CleanupTag`. A commit
is its place in `main`, with the VERSION and the `tiles/` content the workflow
reads of it. `TargetGuard` is the guard script by its exit statuses, 2 ("could
not be read") always possible. `Fault` ends a run at any step with what it did
in place; `Rerun` starts it over on the same commit. `Promote`, `StrayTag` and
`FixtureRelease` are other hands on the remote: the promotion the header
documents, a tag nobody expected, and the hardware fixtures that lint.yml says
are published outside the merge flow. `gh release delete --cleanup-tag` is two
requests: `DeleteRelease` removes the release or fails, and `CleanupTag` then
deletes the tag by its name, whatever it names by that time, or fails too; any
other step, and `Fault`, may come between them. `tookDown` is a history
variable, true of a run whose first request went through; only the properties
read it.

`CatalogFeed` is the promise with the machinery left out: versions appear,
may be promoted, and a cluster adopts the highest version its channel takes if
it exceeds what it holds. The control plane is not in this repository; its rules
are those release.yml's header states. `CatalogFleet` adds polling clusters to
the pipeline and maps `feed` to `releases`.

`CatalogMerge` adds pull requests: `Check` is the `version` job on the merge of
the branch with today's main (with the best-effort release lookup failing or
not), and `Merge` lands on what main holds by then, through git's three-way
merge of the one-line VERSION file, and starts the run of `Push`.

`LegacyBridge` is both bridges. `tile` fixes what the script alters, in which
order, and as whom; `Login` returns the script's 0, 1 and 2, and `TryLogin` is
one login with its `case`. The actions around it are compose and the node: a
deploy restarts the one-shot, `restart: "no"` leaves a killed one where it was,
the app waits for `service_completed_successfully`, a revert starts the app
without the bridge, a backup is a copy of the volume at any moment. Nothing in
the repository deploys again after a failure, so `Up` is always possible and
never owed.

`ConfigSeed` splits every write into the redirection that creates the file and
the command that fills it, and keeps in `torn` what an interruption left behind.

`TileScan` follows one tile. A pin is its place in the sorted references;
`Pair` is `pairImages`, `Passes` is `compareAgainst`, `WriteReport`, `Written`
and `Reported` are `report`, writing the file or verifying it. What trivy finds
in an image is a set of findings, with a class, a severity and whether upstream
has fixed it, by today's database, and a set of license names; `AppFixable`,
`SourceAvailable` and `Copyleft` are what `internal/scan` makes of them. `Gate`
compares with the main of its own run, or with no pins at all when `git show`
cannot read that main. Pull requests are merged field by field.

`AppRequest` is `cmd/triage` on one issue body, a sequence of sections:
`ParseForm` (the last section of a label counts), `IdBlocks` and `ImageBlocks`
(the id, the tile that exists already, the moving tag) and `TriageBlocks` (what
the registry's answer means for the architecture that was claimed). `Intake`
gives every wording of the issue its own run of app-request.yml, which has no
concurrency group, on the tile files and the registry's answer that this run
finds; `gh issue edit` is two requests in either order. draft-tile.yml has a
group: a dispatch waits, supersedes an older waiting one, and reads the label
and the body in two steps.

`RegistryProbe` is `registry.Platforms`: `Request` is one turn of the loop of
`get`, `Wait` computes the pause with Go's integer overflow, `Return` hands the
response to the caller who closes it. `TriageBlocks`, `InferArch` (both of
`AppRequest`) and `LintRefuses` are what the two commands make of the answer.

`ComposeReaders`, `TileRules` and `TileGates` build on one another. A compose
file is a record with the set of its entries of each kind; an entry is its
service, how it is spelled and its value, so that the spellings a reader could
miss are told apart and the text is not. A document also has what no reader
looks at, so that a property can say what slips through: `Privileges` are the
keys of a service that take privilege, written down from the compose
specification and not from the struct that reads them (`Listed` and
`Namespaces`); `TopVolume` has where its data is kept, of which `Named` reads the
name alone; a mount's source may be padded with blanks, which `mountSource`
trims and `bindSource` does not; and a secret may stand outside `environment:`. `BindSource`, `MountNamed` and
`MountAnonymous` are the three decisions on a mount that the code takes in
different files; `Readable` is the port parser, `LiteralSecrets` and `Taken` the
two walks over services. `TileRules` has `Problems` and `Notices` for
`checkTile`, `Pasted` and `SnippetFixes` for the declaration it suggests,
`Refused`, `PublishedTile` and `BuildBundle` for the builder, and the validators
of `tileschema`, another module of which only the use is here. `TileGates` puts
them in motion: requests that edit tile directories (`Edit`, `Paste`), the tiles
job on the merge with today's main (`Lint`), a merge that may land on another
main, direct pushes, and one run of the release build (`Build`, `Sign`). The
module also says what Docker makes of a mount (`DockerVolume`, `DockerBind`,
`DockerAnonymous`) and of a privileged key (`Reaches`), for `SignedIsAnswered` to
compare the readers with. `Answered` asks this of every entry of a document and
names its exceptions one by one; a key that the code stopped reading (the mutant
`ListedAtFirst` reads what it read before #195) is not among them.

A type invariant stands in every module with state. Those of `TileScan`,
`ConfigSeed` and `CatalogMerge` are documentation; the runs list the others.

A time.Duration of `RegistryProbe` counts ticks from `-Limit` up to `Limit - 1`,
whatever its width; `ProbeAssumption` says that the pauses the code doubles
(`baseDelay << n`, one, two and four seconds) fit, and `Limit` is otherwise
free.

Definitions introduced by a comment "Mutant:" are plausible bugs, used by
nothing; they show that a property can fail.

## 4. The runs

| Run | What it shows | Bounds |
|---|---|---|
| `release` | `PublishedIsProven`, `OnePublisher`, `NoSilentLoss`, `DeletesOnlyItsOwn` | 3 runs, 2 corpora, 2 versions, 3 commits; one rerun, stray tag and fixture |
| `fleet` | the pipeline implements the feed; one bundle per version; versions reach clusters | 2 runs, 3 versions, 2 commits, a fixture; one cluster per channel |
| `merge` | `EarlyGateAgrees`: the version job agrees with the gate unless a version was released since | 1 pull request beside direct pushes, a fixture; branches may be stale |
| `merge_strict` | `CorpusChangeBumps`, `MergedIsReleased` | 2 pull requests kept up to date, 2 runs, 3 versions |
| `bridges` | `StepTwoMeansAll`, `AppOnlyOnMoved`, `RefusedOnlyUnknown`, `EventuallyServes` | both tiles, 3 faults, 2 restores |
| `config_seed` | `OnlyTornMissing`, `EditsLostOnlyWithConfiguration` | 2 interruptions, 1 removal |
| `tilescan` | `RatchetHolds`, `SourceAvailableOnlyReplaces`, `OneImageVerifies`, `ExceptionsAreReviewed` | 3 pins, 2 repositories, 2 pull requests, 2 databases |
| `tile_gates` | `SignedIsAnswered`, `LintMeansBuilds`, `CleanUnlessRaced`, `SignedIsBuilt`, `PasteFixes` | 2 tiles, 2 requests with 2 edits each out of 23 and 2, 1 direct push, 1 release |
| `intake` | `LabelIsNewest`, `OneAgentBehindTriage`, `EveryEditAnswered`, `DispatchEnds` | 3 bodies, 2 wordings of the issue, 2 dispatches, 1 fault |
| `registry_probe` | `BodiesClosed`, `NeverParked`, `GatesAgree`, `OnlyRealAnswers`, `ProbeReturns`, `HeaderObeyed` | 4 attempts, 9 headers, 4 platforms |
| `claim_backwards`, `claim_cleared` | a sentence of the repository that the code does not keep (section 7) | the smallest instance that shows it |

Why the bounds are enough. *release*: two runs can collide on a version and a
third can be the push that lost its corpus or a dispatch; two versions make
"above" and "not above"; the theorems of section 6 remove the bound for these
five properties, which need the whole run: a stray tag on the commit of one run
makes another run of that VERSION take its release down, and the first publishes
on the tag before it is deleted. *fleet*: a version published below another, promoted before or
after a poll, beside a fixture. *merge*: one request whose check goes stale
through direct pushes and fixtures. *merge_strict*: two requests that pass on
the same main. *bridges*: a fault inside the statements, a backup of that state,
its restore, and a fault in the repair, which stays when nobody deploys again.
*config_seed*: an interruption in each
branch. *tilescan*: pins {1,2} of one repository and 3 of another give a pin
that is kept, replaced, doubled, dropped or moved across repositories, and two
requests make each other's checks stale; their images have findings on both
sides of each filter (class, severity, fixed) and licenses of both word lists.
*tile_gates*: the two tiles are romm, with a bridge whose literal is exempt, and
home-assistant, which takes the host's network beside a port; two edits make
every pair that must change together (a mount and its class, a privilege and the
pasted block), and the second request takes away what the first relies on. The
theorems remove these bounds for all six properties. *intake*: one overlap, and
a waiting, a running and a superseded dispatch; the bodies are complete,
overclaiming, and one whose last section takes an earlier one back.
*registry_probe*: the code's four attempts; a Duration below 32 ticks with a
second of 3, so that 10 seconds fit and 11 wrap; section 6 has it for any width.
`merge` and `release` use symmetry over identities; no run that checks liveness
does.

`CHECK_DEADLOCK FALSE` stands where the bounds or the code let everything come
to rest (no commits left, a call that returned). `bridges` and `config_seed`
never rest and are checked for deadlock.

`StrictChecks` of `CatalogMerge` is branch protection, a setting of the hosting
site that is not in the repository, so both values are checked:
`EarlyGateAgrees` needs neither it nor discipline; `CorpusChangeBumps` and
`MergedIsReleased` are shown with it. `Disciplined` says that nobody pushes to
main directly or changes VERSION in a request that leaves `tiles/` alone.

## 5. Fairness

* `fleet`: each cluster keeps polling. No step of a workflow is owed.
* `merge_strict`: a started run is carried on (a runner is found for it). A
  `Fault` may still end it, which `MergedIsReleased` excuses by name.
* `bridges`: the script runs on, `restart: unless-stopped` brings the database
  back, and compose starts the app once the one-shot succeeded. Giving up after
  120 seconds is possible whenever the database is down, and never owed; neither
  is another deploy. So `EventuallyServes` has an app that stays down behind a
  failed bridge as one of its outcomes, and says that nothing else keeps it down
  while deploys are tried again, but an admin password changed by hand.
* `intake`: runs are carried out and `timeout-minutes` ends the agent. Nobody
  has to edit or dispatch.
* `registry_probe`: the client of probe.go has a timeout, so each request ends.

## 6. Proofs

`CatalogReleaseProofs` proves, for any set of runs and corpora and any bounds,
`TypeOK`, `PublishedIsProven`, `OnePublisher`, `NoSilentLoss` and
`DeletesOnlyItsOwn`. It assumes only the constants' types (`BoundsAssumption`)
and that `NoRelease` is no release (`NoReleaseAssumption`).

None of the properties is inductive. A run that is about to prove its tag has
not published yet, but if it could lose its release to another run, both would
later report success; so the invariant `ReleaseInv` speaks of ownership from
the creation on: a run in `proof` or `published` owns the release of its
version (`Owned`), no two own one version, and nobody owns version 1, which
main started from (`FirstKept`). It is `CoreInv` and `TagInv`, proved one after
the other. `TagInv` is about tags: without a stray tag, a tag and its release
come and go together and agree (`JobsTags`), so only a stray tag makes a run take
its release down (`TakenDown`), and what a published run still has, its tag or
another run to have lost it to, outlasts every step (`TagProven`). For
`NoSilentLoss` it adds the history of
main: each commit after the first has a push run (`EveryPushRuns`), a run that
found nothing to publish was of a commit equal to its predecessor
(`NothingIsSame`), and so each corpus was brought by a commit that changed it
(`EveryCorpusBrought`), whose run cannot have ended in "nothing". `OnMain` keeps
the commits named by runs and bundles inside main. The proof has one lemma per
part and per group of actions that disturb it.

Its last section is about a remote where nothing but the job pushes catalog-vN
tags (`MaxStrays = 0`, so `NoStrays`): by `TagInv` no run is ever about to delete
anything, and all a step does to the releases is to add one or promote one
(`FeedStep`, lemma `BundlesStay`).

`CatalogComposedProofs` rests on it. It proves, under that assumption and for
any clusters, that the pipeline and the polls implement `CatalogFeed`
(`ImplementsFeed`: each step is a `Publish`, a `PromoteInFeed`, an `Adopt` or a
stutter), and `FleetOneBundle`, because what a cluster holds is still what is
published under that version (`HeldIsPublished`).

It also proves, for any pull requests and whatever the settings, that
`CatalogMerge` implements `CatalogRelease` (`MergeImplementsRelease`), so that
every theorem of the pipeline holds of changes that come by pull request. The
invariant `MergeInv` says of each pull request what outlives the check: its
commit is one of main (`Anchored`), a green check still means what it meant as
long as main has not moved (`GreenMeans`), and what it said of the releases it
saw is true of the commit the pull request became (`SeenBelow`). From it follow
`CorpusChangeBumps`, for `StrictChecks` and `Disciplined`, since an up-to-date
branch was checked against the main it is merged into, and, for `MaxStrays = 0`,
`EarlyGateAgrees`: each way a run can be refused shows a release at or above its
version, which the check had not seen, and which stays.

`LegacyBridgeProofs` proves `TypeOK`, `StepTwoMeansAll`, `AppOnlyOnMoved` and
`RefusedOnlyUnknown` for any tiles whose script alters the app's account last
and every account once (`BridgeAssumption`, true of both compose files), and any
number of faults, backups, restores and reverts. `BridgeInv` adds what the
script knows at each statement: what it has sent is in the database
(`SentIsAltered`), it fell back to the legacy password, or gave up, only after
the platform's was refused (`LegacyAfterRefusal`), and a success is of the
database that is still there (`SuccessIsMoved`): whatever replaces the volume
also takes the success away.

`ConfigSeedProofs` proves `OnlyTornMissing` and `EditsLostOnlyWithConfiguration`
for any number of interruptions and removals. `SeedInv` follows a write through
its branch: what is left to write fits the branch the script is in
(`BranchFits`), a file that is neither absent nor whole was torn or is open now
(`PartialIsTorn`), an include is absent only where configuration.yaml is or
where its branch still owes it (`AbsentIsOwed`), a test that was passed stays
true (`TestsPassed`), and no include was edited before the branch that writes it
(`NoEditsBefore`).

`TileScanProofs` proves the four properties of `tilescan` and the types, for any
finite set of pins, any repositories, licenses, databases, ceilings and pull
requests (`ScanAssumption`). Under `RatchetHolds` lies a fact about numbering:
the elements of a finite set of numbers take all the places from one to its
cardinality (`PlacesTaken`, by the pigeonhole principle of the library instead
of an induction). So a new pin that `Pair` leaves without an old one has a place
beyond those of all the pins its repository lost: the repository gained pins
(`UnpairedIsGain`). Any other is compared with an old pin of its own repository
(`PairIsOld`). `SourceAvailableOnlyReplaces` needs that a green check compared
whatever the request brings (`GreenCompared`), which outlives any move of main
because it speaks of the pins the check saw; `ExceptionsAreReviewed` that a
branch nobody touched the exception of still has that of its base, through every
`-write` (`UneditedIsBase`).

`RegistryProbeProofs` proves all its safety properties for any number of
attempts, any delays, headers and platforms and any width of a Duration
(`ProbeAssumption`). `BodiesClosed` and `OnlyRealAnswers` follow from `InHand`:
a body is open exactly while a response is in hand, and nothing is in hand
between two fetches. `Answered` says that an answer without an error is the
image's own list without attestations, from which `GatesAgree` follows by cases
on the claims. For `NeverParked` the invariant `SleptBounded` counts the pauses
made so far (`Pauses`) and bounds each by the cap; `PauseBounded` is the lemma
on `wait` behind it and behind `HeaderObeyed`: between nothing and the cap, and
what was asked for where the seconds fit (`WrapFits`). That the doubled pauses
fit a Duration is assumed and not derived, since powers of two need an
induction; it also gives them their type.

`IntakeProofs` proves `TypeOK`, `OneAgentBehindTriage` and `LabelIsNewest` for
any bodies and answers of a registry and any number of edits, dispatches and
failures (`IntakeAssumption`: the types of the constants, and that an image
section holds one of the forms of image that `AppRequest` tells apart).
`OneAgentBehindTriage` speaks of the agent alone and is not inductive: the
invariant `IntakeInv` follows a passed verdict from the run that reached it
(`VerdictsFit`: it can only be of a body that `cmd/triage` passes) to the label
and to the dispatch that has read the label (`BehindTriage`), and says that one
dispatch works at a time (`OneWorks`). `PassedIsFitting` derives from the checks
of `cmd/triage` what a passed form has; that the last section of a label exists
at all is `LastPlace`. For `LabelIsNewest`, `LabelInv` says that a newest run
that overlapped with no other works alone, and that at each moment the labels,
together with the requests it has still to make, come to its verdict
(`Promise`): whatever order the two requests of `gh issue edit` take.

`TileGatesProofs` proves all six properties of `tile_gates`, for any corpus of
any tiles, any entries, any word list, exemptions and grants, any number of
requests and edits: `GatesAssumption` only says that the corpus at the start
consists of tile directories and that edits set fields to values they have. Two
of the theorems rest on lemmas about the rules alone: `SameVerdict` (a tile is
accepted by the builder exactly when lint has nothing but a missing reason to
report), `AcceptedIsAnswered` (what the readers find covers what Docker would
do, with the exceptions that `Answered` names) and `PastedIsFixed`. The invariant `GatesInv` adds to the types what is not
inductive in the properties: a green check is of an open request and of its
merge with the main it was made on (`GreenWasSeen`, needed for
`CleanUnlessRaced`), and what a release run has in hand is the bundle of its
corpus at the time of its commit (`InHand`), from which both the signature's
theorems follow by `BundleMeansAccepted`.

Model-checked only: everything under fairness (`FleetReached`,
`MergedIsReleased`, `EventuallyServes`, `EveryEditAnswered`, `DispatchEnds`,
`ProbeReturns`), which is out of reach of the provers used. The two runs that
end in a violation have nothing to prove.

## 7. Where the text and the code part

Two runs end in a violation, each with its finding in `PROJECT.json`:

* `claim_backwards`: "this job refuses to republish or go backwards"
  (release.yml:19-20); two interleaved runs publish a lower version after a
  higher one, because the gate's list is read long before the creation.
* `claim_cleared`: "Refuse anything triage has not cleared"
  (draft-tile.yml:92); an edit after the label was set is drafted from.

Met while modelling, and shown by the shape of a property that holds:

* "A merge that changes no tiles has nothing to publish and says so, rather
  than failing" (release.yml:22-24): its run can overtake the run of the corpus
  merge before it and collide with it. `OnePublisher` still holds.
* "A tag that already existed is never deleted" (release.yml:356-357): a tag
  pushed between the first guard and the creation is deleted after the release.
  Worse, between the two requests of `gh release delete --cleanup-tag` a run of
  the same VERSION whose commit this tag names finds the release gone and the
  tag right, creates, proves and ends green, and then loses the tag.
  `DeletesOnlyItsOwn` says exactly which release and which tag can go, and
  `PublishedIsProven` what a published run keeps for good: its release and its
  bundle.
* "so no cluster can fetch a bundle whose tag names another commit"
  (release.yml:354-356): the release is public until it is deleted.
  `ImplementsFeed` is therefore shown without stray tags.
* "1 password refused (ERROR 1045), 2 any other failure" (romm compose :91-92):
  the final `if ! login` reads both as a refusal. The app still does not start.
* "seeds the trust settings BEFORE Home Assistant starts" (home-assistant
  compose :8-9): not after an interruption between redirection and write;
  `OnlyTornMissing` says that this is the only way.
* "never clobbers an owner's edits" (home-assistant compose :45-46): not of the
  includes once configuration.yaml was removed;
  `EditsLostOnlyWithConfiguration`.
* "Finding one FAILS the gate" (scan.go:19-23), of a source-available license:
  the licenses of a re-pinned image are not read.
  `SourceAvailableOnlyReplaces` says what is left of the promise.
* "A pin whose repository the tile never carried is returned in added"
  (tilescan main.go:319-320): so are further pins of a repository whose old
  pins are used up; `RatchetHolds` carries that case.
* "is obeyed over our own guess, capped" (probe.go:60-62): not for a number of
  seconds that overflows the multiplication; `HeaderObeyed` has the bound.
* "tilescan verify provenance matches", "tilescan -write refresh the checked-in
  provenance" (tilescan main.go:10-11): every image of a tile is written to the
  tile's one file, so after a refresh all but the last that was scanned are
  reported as drift. `OneImageVerifies` says just that.
* "bindSource above [...] deliberately reports nothing for the other two cases"
  (volumes.go:107-109), named and anonymous: of an anonymous `/target` it
  reports a bind mount of that path, which then asks for a grant.
* "/path:/target is a bind" (volumes.go:105): a short mount whose source starts
  with a dot that is neither `./` nor `../`, or with a variable that stands for a
  path, passes for a named volume; and a path behind blanks is a bind for
  `mountSource`, which trims (volumes.go:113), and a volume for `bindSource`,
  which does not (extract.go:341), so that neither asks for anything.
* "Anything not named here is irrelevant to the checks" (extract.go:22-23): `uts`,
  `cgroup`, `device_cgroup_rules`, `gpus`, `runtime`, `configs`, `secrets`,
  `use_api_socket` and `post_start` take privilege and are not named there.
* "EVERY named volume a stack creates must carry a classification"
  (volumes.go:26-27): it does, but only the keys of the top-level `volumes:` are
  read (volumes.go:71), and `driver_opts: {o: bind, device: ...}` under one makes
  it a path of the node that no grant covers.
* "`command:` and the like stay with reviewers" (literals.go:24-25): a literal
  secret outside `environment:` is signed. `Answered` names all of these, and
  `SignedIsAnswered` holds of everything else.
* The suggested block holds `TODO` as the reason, and a reason is anything that
  is not empty: pasting it silences "no why". `BuildBundle` does not ask for a
  reason at all, the one difference that `LintMeansBuilds` leaves.
* A triage-passed label outlives the request: it stays when the tile was merged
  meanwhile, since only a new wording is triaged again.

## 8. Not modelled

Force-pushes to main, draft releases (and that the hosting site may turn a
release into a draft when its tag is deleted), labels edited by hand, the
hundred-release limit of `gh release list`, two requests that push to one
`tile/<id>` branch (the branch is chosen by the agent's prompt), a login that
hangs beyond the client's own timeout, an owner who edits Home Assistant's files
in the very moment the one-shot writes them, and the contents of signing.

Of a compose file: what an unread key, a top-level volume's `driver_opts` or a
string outside `environment:` goes on to do is not modelled, only that it is
there and that nobody asks; `Privileges` is a list written for this model, and a
key missing from it and from the readers would be missed by both.

Of the Go code: `tileschema` is another module, so `Bundle.Validate` and the
validators are modelled as this repository uses them; YAML and JSON parsing, the
order in which problems are printed, the texts that are echoed into a comment,
the pointers to the secrets guide (`withSecretsContract`), the listing of the
tiles that ship and the image lines that `tilescan` greps, and the emptied
`ComposeYAML` of a bundle entry, which the wire format leaves out anyway. git is
modelled by what merges (entry by entry of a set, one side of a field); that it
also refuses adjacent lines is left out, which only admits more merges. The
weekly probe of every tile's architectures is a call of `RegistryProbe` without
anything to interleave with.

Renovate is external: its pull requests are those of `TileScan` and
`CatalogMerge`. `gitleaks.yml` and the other tiles' compose files have no logic
of their own, and the functional tests run the bridges that `LegacyBridge`
models.

----------------------------- MODULE TileRules ------------------------------
(***************************************************************************)
(* The rules of a tile directory: the loader and the bundle builder        *)
(* (internal/corpus, cmd/catalogbundle) and the linter (cmd/tilelint),     *)
(* with the shared validators of tileschema, another module, as this       *)
(* repository uses them.                                                   *)
(*                                                                         *)
(* A directory is one record: the fields of its tile.json and the entries  *)
(* of its docker-compose.yml.                                              *)
(***************************************************************************)
EXTENDS ComposeReaders

CONSTANTS
  Svcs, Names, Numbers, Keys, Options,  \* what the entries are made of
  Grantless,   \* tileschema: the facts that need no grant
  Rooted,      \* tileschema: the facts that amount to root on the node
  TrustChain   \* tileschema: the facts that no declaration permits

\* json: no file, one that does not parse, that has another id, that
\* ValidateTile refuses for itself, or a good one.  A field of Sets holds a
\* set of its values, the others hold one.
Values ==
  [json |-> {"none", "garbled", "other id", "invalid", "tile"},
   status |-> {"available", "preview"}, web |-> Numbers \cup {0},
   tier |-> {"", "routine", "elevated", "host-trusting"},
   why |-> {"", "TODO", "reason"}, hardware |-> BOOLEAN, volumes |-> Names,
   grants |-> [key : Privileges \cup {"bind"}, value : Names \cup Options],
   requires |-> {"privilege-tiers-v1"}, extra |-> {"unknown field"},
   compose |-> {"none", "unreadable", "garbled", "stack"},
   images |-> [svc : Svcs, image : {"", "build", "tagged", "pinned"}],
   top |-> TopVolume(Names), mounts |-> Mount(Svcs, Names),
   ports |-> Port(Svcs, Numbers \cup {0}), env |-> Env(Svcs, Keys),
   options |-> Option(Svcs, Options)]

Sets == {"volumes", "grants", "requires", "extra", "images", "top", "mounts",
         "ports", "env", "options"}

Fits(f, value) == value \in Values[f]

IsDir(d) ==
  /\ DOMAIN d = DOMAIN Values
  /\ \A f \in DOMAIN Values :
       IF f \in Sets THEN d[f] \subseteq Values[f] ELSE Fits(f, d[f])

-----------------------------------------------------------------------------
(* tileschema, another module: its rules as this repository uses them.     *)

Grants(f) == f.taken \ Grantless

DerivedTier(f) ==
  IF f.taken \cap Rooted # {} THEN "host-trusting"
  ELSE IF Grants(f) # {} THEN "elevated" ELSE "routine"

TierRank(tier) ==
  IF tier = "host-trusting" THEN 2 ELSE IF tier = "elevated" THEN 1 ELSE 0

ValidateTile(d) ==
  d.json = "tile" /\ (d.status = "available" => d.compose # "none")

HostNetwork == [key |-> "network_mode", value |-> "host"]

ValidateWebPortBind(d, f) ==
  LET web == {b \in f.ports : b.published = d.web}
  IN \/ d.web = 0 \/ HostNetwork \in f.taken
     \/ web # {} /\ \A b \in web : b.host = "127.0.0.1"

\* Under-declaring is the error; over-declaring is allowed.
ValidateTileSafety(d, f) ==
  /\ f.images \subseteq {"pinned"} /\ f.taken \cap TrustChain = {}
  /\ (\E x \in f.taken : x.key = "devices") => d.hardware
  /\ Grants(f) \subseteq d.grants
  /\ TierRank(DerivedTier(f)) <= TierRank(d.tier)
  /\ DerivedTier(f) # "routine" => "privilege-tiers-v1" \in d.requires

-----------------------------------------------------------------------------
(* What lint and the bundle builder share.                                 *)

\* corpus.Load: reports structural problems only.
Loads(d) ==
  d.json \in {"tile", "invalid"} /\ d.compose # "unreadable"

StackReadable(d) == d.compose = "stack" /\ Extracts(d)

\* ClassificationProblems, both directions.
Misclassified(d) ==
  (Named(d) \ d.volumes) \cup (d.volumes \ Named(d))

-----------------------------------------------------------------------------
(* cmd/tilelint.                                                           *)

\* Mutant: a published port is listed among the grants.
PastedPorts(d) ==
  LET tier == DerivedTier(Facts(d))
  IN [d EXCEPT
        !.tier = tier, !.grants = Grants(Facts(d)) \cup Facts(d).ports,
        !.why = IF @ = "" THEN "TODO" ELSE @,
        !.requires = IF tier = "routine" THEN @
                     ELSE @ \cup {"privilege-tiers-v1"}]

\* declarationSnippet, pasted: the derived privilege, with the reason there
\* is or a placeholder, and the capability when it takes any.
Pasted(d) ==
  LET tier == DerivedTier(Facts(d))
  IN [d EXCEPT
        !.tier = tier, !.grants = Grants(Facts(d)),
        !.why = IF @ = "" THEN "TODO" ELSE @,
        !.requires = IF tier = "routine" THEN @
                     ELSE @ \cup {"privilege-tiers-v1"}]

\* Mutant: the snippet is printed whatever the refusal was for.
SnippetAlways(d) == TRUE

\* snippetFixes: the validator is asked about the suggestion.
SnippetFixes(d) ==
  ValidateTileSafety(
    [d EXCEPT !.tier = DerivedTier(Facts(d)), !.grants = Grants(Facts(d)),
              !.requires = @ \cup {"privilege-tiers-v1"}], Facts(d))

Says(condition, problem) == IF condition THEN {problem} ELSE {}

SafetyProblems(d) ==
  IF ~ValidateTileSafety(d, Facts(d))
  THEN {"safety"} \cup Says(SnippetFixes(d), "declare it")
  ELSE Says(DerivedTier(Facts(d)) # "routine" /\ d.why = "", "no why")

\* Mutant: no rule on the web port.
StackProblemsAnyPort(id, d) ==
  Says(Misclassified(d) # {}, "volumes")
    \cup Says(LiteralSecrets(id, d) # {}, "literal") \cup SafetyProblems(d)

\* checkTile on a stack that could be read.
StackProblems(id, d) ==
  Says(Misclassified(d) # {}, "volumes")
    \cup Says(LiteralSecrets(id, d) # {}, "literal")
    \cup Says(~ValidateWebPortBind(d, Facts(d)), "web port")
    \cup SafetyProblems(d)

\* checkTile: every problem, unless one leaves nothing to look at.
Problems(id, d) ==
  IF ~Loads(d) THEN {"load"}
  ELSE Says(~ValidateTile(d), "tile") \cup
       IF d.compose = "none" THEN {}
       ELSE IF StackReadable(d) THEN StackProblems(id, d) ELSE {"compose"}

\* What a reviewer sees beside them, of a tile that was checked to the end:
\* the privilege taken, the grants and the tier declared beyond it, anonymous
\* volumes; of a tile without a stack, the tier nothing can check.
Notices(d) ==
  IF ~Loads(d) THEN {}
  ELSE IF d.compose = "none"
  THEN Says(d.tier # "", <<"unverified", d.tier>>)
  ELSE IF ~StackReadable(d) THEN {}
  ELSE LET f == Facts(d) IN
    Says(DerivedTier(f) # "routine" \/ Grants(f) # {},
         <<"privilege", DerivedTier(f), Grants(f)>>)
      \cup {<<"not taken", g>> : g \in d.grants \ Grants(f)}
      \cup Says(TierRank(d.tier) > TierRank(DerivedTier(f)),
                <<"tier", d.tier>>)
      \cup {<<"anonymous", target>> : target \in AnonymousMounts(d)}

-----------------------------------------------------------------------------
(* internal/corpus and cmd/catalogbundle.                                  *)

\* BuildBundle, what it refuses itself, on the path to a signature.
Refused(id, d) ==
  \/ ~Loads(d)
  \/ /\ d.compose # "none"
     /\ \/ ~StackReadable(d) \/ Misclassified(d) # {}
        \/ LiteralSecrets(id, d) # {} \/ ~ValidateWebPortBind(d, Facts(d))

\* Bundle.Validate, of one tile.
ValidInBundle(d) ==
  ValidateTile(d) /\ (d.compose # "none" => ValidateTileSafety(d, Facts(d)))

Accepted(id, d) == ~Refused(id, d) /\ ValidInBundle(d)

\* The zero SafetyFacts of a tile without a stack, and the empty Bundle that
\* comes back with an error.
NoFacts  == [images |-> {}, taken |-> {}, ports |-> {}]
NoBundle == [publishedAt |-> "", tiles |-> << >>]

\* PublishedTile: the committed tile.json, never the decoded one, beside the
\* compose and its facts.
PublishedTile(d) ==
  [tile |-> [f \in {"status", "web", "tier", "why", "hardware", "volumes",
                    "grants", "requires", "extra"} |-> d[f]],
   compose |-> [f \in {"images", "top", "mounts", "ports", "env", "options"}
                  |-> d[f]],
   safety |-> IF d.compose = "none" THEN NoFacts ELSE Facts(d)]

\* All tiles or none.
BuildBundle(corpus, at) ==
  IF \A id \in DOMAIN corpus : Accepted(id, corpus[id])
  THEN [publishedAt |-> at,
        tiles |-> [id \in DOMAIN corpus |-> PublishedTile(corpus[id])]]
  ELSE NoBundle

\* Mutant: the clock.
PublishTimeNow(flag, epoch, now) == now

\* publishTime: the flag, else SOURCE_DATE_EPOCH, else the clock.
PublishTime(flag, epoch, now) ==
  IF flag # "" THEN flag ELSE IF epoch # "" THEN epoch ELSE now

=============================================================================

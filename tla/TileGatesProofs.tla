-------------------------- MODULE TileGatesProofs ---------------------------
(***************************************************************************)
(* Proofs about the way of a tile into a signed catalog, for any corpus,   *)
(* any edits of any number of pull requests, and any bounds.               *)
(***************************************************************************)
EXTENDS TileGates, TLAPS

-----------------------------------------------------------------------------
(* One tile.                                                               *)

\* The bundle builder accepts a tile when lint finds nothing to say but that a
\* reason is missing.
LEMMA SameVerdict ==
  ASSUME NEW id, NEW d
  PROVE  Accepted(id, d) <=> Problems(id, d) \subseteq {"no why"}
<1>1. CASE ~Loads(d)
  BY <1>1 DEF Accepted, Refused, Problems
<1>2. CASE Loads(d) /\ d.compose = "none"
  BY <1>2 DEF Accepted, Refused, ValidInBundle, Problems, Says
<1>3. CASE Loads(d) /\ d.compose # "none" /\ ~StackReadable(d)
  BY <1>3 DEF Accepted, Refused, Problems, Says
<1>4. CASE Loads(d) /\ d.compose # "none" /\ StackReadable(d)
  <2>1. SafetyProblems(d) \subseteq {"no why"}
          <=> ValidateTileSafety(d, Facts(d))
    BY DEF SafetyProblems, Says
  <2>2. StackProblems(id, d) \subseteq {"no why"} <=>
          /\ Misclassified(d) = {} /\ LiteralSecrets(id, d) = {}
          /\ ValidateWebPortBind(d, Facts(d))
          /\ ValidateTileSafety(d, Facts(d))
    BY <2>1 DEF StackProblems, Says
  <2>3. Problems(id, d) = Says(~ValidateTile(d), "tile") \cup
                          StackProblems(id, d)
    BY <1>4 DEF Problems
  <2>4. Says(~ValidateTile(d), "tile") \subseteq {"no why"}
          <=> ValidateTile(d)
    BY DEF Says
  <2> QED
    BY <1>4, <2>2, <2>3, <2>4 DEF Accepted, Refused, ValidInBundle
<1> QED
  BY <1>1, <1>2, <1>3, <1>4

\* No port has the number 0, which stands for none.
LEMMA NotZero == \A n : PortNumber(n) => n # 0
<1>1. \A n \in Int : PortNumber(n) => n # 0
  BY DEF PortNumber
<1>2. \A n : PortNumber(n) => n \in Int
  BY DEF PortNumber
<1> QED
  BY <1>1, <1>2

\* A fact that the stack takes is consented to in a tile that is safe.
LEMMA TakenIsConsented ==
  ASSUME NEW d, ValidateTileSafety(d, Facts(d)), NEW x \in Taken(d)
  PROVE  Consented(d, x)
BY DEF ValidateTileSafety, Facts, Grants, Consented

\* Whatever the builder accepts is answered for.
LEMMA AcceptedIsAnswered ==
  ASSUME NEW id, NEW d, IsDir(d), Accepted(id, d), d.compose # "none"
  PROVE  Answered(id, d)
<1>1. /\ Loads(d) /\ StackReadable(d) /\ Misclassified(d) = {}
      /\ LiteralSecrets(id, d) = {} /\ ValidateWebPortBind(d, Facts(d))
      /\ ValidateTileSafety(d, Facts(d))
  BY DEF Accepted, Refused, ValidInBundle
<1>2. ASSUME NEW m \in d.mounts, MountNamed(m)
      PROVE  m.name \in d.volumes
  BY <1>1, <1>2 DEF Misclassified, Named
<1>3. ASSUME NEW m \in d.mounts, BindSource(m)
      PROVE  Consented(d, BindFact(m))
  BY <1>1, <1>3, TakenIsConsented DEF Taken
<1>4. ASSUME NEW m \in d.mounts, MountAnonymous(m)
      PROVE  <<"anonymous", m.name>> \in Notices(d)
  <2>1. m.name \in AnonymousMounts(d)
    BY <1>4 DEF AnonymousMounts
  <2> QED
    BY <1>1, <2>1 DEF Notices
<1>5. ASSUME NEW m \in d.mounts
      PROVE  /\ DockerVolume(m) => m.name \in d.volumes
             /\ DockerBind(m) =>
                  \/ Consented(d, BindFact(m))
                  \/ m.form = "short" /\ m.kind = "padded"
                  \/ /\ m.form = "short" /\ m.kind = "disguised"
                     /\ m.name \in d.volumes
             /\ DockerAnonymous(m) => <<"anonymous", m.name>> \in Notices(d)
  <2>1. DockerVolume(m) => MountNamed(m)
    BY DEF DockerVolume, MountNamed
  <2>2. DockerBind(m) =>
          \/ BindSource(m)
          \/ m.form = "short" /\ m.kind = "padded"
          \/ m.form = "short" /\ m.kind = "disguised" /\ MountNamed(m)
    BY DEF DockerBind, BindSource, MountNamed
  <2>3. DockerAnonymous(m) => MountAnonymous(m)
    BY DEF DockerAnonymous, MountAnonymous
  <2> QED
    BY <1>2, <1>3, <1>4, <2>1, <2>2, <2>3
<1>6. ASSUME NEW o \in d.options, o.key \notin Unread, Reaches(o)
      PROVE  Consented(d, Fact(o))
  <2>1. o.key \in Privileges
    <3>1. d.options \subseteq Values["options"]
      BY DEF IsDir, Values, Sets
    <3>2. Values["options"] = Option(Svcs, Options)
      BY DEF Values
    <3> QED
      BY <3>1, <3>2 DEF Option
  <2>2. o.key \in Namespaces \cup Listed
    BY <1>6, <2>1 DEF Privileges, Unread, Namespaces, Listed
  <2>3. Noted(o)
    BY <1>6, <2>2 DEF Noted, NamespaceTaken, Reaches
  <2>4. Fact(o) \in Taken(d)
    BY <2>3 DEF Taken
  <2> QED
    BY <1>1, <2>4, TakenIsConsented
<1>7. ASSUME NEW e \in d.env, e.value = "literal", SecretNamed(e.key),
             e.style # "elsewhere"
      PROVE  <<id, e.svc, e.key>> \in Exempt
  BY <1>1, <1>7 DEF LiteralSecrets, Literal
<1>9. \A t \in d.top : t.name \in d.volumes
  BY <1>1 DEF Misclassified, Named
<1>8. ASSUME NEW p \in d.ports, p.published = d.web
      PROVE  p.host = "127.0.0.1" \/ HostNetwork \in Taken(d)
  <2>1. d.web # 0
    <3>1. PortNumber(p.published)
      BY <1>1 DEF StackReadable, Extracts, Readable
    <3> QED
      BY <1>8, <3>1, NotZero
  <2>2. Binding(p) \in Facts(d).ports
    BY DEF Facts
  <2>3. Binding(p).published = d.web /\ Binding(p).host = p.host
    BY <1>8 DEF Binding
  <2> QED
    BY <1>1, <2>1, <2>2, <2>3 DEF ValidateWebPortBind, Facts
<1> QED
  BY <1>5, <1>6, <1>7, <1>8, <1>9 DEF Answered

\* A tier is no higher than itself.
LEMMA RankReflexive == \A tier : TierRank(tier) <= TierRank(tier)
<1> SUFFICES ASSUME NEW tier PROVE TierRank(tier) <= TierRank(tier)
  OBVIOUS
<1>1. CASE tier = "host-trusting"
  BY <1>1 DEF TierRank
<1>2. CASE tier = "elevated"
  BY <1>2 DEF TierRank
<1>3. CASE tier \notin {"host-trusting", "elevated"}
  BY <1>3 DEF TierRank
<1> QED
  BY <1>1, <1>2, <1>3

\* Pasting the block that lint prints takes the refusal of the privilege away
\* and changes no other verdict on the tile.
LEMMA PastedIsFixed ==
  ASSUME NEW id, NEW d, IsDir(d), "declare it" \in Problems(id, d)
  PROVE  Problems(id, Pasted(d)) = Problems(id, d) \ {"safety", "declare it"}
<1> DEFINE facts == Facts(d)
           tier == DerivedTier(facts)
           new == Pasted(d)
           kept == (DOMAIN Values) \ {"tier", "grants", "why", "requires"}
<1>1. /\ \A f \in kept : new[f] = d[f]
      /\ new.tier = tier /\ new.grants = Grants(facts)
      /\ new.why = IF d.why = "" THEN "TODO" ELSE d.why
      /\ new.requires = IF tier = "routine" THEN d.requires
                        ELSE d.requires \cup {"privilege-tiers-v1"}
  BY DEF Pasted, IsDir, Values
<1>2. {"json", "status", "compose", "web", "hardware", "volumes", "images",
       "top", "mounts", "ports", "env", "options"} \subseteq kept
  BY DEF Values
<1> HIDE DEF kept, new
<1>3. /\ new.json = d.json /\ new.status = d.status
      /\ new.compose = d.compose /\ new.web = d.web
      /\ new.hardware = d.hardware /\ new.volumes = d.volumes
      /\ new.images = d.images /\ new.top = d.top /\ new.mounts = d.mounts
      /\ new.ports = d.ports /\ new.env = d.env /\ new.options = d.options
  BY <1>1, <1>2
<1>4. Facts(new) = facts
  BY <1>3 DEF Facts, Taken
<1>5. /\ Loads(new) = Loads(d) /\ ValidateTile(new) = ValidateTile(d)
      /\ StackReadable(new) = StackReadable(d)
      /\ Misclassified(new) = Misclassified(d)
      /\ LiteralSecrets(id, new) = LiteralSecrets(id, d)
      /\ ValidateWebPortBind(new, facts) = ValidateWebPortBind(d, facts)
  BY <1>3 DEF Loads, ValidateTile, StackReadable, Extracts, Misclassified,
     Named, LiteralSecrets, ValidateWebPortBind
<1>6. Loads(d) /\ StackReadable(d) /\ d.compose # "none"
  BY DEF Problems, Says
<1>7. "declare it" \in SafetyProblems(d)
  BY <1>6 DEF Problems, StackProblems, Says
<1>8. ~ValidateTileSafety(d, facts) /\ SnippetFixes(d)
  BY <1>7 DEF SafetyProblems, Says
<1>9. ValidateTileSafety(new, facts)
  <2>1. /\ facts.images \subseteq {"pinned"}
        /\ facts.taken \cap TrustChain = {}
        /\ (\E x \in facts.taken : x.key = "devices") => d.hardware
    BY <1>8 DEF SnippetFixes, ValidateTileSafety, IsDir, Values
  <2>2. TierRank(tier) <= TierRank(tier)
    BY RankReflexive, Zenon
  <2> QED
    BY <1>1, <1>3, <2>1, <2>2 DEF ValidateTileSafety
<1>10. SafetyProblems(new) = {}
  BY <1>1, <1>4, <1>9 DEF SafetyProblems, Says
<1>11. SafetyProblems(d) = {"safety", "declare it"}
  BY <1>8 DEF SafetyProblems, Says
<1>12. StackProblems(id, new) =
         StackProblems(id, d) \ {"safety", "declare it"}
  BY <1>4, <1>5, <1>10, <1>11 DEF StackProblems, Says
<1> QED
  BY <1>3, <1>5, <1>6, <1>12 DEF Problems, Says, new

-----------------------------------------------------------------------------
(* Types.                                                                  *)

\* What a tile takes is made of the entries it has.
LEMMA TakenTyped ==
  ASSUME NEW d, IsDir(d)
  PROVE  Taken(d) \subseteq Values.grants
<1>1. d.options \subseteq Option(Svcs, Options)
  BY DEF IsDir, Values, Sets
<1>2. d.mounts \subseteq Mount(Svcs, Names)
  BY DEF IsDir, Values, Sets
<1>3. \A o \in Option(Svcs, Options) : Fact(o) \in Values.grants
  BY DEF Option, Fact, Values
<1>4. \A m \in Mount(Svcs, Names) : BindFact(m) \in Values.grants
  BY DEF Mount, BindFact, Values
<1> QED
  BY <1>1, <1>2, <1>3, <1>4 DEF Taken

\* Setting or changing one field by an edit leaves a directory.
LEMMA EditedTyped ==
  ASSUME NEW c, IsCorpus(c), NEW e, IsEdit(e)
  PROVE  IsCorpus(Edited(c, e))
<1> DEFINE id == e[1]
           f == e[2]
           old == c[id][f]
           new == IF f \notin Sets THEN e[3]
                  ELSE IF e[3] \in old THEN old \ {e[3]}
                  ELSE old \cup {e[3]}
           d == [c[id] EXCEPT ![f] = new]
<1>1. Edited(c, e) = [c EXCEPT ![id] = d]
  BY DEF Edited
<1>2. IsDir(c[id]) /\ id \in Ids /\ f \in DOMAIN Values /\ e[3] \in Values[f]
  BY DEF IsCorpus, IsEdit, Fits
<1>3. IF f \in Sets THEN new \subseteq Values[f] ELSE Fits(f, new)
  BY <1>2 DEF IsDir, Fits
<1>4. IsDir(d)
  <2> HIDE DEF new
  <2> QED
    BY <1>2, <1>3 DEF IsDir
<1> HIDE DEF d, id
<1> QED
  BY <1>1, <1>2, <1>4 DEF IsCorpus

\* So does pasting the block that lint prints.
LEMMA PastedTyped ==
  ASSUME NEW d, IsDir(d)
  PROVE  IsDir(Pasted(d))
<1> DEFINE tier == DerivedTier(Facts(d))
           grants == Grants(Facts(d))
           why == IF d.why = "" THEN "TODO" ELSE d.why
           requires == IF tier = "routine" THEN d.requires
                       ELSE d.requires \cup {"privilege-tiers-v1"}
<1>1. Pasted(d) = [d EXCEPT !.tier = tier, !.grants = grants, !.why = why,
                            !.requires = requires]
  BY DEF Pasted
<1>2. tier \in Values.tier
  BY DEF DerivedTier, Values
<1>3. grants \subseteq Values.grants
  BY TakenTyped DEF Grants, Facts
<1>4. why \in Values.why
  BY DEF IsDir, Values, Sets, Fits
<1>5. requires \subseteq Values.requires
  BY DEF IsDir, Values, Sets
<1>6. {"tier", "grants", "why", "requires"} \subseteq DOMAIN Values
  BY DEF Values
<1> HIDE DEF tier, grants, why, requires
<1>7. DOMAIN Pasted(d) = DOMAIN Values
  BY <1>1 DEF IsDir
<1>8. ASSUME NEW f \in DOMAIN Values
      PROVE  IF f \in Sets THEN Pasted(d)[f] \subseteq Values[f]
             ELSE Fits(f, Pasted(d)[f])
  <2>1. CASE f \notin {"tier", "grants", "why", "requires"}
    BY <1>1, <2>1 DEF IsDir
  <2>2. CASE f = "tier"
    BY <1>1, <1>2, <1>6, <2>2 DEF IsDir, Sets, Fits
  <2>3. CASE f = "grants"
    BY <1>1, <1>3, <1>6, <2>3 DEF IsDir, Sets
  <2>4. CASE f = "why"
    BY <1>1, <1>4, <1>6, <2>4 DEF IsDir, Sets, Fits
  <2>5. CASE f = "requires"
    BY <1>1, <1>5, <1>6, <2>5 DEF IsDir, Sets
  <2> QED
    BY <2>1, <2>2, <2>3, <2>4, <2>5
<1> QED
  BY <1>7, <1>8 DEF IsDir

\* The corpus that git makes of a request and some main.
MergedOn(r, m) ==
  [id \in Ids |-> [f \in DOMAIN Values |->
     Merge3(f, r.base[id][f], r.head[id][f], m[id][f])]]

\* A merge of directories is a directory.
LEMMA MergedTyped ==
  ASSUME NEW r, IsPR(r), NEW m, IsCorpus(m)
  PROVE  IsCorpus(MergedOn(r, m))
<1> SUFFICES ASSUME NEW id \in Ids PROVE IsDir(MergedOn(r, m)[id])
  BY DEF IsCorpus, MergedOn
<1>1. IsDir(r.base[id]) /\ IsDir(r.head[id]) /\ IsDir(m[id])
  BY DEF IsPR, IsCorpus
<1>2. MergedOn(r, m)[id] = [f \in DOMAIN Values |->
        Merge3(f, r.base[id][f], r.head[id][f], m[id][f])]
  BY DEF MergedOn
<1>3. ASSUME NEW f \in DOMAIN Values
      PROVE  LET v == Merge3(f, r.base[id][f], r.head[id][f], m[id][f])
             IN IF f \in Sets THEN v \subseteq Values[f] ELSE Fits(f, v)
  BY <1>1 DEF Merge3, IsDir
<1> QED
  BY <1>2, <1>3 DEF IsDir

-----------------------------------------------------------------------------
(* The invariant.                                                          *)

Shape ==
  /\ DOMAIN pr = PRs /\ \A p \in PRs : DOMAIN pr[p] = DOMAIN NoPR
  /\ DOMAIN release = {"st", "corpus", "built", "signed"}

\* A green check is one of an open request, and of its merge with the main it
\* was made on.
GreenWasSeen ==
  \A p \in PRs : pr[p].gate # "none" =>
    /\ pr[p].st = "open"
    /\ pr[p].gate = "green" => Green(MergedOn(pr[p], pr[p].seen))

\* What a run of the release has in hand is the bundle of its corpus.
InHand ==
  LET bundle == BuildBundle(release.corpus, "commit")
  IN /\ release.st \in {"built", "signed"} =>
          bundle # NoBundle /\ release.built = bundle
     /\ release.st = "failed" => bundle = NoBundle
     /\ release.st = "signed" => release.signed = bundle

GatesInv ==
  TypeOK /\ Shape /\ GreenWasSeen /\ InHand /\ CleanUnlessRaced

\* Every bundle has a time; the one that a refused build returns has none.
LEMMA BundleMeansAccepted ==
  ASSUME NEW corpus, DOMAIN corpus = Ids
  PROVE  BuildBundle(corpus, "commit") # NoBundle <=>
           \A id \in Ids : Accepted(id, corpus[id])
<1> DEFINE bundle == [publishedAt |-> "commit",
              tiles |-> [id \in DOMAIN corpus |-> PublishedTile(corpus[id])]]
<1>1. bundle.publishedAt # NoBundle.publishedAt
  BY DEF NoBundle
<1>2. bundle # NoBundle
  BY <1>1
<1> QED
  BY <1>2 DEF BuildBundle

\* Nothing is open, checked or built at the start.
LEMMA GatesInvInit == Init => GatesInv
<1> SUFFICES ASSUME Init PROVE GatesInv
  OBVIOUS
<1>1. IsCorpus(First) /\ MaxEdits \in Nat /\ MaxPushes \in Nat
  BY GatesAssumption
<1>2. \A p \in PRs : pr[p] = NoPR
  BY DEF Init
<1>3. IsPR(NoPR)
  BY <1>1 DEF IsPR, NoPR
<1>4. TypeOK
  <2>1. IsCorpus(main) /\ DOMAIN pr = PRs /\ pushes = 0 /\ raced = FALSE
    BY <1>1 DEF Init
  <2>2. release.st = "idle" /\ release.corpus = First
    BY DEF Init
  <2>3. \A p \in PRs : IsPR(pr[p])
    BY <1>2, <1>3
  <2>4. pushes \in 0 .. MaxPushes
    BY <1>1, <2>1
  <2>5. raced \in BOOLEAN
    BY <2>1, Zenon
  <2> QED
    BY <1>1, <2>1, <2>2, <2>3, <2>4, <2>5 DEF TypeOK
<1>5. Shape
  BY <1>2 DEF Init, Shape
<1>6. GreenWasSeen
  BY <1>2 DEF GreenWasSeen, NoPR
<1>7. InHand /\ CleanUnlessRaced
  BY DEF Init, InHand, CleanUnlessRaced
<1> QED
  BY <1>4, <1>5, <1>6, <1>7 DEF GatesInv

\* An action that changes one request and nothing else.
LEMMA OneRequest ==
  ASSUME GatesInv, NEW p \in PRs, UNCHANGED <<main, pushes, raced, release>>,
         DOMAIN pr' = PRs, \A q \in PRs \ {p} : pr'[q] = pr[q],
         DOMAIN pr'[p] = DOMAIN NoPR, IsPR(pr'[p]),
         pr'[p].gate # "none" =>
           /\ pr'[p].st = "open"
           /\ pr'[p].gate = "green" => Green(MergedOn(pr'[p], pr'[p].seen))
  PROVE  GatesInv'
<1>1. TypeOK'
  BY DEF GatesInv, TypeOK
<1>2. Shape'
  BY DEF GatesInv, Shape
<1>3. GreenWasSeen'
  <2> SUFFICES ASSUME NEW q \in PRs, pr'[q].gate # "none"
               PROVE  /\ pr'[q].st = "open"
                      /\ pr'[q].gate = "green" =>
                           Green(MergedOn(pr'[q], pr'[q].seen))
    BY DEF GreenWasSeen
  <2> QED
    BY DEF GatesInv, GreenWasSeen
<1>4. InHand' /\ CleanUnlessRaced'
  BY DEF GatesInv, InHand, CleanUnlessRaced
<1> QED
  BY <1>1, <1>2, <1>3, <1>4 DEF GatesInv

\* A new request is at main, and unchecked.
LEMMA OpenKeeps ==
  ASSUME GatesInv, NEW p \in PRs, Open(p)
  PROVE  GatesInv'
<1>1. /\ DOMAIN pr' = PRs /\ \A q \in PRs \ {p} : pr'[q] = pr[q]
      /\ pr'[p] = [pr[p] EXCEPT !.st = "open", !.base = main, !.head = main]
  BY DEF Open, GatesInv, Shape
<1>2. DOMAIN pr[p] = DOMAIN NoPR /\ IsPR(pr[p]) /\ IsCorpus(main)
  BY DEF GatesInv, Shape, TypeOK
<1>3. /\ DOMAIN pr'[p] = DOMAIN NoPR /\ pr'[p].st = "open"
      /\ pr'[p].base = main /\ pr'[p].head = main
      /\ pr'[p].edits = pr[p].edits /\ pr'[p].gate = pr[p].gate
      /\ pr'[p].seen = pr[p].seen
  BY <1>1, <1>2 DEF NoPR
<1>4. IsPR(pr'[p])
  BY <1>2, <1>3 DEF IsPR
<1>5. pr'[p].gate = "none"
  BY <1>3 DEF GatesInv, GreenWasSeen, Open
<1> QED
  BY <1>1, <1>3, <1>4, <1>5, OneRequest DEF Open

\* A push to a branch that leaves directories behind.
LEMMA BranchKeeps ==
  ASSUME GatesInv, NEW p \in PRs, NEW head, NEW n \in Nat,
         Branch(p, head, n), IsCorpus(head), pr[p].edits + n <= MaxEdits
  PROVE  GatesInv'
<1>1. /\ DOMAIN pr' = PRs /\ \A q \in PRs \ {p} : pr'[q] = pr[q]
      /\ pr'[p] = [pr[p] EXCEPT !.head = head, !.edits = pr[p].edits + n,
                                !.gate = "none", !.seen = First]
  BY DEF Branch, GatesInv, Shape
<1>2. DOMAIN pr[p] = DOMAIN NoPR /\ IsPR(pr[p]) /\ IsCorpus(First)
  BY GatesAssumption DEF GatesInv, Shape, TypeOK
<1>3. /\ DOMAIN pr'[p] = DOMAIN NoPR /\ pr'[p].st = pr[p].st
      /\ pr'[p].base = pr[p].base /\ pr'[p].head = head
      /\ pr'[p].edits = pr[p].edits + n /\ pr'[p].gate = "none"
      /\ pr'[p].seen = First
  BY <1>1, <1>2 DEF NoPR
<1>4. pr'[p].edits \in 0 .. MaxEdits
  BY <1>2, <1>3, GatesAssumption DEF IsPR
<1>5. IsPR(pr'[p])
  BY <1>2, <1>3, <1>4 DEF IsPR
<1> QED
  BY <1>1, <1>3, <1>5, OneRequest DEF Branch

\* An edit within the bound leaves directories behind.
LEMMA EditKeeps ==
  ASSUME GatesInv, NEW p \in PRs, NEW e \in Edits[p], Edit(p, e)
  PROVE  GatesInv'
<1>1. IsEdit(e) /\ MaxEdits \in Nat
  BY GatesAssumption
<1>2. IsPR(pr[p])
  BY DEF GatesInv, TypeOK
<1>3. IsCorpus(Edited(pr[p].head, e))
  BY <1>1, <1>2, EditedTyped DEF IsPR
<1>4. pr[p].edits + 1 <= MaxEdits
  BY <1>1, <1>2 DEF Edit, IsPR
<1> QED
  BY <1>3, <1>4, BranchKeeps DEF Edit

\* So does the block that lint prints.
LEMMA PasteKeeps ==
  ASSUME GatesInv, NEW p \in PRs, NEW id \in Ids, Paste(p, id)
  PROVE  GatesInv'
<1> DEFINE head == [pr[p].head EXCEPT ![id] = Pasted(pr[p].head[id])]
<1>1. IsPR(pr[p]) /\ MaxEdits \in Nat
  BY GatesAssumption DEF GatesInv, TypeOK
<1>2. IsCorpus(head)
  BY <1>1, PastedTyped DEF IsPR, IsCorpus
<1>3. pr[p].edits + 0 <= MaxEdits
  BY <1>1 DEF IsPR
<1>4. Branch(p, head, 0)
  BY DEF Paste
<1> HIDE DEF head
<1> QED
  BY <1>2, <1>3, <1>4, BranchKeeps

\* The check of a request is made on its merge with today's main.
LEMMA LintKeeps ==
  ASSUME GatesInv, NEW p \in PRs, Lint(p)
  PROVE  GatesInv'
<1>1. DOMAIN pr[p] = DOMAIN NoPR /\ IsPR(pr[p]) /\ IsCorpus(main)
  BY DEF GatesInv, Shape, TypeOK
<1>2. Merged(p) = MergedOn(pr[p], main)
  BY DEF Merged, MergedOn
<1>3. CASE TilesJob(p)
  <2>1. /\ DOMAIN pr' = PRs /\ \A q \in PRs \ {p} : pr'[q] = pr[q]
        /\ pr'[p] = [pr[p] EXCEPT !.gate = "green", !.seen = main]
    BY <1>3 DEF Lint, GatesInv, Shape
  <2>2. /\ DOMAIN pr'[p] = DOMAIN NoPR /\ pr'[p].st = pr[p].st
        /\ pr'[p].base = pr[p].base /\ pr'[p].head = pr[p].head
        /\ pr'[p].edits = pr[p].edits /\ pr'[p].gate = "green"
        /\ pr'[p].seen = main
    BY <1>1, <2>1 DEF NoPR
  <2>3. IsPR(pr'[p])
    BY <1>1, <2>2 DEF IsPR
  <2>4. MergedOn(pr'[p], pr'[p].seen) = MergedOn(pr[p], main)
    BY <2>2 DEF MergedOn
  <2>5. Green(MergedOn(pr'[p], pr'[p].seen))
    BY <1>2, <1>3, <2>4 DEF TilesJob
  <2> QED
    BY <2>1, <2>2, <2>3, <2>5, OneRequest DEF Lint
<1>4. CASE ~TilesJob(p)
  <2>1. /\ DOMAIN pr' = PRs /\ \A q \in PRs \ {p} : pr'[q] = pr[q]
        /\ pr'[p] = [pr[p] EXCEPT !.gate = "red"]
    BY <1>4 DEF Lint, GatesInv, Shape
  <2>2. /\ DOMAIN pr'[p] = DOMAIN NoPR /\ pr'[p].st = pr[p].st
        /\ pr'[p].base = pr[p].base /\ pr'[p].head = pr[p].head
        /\ pr'[p].edits = pr[p].edits /\ pr'[p].gate = "red"
        /\ pr'[p].seen = pr[p].seen
    BY <1>1, <2>1 DEF NoPR
  <2>3. IsPR(pr'[p])
    BY <1>1, <2>2 DEF IsPR
  <2> QED
    BY <2>1, <2>2, <2>3, OneRequest DEF Lint
<1> QED
  BY <1>3, <1>4

\* A request whose check saw today's main leaves main clean.
LEMMA MergeKeeps ==
  ASSUME GatesInv, NEW p \in PRs, Merge(p)
  PROVE  GatesInv'
<1>1. IsPR(pr[p]) /\ IsCorpus(main) /\ IsCorpus(First) /\ MaxEdits \in Nat
  BY GatesAssumption DEF GatesInv, TypeOK
<1>2. main' = MergedOn(pr[p], main)
  BY DEF Merge, Merged, MergedOn
<1>3. IsCorpus(main')
  BY <1>1, <1>2, MergedTyped
<1>4. /\ DOMAIN pr' = PRs /\ \A q \in PRs \ {p} : pr'[q] = pr[q]
      /\ pr'[p] = [NoPR EXCEPT !.st = "merged"]
  BY DEF Merge, GatesInv, Shape
<1>5. DOMAIN pr'[p] = DOMAIN NoPR /\ IsPR(pr'[p]) /\ pr'[p].gate = "none"
  BY <1>1, <1>4 DEF NoPR, IsPR
<1>6. TypeOK'
  BY <1>3, <1>4, <1>5 DEF GatesInv, TypeOK, Merge
<1>7. Shape'
  BY <1>4, <1>5 DEF GatesInv, Shape, Merge
<1>8. GreenWasSeen'
  <2> SUFFICES ASSUME NEW q \in PRs, pr'[q].gate # "none"
               PROVE  /\ pr'[q].st = "open"
                      /\ pr'[q].gate = "green" =>
                           Green(MergedOn(pr'[q], pr'[q].seen))
    BY DEF GreenWasSeen
  <2> QED
    BY <1>4, <1>5 DEF GatesInv, GreenWasSeen
<1>9. InHand'
  BY DEF GatesInv, InHand, Merge
<1>10. CleanUnlessRaced'
  <2> SUFFICES ASSUME ~raced' PROVE Green(main')
    BY DEF CleanUnlessRaced
  <2>1. pr[p].gate = "green" /\ pr[p].seen = main
    BY DEF Merge
  <2> QED
    BY <1>2, <2>1 DEF GatesInv, GreenWasSeen
<1> QED
  BY <1>6, <1>7, <1>8, <1>9, <1>10 DEF GatesInv

\* A direct push leaves directories on main, and says that it raced.
LEMMA DirectPushKeeps ==
  ASSUME GatesInv, NEW e \in Pushed, DirectPush(e)
  PROVE  GatesInv'
<1>1. IsEdit(e) /\ MaxPushes \in Nat
  BY GatesAssumption
<1>2. IsCorpus(main')
  BY <1>1, EditedTyped DEF GatesInv, TypeOK, DirectPush
<1>3. pushes' \in 0 .. MaxPushes
  BY <1>1 DEF GatesInv, TypeOK, DirectPush
<1>4. TypeOK'
  BY <1>2, <1>3 DEF GatesInv, TypeOK, DirectPush
<1> QED
  BY <1>4 DEF GatesInv, Shape, GreenWasSeen, InHand, CleanUnlessRaced,
     DirectPush

\* Both builds of a commit, and the one that is signed, have its time.
LEMMA BuildKeeps ==
  ASSUME GatesInv, Build
  PROVE  GatesInv'
<1> DEFINE bundle == BuildBundle(main, "commit")
           st == IF bundle = NoBundle THEN "failed" ELSE "built"
<1>1. \A now : PublishTime("", "commit", now) = "commit"
  BY DEF PublishTime
<1>2. release' = [release EXCEPT !.st = st, !.corpus = main, !.built = bundle]
  <2> DEFINE at(now) == BuildBundle(main, PublishTime("", "commit", now))
  <2>1. at("build") = bundle /\ at("proof") = bundle
    BY <1>1
  <2>2. release' = [release EXCEPT
          !.st = IF at("build") = NoBundle \/ at("build") # at("proof")
                 THEN "failed" ELSE "built",
          !.corpus = main, !.built = at("build")]
    BY DEF Build
  <2> HIDE DEF at, bundle
  <2> QED
    BY <2>1, <2>2
<1>3. /\ DOMAIN release' = {"st", "corpus", "built", "signed"}
      /\ release'.st = st /\ release'.corpus = main /\ release'.built = bundle
  BY <1>2 DEF GatesInv, Shape
<1> HIDE DEF bundle
<1>4. TypeOK'
  BY <1>3 DEF GatesInv, TypeOK, Build
<1>5. InHand'
  BY <1>3 DEF InHand, bundle
<1> QED
  BY <1>3, <1>4, <1>5 DEF GatesInv, Shape, GreenWasSeen, CleanUnlessRaced,
     Build

\* The publish job builds the same corpus, with the time of its commit.
LEMMA SignKeeps ==
  ASSUME GatesInv, Sign
  PROVE  GatesInv'
<1> DEFINE bundle == BuildBundle(release.corpus, "commit")
<1>1. release' = [release EXCEPT !.st = "signed", !.signed = bundle]
  BY DEF Sign, PublishTime
<1>2. /\ DOMAIN release' = {"st", "corpus", "built", "signed"}
      /\ release'.st = "signed" /\ release'.corpus = release.corpus
      /\ release'.built = release.built /\ release'.signed = bundle
  BY <1>1 DEF GatesInv, Shape
<1>3. bundle # NoBundle /\ release.built = bundle
  BY DEF GatesInv, InHand, Sign
<1> HIDE DEF bundle
<1>4. TypeOK'
  BY <1>2 DEF GatesInv, TypeOK, Sign
<1>5. InHand'
  BY <1>2, <1>3 DEF InHand, bundle
<1> QED
  BY <1>2, <1>4, <1>5 DEF GatesInv, Shape, GreenWasSeen, CleanUnlessRaced,
     Sign

\* Every step keeps the invariant.
LEMMA GatesInvNext == GatesInv /\ [Next]_vars => GatesInv'
<1> SUFFICES ASSUME GatesInv, [Next]_vars PROVE GatesInv'
  OBVIOUS
<1>1. CASE UNCHANGED vars
  BY <1>1 DEF vars, GatesInv, TypeOK, Shape, GreenWasSeen, InHand,
     CleanUnlessRaced
<1>2. ASSUME NEW p \in PRs, Open(p) \/ Lint(p) \/ Merge(p) PROVE GatesInv'
  BY <1>2, OpenKeeps, LintKeeps, MergeKeeps
<1>3. ASSUME NEW p \in PRs, \E e \in Edits[p] : Edit(p, e) PROVE GatesInv'
  BY <1>3, EditKeeps
<1>4. ASSUME NEW p \in PRs, \E id \in Ids : Paste(p, id) PROVE GatesInv'
  BY <1>4, PasteKeeps
<1>5. CASE \E e \in Pushed : DirectPush(e)
  BY <1>5, DirectPushKeeps
<1>6. CASE Build \/ Sign
  BY <1>6, BuildKeeps, SignKeeps
<1> QED
  BY <1>1, <1>2, <1>3, <1>4, <1>5, <1>6 DEF Next

\* The invariant holds of every reachable state.
LEMMA GatesInvHolds == Spec => []GatesInv
BY GatesInvInit, GatesInvNext, PTL DEF Spec

-----------------------------------------------------------------------------
(* The theorems.                                                           *)

\* Whatever is merged or pushed, main, the branches and the corpus of a
\* release are tile directories, and nothing exceeds its bound.
THEOREM TileTypeCorrect == Spec => []TypeOK
<1>1. GatesInv => TypeOK
  BY DEF GatesInv
<1> QED
  BY <1>1, GatesInvHolds, PTL

\* tilelint and the bundle builder, whose rules are written apart, never
\* disagree on a tile of main or of a branch: what lint passes is published,
\* and it asks beyond the builder for a reason for the privilege only.
THEOREM LintAlwaysMeansBuilds == Spec => []LintMeansBuilds
<1>1. LintMeansBuilds
  BY SameVerdict DEF LintMeansBuilds
<1> QED
  BY <1>1, PTL

\* main is clean after any merges, unless one was made on a main that its
\* check had not seen, or main was pushed to.
THEOREM CleanUnlessRacedAlways == Spec => []CleanUnlessRaced
<1>1. GatesInv => CleanUnlessRaced
  BY DEF GatesInv
<1> QED
  BY <1>1, GatesInvHolds, PTL

\* However a corpus reached main, every stack in a signed catalog is answered
\* for: the builder alone guarantees it, whatever lint saw.
THEOREM SignedIsAlwaysAnswered == Spec => []SignedIsAnswered
<1>1. GatesInv => SignedIsAnswered
  <2> SUFFICES ASSUME GatesInv, release.st = "signed", NEW id \in Ids,
                      release.corpus[id].compose # "none"
               PROVE  Answered(id, release.corpus[id])
    BY DEF SignedIsAnswered
  <2>1. IsCorpus(release.corpus)
    BY DEF GatesInv, TypeOK
  <2>2. BuildBundle(release.corpus, "commit") # NoBundle
    BY DEF GatesInv, InHand
  <2>3. Accepted(id, release.corpus[id])
    BY <2>1, <2>2, BundleMeansAccepted DEF IsCorpus
  <2>4. IsDir(release.corpus[id])
    BY <2>1 DEF IsCorpus
  <2> QED
    BY <2>3, <2>4, AcceptedIsAnswered
<1> QED
  BY <1>1, GatesInvHolds, PTL

\* A corpus that builds is never refused as irreproducible, and what is signed
\* is what was built, with every field of each committed tile.json.
THEOREM SignedIsAlwaysBuilt == Spec => []SignedIsBuilt
<1>1. GatesInv => SignedIsBuilt
  <2> SUFFICES ASSUME GatesInv PROVE SignedIsBuilt
    OBVIOUS
  <2> DEFINE bundle == BuildBundle(release.corpus, "commit")
  <2>1. DOMAIN release.corpus = Ids
    BY DEF GatesInv, TypeOK, IsCorpus
  <2>2. ASSUME release.st = "failed"
        PROVE  \E id \in Ids : ~Accepted(id, release.corpus[id])
    BY <2>1, <2>2, BundleMeansAccepted DEF GatesInv, InHand
  <2>3. ASSUME release.st = "signed"
        PROVE  /\ release.signed = release.built
               /\ \A id \in Ids : release.signed.tiles[id].tile.extra
                                     = release.corpus[id].extra
    <3>1. /\ release.signed = bundle /\ release.built = bundle
          /\ bundle # NoBundle
      BY <2>3 DEF GatesInv, InHand
    <3>2. \A id \in Ids : Accepted(id, release.corpus[id])
      BY <2>1, <3>1, BundleMeansAccepted
    <3>3. bundle.tiles = [id \in Ids |-> PublishedTile(release.corpus[id])]
      BY <2>1, <3>2 DEF BuildBundle
    <3>4. \A d : PublishedTile(d).tile.extra = d.extra
      BY DEF PublishedTile
    <3> HIDE DEF bundle
    <3> QED
      BY <3>1, <3>3, <3>4
  <2> QED
    BY <2>2, <2>3 DEF SignedIsBuilt
<1> QED
  BY <1>1, GatesInvHolds, PTL

\* A block that lint prints and the author pastes takes the refusal of the
\* privilege away and brings no other problem.
THEOREM PasteAlwaysFixes == Spec => PasteFixes
<1>1. GatesInv /\ [Next]_vars =>
        [\A p \in PRs, id \in Ids :
           Paste(p, id) =>
             Problems(id, pr'[p].head[id]) =
               Problems(id, pr[p].head[id]) \ {"safety", "declare it"}]_vars
  <2> SUFFICES ASSUME GatesInv, NEW p \in PRs, NEW id \in Ids, Paste(p, id)
               PROVE  Problems(id, pr'[p].head[id]) =
                        Problems(id, pr[p].head[id]) \ {"safety", "declare it"}
    OBVIOUS
  <2> DEFINE d == pr[p].head[id]
             head == [pr[p].head EXCEPT ![id] = Pasted(d)]
  <2>1. IsDir(d) /\ DOMAIN pr[p].head = Ids
    BY DEF GatesInv, TypeOK, IsPR, IsCorpus
  <2>2. "declare it" \in Problems(id, d) /\ Branch(p, head, 0)
    BY DEF Paste
  <2>3. head[id] = Pasted(d)
    BY <2>1
  <2> HIDE DEF head
  <2>4. pr'[p].head = head
    BY <2>2 DEF Branch, GatesInv, Shape, NoPR
  <2> QED
    BY <2>1, <2>2, <2>3, <2>4, PastedIsFixed
<1> QED
  BY <1>1, GatesInvHolds, PTL DEF Spec, PasteFixes

=============================================================================

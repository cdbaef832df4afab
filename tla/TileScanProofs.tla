--------------------------- MODULE TileScanProofs ---------------------------
(***************************************************************************)
(* Proofs about TileScan, for any pins, repositories, licenses, databases, *)
(* pull requests and ceilings.                                             *)
(***************************************************************************)
EXTENDS TileScan, FiniteSetTheorems, TLAPS

-----------------------------------------------------------------------------
(* Numbers in order: the places that pairImages counts.                    *)

Below(A, y) == {z \in A : z <= y}

\* The elements of a finite set take all the places there are.  Each has a
\* place of its own, and there are as many places as elements.
LEMMA PlacesTaken ==
  ASSUME NEW A, IsFiniteSet(A), A \subseteq Nat, NEW k \in 1 .. Cardinality(A)
  PROVE  \E y \in A : Cardinality(Below(A, y)) = k
<1> DEFINE n == Cardinality(A)
           place == [y \in A |-> Cardinality(Below(A, y))]
<1>1. n \in Nat
  BY FS_CardinalityType
<1>2. \A y \in A : /\ IsFiniteSet(Below(A, y)) /\ y \in Below(A, y)
                   /\ Below(A, y) \subseteq A
                   /\ Cardinality(Below(A, y)) \in 1 .. n
  <2> TAKE y \in A
  <2>1. Below(A, y) \in SUBSET A /\ y \in Below(A, y)
    BY DEF Below
  <2>2. IsFiniteSet(Below(A, y)) /\ Cardinality(Below(A, y)) <= n
    BY <2>1, FS_Subset
  <2>3. Cardinality(Below(A, y)) \in Nat /\ Cardinality(Below(A, y)) # 0
    BY <2>1, <2>2, FS_CardinalityType, FS_EmptySet
  <2> QED
    BY <1>1, <2>1, <2>2, <2>3
<1>3. ASSUME NEW x \in A, NEW y \in A, x < y
      PROVE  Cardinality(Below(A, x)) # Cardinality(Below(A, y))
  <2>1. Below(A, x) \in SUBSET Below(A, y) /\ y \notin Below(A, x)
    <3>1. \A z \in A : z \in Int
      OBVIOUS
    <3>2. \A z \in A : z <= x => z <= y
      BY <1>3, <3>1
    <3>3. ~(y <= x)
      BY <1>3, <3>1
    <3> QED
      BY <3>2, <3>3 DEF Below
  <2>2. IsFiniteSet(Below(A, y)) /\ y \in Below(A, y)
    BY <1>2
  <2>3. Cardinality(Below(A, y)) = Cardinality(Below(A, x)) =>
          Below(A, y) = Below(A, x)
    BY <2>1, <2>2, FS_Subset
  <2> QED
    BY <2>1, <2>2, <2>3
<1>4. place \in Injection(A, 1 .. n)
  <2>1. place \in [A -> 1 .. n]
    BY <1>2
  <2>2. ASSUME NEW x \in A, NEW y \in A, place[x] = place[y] PROVE x = y
    <3>1. x < y \/ y < x \/ x = y
      OBVIOUS
    <3> QED
      BY <1>3, <2>2, <3>1
  <2> QED
    BY <2>1, <2>2 DEF Injection, IsInjective
<1>5. IsFiniteSet(1 .. n) /\ Cardinality(1 .. n) = n
  BY <1>1, FS_Interval
<1> HIDE DEF place
<1>6. place \in Surjection(A, 1 .. n)
  BY <1>4, <1>5, FS_Injection
<1>7. \E y \in A : place[y] = k
  BY <1>6 DEF Surjection
<1> QED
  BY <1>7 DEF place

\* There is a last one and a first.
LEMMA HasLast ==
  ASSUME NEW A, IsFiniteSet(A), A \subseteq Nat, A # {}
  PROVE  /\ \E x \in A : \A y \in A : y <= x
         /\ \E x \in A : \A y \in A : x <= y
<1>1. Cardinality(A) \in Nat /\ Cardinality(A) # 0
  BY FS_CardinalityType, FS_EmptySet
<1>2. PICK x \in A : Cardinality(Below(A, x)) = Cardinality(A)
  <2>1. Cardinality(A) \in 1 .. Cardinality(A)
    BY <1>1
  <2> QED
    BY <2>1, PlacesTaken
<1>3. Below(A, x) = A
  <2>1. Below(A, x) \in SUBSET A
    BY DEF Below
  <2> QED
    BY <1>2, <2>1, FS_Subset
<1>4. PICK w \in A : Cardinality(Below(A, w)) = 1
  <2>1. 1 \in 1 .. Cardinality(A)
    BY <1>1
  <2> QED
    BY <2>1, PlacesTaken
<1>5. \A y \in A : w <= y
  <2>1. Below(A, w) \in SUBSET A /\ w \in Below(A, w)
    BY DEF Below
  <2>2. IsFiniteSet(Below(A, w))
    BY <2>1, FS_Subset
  <2>3. Below(A, w) = {w}
    BY <1>4, <2>1, <2>2, FS_Singleton
  <2> QED
    BY <2>3 DEF Below
<1> QED
  BY <1>3, <1>5 DEF Below

-----------------------------------------------------------------------------
(* pairImages.                                                             *)

\* The pins of a repository.
LEMMA OfFinite ==
  ASSUME NEW S \in SUBSET Pins, NEW r
  PROVE  /\ Of(S, r) \subseteq S /\ IsFiniteSet(Of(S, r))
         /\ Of(S, r) \subseteq Nat /\ 0 \notin Of(S, r)
<1>1. Pins \subseteq Nat \ {0} /\ IsFiniteSet(Pins)
  BY ScanAssumption
<1>2. Of(S, r) \subseteq S /\ Of(S, r) \in SUBSET Pins
  BY DEF Of
<1>3. IsFiniteSet(Of(S, r))
  BY <1>1, <1>2, FS_Subset
<1> QED
  BY <1>1, <1>2, <1>3

LEMMA LeastIsOne ==
  ASSUME NEW A, IsFiniteSet(A), A \subseteq Nat, A # {}
  PROVE  Least(A) \in A
<1>1. \E x \in A : \A y \in A : x <= y
  BY HasLast
<1> QED
  BY <1>1 DEF Least

\* A new pin is compared with an old pin of its own repository.
LEMMA PairIsOld ==
  ASSUME NEW old \in SUBSET Pins, NEW new \in SUBSET Pins, NEW x \in new \ old
  PROVE  \/ Pair(old, new, x) = 0
         \/ Pair(old, new, x) \in Of(old, Repository[x])
<1> DEFINE r    == Repository[x]
           gone == {y \in Of(old \ new, r) :
                      Place(old \ new, y) = Place(new \ old, x)}
           kept == Of(old \cap new, r)
<1>1. gone \in SUBSET Of(old, r) /\ kept \in SUBSET Of(old, r)
  BY DEF Of
<1>2. IsFiniteSet(Of(old, r)) /\ Of(old, r) \subseteq Nat
  BY OfFinite
<1>3. /\ IsFiniteSet(gone) /\ gone \subseteq Nat
      /\ IsFiniteSet(kept) /\ kept \subseteq Nat
  BY <1>1, <1>2, FS_Subset
<1>4. Pair(old, new, x) = IF gone # {} THEN Least(gone)
                          ELSE IF kept # {} THEN Least(kept) ELSE 0
  BY DEF Pair
<1> HIDE DEF gone, kept
<1>5. gone # {} => Least(gone) \in gone
  BY <1>3, LeastIsOne
<1>6. kept # {} => Least(kept) \in kept
  BY <1>3, LeastIsOne
<1> QED
  BY <1>1, <1>4, <1>5, <1>6

\* One that is compared with nothing belongs to a repository that kept no pin
\* and has more of them than before: had it as many pins that went away, one
\* of these would have its place.
LEMMA UnpairedIsGain ==
  ASSUME NEW old \in SUBSET Pins, NEW new \in SUBSET Pins, NEW x \in new \ old,
         Pair(old, new, x) = 0
  PROVE  LET r == Repository[x]
         IN /\ Of(old \cap new, r) = {}
            /\ Cardinality(Of(new, r)) > Cardinality(Of(old, r))
<1> DEFINE r    == Repository[x]
           went == Of(old \ new, r)
           came == Of(new \ old, r)
           gone == {y \in went : Place(old \ new, y) = Place(new \ old, x)}
           kept == Of(old \cap new, r)
<1>1. /\ IsFiniteSet(went) /\ went \subseteq Nat /\ 0 \notin went
      /\ IsFiniteSet(came) /\ came \subseteq Nat
      /\ IsFiniteSet(kept) /\ kept \subseteq Nat /\ 0 \notin kept
  BY OfFinite
<1>2. gone = {} /\ kept = {}
  <2>1. Pair(old, new, x) = IF gone # {} THEN Least(gone)
                            ELSE IF kept # {} THEN Least(kept) ELSE 0
    BY DEF Pair
  <2>2. gone \in SUBSET went
    OBVIOUS
  <2>3. IsFiniteSet(gone) /\ gone \subseteq Nat /\ 0 \notin gone
    BY <1>1, <2>2, FS_Subset
  <2> HIDE DEF gone, kept
  <2>4. gone # {} => Least(gone) \in gone
    BY <2>3, LeastIsOne
  <2>5. kept # {} => Least(kept) \in kept
    BY <1>1, LeastIsOne
  <2> QED
    BY <1>1, <2>1, <2>3, <2>4, <2>5
<1>3. Of(old, r) = went /\ Of(new, r) = came
  BY <1>2 DEF Of
<1>4. Place(new \ old, x) = Cardinality(Below(came, x))
      /\ \A y \in went : Place(old \ new, y) = Cardinality(Below(went, y))
  BY DEF Place, Below, Of
<1>5. Cardinality(Below(came, x)) \in 1 .. Cardinality(came)
  <2>1. x \in Below(came, x) /\ Below(came, x) \in SUBSET came
    <3>1. x \in came
      BY DEF Of
    <3> QED
      BY <1>1, <3>1 DEF Below
  <2> HIDE DEF came
  <2>2. IsFiniteSet(Below(came, x))
        /\ Cardinality(Below(came, x)) <= Cardinality(came)
    BY <1>1, <2>1, FS_Subset
  <2>3. Cardinality(Below(came, x)) \in Nat /\ Cardinality(came) \in Nat
    BY <1>1, <2>2, FS_CardinalityType
  <2>4. Cardinality(Below(came, x)) # 0
    BY <2>1, <2>2, FS_EmptySet
  <2> QED
    BY <2>2, <2>3, <2>4
<1>6. Cardinality(came) \in Nat /\ Cardinality(went) \in Nat
  BY <1>1, FS_CardinalityType
<1>7. ~(Cardinality(came) <= Cardinality(went))
  <2> SUFFICES ASSUME Cardinality(came) <= Cardinality(went) PROVE FALSE
    OBVIOUS
  <2> HIDE DEF came, went
  <2>1. Cardinality(Below(came, x)) \in 1 .. Cardinality(went)
    BY <1>5, <1>6
  <2>2. PICK y \in went : Cardinality(Below(went, y))
                            = Cardinality(Below(came, x))
    BY <1>1, <2>1, PlacesTaken
  <2>3. y \in gone
    BY <1>4, <2>2
  <2> QED
    BY <1>2, <2>3
<1> QED
  BY <1>2, <1>3, <1>6, <1>7

-----------------------------------------------------------------------------
(* Types.                                                                  *)

LEMMA NothingTyped ==
  /\ NoException \in Exception /\ NoFile \in Provenance /\ NewTile \in Tree
  /\ NoPR \in PR /\ [NoPR EXCEPT !.st = "merged"] \in PR
<1>1. NoException \in Exception
  BY DEF Exception
<1>2. NoFile \in Provenance
  BY <1>1 DEF NoFile, Provenance
<1>3. NewTile \in Tree
  BY <1>2 DEF NewTile, Tree
<1>4. NoPR \in PR
  BY <1>3 DEF NoPR, PR
<1>5. [NoPR EXCEPT !.st = "merged"] \in PR
  BY <1>3 DEF NoPR, PR
<1> QED
  BY <1>1, <1>2, <1>3, <1>4, <1>5

\* The scan of an image.
LEMMA ReportTyped ==
  ASSUME NEW x \in Pins, NEW prov, prov.exception \in Exception
  PROVE  WriteReport(prov, x) \in Provenance
BY DEF WriteReport, Provenance

\* What -write leaves: the last scan, with the exception there was.
LEMMA WrittenIs ==
  ASSUME NEW prov, NEW S \in SUBSET Pins
  PROVE  /\ S = {} => Written(prov, S) = prov
         /\ S # {} => \E m \in S : /\ \A y \in S : y <= m
                                   /\ Written(prov, S) = WriteReport(prov, m)
<1>1. S # {} => \E m \in S : \A y \in S : y <= m
  <2>1. S \subseteq Nat /\ IsFiniteSet(S)
    BY ScanAssumption, FS_Subset
  <2> QED
    BY <2>1, HasLast
<1> QED
  BY <1>1 DEF Written

\* A merge mixes the fields of three files.
LEMMA MergedTyped ==
  ASSUME TypeOK, NEW p \in PRs
  PROVE  /\ Merged(p) \in Tree
         /\ Merged(p).images =
              (main.images \ (pr[p].base.images \ pr[p].tree.images))
                 \cup (pr[p].tree.images \ pr[p].base.images)
         /\ Merged(p).prov.exception =
              Pick(pr[p].base.prov.exception, pr[p].tree.prov.exception,
                   main.prov.exception)
<1> DEFINE b == pr[p].base.prov
           t == pr[p].tree.prov
           m == main.prov
           mixed == [f \in DOMAIN b |-> Pick(b[f], t[f], m[f])]
<1>1. /\ b \in Provenance /\ t \in Provenance /\ m \in Provenance
      /\ pr[p].base.images \subseteq Pins /\ pr[p].tree.images \subseteq Pins
      /\ main.images \subseteq Pins
  BY DEF TypeOK, PR, Tree
<1> HIDE DEF b, t, m
<1>2. DOMAIN b = {"image", "sourceAvailable", "copyleft", "exception"}
  BY <1>1 DEF Provenance
<1>3. mixed = [image |-> Pick(b.image, t.image, m.image),
               sourceAvailable |-> Pick(b.sourceAvailable, t.sourceAvailable,
                                        m.sourceAvailable),
               copyleft |-> Pick(b.copyleft, t.copyleft, m.copyleft),
               exception |-> Pick(b.exception, t.exception, m.exception)]
  BY <1>2
<1> HIDE DEF mixed
<1>4. mixed \in Provenance
        /\ mixed.exception = Pick(b.exception, t.exception, m.exception)
  BY <1>1, <1>3 DEF Provenance, Pick
<1>5. Merged(p) =
        [images |-> (main.images \ (pr[p].base.images \ pr[p].tree.images))
                       \cup (pr[p].tree.images \ pr[p].base.images),
         prov |-> mixed]
  BY DEF Merged, mixed, b, t, m
<1> QED
  BY <1>1, <1>4, <1>5 DEF Tree, b, t, m

\* The pull request a step is about, and the others.
LEMMA OneChanges ==
  ASSUME TypeOK, NEW p \in PRs, NEW new \in PR, pr' = [pr EXCEPT ![p] = new]
  PROVE  /\ pr'[p] = new /\ pr' \in [PRs -> PR]
         /\ \A q \in PRs \ {p} : pr'[q] = pr[q]
BY DEF TypeOK

\* A push to a branch.
LEMMA BranchIs ==
  ASSUME TypeOK, NEW p \in PRs, NEW tree \in Tree, NEW edited \in BOOLEAN,
         Branch(p, tree, edited)
  PROVE  /\ pr' \in [PRs -> PR] /\ UNCHANGED <<db, main, updates>>
         /\ pr'[p].st = pr[p].st /\ pr'[p].base = pr[p].base
         /\ pr'[p].tree = tree /\ pr'[p].edited = edited
         /\ pr'[p].gate = "none" /\ pr'[p].seen = {}
         /\ \A q \in PRs \ {p} : pr'[q] = pr[q]
<1> DEFINE new == [pr[p] EXCEPT !.tree = tree, !.edited = edited,
                                !.gate = "none", !.seen = {}]
<1>1. pr[p] \in PR /\ pr' = [pr EXCEPT ![p] = new]
  BY DEF TypeOK, Branch
<1>2. /\ new.st = pr[p].st /\ new.base = pr[p].base /\ new.tree = tree
      /\ new.edited = edited /\ new.gate = "none" /\ new.seen = {}
  BY <1>1 DEF PR
<1>3. new \in PR
  BY <1>1 DEF PR
<1> HIDE DEF new
<1> QED
  BY <1>1, <1>2, <1>3, OneChanges DEF Branch

\* -write keeps the exception of the branch and its pins.
LEMMA WriteIs ==
  ASSUME TypeOK, NEW p \in PRs, NEW S \in SUBSET Pins, Write(p, S)
  PROVE  \E tree \in Tree :
           /\ Branch(p, tree, pr[p].edited)
           /\ tree.images = pr[p].tree.images
           /\ tree.prov = Written(pr[p].tree.prov, S)
           /\ tree.prov.exception = pr[p].tree.prov.exception
<1> DEFINE prov == pr[p].tree.prov
           tree == [pr[p].tree EXCEPT !.prov = Written(@, S)]
<1>1. pr[p].tree \in Tree /\ prov \in Provenance /\ prov.exception \in Exception
  BY DEF TypeOK, PR, Tree, Provenance
<1>2. Written(prov, S) \in Provenance
      /\ Written(prov, S).exception = prov.exception
  <2>1. CASE S = {}
    BY <1>1, <2>1, WrittenIs
  <2>2. CASE S # {}
    <3>1. PICK m \in S : Written(prov, S) = WriteReport(prov, m)
      BY <2>2, WrittenIs
    <3>2. WriteReport(prov, m) \in Provenance
      BY <1>1, ReportTyped
    <3>3. WriteReport(prov, m).exception = prov.exception
      BY DEF WriteReport
    <3> QED
      BY <3>1, <3>2, <3>3
  <2> QED
    BY <2>1, <2>2
<1>3. /\ tree = [images |-> pr[p].tree.images, prov |-> Written(prov, S)]
      /\ pr[p].tree.images \in SUBSET Pins
  BY <1>1 DEF Tree
<1>4. tree \in Tree /\ tree.images = pr[p].tree.images
      /\ tree.prov = Written(prov, S)
  BY <1>2, <1>3 DEF Tree
<1>5. Branch(p, tree, pr[p].edited)
  BY DEF Write
<1> HIDE DEF tree
<1> QED
  BY <1>2, <1>4, <1>5

\* Setting the exception keeps the rest.
LEMMA AcceptIs ==
  ASSUME TypeOK, NEW p \in PRs, NEW e \in Exception, Accept(p, e)
  PROVE  \E tree \in Tree :
           Branch(p, tree, TRUE) /\ tree.images = pr[p].tree.images
<1> DEFINE prov == pr[p].tree.prov
           tree == [pr[p].tree EXCEPT !.prov.exception = e]
<1>1. pr[p].tree \in Tree /\ prov \in Provenance
  BY DEF TypeOK, PR, Tree
<1>2. /\ tree = [images |-> pr[p].tree.images,
                 prov |-> [prov EXCEPT !.exception = e]]
      /\ [prov EXCEPT !.exception = e] \in Provenance
      /\ pr[p].tree.images \in SUBSET Pins
  BY <1>1 DEF Tree, Provenance
<1>3. tree \in Tree /\ tree.images = pr[p].tree.images
  BY <1>2 DEF Tree
<1>4. Branch(p, tree, TRUE)
  BY DEF Accept
<1> HIDE DEF tree
<1> QED
  BY <1>3, <1>4

\* A new branch.
LEMMA OpenIs ==
  ASSUME TypeOK, NEW p \in PRs, NEW images \in SUBSET Pins, Open(p, images)
  PROVE  /\ pr' \in [PRs -> PR] /\ UNCHANGED <<db, main, updates>>
         /\ pr'[p].st = "open" /\ pr'[p].base = main
         /\ pr'[p].tree.images = images /\ pr'[p].tree.prov = main.prov
         /\ pr'[p].edited = FALSE
         /\ pr'[p].gate = "none" /\ pr'[p].seen = {}
         /\ \A q \in PRs \ {p} : pr'[q] = pr[q]
<1> DEFINE tree == [main EXCEPT !.images = images]
           new  == [NoPR EXCEPT !.st = "open", !.base = main, !.tree = tree]
<1>1. main \in Tree
  BY DEF TypeOK
<1>2. tree \in Tree /\ tree.images = images /\ tree.prov = main.prov
  BY <1>1 DEF Tree
<1>3. pr' = [pr EXCEPT ![p] = new]
  BY DEF Open
<1> HIDE DEF tree
<1>4. NoPR \in PR /\ NoPR.gate = "none" /\ NoPR.seen = {}
      /\ NoPR.edited = FALSE
  BY NothingTyped, Zenon DEF NoPR
<1>5. /\ new \in PR /\ new.st = "open" /\ new.base = main /\ new.tree = tree
      /\ new.gate = NoPR.gate /\ new.seen = NoPR.seen
      /\ new.edited = NoPR.edited
  BY <1>1, <1>2, <1>4 DEF PR
<1> HIDE DEF new
<1>6. /\ pr'[p] = new /\ pr' \in [PRs -> PR]
      /\ \A q \in PRs \ {p} : pr'[q] = pr[q]
  BY <1>3, <1>5, OneChanges
<1>7. UNCHANGED <<db, main, updates>>
  BY DEF Open
<1> QED
  BY <1>2, <1>4, <1>5, <1>6, <1>7, Zenon

\* A check that ends.
LEMMA GateIs ==
  ASSUME TypeOK, NEW p \in PRs, Gate(p)
  PROVE  /\ pr' \in [PRs -> PR] /\ UNCHANGED <<db, main, updates>>
         /\ pr[p].st = "open"
         /\ pr'[p].st = pr[p].st /\ pr'[p].base = pr[p].base
         /\ pr'[p].tree = pr[p].tree /\ pr'[p].edited = pr[p].edited
         /\ \/ pr'[p].gate = "red"
            \/ /\ pr'[p].seen \in {main.images, {}}
               /\ Passes(pr'[p].seen, Merged(p).images, Merged(p).prov)
         /\ \A q \in PRs \ {p} : pr'[q] = pr[q]
<1>1. pr[p] \in PR /\ main.images \in SUBSET Pins
  BY DEF TypeOK, Tree
<1>2. CASE pr' = [pr EXCEPT ![p].gate = "red"]
  <2> DEFINE new == [pr[p] EXCEPT !.gate = "red"]
  <2>1. /\ new \in PR /\ new.st = pr[p].st /\ new.base = pr[p].base
        /\ new.tree = pr[p].tree /\ new.edited = pr[p].edited
        /\ new.gate = "red"
    BY <1>1 DEF PR
  <2>2. pr' = [pr EXCEPT ![p] = new]
    BY <1>2
  <2> HIDE DEF new
  <2> QED
    BY <2>1, <2>2, OneChanges DEF Gate
<1>3. ASSUME NEW S \in {main.images, {}},
             Passes(S, Merged(p).images, Merged(p).prov),
             pr' = [pr EXCEPT ![p].gate = "green", ![p].seen = S]
      PROVE  /\ pr' \in [PRs -> PR]
             /\ pr'[p].st = pr[p].st /\ pr'[p].base = pr[p].base
             /\ pr'[p].tree = pr[p].tree /\ pr'[p].edited = pr[p].edited
             /\ pr'[p].seen = S
             /\ \A q \in PRs \ {p} : pr'[q] = pr[q]
  <2> DEFINE new == [pr[p] EXCEPT !.gate = "green", !.seen = S]
  <2>1. /\ new \in PR /\ new.st = pr[p].st /\ new.base = pr[p].base
        /\ new.tree = pr[p].tree /\ new.edited = pr[p].edited
        /\ new.seen = S
    BY <1>1 DEF PR
  <2>2. pr' = [pr EXCEPT ![p] = new]
    BY <1>3
  <2> HIDE DEF new
  <2> QED
    BY <2>1, <2>2, OneChanges
<1>4. CASE \E S \in {main.images, {}} :
             /\ Passes(S, Merged(p).images, Merged(p).prov)
             /\ pr' = [pr EXCEPT ![p].gate = "green", ![p].seen = S]
  <2>1. PICK S \in {main.images, {}} :
             /\ Passes(S, Merged(p).images, Merged(p).prov)
             /\ pr' = [pr EXCEPT ![p].gate = "green", ![p].seen = S]
    BY <1>4
  <2> QED
    BY <1>3, <2>1 DEF Gate
<1> QED
  BY <1>2, <1>4 DEF Gate

\* A request that is merged is nobody's any more.
LEMMA MergeIs ==
  ASSUME TypeOK, NEW p \in PRs, Merge(p)
  PROVE  /\ pr' \in [PRs -> PR] /\ main' = Merged(p)
         /\ UNCHANGED <<db, updates>>
         /\ pr[p].st = "open" /\ pr[p].gate = "green"
         /\ pr'[p] = [NoPR EXCEPT !.st = "merged"]
         /\ \A q \in PRs \ {p} : pr'[q] = pr[q]
BY NothingTyped, OneChanges DEF Merge

-----------------------------------------------------------------------------
(* The invariant.                                                          *)

\* A branch whose author did not touch the exception has that of its base.
UneditedIsBase(p) ==
  pr[p].st = "open" /\ ~pr[p].edited =>
    pr[p].tree.prov.exception = pr[p].base.prov.exception

\* Whatever a green request brings that is source-available was compared with
\* a pin of its repository.
GreenCompared(p) ==
  pr[p].gate = "green" =>
    \A x \in pr[p].tree.images \ pr[p].base.images :
      Licenses[x] \cap SourceAvailable # {} =>
        Of(pr[p].seen, Repository[x]) # {}

PRInv(p) == UneditedIsBase(p) /\ GreenCompared(p)

ScanInv == TypeOK /\ \A p \in PRs : PRInv(p)

LEMMA ScanInvInit == Init => ScanInv
<1> SUFFICES ASSUME Init PROVE ScanInv
  OBVIOUS
<1>1. PICK images \in SUBSET {x \in Pins : ~Relicensed(x)}, e \in Exception :
        \E prov \in {NoFile}
                      \cup {WriteReport([exception |-> e], x) : x \in images} :
          main = [images |-> images, prov |-> prov]
  BY DEF Init
<1>2. PICK prov \in {NoFile}
                      \cup {WriteReport([exception |-> e], x) : x \in images} :
        main = [images |-> images, prov |-> prov]
  BY <1>1
<1>3. prov \in Provenance
  <2>1. \A x \in Pins : WriteReport([exception |-> e], x) \in Provenance
    BY ReportTyped
  <2> QED
    BY <1>2, <2>1, NothingTyped
<1>4. main \in Tree
  BY <1>2, <1>3 DEF Tree
<1>5. pr \in [PRs -> PR] /\ \A p \in PRs : pr[p] = NoPR
  BY NothingTyped DEF Init
<1>6. NoPR.st = "none" /\ NoPR.gate = "none"
  BY DEF NoPR
<1>7. \A p \in PRs : PRInv(p)
  BY <1>5, <1>6 DEF PRInv, UneditedIsBase, GreenCompared
<1>8. db \in Databases /\ updates \in 0 .. MaxDbUpdates
  BY ScanAssumption DEF Init
<1> QED
  BY <1>4, <1>5, <1>7, <1>8 DEF ScanInv, TypeOK

\* A comparison that passed leaves no source-available image unpaired.
LEMMA PassesCompares ==
  ASSUME NEW old \in SUBSET Pins, NEW new \in SUBSET Pins, NEW prov,
         Passes(old, new, prov),
         NEW x \in new, Licenses[x] \cap SourceAvailable # {}
  PROVE  Of(old, Repository[x]) # {}
<1>1. CASE x \in old
  BY <1>1 DEF Of
<1>2. CASE x \notin old
  <2>1. x \notin Added(old, new)
    BY DEF Passes, Relicensed
  <2>2. Pair(old, new, x) # 0
    BY <1>2, <2>1 DEF Added
  <2> QED
    BY <1>2, <2>2, PairIsOld
<1> QED
  BY <1>1, <1>2

\* The request a step is about keeps what it says, and so do the others.
LEMMA ScanInvNext == ScanInv /\ [Next]_vars => ScanInv'
<1> SUFFICES ASSUME ScanInv, [Next]_vars PROVE ScanInv'
  OBVIOUS
<1>1. TypeOK /\ \A p \in PRs : PRInv(p)
  BY DEF ScanInv
<1>2. ASSUME NEW p \in PRs, pr' \in [PRs -> PR], PRInv(p)', TypeOK',
             \A q \in PRs \ {p} : pr'[q] = pr[q]
      PROVE  ScanInv'
  <2>1. \A q \in PRs \ {p} : PRInv(q)'
    BY <1>1, <1>2 DEF PRInv, UneditedIsBase, GreenCompared
  <2> QED
    BY <1>2, <2>1 DEF ScanInv
<1>3. ASSUME NEW p \in PRs, NEW S \in SUBSET Pins, Open(p, S)
      PROVE  ScanInv'
  <2>1. /\ pr' \in [PRs -> PR] /\ UNCHANGED <<db, main, updates>>
        /\ pr'[p].base = main /\ pr'[p].tree.prov = main.prov
        /\ pr'[p].gate = "none"
        /\ \A q \in PRs \ {p} : pr'[q] = pr[q]
    BY <1>1, <1>3, OpenIs
  <2>2. PRInv(p)'
    BY <2>1 DEF PRInv, UneditedIsBase, GreenCompared
  <2>3. TypeOK'
    BY <1>1, <2>1 DEF TypeOK
  <2> QED
    BY <1>2, <2>1, <2>2, <2>3
<1>4. ASSUME NEW p \in PRs, NEW tree \in Tree, NEW edited \in BOOLEAN,
             Branch(p, tree, edited),
             \/ edited
             \/ /\ edited = pr[p].edited
                /\ tree.prov.exception = pr[p].tree.prov.exception
      PROVE  ScanInv'
  <2>1. /\ pr' \in [PRs -> PR] /\ UNCHANGED <<db, main, updates>>
        /\ pr'[p].st = pr[p].st /\ pr'[p].base = pr[p].base
        /\ pr'[p].tree = tree /\ pr'[p].edited = edited
        /\ pr'[p].gate = "none"
        /\ \A q \in PRs \ {p} : pr'[q] = pr[q]
    BY <1>1, <1>4, BranchIs
  <2>2. UneditedIsBase(p)'
    <3>1. UneditedIsBase(p)
      BY <1>1 DEF PRInv
    <3> QED
      BY <1>4, <2>1, <3>1, Zenon DEF UneditedIsBase
  <2>3. GreenCompared(p)'
    BY <2>1 DEF GreenCompared
  <2>4. TypeOK'
    BY <1>1, <2>1 DEF TypeOK
  <2> QED
    BY <1>2, <2>1, <2>2, <2>3, <2>4 DEF PRInv
<1>5. ASSUME NEW p \in PRs, NEW S \in SUBSET Pins, Write(p, S)
      PROVE  ScanInv'
  <2>1. PICK tree \in Tree :
           /\ Branch(p, tree, pr[p].edited)
           /\ tree.prov.exception = pr[p].tree.prov.exception
    BY <1>1, <1>5, WriteIs
  <2>2. pr[p].edited \in BOOLEAN
    BY <1>1 DEF TypeOK, PR
  <2> QED
    BY <1>4, <2>1, <2>2
<1>6. ASSUME NEW p \in PRs, NEW e \in Exception, Accept(p, e)
      PROVE  ScanInv'
  <2>1. PICK tree \in Tree : Branch(p, tree, TRUE)
    BY <1>1, <1>6, AcceptIs
  <2> QED
    BY <1>4, <2>1
<1>7. ASSUME NEW p \in PRs, Gate(p) PROVE ScanInv'
  <2>1. /\ pr' \in [PRs -> PR] /\ UNCHANGED <<db, main, updates>>
        /\ pr'[p].st = pr[p].st /\ pr'[p].base = pr[p].base
        /\ pr'[p].tree = pr[p].tree /\ pr'[p].edited = pr[p].edited
        /\ \/ pr'[p].gate = "red"
           \/ /\ pr'[p].seen \in {main.images, {}}
              /\ Passes(pr'[p].seen, Merged(p).images, Merged(p).prov)
        /\ \A q \in PRs \ {p} : pr'[q] = pr[q]
    BY <1>1, <1>7, GateIs
  <2>2. UneditedIsBase(p)'
    BY <1>1, <2>1 DEF PRInv, UneditedIsBase
  <2>3. GreenCompared(p)'
    <3> SUFFICES ASSUME pr'[p].gate = "green",
                        NEW x \in pr[p].tree.images \ pr[p].base.images,
                        Licenses[x] \cap SourceAvailable # {}
                 PROVE  Of(pr'[p].seen, Repository[x]) # {}
      BY <2>1 DEF GreenCompared
    <3>1. Passes(pr'[p].seen, Merged(p).images, Merged(p).prov)
          /\ pr'[p].seen \in SUBSET Pins
      BY <1>1, <2>1 DEF TypeOK, Tree
    <3>2. Merged(p).images \in SUBSET Pins /\ x \in Merged(p).images
      BY <1>1, MergedTyped DEF Tree
    <3> QED
      BY <3>1, <3>2, PassesCompares
  <2>4. TypeOK'
    BY <1>1, <2>1 DEF TypeOK
  <2> QED
    BY <1>2, <2>1, <2>2, <2>3, <2>4 DEF PRInv
<1>8. ASSUME NEW p \in PRs, Merge(p) PROVE ScanInv'
  <2>1. /\ pr' \in [PRs -> PR] /\ main' = Merged(p)
        /\ UNCHANGED <<db, updates>>
        /\ pr'[p] = [NoPR EXCEPT !.st = "merged"]
        /\ \A q \in PRs \ {p} : pr'[q] = pr[q]
    BY <1>1, <1>8, MergeIs
  <2>2. pr'[p].st = "merged" /\ pr'[p].gate = "none"
    BY <2>1 DEF NoPR
  <2>3. PRInv(p)'
    BY <2>2 DEF PRInv, UneditedIsBase, GreenCompared
  <2>4. TypeOK'
    BY <1>1, <2>1, MergedTyped DEF TypeOK
  <2> QED
    BY <1>2, <2>1, <2>3, <2>4
<1>9. CASE DbUpdate
  <2>1. /\ pr' = pr /\ main' = main /\ db' \in Databases
        /\ updates < MaxDbUpdates /\ updates' = updates + 1
    BY <1>9 DEF DbUpdate
  <2>2. MaxDbUpdates \in Nat
    BY ScanAssumption
  <2>3. TypeOK'
    BY <1>1, <2>1, <2>2 DEF TypeOK
  <2> QED
    BY <1>1, <2>1, <2>3 DEF ScanInv, PRInv, UneditedIsBase, GreenCompared
<1>10. CASE UNCHANGED vars
  BY <1>1, <1>10
     DEF vars, ScanInv, TypeOK, PRInv, UneditedIsBase, GreenCompared
<1> QED
  BY <1>3, <1>5, <1>6, <1>7, <1>8, <1>9, <1>10 DEF Next

LEMMA ScanInvHolds == Spec => []ScanInv
BY ScanInvInit, ScanInvNext, PTL DEF Spec

\* Everything the gate keeps has its type.
THEOREM ScanTypeCorrect == Spec => []TypeOK
<1>1. ScanInv => TypeOK
  BY DEF ScanInv
<1> QED
  BY <1>1, ScanInvHolds, PTL

-----------------------------------------------------------------------------
(* What a step may never do.                                               *)

\* Only a merge moves main.
LEMMA OnlyMergeMoves ==
  ASSUME Next, main' # main
  PROVE  \E p \in PRs : Merge(p)
<1>1. ASSUME NEW p \in PRs, NEW S \in SUBSET Pins, Open(p, S) \/ Write(p, S)
      PROVE  FALSE
  BY <1>1 DEF Open, Write, Branch
<1>2. ASSUME NEW p \in PRs, NEW e \in Exception, Accept(p, e) PROVE FALSE
  BY <1>2 DEF Accept, Branch
<1>3. ASSUME NEW p \in PRs, Gate(p) PROVE FALSE
  BY <1>3 DEF Gate
<1>4. ~DbUpdate
  BY DEF DbUpdate
<1> QED
  BY <1>1, <1>2, <1>3, <1>4 DEF Next

\* The reviewed exception of a tile changes only by a request that set it,
\* however often -write rewrote the file of any request meanwhile.
THEOREM ExceptionsAreReviewedProven == Spec => ExceptionsAreReviewed
<1> DEFINE Reviewed ==
      main'.prov.exception # main.prov.exception =>
        \E p \in PRs :
          pr[p].st = "open" /\ pr'[p].st = "merged" /\ pr[p].edited
<1>1. ScanInv /\ Next => Reviewed
  <2> SUFFICES ASSUME ScanInv, Next,
                      main'.prov.exception # main.prov.exception
               PROVE  \E p \in PRs : pr[p].st = "open" /\ pr'[p].st = "merged"
                                     /\ pr[p].edited
    OBVIOUS
  <2>1. PICK p \in PRs : Merge(p)
    BY OnlyMergeMoves
  <2>2. TypeOK /\ UneditedIsBase(p)
    BY DEF ScanInv, PRInv
  <2>3. /\ main' = Merged(p) /\ pr[p].st = "open"
        /\ pr'[p] = [NoPR EXCEPT !.st = "merged"]
    BY <2>1, <2>2, MergeIs
  <2>4. pr'[p].st = "merged"
    BY <2>3 DEF NoPR
  <2>5. main'.prov.exception =
          Pick(pr[p].base.prov.exception, pr[p].tree.prov.exception,
               main.prov.exception)
    BY <2>2, <2>3, MergedTyped
  <2>6. pr[p].edited
    BY <2>2, <2>3, <2>5 DEF UneditedIsBase, Pick
  <2> QED
    BY <2>3, <2>4, <2>6
<1>2. ScanInv /\ [Next]_vars => [Reviewed]_vars
  BY <1>1
<1> QED
  BY <1>2, ScanInvHolds, PTL DEF Spec, ExceptionsAreReviewed

\* A request changes by its merge, by its check, or is pushed, when its check
\* starts over.
LEMMA StepOf ==
  ASSUME TypeOK, Next, NEW p \in PRs, pr'[p] # pr[p]
  PROVE  \/ Merge(p) \/ Gate(p)
         \/ pr'[p].st = "open" /\ pr'[p].gate = "none"
<1> SUFFICES ASSUME ~Merge(p), ~Gate(p),
                    ~(pr'[p].st = "open" /\ pr'[p].gate = "none")
             PROVE  FALSE
  OBVIOUS
<1>1. ASSUME NEW q \in PRs, NEW S \in SUBSET Pins, Open(q, S) PROVE FALSE
  BY <1>1, OpenIs
<1>2. ASSUME NEW q \in PRs, NEW tree \in Tree, NEW edited \in BOOLEAN,
             Branch(q, tree, edited), pr[q].st = "open"
      PROVE  FALSE
  BY <1>2, BranchIs
<1>3. ASSUME NEW q \in PRs, NEW S \in SUBSET Pins, Write(q, S) PROVE FALSE
  <2>1. pr[q].edited \in BOOLEAN /\ pr[q].st = "open"
    BY <1>3 DEF TypeOK, PR, Write
  <2> QED
    BY <1>2, <1>3, <2>1, WriteIs
<1>4. ASSUME NEW q \in PRs, NEW e \in Exception, Accept(q, e) PROVE FALSE
  <2>1. pr[q].st = "open"
    BY <1>4 DEF Accept
  <2> QED
    BY <1>2, <1>4, <2>1, AcceptIs
<1>5. ASSUME NEW q \in PRs, Gate(q) PROVE FALSE
  BY <1>5, GateIs
<1>6. ASSUME NEW q \in PRs, Merge(q) PROVE FALSE
  BY <1>6, MergeIs
<1>7. ~DbUpdate
  BY DEF DbUpdate
<1> QED
  BY <1>1, <1>3, <1>4, <1>5, <1>6, <1>7 DEF Next

\* Whatever pins a tile gains, wherever main was when they were compared: a
\* source-available image only replaces one of its repository.
THEOREM SourceAvailableOnlyReplacesProven ==
  Spec => SourceAvailableOnlyReplaces
<1> DEFINE Replaces ==
      \A p \in PRs : pr[p].st = "open" /\ pr'[p].st = "merged" =>
        \A x \in main'.images \ main.images :
          Licenses[x] \cap SourceAvailable # {} =>
            Of(pr[p].seen, Repository[x]) # {}
<1>1. ScanInv /\ Next => Replaces
  <2> SUFFICES ASSUME ScanInv, Next, NEW p \in PRs,
                      pr[p].st = "open", pr'[p].st = "merged",
                      NEW x \in main'.images \ main.images,
                      Licenses[x] \cap SourceAvailable # {}
               PROVE  Of(pr[p].seen, Repository[x]) # {}
    OBVIOUS
  <2>1. TypeOK /\ GreenCompared(p)
    BY DEF ScanInv, PRInv
  <2>2. main' = Merged(p) /\ pr[p].gate = "green"
    <3>1. pr'[p] # pr[p] /\ ~Gate(p)
      BY <2>1, GateIs
    <3> QED
      BY <2>1, <3>1, StepOf, MergeIs
  <2>3. x \in pr[p].tree.images \ pr[p].base.images
    BY <2>1, <2>2, MergedTyped
  <2> QED
    BY <2>1, <2>2, <2>3 DEF GreenCompared
<1>2. ScanInv /\ [Next]_vars => [Replaces]_vars
  BY <1>1
<1> QED
  BY <1>2, ScanInvHolds, PTL DEF Spec, SourceAvailableOnlyReplaces

\* The one file of a tile verifies for the last image scanned, and for no
\* other, whatever images it has and which of the scans succeeded.
THEOREM OneImageVerifiesProven == Spec => OneImageVerifies
<1> DEFINE Verifies ==
      \A p \in PRs : \A S \in (SUBSET pr[p].tree.images) \ {{}} :
        Write(p, S) =>
          \A x \in pr[p].tree.images :
            "drift" \notin Reported(pr'[p].tree, x) <=>
              x \in S /\ \A y \in S : y <= x
<1>1. TypeOK => Verifies
  <2> SUFFICES ASSUME TypeOK, NEW p \in PRs,
                      NEW S \in (SUBSET pr[p].tree.images) \ {{}},
                      Write(p, S), NEW x \in pr[p].tree.images
               PROVE  "drift" \notin Reported(pr'[p].tree, x) <=>
                        x \in S /\ \A y \in S : y <= x
    BY Zenon
  <2> DEFINE prov == pr[p].tree.prov
  <2>1. S \in SUBSET Pins /\ S # {} /\ x \in Pins
        /\ pr[p].edited \in BOOLEAN
    <3>1. pr[p].tree.images \subseteq Pins /\ pr[p].edited \in BOOLEAN
      BY DEF TypeOK, PR, Tree
    <3>2. S \subseteq pr[p].tree.images /\ S # {}
      BY Zenon
    <3> QED
      BY <3>1, <3>2
  <2>2. pr'[p].tree.prov = Written(prov, S)
    <3>1. PICK tree \in Tree : Branch(p, tree, pr[p].edited)
                               /\ tree.prov = Written(prov, S)
      BY <2>1, WriteIs
    <3> QED
      BY <2>1, <3>1, BranchIs
  <2>3. PICK m \in S : (\A y \in S : y <= m)
                       /\ Written(prov, S) = WriteReport(prov, m)
    BY <2>1, WrittenIs
  <2>4. WriteReport(prov, m).exception = prov.exception
        /\ WriteReport(prov, m).image = m
    BY DEF WriteReport
  <2>5. WriteReport(WriteReport(prov, m), m) = WriteReport(prov, m)
    BY <2>4 DEF WriteReport
  <2>6. WriteReport(WriteReport(prov, m), x).image = x
    BY DEF WriteReport
  <2>7. "drift" \notin Reported(pr'[p].tree, x) <=>
          WriteReport(WriteReport(prov, m), x) = WriteReport(prov, m)
    BY <2>2, <2>3 DEF Reported
  <2>8. "drift" \notin Reported(pr'[p].tree, x) <=> x = m
    BY <2>4, <2>5, <2>6, <2>7
  <2>9. x \in S /\ (\A y \in S : y <= x) <=> x = m
    <3>1. x \in Nat /\ S \subseteq Nat
      BY <2>1, ScanAssumption
    <3> QED
      BY <2>3, <3>1
  <2> QED
    BY <2>8, <2>9
<1>2. TypeOK /\ [Next]_vars => [Verifies]_vars
  BY <1>1
<1> QED
  BY <1>2, ScanTypeCorrect, PTL DEF Spec, OneImageVerifies

-----------------------------------------------------------------------------
(* The ratchet.                                                            *)

\* What the gate counts is what scan.go says it counts, and is a number.
LEMMA CountsAgree ==
  ASSUME TypeOK, NEW x \in Pins
  PROVE  AppFixable(x) = OwnFixed(x) /\ OwnFixed(x) \in Nat
<1>1. db[x] \subseteq Finding /\ IsFiniteSet(db[x])
  BY ScanAssumption DEF TypeOK
<1> DEFINE own == {v \in db[x] : /\ v.fixed /\ v.class = "lang-pkgs"
                                 /\ v.severity # "LOW"}
<1>2. \A v \in db[x] : v.severity \in {"LOW", "HIGH", "CRITICAL"}
  BY <1>1 DEF Finding
<1>3. {v \in Vulns(x) : v.fixed /\ v.class = "lang-pkgs"} = own
  BY <1>2, Zenon DEF Vulns
<1>4. Cardinality(own) \in Nat
  <2>1. own \in SUBSET db[x]
    OBVIOUS
  <2> HIDE DEF own
  <2> QED
    BY <1>1, <2>1, FS_Subset, FS_CardinalityType
<1> QED
  BY <1>3, <1>4 DEF AppFixable, OwnFixed

\* A changed pin that is no regression is no worse, or within a ceiling that
\* has its reason.
LEMMA NoRegression ==
  ASSUME TypeOK, NEW was \in Pins, NEW now \in Pins,
         NEW prov \in Provenance, ~Regression(was, now, prov)
  PROVE  \/ OwnFixed(now) <= OwnFixed(was)
         \/ prov.exception.reason /\ OwnFixed(now) <= prov.exception.ceiling
<1>1. /\ AppFixable(was) = OwnFixed(was) /\ OwnFixed(was) \in Nat
      /\ AppFixable(now) = OwnFixed(now) /\ OwnFixed(now) \in Nat
  BY CountsAgree
<1>2. CASE ~(AppFixable(now) > AppFixable(was))
  BY <1>1, <1>2
<1>3. CASE Ceiling(prov) > 0 /\ AppFixable(now) <= Ceiling(prov)
  <2>1. CASE prov.exception.reason
    <3>1. Ceiling(prov) = prov.exception.ceiling
      BY <2>1 DEF Ceiling
    <3>2. OwnFixed(now) <= prov.exception.ceiling
      BY <1>1, <1>3, <3>1
    <3> QED
      BY <2>1, <3>2
  <2>2. CASE ~prov.exception.reason
    <3>1. Ceiling(prov) = 0
      BY <2>2 DEF Ceiling
    <3> QED
      BY <1>3, <3>1
  <2> QED
    BY <2>1, <2>2
<1> QED
  BY <1>2, <1>3 DEF Regression

\* However the pins of a repository are moved, doubled or swapped, and however
\* many it has: one that is worse than every pin its repository had is accepted
\* only of a repository that gained pins and kept none, or by a ceiling.
THEOREM RatchetHoldsProven == Spec => RatchetHolds
<1> DEFINE Ratchet ==
      \A p \in PRs : pr[p].gate = "none" /\ pr'[p].gate = "green" =>
        LET old == pr'[p].seen  t == Merged(p)  new == t.images
        IN \A x \in new \ old :
             LET r == Repository[x]  e == t.prov.exception
             IN \/ Of(old, r) = {}
                \/ /\ Cardinality(Of(new, r)) > Cardinality(Of(old, r))
                   /\ Of(old \cap new, r) = {}
                \/ \E y \in Of(old, r) : OwnFixed(x) <= OwnFixed(y)
                \/ e.reason /\ OwnFixed(x) <= e.ceiling
<1>1. TypeOK /\ Next => Ratchet
  <2> SUFFICES ASSUME TypeOK, Next, NEW p \in PRs,
                      pr[p].gate = "none", pr'[p].gate = "green",
                      NEW x \in Merged(p).images \ pr'[p].seen,
                      Of(pr'[p].seen, Repository[x]) # {},
                      ~(/\ Cardinality(Of(Merged(p).images, Repository[x]))
                             > Cardinality(Of(pr'[p].seen, Repository[x]))
                        /\ Of(pr'[p].seen \cap Merged(p).images,
                              Repository[x]) = {})
               PROVE  \/ \E y \in Of(pr'[p].seen, Repository[x]) :
                           OwnFixed(x) <= OwnFixed(y)
                      \/ /\ Merged(p).prov.exception.reason
                         /\ OwnFixed(x) <= Merged(p).prov.exception.ceiling
    BY Zenon
  <2> DEFINE old == pr'[p].seen
             new == Merged(p).images
             prov == Merged(p).prov
  <2>1. Gate(p)
    <3>1. pr'[p] # pr[p]
      OBVIOUS
    <3>2. ~Merge(p)
      BY DEF Merge
    <3> QED
      BY <3>1, <3>2, StepOf
  <2>2. Passes(old, new, prov)
    BY <2>1, GateIs
  <2>3. old \in SUBSET Pins /\ new \in SUBSET Pins /\ prov \in Provenance
        /\ x \in new \ old
    <3>1. old \in {main.images, {}} /\ main.images \subseteq Pins
      BY <2>1, GateIs DEF TypeOK, Tree
    <3>2. Merged(p) \in Tree
      BY MergedTyped
    <3> QED
      BY <3>1, <3>2 DEF Tree
  <2> HIDE DEF old, new, prov
  <2>4. Pair(old, new, x) # 0
    BY <2>3, UnpairedIsGain DEF old, new
  <2>5. old # {}
    BY DEF Of, old
  <2>6. Pair(old, new, x) \in Of(old, Repository[x])
    BY <2>3, <2>4, PairIsOld
  <2>7. ~Regression(Pair(old, new, x), x, prov)
    BY <2>2, <2>3, <2>4, <2>5 DEF Passes, Added
  <2>8. Pair(old, new, x) \in Pins /\ x \in Pins
    BY <2>3, <2>6 DEF Of
  <2>9. \/ OwnFixed(x) <= OwnFixed(Pair(old, new, x))
        \/ prov.exception.reason /\ OwnFixed(x) <= prov.exception.ceiling
    BY <2>3, <2>7, <2>8, NoRegression
  <2> QED
    BY <2>6, <2>9, Zenon DEF old, prov
<1>2. TypeOK /\ [Next]_vars => [Ratchet]_vars
  BY <1>1
<1> QED
  BY <1>2, ScanTypeCorrect, PTL DEF Spec, RatchetHolds

=============================================================================

-------------------------- MODULE ConfigSeedProofs --------------------------
(***************************************************************************)
(* Proofs about the seeding of home-assistant's files, for any number of   *)
(* interruptions and removals.                                             *)
(***************************************************************************)
EXTENDS ConfigSeed, TLAPS

-----------------------------------------------------------------------------
(* The inductive invariant.                                                *)

\* The writes of the first branch, all and without configuration.yaml's.
Whole     == <<"configuration", "automations", "scripts", "scenes">>
LastThree == <<"automations", "scripts", "scenes">>
LastTwo   == <<"scripts", "scenes">>
LastOne   == <<"scenes">>
Left == {LastThree, LastTwo, LastOne}

Names(t) == {t[i] : i \in DOMAIN t}

\* Outside its branches the script has nothing to write; inside, the file whose
\* absence led into the branch is absent until its own redirection.
BranchFits ==
  /\ seed \notin {"configuration", "http"} => todo = <<>> /\ ~open
  /\ seed = "configuration" =>
       \/ todo = Whole /\ (open \/ files["configuration"] = "absent")
       \/ todo \in Left /\ files["configuration"] = "seeded"
  /\ seed = "http" => todo = <<"http">> /\ (open \/ files["http"] = "absent")

\* A file that is not whole was torn, or is being written.
PartialIsTorn ==
  \A f \in Files : files[f] \in {"partial", "reset"} =>
    f \in torn \/ (open /\ f = Head(todo))

\* An include is absent only beside an absent configuration.yaml, for which the
\* branch is run again, or where the branch has still to write it.
AbsentIsOwed ==
  \A f \in Includes :
    files[f] = "absent" /\ (files["configuration"] # "absent" \/ seed = "done") =>
      f \in torn \/ (seed = "configuration" /\ f \in Names(todo))

\* Each test is behind the script once it has been passed.
TestsPassed ==
  /\ seed \in {"http?", "http", "chmod"} => files["configuration"] # "absent"
  /\ seed = "done" =>
       files["configuration"] # "absent" \/ removals > 0
  /\ seed \in {"chmod", "done"} => files["http"] # "absent"

\* The branch that writes the includes comes before the owner's first edit of
\* one, or after a removal.
NoEditsBefore ==
  removals = 0 /\ (files["configuration"] = "absent" \/ seed = "configuration")
    => \A f \in Includes : files[f] # "owner"

SeedInv == /\ TypeOK /\ BranchFits /\ PartialIsTorn /\ AbsentIsOwed
           /\ TestsPassed /\ NoEditsBefore

-----------------------------------------------------------------------------
(* The lists of writes.                                                    *)

\* One write of the first branch: what is left after it.
LEMMA WritesInOrder ==
  /\ Whole \in Seq(Files) /\ Len(Whole) > 1 /\ Whole # <<>>
  /\ Head(Whole) = "configuration" /\ Tail(Whole) \in Left
  /\ Includes \subseteq Names(Tail(Whole)) /\ Includes \subseteq Names(Whole)
  /\ \A t \in Left :
       /\ t \in Seq(Files) /\ t # <<>> /\ Head(t) \in Includes
       /\ Tail(t) \in Left \cup {<<>>}
       /\ Len(t) > 1 <=> Tail(t) # <<>>
       /\ Names(t) \subseteq Names(Tail(t)) \cup {Head(t)}
<1>1. Whole \in Seq(Files) /\ Len(Whole) = 4 /\ Whole # <<>>
      /\ Head(Whole) = "configuration" /\ Tail(Whole) = LastThree
  BY DEF Whole, LastThree, Files, Includes
<1>2. LastThree \in Seq(Files) /\ Len(LastThree) = 3 /\ LastThree # <<>>
      /\ Head(LastThree) = "automations" /\ Tail(LastThree) = LastTwo
  BY DEF LastThree, LastTwo, Files, Includes
<1>3. LastTwo \in Seq(Files) /\ Len(LastTwo) = 2 /\ LastTwo # <<>>
      /\ Head(LastTwo) = "scripts" /\ Tail(LastTwo) = LastOne
  BY DEF LastTwo, LastOne, Files, Includes
<1>4. LastOne \in Seq(Files) /\ Len(LastOne) = 1 /\ LastOne # <<>>
      /\ Head(LastOne) = "scenes" /\ Tail(LastOne) = <<>>
  BY DEF LastOne, Files, Includes
<1>5. /\ Names(Whole) = {"configuration"} \cup Includes
      /\ Names(LastThree) = Includes
      /\ Names(LastTwo) = {"scripts", "scenes"}
      /\ Names(LastOne) = {"scenes"} /\ Names(<<>>) = {}
  <2>1. DOMAIN Whole = {1, 2, 3, 4} /\ DOMAIN LastThree = {1, 2, 3}
        /\ DOMAIN LastTwo = {1, 2} /\ DOMAIN LastOne = {1}
    BY DEF Whole, LastThree, LastTwo, LastOne
  <2> QED
    BY <2>1 DEF Names, Whole, LastThree, LastTwo, LastOne, Includes
<1>6. \A t \in Left :
        /\ t \in Seq(Files) /\ t # <<>> /\ Head(t) \in Includes
        /\ Tail(t) \in Left \cup {<<>>}
        /\ Len(t) > 1 <=> Tail(t) # <<>>
        /\ Names(t) \subseteq Names(Tail(t)) \cup {Head(t)}
  <2>1. ASSUME NEW t \in Left
        PROVE  /\ t \in Seq(Files) /\ t # <<>> /\ Head(t) \in Includes
               /\ Tail(t) \in Left \cup {<<>>}
               /\ Len(t) > 1 <=> Tail(t) # <<>>
    BY <1>2, <1>3, <1>4 DEF Left, Includes
  <2>2. ASSUME NEW t \in Left
        PROVE  Names(t) \subseteq Names(Tail(t)) \cup {Head(t)}
    BY <1>2, <1>3, <1>4, <1>5 DEF Left, Includes
  <2> QED
    BY <2>1, <2>2
<1>7. Includes \subseteq Names(Tail(Whole)) /\ Includes \subseteq Names(Whole)
  BY <1>1, <1>5, Zenon
<1>8. Tail(Whole) \in Left /\ Len(Whole) > 1
  BY <1>1 DEF Left
<1> QED
  BY <1>1, <1>6, <1>7, <1>8, Zenon

-----------------------------------------------------------------------------
(* The steps.                                                              *)

LEMMA SeedInvInit == Init => SeedInv
<1> SUFFICES ASSUME Init PROVE SeedInv
  OBVIOUS
<1>1. \A f \in Files : files[f] = "absent"
  BY DEF Init
<1>2. seed = "off" /\ todo = <<>> /\ open = FALSE /\ haUp = FALSE
      /\ torn = {} /\ faults = 0 /\ removals = 0
  BY DEF Init
<1>3. "configuration" \in Files /\ Includes \subseteq Files
  BY DEF Files
<1>4. TypeOK
  <2>1. files \in [Files -> Content]
    BY DEF Init, Content
  <2>2. MaxFaults \in Nat /\ MaxRemovals \in Nat
    BY SeedAssumption
  <2>3. todo \in Seq(Files)
    BY <1>2
  <2>4. faults \in 0 .. MaxFaults /\ removals \in 0 .. MaxRemovals
    BY <1>2, <2>2
  <2>5. seed \in {"off", "done", "failed"} \cup Script /\ torn \subseteq Files
    BY <1>2
  <2> QED
    BY <1>2, <2>1, <2>3, <2>4, <2>5, Zenon DEF TypeOK
<1>5. BranchFits /\ PartialIsTorn /\ AbsentIsOwed /\ TestsPassed
      /\ NoEditsBefore
  BY <1>1, <1>2, <1>3
     DEF BranchFits, PartialIsTorn, AbsentIsOwed, TestsPassed, NoEditsBefore
<1> QED
  BY <1>4, <1>5 DEF SeedInv

\* The compose around the script: Home Assistant, its owner, the platform.
LEMMA AroundKeepsInv ==
  ASSUME SeedInv, Deploy \/ HaStart \/ (\E f \in Files : OwnerEdits(f))
                    \/ OwnerRemoves
  PROVE  SeedInv'
<1> USE DEF SeedInv
<1>1. "configuration" \in Files /\ "http" \in Files /\ Includes \subseteq Files
      /\ "configuration" \notin Includes /\ "http" \notin Includes
  BY DEF Files, Includes
<1>2. files \in [Files -> Content] /\ removals \in Nat
      /\ MaxRemovals \in Nat
  BY SeedAssumption DEF TypeOK
<1>3. CASE Deploy
  <2>1. haUp' \in BOOLEAN
    <3>1. PICK up \in {FALSE, haUp} : haUp' = up
      BY <1>3, Zenon DEF Deploy
    <3> QED
      BY <3>1, Zenon DEF TypeOK
  <2>2. seed \in {"off", "failed", "done"} /\ seed' = "configuration?"
        /\ UNCHANGED <<files, todo, open, torn, faults, removals>>
    BY <1>3 DEF Deploy
  <2>3. TypeOK'
    BY <2>1, <2>2 DEF TypeOK, Script
  <2> QED
    BY <2>2, <2>3 DEF BranchFits, PartialIsTorn, AbsentIsOwed, TestsPassed,
                      NoEditsBefore
<1>4. CASE HaStart
  <2>1. seed = "done" /\ haUp' = TRUE /\ todo = <<>> /\ open = FALSE
        /\ UNCHANGED <<seed, todo, open, torn, faults, removals>>
    BY <1>4, Zenon DEF HaStart, BranchFits, TypeOK
  <2>2. /\ \A f \in Files \ {"http"} : files'[f] = files[f]
        /\ files' \in [Files -> Content]
        /\ files'["http"] = files["http"]
             \/ (files["http"] = "partial" /\ files'["http"] = "reset")
    BY <1>1, <1>2, <1>4 DEF HaStart, Content
  <2>3. TypeOK'
    BY <2>1, <2>2 DEF TypeOK
  <2>4. PartialIsTorn'
    BY <2>1, <2>2 DEF PartialIsTorn
  <2>5. BranchFits' /\ AbsentIsOwed' /\ TestsPassed' /\ NoEditsBefore'
    BY <1>1, <2>1, <2>2
       DEF BranchFits, AbsentIsOwed, TestsPassed, NoEditsBefore
  <2> QED
    BY <2>3, <2>4, <2>5
<1>5. ASSUME NEW g \in Files, OwnerEdits(g) PROVE SeedInv'
  <2>1. seed = "done" /\ todo = <<>> /\ open = FALSE /\ files[g] # "absent"
        /\ UNCHANGED <<seed, todo, open, haUp, torn, faults, removals>>
    BY <1>5, Zenon DEF OwnerEdits, Present, BranchFits, TypeOK
  <2>2. /\ \A f \in Files \ {g} : files'[f] = files[f]
        /\ files' \in [Files -> Content] /\ files'[g] = "owner"
    BY <1>2, <1>5 DEF OwnerEdits, Content
  <2>3. TypeOK'
    BY <2>1, <2>2 DEF TypeOK
  <2>4. PartialIsTorn'
    BY <2>1, <2>2 DEF PartialIsTorn
  <2>5. BranchFits' /\ AbsentIsOwed' /\ TestsPassed' /\ NoEditsBefore'
    BY <1>1, <2>1, <2>2
       DEF BranchFits, AbsentIsOwed, TestsPassed, NoEditsBefore
  <2> QED
    BY <2>3, <2>4, <2>5
<1>6. CASE OwnerRemoves
  <2>1. seed = "done" /\ todo = <<>> /\ open = FALSE
        /\ files["configuration"] # "absent"
        /\ removals' = removals + 1 /\ removals < MaxRemovals
        /\ UNCHANGED <<seed, todo, open, haUp, torn, faults>>
    BY <1>6, Zenon DEF OwnerRemoves, Present, BranchFits, TypeOK
  <2>2. /\ \A f \in Files \ {"configuration"} : files'[f] = files[f]
        /\ files' \in [Files -> Content] /\ files'["configuration"] = "absent"
    BY <1>1, <1>2, <1>6 DEF OwnerRemoves, Content
  <2>3. TypeOK'
    BY <1>2, <2>1, <2>2 DEF TypeOK
  <2>4. PartialIsTorn'
    BY <2>1, <2>2 DEF PartialIsTorn
  <2>5. removals' > 0
    BY <1>2, <2>1
  <2>6. BranchFits' /\ AbsentIsOwed' /\ TestsPassed' /\ NoEditsBefore'
    BY <1>1, <1>2, <2>1, <2>2, <2>5
       DEF BranchFits, AbsentIsOwed, TestsPassed, NoEditsBefore
  <2> QED
    BY <2>3, <2>4, <2>6
<1> QED
  BY <1>3, <1>4, <1>5, <1>6

\* The script.
LEMMA ScriptKeepsInv ==
  ASSUME SeedInv, CheckConfiguration \/ CheckHttp \/ Redirect \/ Written
                    \/ Chmod \/ Interrupted
  PROVE  SeedInv'
<1> USE DEF SeedInv
<1>1. "configuration" \in Files /\ "http" \in Files /\ Includes \subseteq Files
      /\ "configuration" \notin Includes /\ "http" \notin Includes
      /\ Files = {"configuration", "http"} \cup Includes
  BY DEF Files, Includes
<1>2. files \in [Files -> Content] /\ open \in BOOLEAN /\ torn \subseteq Files
      /\ todo \in Seq(Files) /\ seed \in {"off", "done", "failed"} \cup Script
  BY DEF TypeOK
<1>3. CASE CheckConfiguration
  <2>1. seed = "configuration?" /\ todo = <<>> /\ ~open
        /\ UNCHANGED <<files, open, haUp, torn, faults, removals>>
    BY <1>3 DEF CheckConfiguration, CheckFile, BranchFits
  <2>2. CASE files["configuration"] # "absent"
    <3>1. seed' = "http?" /\ todo' = todo
      BY <1>3, <2>2 DEF CheckConfiguration, CheckFile, Present
    <3>2. TypeOK'
      BY <2>1, <3>1 DEF TypeOK, Script
    <3> QED
      BY <2>1, <2>2, <3>1, <3>2
         DEF BranchFits, PartialIsTorn, AbsentIsOwed, TestsPassed,
             NoEditsBefore
  <2>3. CASE files["configuration"] = "absent"
    <3>1. seed' = "configuration" /\ todo' = Whole
      BY <1>3, <2>3 DEF CheckConfiguration, CheckFile, Present, Whole
    <3>2. TypeOK'
      BY <2>1, <3>1, WritesInOrder DEF TypeOK, Script
    <3>3. BranchFits' /\ PartialIsTorn' /\ TestsPassed' /\ NoEditsBefore'
      BY <2>1, <2>3, <3>1
         DEF BranchFits, PartialIsTorn, TestsPassed, NoEditsBefore
    <3>4. AbsentIsOwed'
      BY <2>1, <3>1, WritesInOrder DEF AbsentIsOwed
    <3> QED
      BY <3>2, <3>3, <3>4
  <2> QED
    BY <2>2, <2>3
<1>4. CASE CheckHttp
  <2>1. seed = "http?" /\ todo = <<>> /\ ~open
        /\ files["configuration"] # "absent"
        /\ UNCHANGED <<files, open, haUp, torn, faults, removals>>
    BY <1>4 DEF CheckHttp, CheckFile, BranchFits, TestsPassed
  <2>2. CASE files["http"] # "absent"
    <3>1. seed' = "done" /\ todo' = todo
      BY <1>4, <2>2 DEF CheckHttp, CheckFile, Present
    <3>2. TypeOK'
      BY <2>1, <3>1 DEF TypeOK, Script
    <3> QED
      BY <2>1, <2>2, <3>1, <3>2
         DEF BranchFits, PartialIsTorn, AbsentIsOwed, TestsPassed,
             NoEditsBefore
  <2>3. CASE files["http"] = "absent"
    <3>1. seed' = "http" /\ todo' = <<"http">>
      BY <1>4, <2>3 DEF CheckHttp, CheckFile, Present
    <3>2. TypeOK'
      <4>1. <<"http">> \in Seq(Files)
        BY <1>1
      <4> QED
        BY <2>1, <3>1, <4>1 DEF TypeOK, Script
    <3>3. BranchFits' /\ PartialIsTorn' /\ TestsPassed' /\ NoEditsBefore'
          /\ AbsentIsOwed'
      BY <2>1, <2>3, <3>1
         DEF BranchFits, PartialIsTorn, TestsPassed, NoEditsBefore,
             AbsentIsOwed
    <3> QED
      BY <3>2, <3>3
  <2> QED
    BY <2>2, <2>3
<1>5. CASE Redirect
  <2>1. todo # <<>> /\ ~open /\ open' = TRUE /\ Head(todo) \in Files
        /\ UNCHANGED <<seed, todo, haUp, torn, faults, removals>>
    BY <1>2, <1>5 DEF Redirect
  <2>2. seed \in {"configuration", "http"}
    BY <2>1 DEF BranchFits
  <2>3. /\ \A f \in Files \ {Head(todo)} : files'[f] = files[f]
        /\ files' \in [Files -> Content] /\ files'[Head(todo)] = "partial"
    BY <1>2, <1>5, <2>1 DEF Redirect, Content
  <2>4. TypeOK'
    BY <2>1, <2>3 DEF TypeOK
  <2>5. PartialIsTorn'
    BY <2>1, <2>3 DEF PartialIsTorn
  <2>6. CASE seed = "configuration"
    <3>1. \/ todo = Whole /\ files["configuration"] = "absent"
             /\ Head(todo) = "configuration"
          \/ todo \in Left /\ files["configuration"] = "seeded"
             /\ Head(todo) \in Includes
      BY <2>1, <2>6, WritesInOrder DEF BranchFits
    <3>2. BranchFits'
      BY <1>1, <2>1, <2>3, <2>6, <3>1 DEF BranchFits
    <3>3. AbsentIsOwed'
      <4>1. CASE todo = Whole
        BY <2>1, <2>6, <4>1, WritesInOrder DEF AbsentIsOwed
      <4>2. CASE todo \in Left /\ files["configuration"] = "seeded"
        BY <1>1, <2>1, <2>3, <2>6, <4>2 DEF AbsentIsOwed
      <4> QED
        BY <3>1, <4>1, <4>2
    <3>4. TestsPassed' /\ NoEditsBefore'
      BY <1>1, <2>1, <2>3, <2>6 DEF TestsPassed, NoEditsBefore
    <3> QED
      BY <2>4, <2>5, <3>2, <3>3, <3>4
  <2>7. CASE seed = "http"
    <3>1. todo = <<"http">> /\ Head(todo) = "http"
      BY <2>7 DEF BranchFits
    <3> QED
      BY <1>1, <2>1, <2>3, <2>4, <2>5, <2>7, <3>1
         DEF BranchFits, AbsentIsOwed, TestsPassed, NoEditsBefore
  <2> QED
    BY <2>2, <2>6, <2>7
<1>6. CASE Written
  <2>1. open /\ open' = FALSE /\ todo # <<>> /\ Head(todo) \in Files
        /\ todo' = Tail(todo)
        /\ UNCHANGED <<haUp, torn, faults, removals>>
    BY <1>2, <1>6 DEF Written, TypeOK
  <2>2. seed \in {"configuration", "http"}
    BY <2>1 DEF BranchFits
  <2>3. /\ \A f \in Files \ {Head(todo)} : files'[f] = files[f]
        /\ files' \in [Files -> Content] /\ files'[Head(todo)] = "seeded"
    BY <1>2, <1>6, <2>1 DEF Written, Content
  <2>4. PartialIsTorn'
    BY <2>1, <2>3 DEF PartialIsTorn
  <2>5. Tail(todo) \in Seq(Files)
    BY <1>2, <2>1
  <2>6. seed' \in Script
    BY <1>6, <2>2 DEF Written, Script
  <2>7. TypeOK'
    BY <2>1, <2>3, <2>5, <2>6 DEF TypeOK
  <2>8. CASE seed = "configuration" /\ todo = Whole
    <3>1. seed' = "configuration" /\ todo' \in Left
          /\ Head(todo) = "configuration" /\ Includes \subseteq Names(todo')
      BY <1>6, <2>1, <2>8, WritesInOrder DEF Written
    <3> QED
      BY <1>1, <2>1, <2>3, <2>4, <2>7, <2>8, <3>1
         DEF BranchFits, AbsentIsOwed, TestsPassed, NoEditsBefore
  <2>9. CASE seed = "configuration" /\ todo \in Left
    <3>1. files["configuration"] = "seeded" /\ Head(todo) \in Includes
          /\ todo' \in Left \cup {<<>>}
          /\ Names(todo) \subseteq Names(todo') \cup {Head(todo)}
      <4>1. Head(todo) \in Includes /\ todo' \in Left \cup {<<>>}
            /\ Names(todo) \subseteq Names(todo') \cup {Head(todo)}
        BY <2>1, <2>9, WritesInOrder
      <4>2. todo # Whole
        BY <1>1, <4>1, WritesInOrder
      <4> QED
        BY <2>9, <4>1, <4>2 DEF BranchFits
    <3>2. \/ seed' = "configuration" /\ todo' \in Left
          \/ seed' = "http?" /\ todo' = <<>> /\ Names(todo') = {}
      <4>1. Len(todo) > 1 <=> todo' # <<>>
        BY <2>1, <2>9, WritesInOrder
      <4>2. Names(<<>>) = {}
        BY DEF Names
      <4> QED
        BY <1>6, <2>9, <3>1, <4>1, <4>2 DEF Written
    <3>3. \A f \in Includes :
            files'[f] = "absent" => f \in torn \/ f \in Names(todo')
      BY <1>1, <2>3, <2>9, <3>1 DEF AbsentIsOwed
    <3>4. AbsentIsOwed'
      BY <2>1, <3>2, <3>3 DEF AbsentIsOwed
    <3>5. BranchFits' /\ TestsPassed' /\ NoEditsBefore'
      BY <1>1, <2>1, <2>3, <2>9, <3>1, <3>2
         DEF BranchFits, TestsPassed, NoEditsBefore
    <3> QED
      BY <2>4, <2>7, <3>4, <3>5
  <2>10. CASE seed = "http"
    <3>1. todo = <<"http">> /\ Head(todo) = "http" /\ Tail(todo) = <<>>
          /\ Len(todo) = 1
      <4>1. /\ Head(<<"http">>) = "http" /\ Tail(<<"http">>) = <<>>
            /\ Len(<<"http">>) = 1
        OBVIOUS
      <4>2. todo = <<"http">>
        BY <2>10 DEF BranchFits
      <4> QED
        BY <4>1, <4>2, Zenon
    <3>2. seed' = "chmod" /\ todo' = <<>>
      BY <1>6, <2>1, <2>10, <3>1 DEF Written
    <3>3. files["configuration"] # "absent"
      BY <2>10 DEF TestsPassed
    <3> QED
      BY <1>1, <2>1, <2>3, <2>4, <2>7, <2>10, <3>1, <3>2, <3>3
         DEF BranchFits, AbsentIsOwed, TestsPassed, NoEditsBefore
  <2> QED
    BY <2>2, <2>8, <2>9, <2>10 DEF BranchFits
<1>7. CASE Chmod
  <2>1. seed = "chmod" /\ seed' = "done" /\ files["configuration"] # "absent"
        /\ files["http"] # "absent"
        /\ UNCHANGED <<files, todo, open, haUp, torn, faults, removals>>
    BY <1>7 DEF Chmod, TestsPassed
  <2>2. TypeOK'
    BY <2>1 DEF TypeOK
  <2> QED
    BY <2>1, <2>2 DEF BranchFits, PartialIsTorn, AbsentIsOwed, TestsPassed,
                      NoEditsBefore
<1>8. CASE Interrupted
  <2>1. seed' = "failed" /\ todo' = <<>> /\ open' = FALSE
        /\ UNCHANGED <<files, haUp, removals>>
    BY <1>8 DEF Interrupted
  <2>2. torn' = IF todo # <<>> /\ Present(seed) THEN torn \cup Names(todo)
                ELSE torn
    BY <1>8 DEF Interrupted, Names
  <2>3. Names(todo) \subseteq Files
    BY <1>2 DEF Names
  <2>4. torn \subseteq torn' /\ torn' \subseteq Files
    BY <1>2, <2>2, <2>3
  <2>5. faults' \in 0 .. MaxFaults
    BY <1>8, SeedAssumption DEF Interrupted, TypeOK
  <2>6. TypeOK'
    <3>1. <<>> \in Seq(Files) /\ "failed" \in {"off", "done", "failed"}
      OBVIOUS
    <3> QED
      BY <2>1, <2>4, <2>5, <3>1, Zenon DEF TypeOK
  <2>7. todo # <<>> /\ files[seed] # "absent" =>
          Names(todo) \subseteq torn'
    BY <2>2 DEF Present
  <2>8. open => Head(todo) \in torn'
    <3>1. SUFFICES ASSUME open PROVE Head(todo) \in torn'
      OBVIOUS
    <3>2. todo # <<>> /\ files[Head(todo)] = "partial"
      BY <3>1 DEF TypeOK
    <3>3. Head(todo) \in Names(todo)
      BY <1>2, <3>2 DEF Names
    <3>4. files[seed] # "absent"
      <4>1. seed \in {"configuration", "http"}
        BY <3>2 DEF BranchFits
      <4>2. CASE seed = "configuration"
        BY <3>2, <4>2, WritesInOrder DEF BranchFits
      <4>3. CASE seed = "http"
        BY <3>2, <4>3 DEF BranchFits
      <4> QED
        BY <4>1, <4>2, <4>3
    <3> QED
      BY <2>7, <3>2, <3>3, <3>4
  <2>9. PartialIsTorn'
    BY <2>1, <2>4, <2>8 DEF PartialIsTorn
  <2>10. AbsentIsOwed'
    <3>1. SUFFICES ASSUME NEW f \in Includes, files[f] = "absent",
                          files["configuration"] # "absent"
                   PROVE  f \in torn'
      BY <2>1 DEF AbsentIsOwed
    <3>2. f \in torn \/ (seed = "configuration" /\ f \in Names(todo))
      BY <3>1 DEF AbsentIsOwed
    <3>3. seed = "configuration" => todo # <<>>
      BY WritesInOrder DEF BranchFits
    <3> QED
      BY <2>4, <2>7, <3>1, <3>2, <3>3
  <2>11. BranchFits' /\ TestsPassed' /\ NoEditsBefore'
    <3>1. removals = 0 /\ files["configuration"] = "absent" =>
            \A f \in Includes : files[f] # "owner"
      BY DEF NoEditsBefore
    <3> QED
      BY <2>1, <3>1 DEF BranchFits, TestsPassed, NoEditsBefore
  <2> QED
    BY <2>6, <2>9, <2>10, <2>11
<1> QED
  BY <1>3, <1>4, <1>5, <1>6, <1>7, <1>8

LEMMA SeedInvNext == SeedInv /\ [Next]_vars => SeedInv'
<1> SUFFICES ASSUME SeedInv, [Next]_vars PROVE SeedInv'
  OBVIOUS
<1>1. CASE UNCHANGED vars
  <2>1. UNCHANGED <<files, seed, todo, open, haUp, torn, faults, removals>>
    BY <1>1 DEF vars
  <2> QED
    BY <2>1 DEF SeedInv, TypeOK, BranchFits, PartialIsTorn, AbsentIsOwed,
                TestsPassed, NoEditsBefore
<1> QED
  BY <1>1, AroundKeepsInv, ScriptKeepsInv DEF Next

-----------------------------------------------------------------------------
(* The theorems.                                                           *)

\* The script's place, what it has left to write and the files have their
\* types; a file it has open is the first of those and holds part of its text.
THEOREM SeedTypeCorrect == Spec => []TypeOK
<1>1. SeedInv => TypeOK
  BY DEF SeedInv
<1> QED
  BY <1>1, SeedInvInit, SeedInvNext, PTL DEF Spec

\* A file is without its seed beside a running Home Assistant only if an
\* interruption hit its branch after the first redirection, or if the owner
\* took it away.
THEOREM OnlyTornIsMissing == Spec => []OnlyTornMissing
<1>1. SeedInv => OnlyTornMissing
  <2>1. SUFFICES ASSUME SeedInv, seed = "done", NEW f \in Files,
                        files[f] \in {"absent", "partial", "reset"}
                 PROVE  f \in torn \/ (f = "configuration" /\ removals > 0)
    BY DEF OnlyTornMissing
  <2>2. CASE files[f] \in {"partial", "reset"}
    BY <2>1, <2>2 DEF SeedInv, PartialIsTorn, BranchFits
  <2>3. CASE files[f] = "absent" /\ f \in Includes
    BY <2>1, <2>3 DEF SeedInv, AbsentIsOwed
  <2>4. CASE files[f] = "absent" /\ f \in {"configuration", "http"}
    BY <2>1, <2>4 DEF SeedInv, TestsPassed
  <2> QED
    BY <2>1, <2>2, <2>3, <2>4 DEF Files
<1> QED
  BY <1>1, SeedInvInit, SeedInvNext, PTL DEF Spec

\* No step overwrites what the owner wrote, except the branch that writes an
\* include again after configuration.yaml was taken away.
THEOREM EditsSurvive == Spec => EditsLostOnlyWithConfiguration
<1> DEFINE Kept == \A f \in Files :
             files[f] = "owner" /\ files'[f] # "owner" =>
               \/ removals' > removals
               \/ removals > 0 /\ f \in Includes /\ seed = "configuration"
<1>1. SeedInv /\ [Next]_vars => [Kept]_vars
  <2> SUFFICES ASSUME SeedInv, [Next]_vars, NEW f \in Files,
                      files[f] = "owner", files'[f] # "owner"
               PROVE  \/ removals' > removals
                      \/ removals > 0 /\ f \in Includes
                           /\ seed = "configuration"
    OBVIOUS
  <2> USE DEF SeedInv
  <2>1. files \in [Files -> Content] /\ todo \in Seq(Files) /\ removals \in Nat
    BY DEF TypeOK
  <2>2. files' # files
    OBVIOUS
  <2>3. CASE Redirect
    <3>1. todo # <<>> /\ ~open /\ Head(todo) \in Files /\ f = Head(todo)
      BY <2>1, <2>3 DEF Redirect
    <3>2. CASE seed = "configuration"
      <4>1. f \in Includes
        BY <3>1, <3>2, WritesInOrder DEF BranchFits
      <4> QED
        BY <2>1, <3>2, <4>1 DEF NoEditsBefore
    <3>3. CASE seed = "http"
      BY <3>1, <3>3 DEF BranchFits
    <3> QED
      BY <3>1, <3>2, <3>3 DEF BranchFits
  <2>4. CASE Written
    BY <2>1, <2>4 DEF Written, TypeOK
  <2>5. CASE HaStart
    BY <2>1, <2>5 DEF HaStart
  <2>6. CASE \E g \in Files : OwnerEdits(g)
    BY <2>1, <2>6 DEF OwnerEdits
  <2>7. CASE OwnerRemoves
    BY <2>1, <2>7 DEF OwnerRemoves
  <2> QED
    BY <2>2, <2>3, <2>4, <2>5, <2>6, <2>7
       DEF Next, vars, Deploy, CheckConfiguration, CheckHttp, CheckFile, Chmod,
           Interrupted
<1> QED
  BY <1>1, SeedInvInit, SeedInvNext, PTL
     DEF Spec, EditsLostOnlyWithConfiguration

=============================================================================

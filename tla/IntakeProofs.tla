---------------------------- MODULE IntakeProofs ----------------------------
(***************************************************************************)
(* Proofs about the intake of a request, for any bodies and answers of a   *)
(* registry, any number of edits and dispatches, and any steps that fail.  *)
(***************************************************************************)
EXTENDS Intake, WellFoundedInduction, TLAPS

-----------------------------------------------------------------------------
(* What triage passes.                                                     *)

\* A nonempty set of places has a last one.
LEMMA LastPlace ==
  ASSUME NEW n \in Nat, NEW S, S \subseteq 1 .. n, S # {}
  PROVE  \E x \in S : \A y \in S : y <= x
<1> DEFINE R == OpToRel(<, Nat)
           T == {n - x : x \in S}
<1>1. IsWellFoundedOn(R, Nat)
  BY NatLessThanWellFounded
<1>2. T \subseteq Nat /\ T # {}
  <2>1. \A x \in S : n - x \in Nat
    OBVIOUS
  <2> QED
    BY <2>1
<1>3. PICK t \in T : \A u \in T : <<u, t>> \notin R
  <2> HIDE DEF R, T
  <2> QED
    BY <1>1, <1>2, WFMin
<1>4. \A u \in T : ~(u < t)
  BY <1>2, <1>3 DEF OpToRel
<1>5. PICK x \in S : t = n - x
  OBVIOUS
<1>6. \A y \in S : y <= x
  BY <1>4, <1>5
<1> QED
  BY <1>6

\* The image of a form is one of those that are told apart, or missing.
LEMMA FormImage ==
  ASSUME NEW body \in Bodies
  PROVE  ParseForm(body).image \in Images \cup {""}
<1> DEFINE Of    == {i \in DOMAIN body : body[i].label = "image"}
           last  == CHOOSE i \in Of : \A j \in Of : j <= i
           value == IF Of = {} \/ body[last].value = "_No response_" THEN ""
                    ELSE body[last].value
<1>1. ParseForm(body).image = value
  BY DEF ParseForm, Labels
<1>2. Of \subseteq 1 .. Len(body) /\ Len(body) \in Nat
  <2>1. body \in Seq([label : STRING, value : STRING])
    BY IntakeAssumption
  <2>2. DOMAIN body = 1 .. Len(body) /\ Len(body) \in Nat
    BY <2>1
  <2> QED
    BY <2>2
<1>3. ASSUME Of # {} PROVE last \in Of
  <2>1. \E i \in Of : \A j \in Of : j <= i
    BY <1>2, <1>3, LastPlace
  <2> HIDE DEF Of
  <2> QED
    BY <2>1
<1>4. \A i \in Of : body[i].value \in Images \cup {"_No response_"}
  BY IntakeAssumption
<1> HIDE DEF last, Of
<1> QED
  BY <1>1, <1>3, <1>4

\* A form with an id, an image that does not move, and a claim that some
\* registry can have confirmed or left open.
Fitting(form) ==
  /\ form.id \notin {"", "No Label"}
  /\ form.image \in {"app:1.2", "app@sha256"}
  /\ \/ form.arch \notin Arches
     \/ \E answer \in Answers :
          /\ ~answer.err
          /\ answer.platforms \in
               {{}, Required(form.arch), Required("both")}

\* A body that triage can pass has one.
LEMMA PassedIsFitting ==
  ASSUME NEW body \in Bodies, "passed" \in Verdicts(body)
  PROVE  Fitting(ParseForm(body))
<1> DEFINE form == ParseForm(body)
<1>1. PICK file \in TileFiles, answer \in Answers :
        ~Blocks(body, file, answer)
  BY DEF Verdicts
<1>2. form.id \notin {"", "No Label"}
  BY <1>1 DEF Blocks, IdBlocks
<1>3. /\ form.image \notin {""} \cup Moving
      /\ ~TriageBlocks(ParseArch(form.arch), answer)
  BY <1>1 DEF Blocks, ImageBlocks
<1>4. form.image \in {"app:1.2", "app@sha256"}
  BY <1>3, FormImage DEF Images
<1>5. ASSUME form.arch \in Arches
      PROVE  /\ ~answer.err
             /\ answer.platforms \in
                  {{}, Required(form.arch), Required("both")}
  <2>1. ParseArch(form.arch) = form.arch /\ form.arch # "unknown"
    BY <1>5 DEF ParseArch, Arches
  <2>2. /\ ~answer.err
        /\ \/ answer.platforms = {}
           \/ Required(form.arch) \subseteq answer.platforms
    BY <1>3, <2>1 DEF TriageBlocks
  <2>3. answer.platforms \subseteq {"linux/amd64", "linux/arm64"}
    BY IntakeAssumption DEF Required
  <2> HIDE DEF form
  <2>4. form.arch = "both" \/ form.arch = "arm64" \/ form.arch = "amd64"
    BY <1>5 DEF Arches
  <2> QED
    BY <2>2, <2>3, <2>4 DEF Required
<1> QED
  BY <1>2, <1>4, <1>5 DEF Fitting

-----------------------------------------------------------------------------
(* The invariant.                                                          *)

\* Triage only passes what it can, and a run that still checks has no verdict.
VerdictsFit ==
  \A i \in DOMAIN triage :
    /\ triage[i].pc = "check" => triage[i].verdict = "none"
    /\ triage[i].verdict = "passed" => "passed" \in Verdicts(issue[i])

SomePassed == \E i \in DOMAIN triage : triage[i].verdict = "passed"

\* The label is there because some wording was passed; so is whatever a
\* dispatch does after it read the label.
BehindTriage ==
  /\ "triage-passed" \in labels => SomePassed
  /\ \A d \in Dispatches :
       /\ draft[d].pc = "capture" => SomePassed
       /\ draft[d].pc = "drafting" =>
            /\ draft[d].request <= Len(issue)
            /\ \E i \in 1 .. draft[d].request : triage[i].verdict = "passed"

OneWorks ==
  \A d, e \in Dispatches :
    draft[d].pc \in Working /\ draft[e].pc \in Working => d = e

IntakeInv == TypeOK /\ VerdictsFit /\ BehindTriage /\ OneWorks

\* The bounds are numbers.
LEMMA Bounds == MaxEvents \in Nat /\ MaxEvents >= 1 /\ MaxFaults \in Nat
<1>1. MaxEvents \in Nat \ {0} /\ MaxFaults \in Nat
  BY IntakeAssumption, Zenon
<1> QED
  BY <1>1

\* A request that was just opened.
LEMMA IntakeInvInit == Init => IntakeInv
<1> SUFFICES ASSUME Init PROVE IntakeInv
  OBVIOUS
<1>1. PICK b \in Bodies : issue = <<b>>
  BY DEF Init
<1> DEFINE run == [pc |-> "check", verdict |-> "none", posted |-> FALSE,
                   edits |-> {}, overlapped |-> FALSE, lost |-> FALSE]
<1>2. /\ triage = <<run>> /\ labels = {} /\ faults = 0
      /\ draft = [d \in Dispatches |-> [pc |-> "idle", request |-> 0]]
  BY DEF Init
<1>3. run \in TriageRun
  BY DEF TriageRun, Active
<1> HIDE DEF run
<1>4. issue \in Seq(Bodies) /\ Len(issue) = 1
  BY <1>1
<1>5. triage \in Seq(TriageRun) /\ Len(triage) = 1
  BY <1>2, <1>3
<1>6. Len(issue) \in 1 .. MaxEvents
  BY <1>4, Bounds
<1>7. \A i \in DOMAIN triage : triage[i] = run
  BY <1>2
<1>8. TypeOK
  <2>1. draft \in [Dispatches -> DraftRun]
    BY <1>2 DEF DraftRun
  <2>2. \A i \in DOMAIN triage : triage[i].edits = {}
    BY <1>7 DEF run
  <2>3. labels \subseteq {"triage-passed", "needs-changes"}
    BY <1>2
  <2>4. faults \in 0 .. MaxFaults
    BY <1>2, Bounds
  <2> QED
    BY <1>4, <1>5, <1>6, <2>1, <2>2, <2>3, <2>4 DEF TypeOK
<1>9. VerdictsFit
  BY <1>7 DEF VerdictsFit, run
<1>10. BehindTriage /\ OneWorks
  BY <1>2 DEF BehindTriage, OneWorks, Working
<1> QED
  BY <1>8, <1>9, <1>10 DEF IntakeInv

\* A step of one triage run, which keeps a verdict that passed and labels the
\* issue as passed with such a verdict only.
LEMMA RunStep ==
  ASSUME IntakeInv, NEW i \in DOMAIN triage, NEW r \in TriageRun,
         triage' = [triage EXCEPT ![i] = r], UNCHANGED <<issue, draft>>,
         r.edits # {} => r.pc = "label", r.pc = "check" => r.verdict = "none",
         triage[i].verdict = "passed" => r.verdict = "passed",
         r.verdict = "passed" => "passed" \in Verdicts(issue[i]),
         labels' \subseteq {"triage-passed", "needs-changes"},
         "triage-passed" \in labels' =>
           "triage-passed" \in labels \/ r.verdict = "passed",
         faults' \in 0 .. MaxFaults
  PROVE  IntakeInv'
<1>1. /\ triage \in Seq(TriageRun) /\ Len(triage) = Len(issue)
      /\ issue \in Seq(Bodies) /\ Len(issue) \in 1 .. MaxEvents
      /\ draft \in [Dispatches -> DraftRun]
  BY DEF IntakeInv, TypeOK
<1>2. /\ triage' \in Seq(TriageRun) /\ Len(triage') = Len(triage)
      /\ DOMAIN triage' = DOMAIN triage /\ triage'[i] = r
      /\ \A j \in (DOMAIN triage) \ {i} : triage'[j] = triage[j]
  BY <1>1
<1>3. TypeOK'
  BY <1>1, <1>2 DEF IntakeInv, TypeOK
<1>4. VerdictsFit'
  <2> SUFFICES ASSUME NEW j \in DOMAIN triage
               PROVE  /\ triage'[j].pc = "check" => triage'[j].verdict = "none"
                      /\ triage'[j].verdict = "passed" =>
                           "passed" \in Verdicts(issue[j])
    BY <1>2 DEF VerdictsFit, Verdicts
  <2> QED
    BY <1>2 DEF IntakeInv, VerdictsFit
<1>5. \A j \in DOMAIN triage :
        triage[j].verdict = "passed" => triage'[j].verdict = "passed"
  BY <1>2
<1>6. SomePassed => SomePassed'
  BY <1>2, <1>5 DEF SomePassed
<1>7. BehindTriage'
  <2>1. "triage-passed" \in labels' => SomePassed'
    BY <1>2, <1>6 DEF IntakeInv, BehindTriage, SomePassed
  <2>2. ASSUME NEW d \in Dispatches, draft[d].pc = "drafting"
        PROVE  /\ draft[d].request <= Len(issue)
               /\ \E j \in 1 .. draft[d].request :
                    triage'[j].verdict = "passed"
    <3>1. /\ draft[d].request <= Len(issue) /\ draft[d].request \in Nat
          /\ \E j \in 1 .. draft[d].request : triage[j].verdict = "passed"
      BY <1>1, <2>2 DEF IntakeInv, BehindTriage, DraftRun
    <3>2. 1 .. draft[d].request \subseteq DOMAIN triage
      BY <1>1, <3>1
    <3> QED
      BY <1>5, <3>1, <3>2
  <2>3. \A d \in Dispatches : draft[d].pc = "capture" => SomePassed'
    BY <1>6 DEF IntakeInv, BehindTriage
  <2> QED
    BY <2>1, <2>2, <2>3 DEF BehindTriage
<1>8. OneWorks'
  BY DEF IntakeInv, OneWorks
<1> QED
  BY <1>3, <1>4, <1>7, <1>8 DEF IntakeInv

\* What every run has and an edit leaves alone.
LEMMA RunTyped ==
  ASSUME IntakeInv, NEW i \in DOMAIN triage
  PROVE  /\ triage[i] \in TriageRun
         /\ triage[i].edits # {} => triage[i].pc = "label"
         /\ triage[i].pc = "check" => triage[i].verdict = "none"
         /\ triage[i].verdict = "passed" => "passed" \in Verdicts(issue[i])
         /\ labels \subseteq {"triage-passed", "needs-changes"}
         /\ faults \in 0 .. MaxFaults /\ faults \in Nat
<1>1. triage \in Seq(TriageRun) /\ faults \in 0 .. MaxFaults
  BY DEF IntakeInv, TypeOK
<1> QED
  BY <1>1 DEF IntakeInv, TypeOK, VerdictsFit

\* A run of triage reaches its verdict.
LEMMA ValidateKeeps ==
  ASSUME IntakeInv, NEW i \in DOMAIN triage, Validate(i)
  PROVE  IntakeInv'
<1>1. PICK verdict \in Verdicts(issue[i]) :
        triage' = [triage EXCEPT ![i].verdict = verdict, ![i].pc = "comment"]
  BY DEF Validate
<1> DEFINE r == [triage[i] EXCEPT !.verdict = verdict, !.pc = "comment"]
<1>2. triage' = [triage EXCEPT ![i] = r]
  BY <1>1
<1>3. verdict \in {"passed", "changes"}
  BY DEF Verdicts
<1>4. /\ r \in TriageRun /\ r.pc = "comment" /\ r.verdict = verdict
      /\ r.edits = triage[i].edits
  BY <1>3, RunTyped DEF TriageRun, Active
<1>5. triage[i].pc = "check"
  BY DEF Validate
<1> HIDE DEF r
<1> QED
  BY <1>2, <1>4, <1>5, RunTyped, RunStep DEF Validate

\* It posts it.
LEMMA PostVerdictKeeps ==
  ASSUME IntakeInv, NEW i \in DOMAIN triage, PostVerdict(i)
  PROVE  IntakeInv'
<1> DEFINE r == [triage[i] EXCEPT !.posted = TRUE, !.pc = "label",
                                  !.edits = {"add", "remove"}]
<1>1. triage' = [triage EXCEPT ![i] = r]
  BY DEF PostVerdict
<1>2. /\ r \in TriageRun /\ r.pc = "label"
      /\ r.verdict = triage[i].verdict
  BY RunTyped DEF TriageRun, Active
<1> HIDE DEF r
<1>3. /\ UNCHANGED <<issue, draft>> /\ labels' = labels /\ faults' = faults
      /\ r.pc # "check"
  BY <1>2 DEF PostVerdict
<1>4. /\ triage[i].verdict = "passed" => "passed" \in Verdicts(issue[i])
      /\ labels \subseteq {"triage-passed", "needs-changes"}
      /\ faults \in 0 .. MaxFaults
  BY RunTyped
<1> QED
  BY <1>1, <1>2, <1>3, <1>4, RunStep

\* What a label edit leaves of its run, carried out or lost.
LEMMA AfterEditTyped ==
  ASSUME IntakeInv, NEW i \in DOMAIN triage, NEW e \in triage[i].edits,
         NEW lost \in BOOLEAN, AfterEdit(i, e, lost)
  PROVE  \E r \in TriageRun :
           /\ triage' = [triage EXCEPT ![i] = r]
           /\ r.verdict = triage[i].verdict
           /\ r.edits # {} => r.pc = "label"
           /\ r.pc # "check" /\ r.edits = triage[i].edits \ {e}
           /\ r.overlapped = triage[i].overlapped
           /\ ~r.lost => ~triage[i].lost /\ ~lost
<1> DEFINE more == triage[i].edits \ {e}
           isLost == triage[i].lost \/ lost
           pc == IF triage[i].edits = {e} THEN "done" ELSE "label"
           r == [triage[i] EXCEPT !.edits = more, !.lost = isLost, !.pc = pc]
<1>1. triage' = [triage EXCEPT ![i] = r]
  BY DEF AfterEdit
<1>2. triage[i] \in TriageRun
  BY RunTyped
<1>3. more \subseteq {"add", "remove"}
  BY <1>2 DEF TriageRun
<1>4. isLost \in BOOLEAN
  BY <1>2 DEF TriageRun
<1>5. pc \in Active \cup {"done", "broken"} /\ pc # "check"
  BY DEF Active
<1>6. more # {} => pc = "label"
  OBVIOUS
<1>7. ~isLost => ~triage[i].lost /\ ~lost
  OBVIOUS
<1> HIDE DEF isLost, pc
<1>8. /\ r \in TriageRun /\ r.verdict = triage[i].verdict
      /\ r.edits = more /\ r.pc = pc
      /\ r.overlapped = triage[i].overlapped /\ r.lost = isLost
  <2> HIDE DEF more
  <2> QED
    BY <1>2, <1>3, <1>4, <1>5 DEF TriageRun
<1> HIDE DEF r
<1> QED
  BY <1>1, <1>5, <1>6, <1>7, <1>8

\* One of the two label edits.
LEMMA LabelKeeps ==
  ASSUME IntakeInv, NEW i \in DOMAIN triage, NEW e \in {"add", "remove"},
         LabelEdit(i, e) \/ LabelLost(i, e)
  PROVE  IntakeInv'
<1>1. CASE LabelEdit(i, e)
  <2>1. PICK r \in TriageRun :
          /\ triage' = [triage EXCEPT ![i] = r]
          /\ r.verdict = triage[i].verdict
          /\ r.edits # {} => r.pc = "label"
          /\ r.pc # "check"
    BY <1>1, AfterEditTyped DEF LabelEdit
  <2>2. labels' \subseteq {"triage-passed", "needs-changes"}
    BY <1>1, RunTyped DEF LabelEdit, Outcome
  <2>3. "triage-passed" \in labels' =>
          "triage-passed" \in labels \/ r.verdict = "passed"
    BY <1>1, <2>1 DEF LabelEdit, Outcome
  <2> QED
    BY <1>1, <2>1, <2>2, <2>3, RunTyped, RunStep DEF LabelEdit
<1>2. CASE LabelLost(i, e)
  <2>1. PICK r \in TriageRun :
          /\ triage' = [triage EXCEPT ![i] = r]
          /\ r.verdict = triage[i].verdict
          /\ r.edits # {} => r.pc = "label"
          /\ r.pc # "check"
    BY <1>2, AfterEditTyped DEF LabelLost
  <2>2. faults' \in 0 .. MaxFaults
    BY <1>2, RunTyped, Bounds DEF LabelLost
  <2> QED
    BY <1>2, <2>1, <2>2, RunTyped, RunStep DEF LabelLost
<1> QED
  BY <1>1, <1>2

\* A run that is lost.
LEMMA BrokenKeeps ==
  ASSUME IntakeInv, NEW i \in DOMAIN triage, TriageBroken(i)
  PROVE  IntakeInv'
<1> DEFINE r == [triage[i] EXCEPT !.pc = "broken", !.edits = {}, !.lost = TRUE]
<1>1. triage' = [triage EXCEPT ![i] = r]
  BY DEF TriageBroken
<1>2. /\ r \in TriageRun /\ r.pc = "broken" /\ r.edits = {}
      /\ r.verdict = triage[i].verdict
  BY RunTyped DEF TriageRun
<1> HIDE DEF r
<1>3. /\ UNCHANGED <<issue, draft>> /\ labels' = labels
      /\ faults' \in 0 .. MaxFaults /\ r.pc # "check"
  BY <1>2, RunTyped, Bounds DEF TriageBroken
<1>4. /\ triage[i].verdict = "passed" => "passed" \in Verdicts(issue[i])
      /\ labels \subseteq {"triage-passed", "needs-changes"}
  BY RunTyped
<1> QED
  BY <1>1, <1>2, <1>3, <1>4, RunStep

\* A step of one dispatch, which only gets to read the request behind the
\* label, and to draft behind a wording that passed, one at a time.
LEMMA DispatchStep ==
  ASSUME IntakeInv, NEW d \in Dispatches, NEW r \in DraftRun,
         draft' = [draft EXCEPT ![d] = r],
         UNCHANGED <<issue, triage, labels>>, faults' \in 0 .. MaxFaults,
         r.pc = "capture" => SomePassed,
         r.pc = "drafting" =>
           \/ r.request = Len(issue) /\ SomePassed
           \/ r.request = draft[d].request /\ draft[d].pc = "drafting",
         r.pc \in Working =>
           \/ draft[d].pc \in Working
           \/ ~\E e \in Dispatches : draft[e].pc \in Working
  PROVE  IntakeInv'
<1>1. /\ triage \in Seq(TriageRun) /\ Len(triage) = Len(issue)
      /\ Len(issue) \in 1 .. MaxEvents /\ draft \in [Dispatches -> DraftRun]
  BY DEF IntakeInv, TypeOK
<1>2. /\ draft' \in [Dispatches -> DraftRun] /\ draft'[d] = r
      /\ \A e \in Dispatches \ {d} : draft'[e] = draft[e]
  BY <1>1
<1>3. TypeOK'
  BY <1>2 DEF IntakeInv, TypeOK
<1>4. VerdictsFit'
  BY DEF IntakeInv, VerdictsFit, Verdicts
<1>5. SomePassed' <=> SomePassed
  BY DEF SomePassed
<1>6. BehindTriage'
  <2>1. "triage-passed" \in labels' => SomePassed'
    BY <1>5 DEF IntakeInv, BehindTriage
  <2>2. \A e \in Dispatches : draft'[e].pc = "capture" => SomePassed'
    BY <1>2, <1>5 DEF IntakeInv, BehindTriage
  <2>3. ASSUME NEW e \in Dispatches, draft'[e].pc = "drafting"
        PROVE  /\ draft'[e].request <= Len(issue)
               /\ \E j \in 1 .. draft'[e].request :
                    triage[j].verdict = "passed"
    <3>1. CASE draft'[e].request = draft[e].request /\ draft[e].pc = "drafting"
      BY <3>1 DEF IntakeInv, BehindTriage
    <3>2. CASE draft'[e].request = Len(issue) /\ SomePassed
      BY <1>1, <3>2 DEF SomePassed
    <3> QED
      BY <1>2, <2>3, <3>1, <3>2
  <2> QED
    BY <2>1, <2>2, <2>3 DEF BehindTriage
<1>7. OneWorks'
  BY <1>2 DEF IntakeInv, OneWorks
<1> QED
  BY <1>3, <1>4, <1>6, <1>7 DEF IntakeInv

\* Each step of a dispatch after it was made.
LEMMA DraftKeeps ==
  ASSUME IntakeInv, NEW d \in Dispatches, DraftStep(d) \/ DraftBroken(d)
  PROVE  IntakeInv'
<1>1. /\ draft \in [Dispatches -> DraftRun] /\ faults \in 0 .. MaxFaults
      /\ draft[d] \in DraftRun /\ Len(issue) \in Nat
  BY DEF IntakeInv, TypeOK
<1>2. ASSUME NEW pc \in {"require", "capture", "refused", "failed",
                         "proposed"},
             draft' = Goto(d, pc), UNCHANGED <<issue, triage, labels>>,
             faults' \in 0 .. MaxFaults, pc = "capture" => SomePassed,
             pc \in Working =>
               \/ draft[d].pc \in Working
               \/ ~\E e \in Dispatches : draft[e].pc \in Working
      PROVE  IntakeInv'
  <2> DEFINE r == [draft[d] EXCEPT !.pc = pc]
  <2>1. draft' = [draft EXCEPT ![d] = r]
    BY <1>2 DEF Goto
  <2>2. r \in DraftRun /\ r.pc = pc
    BY <1>1 DEF DraftRun, Working
  <2> HIDE DEF r
  <2>3. r.pc # "drafting"
    BY <2>2
  <2> QED
    BY <1>2, <2>1, <2>2, <2>3, DispatchStep
<1>3. CASE Begin(d)
  BY <1>1, <1>2, <1>3 DEF Begin
<1>4. CASE Require(d)
  <2>1. "triage-passed" \in labels => SomePassed
    BY DEF IntakeInv, BehindTriage
  <2> DEFINE pc == IF "triage-passed" \in labels THEN "capture" ELSE "refused"
  <2>2. /\ pc \in {"capture", "refused"} /\ (pc = "capture" => SomePassed)
        /\ draft[d].pc \in Working
    BY <1>4, <2>1 DEF Require, Working
  <2>3. draft' = Goto(d, pc) /\ UNCHANGED <<issue, triage, labels, faults>>
    BY <1>4 DEF Require
  <2> HIDE DEF pc
  <2> QED
    BY <1>1, <1>2, <2>2, <2>3
<1>5. CASE Capture(d)
  <2> DEFINE r == [draft[d] EXCEPT !.pc = "drafting", !.request = Len(issue)]
  <2>1. draft' = [draft EXCEPT ![d] = r]
    BY <1>5 DEF Capture, Newest
  <2>2. r \in DraftRun /\ r.pc = "drafting" /\ r.request = Len(issue)
    BY <1>1 DEF DraftRun, Working
  <2> HIDE DEF r
  <2>3. SomePassed /\ draft[d].pc \in Working
    BY <1>5 DEF Capture, IntakeInv, BehindTriage, Working
  <2>4. /\ UNCHANGED <<issue, triage, labels>>
        /\ faults' \in 0 .. MaxFaults /\ r.pc # "capture"
    BY <1>1, <1>5, <2>2 DEF Capture
  <2>5. \/ r.request = Len(issue) /\ SomePassed
        \/ r.request = draft[d].request /\ draft[d].pc = "drafting"
    BY <2>2, <2>3
  <2> QED
    BY <2>1, <2>2, <2>3, <2>4, <2>5, DispatchStep
<1>6. CASE DraftEnds(d)
  BY <1>1, <1>2, <1>6 DEF DraftEnds, Working
<1>7. CASE DraftBroken(d)
  <2>1. faults' \in 0 .. MaxFaults
    BY <1>1, <1>7, Bounds DEF DraftBroken
  <2> QED
    BY <1>2, <1>7, <2>1 DEF DraftBroken, Working
<1> QED
  BY <1>3, <1>4, <1>5, <1>6, <1>7 DEF DraftStep

\* A new dispatch takes the place of the one that waits.
LEMMA DispatchKeeps ==
  ASSUME IntakeInv, NEW d \in Dispatches, Dispatch(d)
  PROVE  IntakeInv'
<1>1. draft \in [Dispatches -> DraftRun]
  BY DEF IntakeInv, TypeOK
<1>2. \A e \in Dispatches :
        /\ draft'[e] \in DraftRun
        /\ draft'[e] = draft[e] \/ draft'[e].pc \in {"pending", "superseded"}
  BY <1>1 DEF Dispatch, DraftRun
<1>3. draft' \in [Dispatches -> DraftRun]
  BY <1>2 DEF Dispatch
<1>4. TypeOK'
  BY <1>3 DEF IntakeInv, TypeOK, Dispatch
<1>5. VerdictsFit'
  BY DEF IntakeInv, VerdictsFit, Verdicts, Dispatch
<1>6. BehindTriage'
  BY <1>2 DEF IntakeInv, BehindTriage, SomePassed, Dispatch
<1>7. OneWorks'
  BY <1>2 DEF IntakeInv, OneWorks, Working, Dispatch
<1> QED
  BY <1>4, <1>5, <1>6, <1>7 DEF IntakeInv

\* An edit appends a run that has said nothing, and knows whether it overlaps;
\* the others stay where they are.
LEMMA EditRuns ==
  ASSUME IntakeInv, NEW b \in Bodies, Edit(b)
  PROVE  /\ DOMAIN triage = 1 .. Len(issue) /\ Len(issue) \in Nat
         /\ issue' \in Seq(Bodies) /\ Len(issue') = Len(issue) + 1
         /\ triage' \in Seq(TriageRun) /\ Len(triage') = Len(issue) + 1
         /\ DOMAIN triage' = 1 .. Len(issue) + 1
         /\ \A i \in 1 .. Len(issue) :
              /\ issue'[i] = issue[i] /\ triage'[i].pc = triage[i].pc
              /\ triage'[i].verdict = triage[i].verdict
              /\ triage'[i].edits = triage[i].edits
         /\ triage'[Len(issue) + 1].pc = "check"
         /\ triage'[Len(issue) + 1].verdict = "none"
         /\ triage'[Len(issue) + 1].edits = {}
         /\ ~triage'[Len(issue) + 1].overlapped =>
              \A i \in 1 .. Len(issue) : ~Busy(i)
<1> DEFINE marked == [i \in DOMAIN triage |->
             [triage[i] EXCEPT !.overlapped = triage[i].overlapped \/ Busy(i)]]
           isBusy == \E i \in DOMAIN triage : Busy(i)
           run == [pc |-> "check", verdict |-> "none", posted |-> FALSE,
                   edits |-> {}, overlapped |-> isBusy, lost |-> FALSE]
           n == Len(issue)
<1>1. /\ triage \in Seq(TriageRun) /\ Len(triage) = n
      /\ issue \in Seq(Bodies) /\ n \in Nat /\ DOMAIN triage = 1 .. n
  BY DEF IntakeInv, TypeOK
<1>2. issue' = Append(issue, b) /\ triage' = Append(marked, run)
  BY DEF Edit
<1>3. \A i \in DOMAIN triage :
        /\ marked[i] \in TriageRun /\ marked[i].pc = triage[i].pc
        /\ marked[i].verdict = triage[i].verdict
        /\ marked[i].edits = triage[i].edits
  <2> SUFFICES ASSUME NEW i \in DOMAIN triage
               PROVE  /\ marked[i] \in TriageRun
                      /\ marked[i].pc = triage[i].pc
                      /\ marked[i].verdict = triage[i].verdict
                      /\ marked[i].edits = triage[i].edits
    OBVIOUS
  <2> DEFINE over == triage[i].overlapped \/ Busy(i)
  <2>1. triage[i] \in TriageRun
    BY RunTyped
  <2>2. over \in BOOLEAN
    BY <2>1 DEF TriageRun, Busy
  <2>3. marked[i] = [triage[i] EXCEPT !.overlapped = over]
    OBVIOUS
  <2> HIDE DEF over, marked
  <2> QED
    BY <2>1, <2>2, <2>3 DEF TriageRun
<1>4. run \in TriageRun
  <2>1. isBusy \in BOOLEAN
    OBVIOUS
  <2> HIDE DEF isBusy
  <2> QED
    BY <2>1 DEF TriageRun, Active
<1>5. marked \in Seq(TriageRun) /\ Len(marked) = n
  <2>1. marked \in [1 .. n -> TriageRun]
    BY <1>1, <1>3
  <2> HIDE DEF marked
  <2> QED
    BY <1>1, <2>1
<1>6. /\ run.pc = "check" /\ run.verdict = "none" /\ run.edits = {}
      /\ run.overlapped = isBusy
  OBVIOUS
<1>7. ~isBusy => \A i \in 1 .. n : ~Busy(i)
  BY <1>1
<1> HIDE DEF marked, run, isBusy
<1>8. /\ issue' \in Seq(Bodies) /\ Len(issue') = n + 1
      /\ triage' \in Seq(TriageRun) /\ Len(triage') = n + 1
      /\ \A i \in 1 .. n : issue'[i] = issue[i] /\ triage'[i] = marked[i]
      /\ triage'[n + 1] = run /\ DOMAIN triage' = 1 .. n + 1
  BY <1>1, <1>2, <1>4, <1>5
<1> QED
  BY <1>1, <1>3, <1>6, <1>7, <1>8

\* That keeps the invariant.
LEMMA EditKeeps ==
  ASSUME IntakeInv, NEW b \in Bodies, Edit(b)
  PROVE  IntakeInv'
<1> DEFINE n == Len(issue)
<1>1. /\ DOMAIN triage = 1 .. n /\ n \in Nat /\ DOMAIN triage' = 1 .. n + 1
      /\ issue' \in Seq(Bodies) /\ Len(issue') = n + 1
      /\ triage' \in Seq(TriageRun) /\ Len(triage') = n + 1
  BY EditRuns
<1>2. \A i \in 1 .. n :
        /\ issue'[i] = issue[i] /\ triage'[i].pc = triage[i].pc
        /\ triage'[i].verdict = triage[i].verdict
        /\ triage'[i].edits = triage[i].edits
  BY EditRuns
<1>3. /\ triage'[n + 1].pc = "check" /\ triage'[n + 1].verdict = "none"
      /\ triage'[n + 1].edits = {}
  BY EditRuns
<1>4. ASSUME NEW i \in DOMAIN triage'
      PROVE  /\ triage'[i].edits # {} => triage'[i].pc = "label"
             /\ triage'[i].pc = "check" => triage'[i].verdict = "none"
             /\ triage'[i].verdict = "passed" =>
                  "passed" \in Verdicts(issue'[i])
  <2>1. CASE i = n + 1
    BY <1>3, <2>1
  <2>2. CASE i \in 1 .. n
    BY <1>1, <1>2, <2>2, RunTyped
  <2> QED
    BY <1>1, <2>1, <2>2
<1>5. TypeOK'
  <2>1. Len(issue') \in 1 .. MaxEvents
    BY <1>1, Bounds DEF Edit, Newest
  <2> QED
    BY <1>1, <1>4, <2>1 DEF IntakeInv, TypeOK, Edit
<1>6. VerdictsFit'
  BY <1>4 DEF VerdictsFit, Verdicts
<1>7. SomePassed => SomePassed'
  BY <1>1, <1>2 DEF SomePassed
<1>8. BehindTriage'
  <2>1. ASSUME NEW d \in Dispatches, draft[d].pc = "drafting"
        PROVE  /\ draft[d].request <= Len(issue')
               /\ \E j \in 1 .. draft[d].request :
                    triage'[j].verdict = "passed"
    <3>1. /\ draft[d].request <= n /\ draft[d].request \in Nat
          /\ \E j \in 1 .. draft[d].request : triage[j].verdict = "passed"
      BY <2>1 DEF IntakeInv, TypeOK, DraftRun, BehindTriage
    <3> QED
      BY <1>1, <1>2, <3>1
  <2> QED
    BY <1>7, <2>1 DEF IntakeInv, BehindTriage, Edit
<1>9. OneWorks'
  BY DEF IntakeInv, OneWorks, Edit
<1> QED
  BY <1>5, <1>6, <1>8, <1>9 DEF IntakeInv

\* Every step keeps the invariant.
LEMMA IntakeInvNext == IntakeInv /\ [Next]_vars => IntakeInv'
<1> SUFFICES ASSUME IntakeInv, [Next]_vars PROVE IntakeInv'
  OBVIOUS
<1>1. DOMAIN issue = DOMAIN triage
  BY DEF IntakeInv, TypeOK
<1>2. CASE \E b \in Bodies : Edit(b)
  BY <1>2, EditKeeps
<1>3. ASSUME NEW i \in DOMAIN issue,
             \/ TriageStep(i) \/ TriageBroken(i)
             \/ \E e \in {"add", "remove"} : LabelLost(i, e)
      PROVE  IntakeInv'
  BY <1>1, <1>3, ValidateKeeps, PostVerdictKeeps, LabelKeeps, BrokenKeeps
     DEF TriageStep
<1>4. ASSUME NEW d \in Dispatches,
             Dispatch(d) \/ DraftStep(d) \/ DraftBroken(d)
      PROVE  IntakeInv'
  BY <1>4, DispatchKeeps, DraftKeeps
<1>5. CASE UNCHANGED vars
  BY <1>5 DEF vars, IntakeInv, TypeOK, VerdictsFit, Verdicts, BehindTriage,
     SomePassed, OneWorks
<1> QED
  BY <1>2, <1>3, <1>4, <1>5 DEF Next

\* The invariant holds of every reachable state.
LEMMA IntakeInvHolds == Spec => []IntakeInv
BY IntakeInvInit, IntakeInvNext, PTL DEF Spec, Safety

-----------------------------------------------------------------------------
(* The labels.                                                             *)

\* What a run's edits, as far as they are made, have done to the labels.
Says(t, l) ==
  /\ "add" \in t.edits \/ Outcome(t.verdict) \in l
  /\ "remove" \in t.edits \/ Opposite(t.verdict) \notin l

Promise(t, l) ==
  t.pc \in {"label", "done"} /\ ~t.overlapped /\ ~t.lost => Says(t, l)

\* A newest run that did not overlap works alone, and nobody undoes its edits.
LabelInv ==
  /\ ~triage[Newest].overlapped =>
       \A i \in DOMAIN triage : i # Newest => ~Busy(i)
  /\ Promise(triage[Newest], labels)

LEMMA LabelInvInit == Init => LabelInv
<1> SUFFICES ASSUME Init PROVE LabelInv
  OBVIOUS
<1>1. PICK b \in Bodies : issue = <<b>>
  BY DEF Init
<1> DEFINE run == [pc |-> "check", verdict |-> "none", posted |-> FALSE,
                   edits |-> {}, overlapped |-> FALSE, lost |-> FALSE]
<1>2. triage = <<run>> /\ run.pc = "check"
  BY DEF Init
<1> HIDE DEF run
<1>3. Newest = 1 /\ DOMAIN triage = {1} /\ triage[1] = run
  BY <1>1, <1>2 DEF Newest
<1> QED
  BY <1>2, <1>3 DEF LabelInv, Promise

\* A step of one busy run, that keeps what the run promised.
LEMMA RunKeepsLabels ==
  ASSUME IntakeInv, LabelInv, NEW i \in DOMAIN triage, Busy(i),
         NEW r \in TriageRun, triage' = [triage EXCEPT ![i] = r],
         UNCHANGED issue, r.overlapped = triage[i].overlapped,
         Promise(triage[i], labels) => Promise(r, labels')
  PROVE  LabelInv'
<1>1. /\ triage \in Seq(TriageRun) /\ Newest \in DOMAIN triage
      /\ Newest' = Newest /\ DOMAIN triage' = DOMAIN triage
  BY DEF IntakeInv, TypeOK, Newest
<1>2. triage'[i] = r /\ \A j \in (DOMAIN triage) \ {i} : triage'[j] = triage[j]
  BY <1>1
<1>3. CASE i = Newest
  <2>1. \A j \in (DOMAIN triage) \ {i} : Busy(j)' = Busy(j)
    BY <1>2 DEF Busy
  <2>2. ~triage'[Newest].overlapped =>
          \A j \in DOMAIN triage : j # Newest => ~Busy(j)'
    BY <1>2, <1>3, <2>1 DEF LabelInv
  <2>3. Promise(triage'[Newest], labels')
    BY <1>2, <1>3 DEF LabelInv
  <2> QED
    BY <1>1, <2>2, <2>3 DEF LabelInv, Promise, Says, Outcome, Opposite
<1>4. CASE i # Newest
  <2>1. triage[Newest].overlapped /\ triage'[Newest] = triage[Newest]
    BY <1>1, <1>2, <1>4 DEF LabelInv
  <2> QED
    BY <1>1, <2>1 DEF LabelInv, Promise
<1> QED
  BY <1>3, <1>4

\* A verdict, and its comment, leave the labels to what follows.
LEMMA VerdictKeepsLabels ==
  ASSUME IntakeInv, LabelInv, NEW i \in DOMAIN triage,
         Validate(i) \/ PostVerdict(i)
  PROVE  LabelInv'
<1>1. CASE Validate(i)
  <2>1. PICK verdict \in Verdicts(issue[i]) :
          triage' = [triage EXCEPT ![i].verdict = verdict, ![i].pc = "comment"]
    BY <1>1 DEF Validate
  <2> DEFINE r == [triage[i] EXCEPT !.verdict = verdict, !.pc = "comment"]
  <2>2. triage' = [triage EXCEPT ![i] = r]
    BY <2>1
  <2>3. verdict \in {"passed", "changes"}
    BY DEF Verdicts
  <2>4. r \in TriageRun /\ r.pc = "comment"
        /\ r.overlapped = triage[i].overlapped
    BY <2>3, RunTyped DEF TriageRun, Active
  <2> HIDE DEF r
  <2>5. Promise(r, labels') /\ Busy(i) /\ UNCHANGED issue
    BY <1>1, <2>4 DEF Promise, Busy, Active, Validate
  <2> QED
    BY <2>2, <2>4, <2>5, RunKeepsLabels
<1>2. CASE PostVerdict(i)
  <2> DEFINE r == [triage[i] EXCEPT !.posted = TRUE, !.pc = "label",
                                    !.edits = {"add", "remove"}]
  <2>1. triage' = [triage EXCEPT ![i] = r]
    BY <1>2 DEF PostVerdict
  <2>2. r \in TriageRun /\ r.edits = {"add", "remove"}
        /\ r.overlapped = triage[i].overlapped
    BY RunTyped DEF TriageRun, Active
  <2> HIDE DEF r
  <2>3. Promise(r, labels') /\ Busy(i) /\ UNCHANGED issue
    BY <1>2, <2>2 DEF Promise, Says, Busy, Active, PostVerdict
  <2> QED
    BY <2>1, <2>2, <2>3, RunKeepsLabels
<1> QED
  BY <1>1, <1>2

\* An edit of the labels, made or lost, and a run that is lost.
LEMMA EditKeepsLabels ==
  ASSUME IntakeInv, LabelInv, NEW i \in DOMAIN triage,
         \/ \E e \in {"add", "remove"} : LabelEdit(i, e) \/ LabelLost(i, e)
         \/ TriageBroken(i)
  PROVE  LabelInv'
<1>1. ASSUME NEW e \in {"add", "remove"}, LabelEdit(i, e) PROVE LabelInv'
  <2>1. e \in triage[i].edits /\ AfterEdit(i, e, FALSE) /\ UNCHANGED issue
    BY <1>1 DEF LabelEdit
  <2>2. PICK r \in TriageRun :
          /\ triage' = [triage EXCEPT ![i] = r]
          /\ r.verdict = triage[i].verdict
          /\ r.edits = triage[i].edits \ {e}
          /\ r.overlapped = triage[i].overlapped
          /\ ~r.lost => ~triage[i].lost
    <3>1. FALSE \in BOOLEAN
      OBVIOUS
    <3>2. \E r \in TriageRun :
            /\ triage' = [triage EXCEPT ![i] = r]
            /\ r.verdict = triage[i].verdict
            /\ r.edits # {} => r.pc = "label"
            /\ r.pc # "check" /\ r.edits = triage[i].edits \ {e}
            /\ r.overlapped = triage[i].overlapped
            /\ ~r.lost => ~triage[i].lost /\ ~FALSE
      BY <2>1, <3>1, AfterEditTyped, Zenon
    <3> QED
      BY <3>2, Zenon
  <2>3. triage[i].pc = "label"
    BY <2>1, RunTyped
  <2>4. Outcome(r.verdict) # Opposite(r.verdict)
    BY DEF Outcome, Opposite
  <2>5. CASE e = "add"
    <3>1. labels' = labels \cup {Outcome(r.verdict)}
      BY <1>1, <2>2, <2>5 DEF LabelEdit
    <3>2. Says(triage[i], labels) => Says(r, labels')
      BY <2>2, <2>4, <2>5, <3>1 DEF Says
    <3>3. Promise(triage[i], labels) => Promise(r, labels')
      BY <2>2, <2>3, <3>2 DEF Promise
    <3> QED
      BY <2>1, <2>2, <2>3, <3>3, RunKeepsLabels DEF Busy, Active
  <2>6. CASE e = "remove"
    <3>1. labels' = labels \ {Opposite(r.verdict)}
      BY <1>1, <2>2, <2>6 DEF LabelEdit
    <3>2. Says(triage[i], labels) => Says(r, labels')
      BY <2>2, <2>4, <2>6, <3>1 DEF Says
    <3>3. Promise(triage[i], labels) => Promise(r, labels')
      BY <2>2, <2>3, <3>2 DEF Promise
    <3> QED
      BY <2>1, <2>2, <2>3, <3>3, RunKeepsLabels DEF Busy, Active
  <2> QED
    BY <2>5, <2>6
<1>2. ASSUME NEW e \in {"add", "remove"}, LabelLost(i, e) PROVE LabelInv'
  <2>1. e \in triage[i].edits /\ AfterEdit(i, e, TRUE) /\ UNCHANGED issue
    BY <1>2 DEF LabelLost
  <2>2. PICK r \in TriageRun :
          /\ triage' = [triage EXCEPT ![i] = r]
          /\ r.overlapped = triage[i].overlapped
          /\ r.lost
    <3>1. TRUE \in BOOLEAN
      OBVIOUS
    <3>2. \E r \in TriageRun :
            /\ triage' = [triage EXCEPT ![i] = r]
            /\ r.verdict = triage[i].verdict
            /\ r.edits # {} => r.pc = "label"
            /\ r.pc # "check" /\ r.edits = triage[i].edits \ {e}
            /\ r.overlapped = triage[i].overlapped
            /\ ~r.lost => ~triage[i].lost /\ ~TRUE
      BY <2>1, <3>1, AfterEditTyped, Zenon
    <3> QED
      BY <3>2, Zenon
  <2>3. triage[i].pc = "label"
    BY <2>1, RunTyped
  <2> QED
    BY <2>1, <2>2, <2>3, RunKeepsLabels DEF Busy, Active, Promise
<1>3. CASE TriageBroken(i)
  <2> DEFINE r == [triage[i] EXCEPT !.pc = "broken", !.edits = {}, !.lost = TRUE]
  <2>1. triage' = [triage EXCEPT ![i] = r]
    BY <1>3 DEF TriageBroken
  <2>2. r \in TriageRun /\ r.pc = "broken"
        /\ r.overlapped = triage[i].overlapped
    BY RunTyped DEF TriageRun
  <2> HIDE DEF r
  <2> QED
    BY <1>3, <2>1, <2>2, RunKeepsLabels DEF TriageBroken, Promise
<1> QED
  BY <1>1, <1>2, <1>3

LEMMA LabelInvNext == IntakeInv /\ LabelInv /\ [Next]_vars => LabelInv'
<1> SUFFICES ASSUME IntakeInv, LabelInv, [Next]_vars PROVE LabelInv'
  OBVIOUS
<1>1. DOMAIN issue = DOMAIN triage
  BY DEF IntakeInv, TypeOK
<1>2. ASSUME NEW b \in Bodies, Edit(b) PROVE LabelInv'
  <2> DEFINE n == Len(issue)
  <2>1. /\ n \in Nat /\ DOMAIN triage' = 1 .. n + 1 /\ Newest' = n + 1
        /\ \A i \in 1 .. n : triage'[i].pc = triage[i].pc
        /\ triage'[n + 1].pc = "check"
        /\ ~triage'[n + 1].overlapped => \A i \in 1 .. n : ~Busy(i)
    BY <1>2, EditRuns DEF Newest
  <2>2. ~triage'[n + 1].overlapped => \A i \in 1 .. n : ~Busy(i)'
    BY <2>1 DEF Busy
  <2>3. \A i \in DOMAIN triage' : i # n + 1 => i \in 1 .. n
    BY <2>1
  <2> HIDE DEF n
  <2> QED
    BY <2>1, <2>2, <2>3 DEF LabelInv, Promise
<1>3. ASSUME NEW i \in DOMAIN issue,
             \/ TriageStep(i) \/ TriageBroken(i)
             \/ \E e \in {"add", "remove"} : LabelLost(i, e)
      PROVE  LabelInv'
  BY <1>1, <1>3, VerdictKeepsLabels, EditKeepsLabels DEF TriageStep
<1>4. CASE UNCHANGED <<issue, triage, labels>>
  BY <1>4 DEF LabelInv, Promise, Says, Outcome, Opposite, Newest, Busy
<1>5. ASSUME NEW d \in Dispatches,
             Dispatch(d) \/ DraftStep(d) \/ DraftBroken(d)
      PROVE  LabelInv'
  BY <1>4, <1>5 DEF Dispatch, DraftStep, DraftBroken, Begin, Require, Capture,
     DraftEnds
<1> QED
  BY <1>2, <1>3, <1>4, <1>5 DEF Next, vars

-----------------------------------------------------------------------------
(* The theorems.                                                           *)

\* Runs, labels and dispatches are well typed, for any number of edits.
THEOREM IntakeTypeCorrect == Spec => []TypeOK
<1>1. IntakeInv => TypeOK
  BY DEF IntakeInv
<1> QED
  BY <1>1, IntakeInvHolds, PTL

\* However edits, triage runs, failed steps and dispatches interleave, one
\* agent at a time works on a request, and behind a wording of it that triage
\* had passed: with an id, an image that does not move and a claim that a
\* registry can have confirmed or left open.
THEOREM OneAgentProven == Spec => []OneAgentBehindTriage
<1>1. IntakeInv => OneAgentBehindTriage
  <2> SUFFICES ASSUME IntakeInv PROVE OneAgentBehindTriage
    OBVIOUS
  <2>1. ASSUME NEW d \in Dispatches, draft[d].pc = "drafting"
        PROVE  \E i \in 1 .. draft[d].request :
                 triage[i].verdict = "passed" /\ Fitting(ParseForm(issue[i]))
    <3>1. /\ draft[d].request \in Nat /\ draft[d].request <= Len(issue)
          /\ issue \in Seq(Bodies) /\ DOMAIN triage = 1 .. Len(issue)
          /\ Len(issue) \in Nat
      BY <2>1 DEF IntakeInv, TypeOK, DraftRun, BehindTriage
    <3>2. PICK i \in 1 .. draft[d].request : triage[i].verdict = "passed"
      BY <2>1 DEF IntakeInv, BehindTriage
    <3>3. i \in DOMAIN triage /\ issue[i] \in Bodies
      BY <3>1
    <3>4. "passed" \in Verdicts(issue[i])
      BY <3>2, <3>3 DEF IntakeInv, VerdictsFit
    <3> QED
      BY <3>2, <3>3, <3>4, PassedIsFitting
  <2>2. \A d, e \in Dispatches :
          draft[d].pc \in Working /\ draft[e].pc \in Working => d = e
    BY DEF IntakeInv, OneWorks
  <2> QED
    BY <2>1, <2>2 DEF OneAgentBehindTriage, Fitting
<1> QED
  BY <1>1, IntakeInvHolds, PTL

\* Once the newest run ended, the label says what it said of today's body, and
\* not what an earlier run said, unless it overlapped or could not change one.
THEOREM LabelIsOfToday == Spec => []LabelIsNewest
<1>1. IntakeInv /\ LabelInv => LabelIsNewest
  <2> SUFFICES ASSUME IntakeInv, LabelInv, triage[Newest].pc = "done",
                      ~triage[Newest].overlapped, ~triage[Newest].lost
               PROVE  labels \cap {Outcome(triage[Newest].verdict),
                                   Opposite(triage[Newest].verdict)}
                        = {Outcome(triage[Newest].verdict)}
    BY DEF LabelIsNewest
  <2>1. Newest \in DOMAIN triage
    BY DEF IntakeInv, TypeOK, Newest
  <2>2. triage[Newest].edits = {}
    BY <2>1, RunTyped
  <2> QED
    BY <2>2 DEF LabelInv, Promise, Says
<1> QED
  BY <1>1, LabelInvInit, LabelInvNext, IntakeInvHolds, PTL DEF Spec, Safety

=============================================================================

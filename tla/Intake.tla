------------------------------- MODULE Intake -------------------------------
(***************************************************************************)
(* The intake of one app request: the issue and its edits, the run of      *)
(* .github/workflows/app-request.yml that each of them starts, the labels  *)
(* those runs leave, and the dispatches of draft-tile.yml that trust them. *)
(*                                                                         *)
(* Triage runs on the body its event carried, the tiles of its checkout    *)
(* and what the registry answers it; draft-tile.yml reads the issue as it  *)
(* is.  Labels are changed by triage alone.                                *)
(***************************************************************************)
EXTENDS AppRequest

CONSTANTS
  Bodies,      \* what the issue can say
  Answers,     \* what registry.Platforms can return
  Dispatches,  \* identities of draft-tile.yml runs
  MaxEvents,   \* bound: the issue is opened, then edited MaxEvents - 1 times
  MaxFaults    \* bound: steps that could not be carried out

ASSUME IntakeAssumption ==
  /\ Bodies \subseteq Seq([label : STRING, value : STRING])
  /\ \A b \in Bodies : \A i \in DOMAIN b :
       b[i].label = "image" => b[i].value \in Images \cup {"_No response_"}
  /\ Answers \subseteq [err : BOOLEAN, platforms : SUBSET Required("both")]
  /\ MaxEvents \in Nat \ {0} /\ MaxFaults \in Nat

VARIABLES
  issue,   \* the bodies the issue had, the last one being today's
  triage,  \* the triage run of each of them
  labels,  \* the outcome labels on the issue
  draft,   \* the state of each dispatch
  faults   \* how many happened

vars == <<issue, triage, labels, draft, faults>>

\* What `gh issue edit` still has to do; overlapped: another run of the issue
\* was working at some time while this one was; lost: a step of it failed.
Active == {"check", "comment", "label"}
TriageRun == [pc : Active \cup {"done", "broken"},
              verdict : {"none", "passed", "changes"}, posted : BOOLEAN,
              edits : SUBSET {"add", "remove"}, overlapped : BOOLEAN,
              lost : BOOLEAN]

Working  == {"require", "capture", "drafting"}
DraftRun == [pc : {"idle", "pending", "superseded", "refused", "failed",
                   "proposed"} \cup Working,
             request : Nat]

TypeOK ==
  /\ issue \in Seq(Bodies) /\ Len(issue) \in 1 .. MaxEvents
  /\ triage \in Seq(TriageRun) /\ Len(triage) = Len(issue)
  /\ \A i \in DOMAIN triage : triage[i].edits # {} => triage[i].pc = "label"
  /\ labels \subseteq {"triage-passed", "needs-changes"}
  /\ draft \in [Dispatches -> DraftRun]
  /\ faults \in 0 .. MaxFaults

Newest == Len(issue)

Init ==
  /\ \E b \in Bodies : issue = <<b>>
  /\ triage = <<[pc |-> "check", verdict |-> "none", posted |-> FALSE,
                 edits |-> {}, overlapped |-> FALSE, lost |-> FALSE]>>
  /\ labels = {}
  /\ draft = [d \in Dispatches |-> [pc |-> "idle", request |-> 0]]
  /\ faults = 0

-----------------------------------------------------------------------------
(* app-request.yml: no `concurrency:` group, one run per event.            *)

Busy(i) == triage[i].pc \in Active

\* The author edits the issue, whatever its runs are doing.
Edit(b) ==
  /\ Newest < MaxEvents
  /\ issue' = Append(issue, b)
  /\ triage' = Append(
       [i \in DOMAIN triage |->
          [triage[i] EXCEPT !.overlapped = @ \/ Busy(i)]],
       [pc |-> "check", verdict |-> "none", posted |-> FALSE, edits |-> {},
        overlapped |-> \E i \in DOMAIN triage : Busy(i), lost |-> FALSE])
  /\ UNCHANGED <<labels, draft, faults>>

\* The tile file of the id, and the registry, are as this run finds them.
Verdicts(body) ==
  {"changes"} \cup
  IF \E file \in TileFiles, answer \in Answers : ~Blocks(body, file, answer)
  THEN {"passed"} ELSE {}

\* Mutant: no `set +e`, so that a verdict against the request ends the job.
ValidateUnguarded(i) ==
  /\ triage[i].pc = "check"
  /\ \E verdict \in Verdicts(issue[i]) :
       triage' = [triage EXCEPT ![i].verdict = verdict,
         ![i].pc = IF verdict = "passed" THEN "comment" ELSE "broken"]
  /\ UNCHANGED <<issue, labels, draft, faults>>

\* `set +e; go run ./cmd/triage`: whatever ends the checker with a status other
\* than 0, a registry that cannot be read included, asks for changes.
Validate(i) ==
  /\ triage[i].pc = "check"
  /\ \E verdict \in Verdicts(issue[i]) :
       triage' = [triage EXCEPT ![i].verdict = verdict, ![i].pc = "comment"]
  /\ UNCHANGED <<issue, labels, draft, faults>>

PostVerdict(i) ==
  /\ triage[i].pc = "comment"
  /\ triage' = [triage EXCEPT ![i].posted = TRUE, ![i].pc = "label",
                              ![i].edits = {"add", "remove"}]
  /\ UNCHANGED <<issue, labels, draft, faults>>

\* The label a verdict stands for, and the one it contradicts.
Outcome(verdict) ==
  IF verdict = "passed" THEN "triage-passed" ELSE "needs-changes"
Opposite(verdict) ==
  IF verdict = "passed" THEN "needs-changes" ELSE "triage-passed"

\* Mutant: the job ends with the first of them.
AfterFirstEdit(i, e, lost) ==
  triage' = [triage EXCEPT ![i].edits = @ \ {e}, ![i].lost = @ \/ lost,
                           ![i].pc = "done"]

\* One of the two requests `gh issue edit` makes.
AfterEdit(i, e, lost) ==
  triage' = [triage EXCEPT ![i].edits = @ \ {e}, ![i].lost = @ \/ lost,
               ![i].pc = IF triage[i].edits = {e} THEN "done" ELSE "label"]

\* Mutant: the label of the earlier outcome is left on the issue.
LabelAddOnly(i, e) ==
  /\ e \in triage[i].edits
  /\ labels' = IF e = "add" THEN labels \cup {Outcome(triage[i].verdict)}
               ELSE labels
  /\ AfterEdit(i, e, FALSE)
  /\ UNCHANGED <<issue, draft, faults>>

LabelEdit(i, e) ==
  /\ e \in triage[i].edits
  /\ labels' = IF e = "add" THEN labels \cup {Outcome(triage[i].verdict)}
               ELSE labels \ {Opposite(triage[i].verdict)}
  /\ AfterEdit(i, e, FALSE)
  /\ UNCHANGED <<issue, draft, faults>>

\* `|| true`: a label that could not be changed leaves the job green.
LabelLost(i, e) ==
  /\ e \in triage[i].edits
  /\ faults < MaxFaults /\ faults' = faults + 1
  /\ AfterEdit(i, e, TRUE)
  /\ UNCHANGED <<issue, labels, draft>>

\* The job is lost, or cannot post: what it did so far stays.
TriageBroken(i) ==
  /\ Busy(i)
  /\ faults < MaxFaults /\ faults' = faults + 1
  /\ triage' = [triage EXCEPT ![i].pc = "broken", ![i].edits = {},
                              ![i].lost = TRUE]
  /\ UNCHANGED <<issue, labels, draft>>

-----------------------------------------------------------------------------
(* draft-tile.yml: `concurrency: draft-tile-<issue>, cancel-in-progress:   *)
(* false`.                                                                 *)

Goto(d, label) == [draft EXCEPT ![d].pc = label]

\* A dispatch takes the one pending place of the group.
Dispatch(d) ==
  /\ draft[d].pc = "idle"
  /\ draft' = [e \in Dispatches |->
       IF e = d THEN [draft[d] EXCEPT !.pc = "pending"]
       ELSE IF draft[e].pc = "pending"
       THEN [draft[e] EXCEPT !.pc = "superseded"] ELSE draft[e]]
  /\ UNCHANGED <<issue, triage, labels, faults>>

\* Mutant: no concurrency group.
BeginAnyTime(d) ==
  /\ draft[d].pc = "pending"
  /\ draft' = Goto(d, "require")
  /\ UNCHANGED <<issue, triage, labels, faults>>

Begin(d) ==
  /\ draft[d].pc = "pending"
  /\ ~\E e \in Dispatches : draft[e].pc \in Working
  /\ draft' = Goto(d, "require")
  /\ UNCHANGED <<issue, triage, labels, faults>>

\* "require a triage-passed request"
Require(d) ==
  /\ draft[d].pc = "require"
  /\ draft' = Goto(d, IF "triage-passed" \in labels THEN "capture"
                      ELSE "refused")
  /\ UNCHANGED <<issue, triage, labels, faults>>

\* "capture the request": the issue is read a second time.
Capture(d) ==
  /\ draft[d].pc = "capture"
  /\ draft' = [draft EXCEPT ![d].pc = "drafting", ![d].request = Newest]
  /\ UNCHANGED <<issue, triage, labels, faults>>

\* Mutant: no timeout-minutes, for an agent that hangs on what it cannot draft.
DraftEndsByItself(d) ==
  /\ draft[d].pc = "drafting" /\ "passed" \in Verdicts(issue[draft[d].request])
  /\ \E end \in {"proposed", "failed"} : draft' = Goto(d, end)
  /\ UNCHANGED <<issue, triage, labels, faults>>

\* The agent opens a pull request or gives up; timeout-minutes ends it.
DraftEnds(d) ==
  /\ draft[d].pc = "drafting"
  /\ \E end \in {"proposed", "failed"} : draft' = Goto(d, end)
  /\ UNCHANGED <<issue, triage, labels, faults>>

DraftBroken(d) ==
  /\ draft[d].pc \in Working
  /\ faults < MaxFaults /\ faults' = faults + 1
  /\ draft' = Goto(d, "failed")
  /\ UNCHANGED <<issue, triage, labels>>

-----------------------------------------------------------------------------
TriageStep(i) ==
  Validate(i) \/ PostVerdict(i) \/ \E e \in {"add", "remove"} : LabelEdit(i, e)

DraftStep(d) == Begin(d) \/ Require(d) \/ Capture(d) \/ DraftEnds(d)

Next ==
  \/ \E b \in Bodies : Edit(b)
  \/ \E i \in DOMAIN issue :
       \/ TriageStep(i) \/ TriageBroken(i)
       \/ \E e \in {"add", "remove"} : LabelLost(i, e)
  \/ \E d \in Dispatches : Dispatch(d) \/ DraftStep(d) \/ DraftBroken(d)

Safety == Init /\ [][Next]_vars

\* A runner is found for every run, its steps are carried out and the timeout
\* ends the agent; nobody has to edit or dispatch.
Spec ==
  /\ Safety
  /\ \A i \in 1 .. MaxEvents : WF_vars(i \in DOMAIN issue /\ TriageStep(i))
  /\ \A d \in Dispatches : WF_vars(DraftStep(d))

-----------------------------------------------------------------------------
\* The label says what triage said of today's body, and not what it said of an
\* earlier one, once the newest run ended, unless that run overlapped with
\* another or could not change a label.
LabelIsNewest ==
  LET t == triage[Newest]
  IN t.pc = "done" /\ ~t.overlapped /\ ~t.lost =>
       labels \cap {Outcome(t.verdict), Opposite(t.verdict)}
         = {Outcome(t.verdict)}

\* One agent at a time works on a request, so that two do not push to the
\* branch of one tile, and it works on a request that triage had passed in
\* this wording or in an earlier one: an id, an image that does not move and a
\* claim that a registry can have confirmed or left open.
OneAgentBehindTriage ==
  /\ \A d, e \in Dispatches :
       draft[d].pc \in Working /\ draft[e].pc \in Working => d = e
  /\ \A d \in Dispatches : draft[d].pc = "drafting" =>
       \E i \in 1 .. draft[d].request :
         LET form == ParseForm(issue[i]) IN
         /\ triage[i].verdict = "passed"
         /\ form.id \notin {"", "No Label"}
         /\ form.image \in {"app:1.2", "app@sha256"}
         /\ \/ form.arch \notin Arches
            \/ \E answer \in Answers :
                 /\ ~answer.err
                 /\ answer.platforms \in
                      {{}, Required(form.arch), Required("both")}

\* Every wording gets its verdict posted, however many edits follow, unless a
\* step of its own run failed; so does a verdict against the request.
EveryEditAnswered ==
  \A i \in 1 .. MaxEvents :
    Newest >= i ~>
      \E j \in DOMAIN triage : j = i /\ (triage[j].posted \/ triage[j].lost)

\* A dispatch is carried out or gives its place to a later one: none is left
\* pending behind the others.
DispatchEnds ==
  \A d \in Dispatches : draft[d].pc = "pending" ~>
    draft[d].pc \in {"superseded", "refused", "failed", "proposed"}

-----------------------------------------------------------------------------
\* draft-tile.yml, "Refuse anything triage has not cleared [...] the id, the
\* pinned tag and the architecture claim are all checked there": what an agent
\* is given to draft from is a body triage passed.
DraftsOnlyCleared ==
  \A d \in Dispatches : draft[d].pc = "drafting" =>
    \E i \in DOMAIN issue :
      issue[i] = issue[draft[d].request] /\ triage[i].verdict = "passed"

=============================================================================

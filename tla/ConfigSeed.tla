----------------------------- MODULE ConfigSeed -----------------------------
(***************************************************************************)
(* The one-shot of the home-assistant tile that seeds /config before Home  *)
(* Assistant starts, run again on every deploy, with the interruptions a   *)
(* shell script that writes files in place is exposed to.                  *)
(*                                                                         *)
(* A file is abstracted to who wrote what it holds.  Home Assistant itself *)
(* is external: its part here is what the tile's comments say it does.     *)
(***************************************************************************)
EXTENDS Integers, Sequences

CONSTANTS
  MaxFaults,   \* bound: interruptions of the script
  MaxRemovals  \* bound: times the owner removes configuration.yaml

ASSUME SeedAssumption == MaxFaults \in Nat /\ MaxRemovals \in Nat

Includes == {"automations", "scripts", "scenes"}
Files    == {"configuration", "http"} \cup Includes

\* "partial" is what a redirection leaves until the command behind it is done;
\* "reset" is Home Assistant's own default, without the proxy trust.
Content == {"absent", "partial", "seeded", "owner", "reset"}

VARIABLES
  files,   \* the content of each file in the app's volume
  seed,    \* where the script stands, or how it ended
  todo,    \* the files the branch it is in still has to write, in order
  open,    \* the first of them was created or truncated but not written
  haUp,    \* Home Assistant runs
  torn,    \* files an interruption kept a branch from writing
  faults, removals  \* how many happened

vars == <<files, seed, todo, open, haUp, torn, faults, removals>>

Script == {"configuration?", "configuration", "http?", "http", "chmod"}

TypeOK ==
  /\ files \in [Files -> Content]
  /\ seed \in {"off", "done", "failed"} \cup Script
  /\ todo \in Seq(Files) /\ open \in BOOLEAN
  /\ open => todo # <<>> /\ files[Head(todo)] = "partial"
  /\ haUp \in BOOLEAN /\ torn \subseteq Files
  /\ faults \in 0 .. MaxFaults /\ removals \in 0 .. MaxRemovals

Init ==
  /\ files = [f \in Files |-> "absent"]
  /\ seed = "off" /\ todo = <<>> /\ open = FALSE
  /\ haUp = FALSE
  /\ torn = {} /\ faults = 0 /\ removals = 0

-----------------------------------------------------------------------------
\* Every deploy, start or restart runs the one-shot again.
Deploy ==
  /\ seed \in {"off", "failed"} \/ (seed = "done" /\ haUp)
  /\ seed' = "configuration?"
  /\ haUp' \in {FALSE, haUp}
  /\ UNCHANGED <<files, todo, open, torn, faults, removals>>

\* Mutant: the script compares the content instead of asking for the file.
PresentAsSeeded(f) == files[f] = "seeded"

\* `if [ -f ... ]`: any file by that name counts as already seeded.
Present(f) == files[f] # "absent"

\* An `if` on one file, and the writes of its `else` branch.
CheckFile(at, f, writes, then) ==
  /\ seed = at
  /\ IF Present(f) THEN seed' = then /\ UNCHANGED todo
                   ELSE seed' = f /\ todo' = writes
  /\ UNCHANGED <<files, open, haUp, torn, faults, removals>>

\* Mutant: one `if` around everything the script seeds.
CheckOnlyConfiguration ==
  CheckFile("configuration?", "configuration",
            <<"configuration", "automations", "scripts", "scenes">>, "done")

CheckConfiguration ==
  CheckFile("configuration?", "configuration",
            <<"configuration", "automations", "scripts", "scenes">>, "http?")

CheckHttp == CheckFile("http?", "http", <<"http">>, "done")

\* `> file`: the shell creates or truncates it before the command runs.
Redirect ==
  /\ todo # <<>> /\ ~open
  /\ files' = [files EXCEPT ![Head(todo)] = "partial"]
  /\ open' = TRUE
  /\ UNCHANGED <<seed, todo, haUp, torn, faults, removals>>

\* The command has written the file; after the last one the branch is left.
Written ==
  /\ open
  /\ files' = [files EXCEPT ![Head(todo)] = "seeded"]
  /\ open' = FALSE /\ todo' = Tail(todo)
  /\ seed' = IF Len(todo) > 1 THEN seed
             ELSE IF seed = "configuration" THEN "http?" ELSE "chmod"
  /\ UNCHANGED <<haUp, torn, faults, removals>>

Chmod ==
  /\ seed = "chmod"
  /\ seed' = "done"
  /\ UNCHANGED <<files, todo, open, haUp, torn, faults, removals>>

\* A full disk (`set -e`), a stop or a node crash ends the script where it is;
\* `restart: "no"` leaves it there until the next deploy.
Interrupted ==
  /\ seed \in Script /\ faults < MaxFaults
  /\ seed' = "failed" /\ todo' = <<>> /\ open' = FALSE
  /\ faults' = faults + 1
  /\ torn' = IF todo # <<>> /\ Present(seed)
             THEN torn \cup {todo[i] : i \in DOMAIN todo} ELSE torn
  /\ UNCHANGED <<files, haUp, removals>>

-----------------------------------------------------------------------------
\* `condition: service_completed_successfully`.  A store it cannot read Home
\* Assistant discards for its defaults.
HaStart ==
  /\ seed = "done" /\ ~haUp
  /\ haUp' = TRUE
  /\ files' = [files EXCEPT !["http"] = IF @ = "partial" THEN "reset" ELSE @]
  /\ UNCHANGED <<seed, todo, open, torn, faults, removals>>

\* The owner changes a file, in the UI or by hand.
OwnerEdits(f) ==
  /\ haUp /\ seed = "done" /\ Present(f)
  /\ files' = [files EXCEPT ![f] = "owner"]
  /\ UNCHANGED <<seed, todo, open, haUp, torn, faults, removals>>

\* The owner takes configuration.yaml away, to start it afresh.
OwnerRemoves ==
  /\ haUp /\ seed = "done" /\ Present("configuration")
  /\ removals < MaxRemovals /\ removals' = removals + 1
  /\ files' = [files EXCEPT !["configuration"] = "absent"]
  /\ UNCHANGED <<seed, todo, open, haUp, torn, faults>>

Next ==
  \/ Deploy \/ CheckConfiguration \/ CheckHttp
  \/ Redirect \/ Written \/ Chmod \/ Interrupted \/ HaStart
  \/ \E f \in Files : OwnerEdits(f)
  \/ OwnerRemoves

Spec == Init /\ [][Next]_vars

-----------------------------------------------------------------------------
\* However often the script was interrupted, rerun and edited after: when Home
\* Assistant runs on a finished seed, a file is without its seed only if an
\* interruption hit the branch that was writing it after that branch's first
\* redirection.  Any other interruption the next deploy makes good.
OnlyTornMissing ==
  haUp /\ seed = "done" => \A f \in Files :
    files[f] \in {"absent", "partial", "reset"} =>
      f \in torn \/ (f = "configuration" /\ removals > 0)

\* An owner's edit survives every deploy, rerun and interruption, except an
\* include's when configuration.yaml was taken away and the branch that writes
\* it writes the includes again.
EditsLostOnlyWithConfiguration ==
  [][\A f \in Files :
       files[f] = "owner" /\ files'[f] # "owner" =>
         \/ removals' > removals
         \/ removals > 0 /\ f \in Includes /\ seed = "configuration"]_vars


=============================================================================

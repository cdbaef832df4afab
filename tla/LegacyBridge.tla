---------------------------- MODULE LegacyBridge ----------------------------
(***************************************************************************)
(* The one-shot bridges of the romm and immich tiles (romm-db-bridge,      *)
(* immich-db-bridge), with the database whose passwords they move, the app *)
(* that waits for them, and what happens to the stack around them:         *)
(* deploys, stops, reverts, restored backups, crashes in between.          *)
(*                                                                         *)
(* A password is abstracted to whose it is: the platform's, the legacy one *)
(* the tile used to publish, or some other one.  The two scripts differ in *)
(* the accounts they alter and in the admin account they log in as.        *)
(***************************************************************************)
EXTENDS Integers, Sequences

CONSTANTS
  Tiles,       \* what the bridge of each tile alters, and as whom: see below
  MaxFaults,   \* bound: database failures and node crashes
  MaxRestores, \* bound: backups restored
  NoBackup     \* no copy of the database exists

Passwords == {"platform", "legacy", "other"}

\* alter: the accounts, in the order the script's statements alter them.
\* app, admin: the accounts that the app and the bridge log in with.
AccountsOf(t) == {t.alter[i] : i \in DOMAIN t.alter}
VolumeOf(t)   == [AccountsOf(t) -> Passwords]

ASSUME BridgeAssumption ==
  /\ \A t \in Tiles :
       /\ t.alter \in Seq(AccountsOf(t)) /\ Len(t.alter) > 0
       /\ \A i, j \in DOMAIN t.alter : t.alter[i] = t.alter[j] => i = j
       /\ t.app = t.alter[Len(t.alter)] /\ t.admin \in AccountsOf(t)
       /\ NoBackup \notin VolumeOf(t)
  /\ MaxFaults \in Nat /\ MaxRestores \in Nat

\* Where the script stands, and the sentence it ended with.
Running == {"wait", "app", "platformAdmin", "legacyAdmin", "alter", "verify"}
Success == {"already", "moved"}
Failure == {"noAnswer", "other", "refusedBoth", "couldNotChange",
            "stillRefused", "killed"}

VARIABLES
  tile,     \* the tile that is installed, one of Tiles
  stack,    \* the compose that is up: "down", "previous" or "head"
  vol,      \* the password of each account in the database's volume
  dbUp,     \* the database answers
  bridge,   \* the bridge: "off", a point in Running, or its outcome
  next,     \* the statement the bridge sends next
  appUp,    \* the app's container runs
  backup,   \* a copy of the volume, or NoBackup
  faults, restores  \* how many happened

vars == <<tile, stack, vol, dbUp, bridge, next, appUp, backup, faults,
          restores>>

AlterOrder   == tile.alter
AppAccount   == tile.app
AdminAccount == tile.admin
Accounts     == AccountsOf(tile)

\* "none" is a data directory that was not created yet.
Volume   == VolumeOf(tile)
AllOn(p) == [a \in Accounts |-> p]
Fresh    == AllOn("none")

TypeOK ==
  /\ tile \in Tiles
  /\ stack \in {"down", "previous", "head"}
  /\ vol \in Volume \cup {Fresh}
  /\ dbUp \in BOOLEAN /\ appUp \in BOOLEAN
  /\ dbUp => stack # "down" /\ vol # Fresh
  /\ bridge \in {"off"} \cup Running \cup Success \cup Failure
  /\ bridge \in Running => stack = "head"
  /\ next \in 1 .. Len(AlterOrder) + 1
  /\ backup \in Volume \cup {NoBackup}
  /\ faults \in 0 .. MaxFaults /\ restores \in 0 .. MaxRestores

\* A fresh install, an install on the published passwords, or one whose owner
\* changed any of them by hand.
Init ==
  /\ tile \in Tiles
  /\ stack = "down" /\ dbUp = FALSE /\ appUp = FALSE
  /\ vol \in {Fresh} \cup [Accounts -> Passwords \ {"platform"}]
  /\ bridge = "off" /\ next = 1
  /\ backup = NoBackup
  /\ faults = 0 /\ restores = 0

-----------------------------------------------------------------------------
(* The platform and the owner.                                             *)

\* `compose up` works until the bridge failed, or succeeded and the app runs.
Deploying ==
  bridge \in Running \/ (stack = "head" /\ bridge \in Success /\ ~appUp)

\* A deploy, start or restart of this tile's compose: the one-shot runs again,
\* whatever it did before; an app already up on this compose may be left so.
Up ==
  /\ ~Deploying
  /\ stack' = "head"
  /\ appUp' \in {FALSE, stack = "head" /\ appUp}
  /\ bridge' = "wait" /\ next' = 1
  /\ UNCHANGED <<tile, vol, dbUp, backup, faults, restores>>

\* Back to the compose from before the bridge: the app starts unguarded.
Revert ==
  /\ stack = "head" /\ ~Deploying
  /\ stack' = "previous" /\ appUp' = TRUE
  /\ bridge' = "off"
  /\ UNCHANGED <<tile, vol, dbUp, next, backup, faults, restores>>

\* Mutant: the one-shot outlives the stack.
StopAllButBridge ==
  /\ stack # "down"
  /\ stack' = "down" /\ dbUp' = FALSE /\ appUp' = FALSE
  /\ UNCHANGED <<tile, vol, bridge, next, backup, faults, restores>>

Stop ==
  /\ stack # "down"
  /\ stack' = "down" /\ dbUp' = FALSE /\ appUp' = FALSE
  /\ bridge' = IF bridge \in Running THEN "killed" ELSE bridge
  /\ UNCHANGED <<tile, vol, next, backup, faults, restores>>

\* A copy of the volume, taken at any moment.
Backup ==
  /\ vol # Fresh /\ backup # vol
  /\ backup' = vol
  /\ UNCHANGED <<tile, stack, vol, dbUp, bridge, next, appUp, faults,
                 restores>>

Restore ==
  /\ stack = "down" /\ backup # NoBackup /\ restores < MaxRestores
  /\ vol' = backup /\ restores' = restores + 1
  /\ UNCHANGED <<tile, stack, dbUp, bridge, next, appUp, backup, faults>>

-----------------------------------------------------------------------------
(* The database, and faults.                                               *)

\* The image applies the compose's passwords only when it first creates its
\* data directory.
DbStart ==
  /\ stack # "down" /\ ~dbUp
  /\ dbUp' = TRUE
  /\ vol' = IF vol # Fresh THEN vol
            ELSE AllOn(IF stack = "head" THEN "platform" ELSE "legacy")
  /\ UNCHANGED <<tile, stack, bridge, next, appUp, backup, faults, restores>>

\* The server goes away: statements it already ran stay, and a client in the
\* middle of its statements is told that it failed.
DbDown ==
  /\ dbUp /\ faults < MaxFaults
  /\ dbUp' = FALSE /\ faults' = faults + 1
  /\ bridge' = IF bridge = "alter" THEN "couldNotChange" ELSE bridge
  /\ UNCHANGED <<tile, stack, vol, next, appUp, backup, restores>>

\* The node goes down and comes back: `restart: "no"` leaves the bridge where
\* it was killed, `unless-stopped` brings back the containers that had run.
NodeCrash ==
  /\ stack # "down" /\ faults < MaxFaults
  /\ dbUp' = FALSE /\ faults' = faults + 1
  /\ bridge' = IF Deploying THEN "killed" ELSE bridge
  /\ UNCHANGED <<tile, stack, vol, next, appUp, backup, restores>>

-----------------------------------------------------------------------------
(* The script.                                                             *)

\* `until ... ping`: goes on once the database answers, and gives up when it
\* did not for 120 seconds.
Answered ==
  /\ bridge = "wait" /\ dbUp
  /\ bridge' = "app"
  /\ UNCHANGED <<tile, stack, vol, dbUp, next, appUp, backup, faults,
                 restores>>

GiveUp ==
  /\ bridge = "wait" /\ ~dbUp
  /\ bridge' = "noAnswer"
  /\ UNCHANGED <<tile, stack, vol, dbUp, next, appUp, backup, faults,
                 restores>>

\* login(): 0 logged in, 1 password refused, 2 any other failure.
Login(account, password) ==
  IF ~dbUp THEN 2 ELSE IF vol[account] = password THEN 0 ELSE 1

\* One `login` and the `case` on its status: where 0 and 1 lead; 2 ends it.
TryLogin(at, account, password, accepted, refused) ==
  /\ bridge = at
  /\ bridge' = CASE Login(account, password) = 0 -> accepted
                 [] Login(account, password) = 1 -> refused
                 [] OTHER -> "other"
  /\ UNCHANGED <<tile, stack, vol, dbUp, next, appUp, backup, faults,
                 restores>>

\* Mutant: root is tried with the legacy password only.
LoginAppThenLegacy == TryLogin("app", AppAccount, "platform", "already",
                               "legacyAdmin")

\* immich's admin is the app's account, whose platform password was refused.
LoginApp == TryLogin("app", AppAccount, "platform", "already",
              IF AdminAccount = AppAccount THEN "legacyAdmin"
              ELSE "platformAdmin")

LoginPlatformAdmin ==
  TryLogin("platformAdmin", AdminAccount, "platform", "alter", "legacyAdmin")

\* Mutant: the second login reuses the first password.
LoginSamePassword ==
  TryLogin("legacyAdmin", AdminAccount, "platform", "alter", "refusedBoth")

LoginLegacyAdmin ==
  TryLogin("legacyAdmin", AdminAccount, "legacy", "alter", "refusedBoth")

\* Mutant: the statements in the opposite order.
AlterReversed ==
  /\ bridge = "alter" /\ dbUp /\ next <= Len(AlterOrder)
  /\ vol' = [vol EXCEPT ![AlterOrder[Len(AlterOrder) + 1 - next]] = "platform"]
  /\ next' = next + 1
  /\ UNCHANGED <<tile, stack, dbUp, bridge, appUp, backup, faults, restores>>

\* Each statement commits by itself.
AlterAccount ==
  /\ bridge = "alter" /\ dbUp /\ next <= Len(AlterOrder)
  /\ vol' = [vol EXCEPT ![AlterOrder[next]] = "platform"]
  /\ next' = next + 1
  /\ UNCHANGED <<tile, stack, dbUp, bridge, appUp, backup, faults, restores>>

AlterDone ==
  /\ bridge = "alter" /\ next > Len(AlterOrder)
  /\ bridge' = "verify"
  /\ UNCHANGED <<tile, stack, vol, dbUp, next, appUp, backup, faults,
                 restores>>

\* `if ! login ...`: any status but 0 ends in the same sentence.
Verify ==
  /\ bridge = "verify"
  /\ bridge' = IF Login(AppAccount, "platform") = 0 THEN "moved"
               ELSE "stillRefused"
  /\ UNCHANGED <<tile, stack, vol, dbUp, next, appUp, backup, faults,
                 restores>>

\* Mutant: `condition: service_started`.
AppStartEarly ==
  /\ stack = "head" /\ bridge # "off" /\ ~appUp
  /\ appUp' = TRUE
  /\ UNCHANGED <<tile, stack, vol, dbUp, bridge, next, backup, faults,
                 restores>>

\* `condition: service_completed_successfully`
AppStart ==
  /\ stack = "head" /\ bridge \in Success /\ ~appUp
  /\ appUp' = TRUE
  /\ UNCHANGED <<tile, stack, vol, dbUp, bridge, next, backup, faults,
                 restores>>

-----------------------------------------------------------------------------
Script == Answered \/ LoginApp \/ LoginPlatformAdmin \/ LoginLegacyAdmin
            \/ AlterAccount \/ AlterDone \/ Verify

Next == Up \/ Revert \/ Stop \/ Backup \/ Restore \/ DbStart \/ DbDown
          \/ NodeCrash \/ GiveUp \/ Script \/ AppStart

Safety == Init /\ [][Next]_vars

\* `restart: unless-stopped` brings the database back, and the shell and
\* compose run on.  Giving up is never owed, and neither is another deploy: the
\* one-shot has `restart: "no"`, and nothing in the repository starts it again.
Spec == Safety /\ WF_vars(DbStart) /\ WF_vars(Script) /\ WF_vars(AppStart)

-----------------------------------------------------------------------------
\* "romm's account is changed last, so step 2 passing means every account was
\* changed": at every moment, crashes between two statements included, and in
\* every copy of the database taken at any moment.
Consistent(v) ==
  v[AppAccount] = "platform" => v = AllOn("platform")

StepTwoMeansAll == Consistent(vol) /\ (backup # NoBackup => Consistent(backup))

\* The app of this compose runs only on a database of which no account is
\* left on a published password, whatever was restored, reverted or cut short.
AppOnlyOnMoved == stack = "head" /\ appUp => vol = AllOn("platform")

\* The bridge is never locked out by its own unfinished work: it reports both
\* admin passwords refused only of a database whose admin password is neither.
RefusedOnlyUnknown ==
  stack = "head" /\ bridge = "refusedBoth" => vol[AdminAccount] = "other"

\* A deployed app comes up, through failures of the database and of the node,
\* lost backups and reverts, or its bridge stays failed because nobody deploys
\* again: no failure but an admin password changed by hand outlasts deploys
\* that are tried again.
EventuallyServes ==
  stack = "head" ~>
    \/ appUp \/ stack # "head" \/ vol[AdminAccount] = "other"
    \/ [](bridge \in Failure)

=============================================================================

------------------------- MODULE LegacyBridgeProofs -------------------------
(***************************************************************************)
(* Proofs about the bridges, for any tiles whose script alters the app's   *)
(* account last, any accounts and any number of faults, backups and        *)
(* restores.                                                               *)
(***************************************************************************)
EXTENDS LegacyBridge, TLAPS

-----------------------------------------------------------------------------
(* The inductive invariant.                                                *)

\* Every statement that was sent is in the database, and none was sent before
\* the script has found an admin password.
SentIsAltered ==
  /\ bridge \in {"wait", "app", "platformAdmin", "legacyAdmin"} => next = 1
  /\ bridge = "alter" =>
       \A i \in 1 .. next - 1 : vol[AlterOrder[i]] = "platform"

\* The legacy admin password is tried, and both are reported refused, only
\* after the platform's was refused by a database that has been created.
LegacyAfterRefusal ==
  /\ bridge = "legacyAdmin" => vol # Fresh /\ vol[AdminAccount] # "platform"
  /\ stack = "head" /\ bridge = "refusedBoth" => vol[AdminAccount] = "other"

\* A success is of the database that is still there, and so is the app.
SuccessIsMoved ==
  stack = "head" /\ (appUp \/ bridge \in Success) => vol = AllOn("platform")

BridgeInv == /\ TypeOK /\ StepTwoMeansAll /\ SentIsAltered
             /\ LegacyAfterRefusal /\ SuccessIsMoved

-----------------------------------------------------------------------------
(* The data of a tile, and the outcomes of a login.                        *)

\* What the assumption says of the tile that is installed.
LEMMA TileFacts ==
  ASSUME tile \in Tiles
  PROVE  /\ Len(AlterOrder) \in Nat \ {0}
         /\ DOMAIN AlterOrder = 1 .. Len(AlterOrder)
         /\ \A i \in 1 .. Len(AlterOrder) : AlterOrder[i] \in Accounts
         /\ \A a \in Accounts :
              \E i \in 1 .. Len(AlterOrder) : AlterOrder[i] = a
         /\ \A i, j \in 1 .. Len(AlterOrder) :
              AlterOrder[i] = AlterOrder[j] => i = j
         /\ AppAccount = AlterOrder[Len(AlterOrder)]
         /\ AppAccount \in Accounts /\ AdminAccount \in Accounts
         /\ NoBackup \notin Volume
<1>1. AlterOrder \in Seq(Accounts) /\ Len(AlterOrder) > 0
  BY BridgeAssumption DEF AlterOrder, Accounts
<1>2. Len(AlterOrder) \in Nat \ {0}
      /\ DOMAIN AlterOrder = 1 .. Len(AlterOrder)
  BY <1>1
<1>3. \A a \in Accounts :
        \E i \in 1 .. Len(AlterOrder) : AlterOrder[i] = a
  BY <1>2 DEF Accounts, AccountsOf, AlterOrder
<1>4. \A i \in 1 .. Len(AlterOrder) : AlterOrder[i] \in Accounts
  BY <1>2 DEF Accounts, AccountsOf, AlterOrder
<1>5. \A i, j \in 1 .. Len(AlterOrder) :
        AlterOrder[i] = AlterOrder[j] => i = j
  BY <1>2, BridgeAssumption DEF AlterOrder
<1>6. AppAccount = AlterOrder[Len(AlterOrder)] /\ AdminAccount \in Accounts
      /\ NoBackup \notin Volume
  BY BridgeAssumption
     DEF AppAccount, AlterOrder, AdminAccount, Accounts, Volume
<1> QED
  BY <1>2, <1>3, <1>4, <1>5, <1>6

\* The copies of a database are told apart by what an account holds.
LEMMA VolumeFacts ==
  ASSUME tile \in Tiles
  PROVE  /\ AllOn("platform") \in Volume /\ AllOn("legacy") \in Volume
         /\ Fresh \notin Volume
         /\ \A p : \A a \in Accounts : AllOn(p)[a] = p
         /\ \A v \in Volume : \A a \in Accounts : v[a] \in Passwords
         /\ \A v \in Volume :
              (\A a \in Accounts : v[a] = "platform") => v = AllOn("platform")
<1>1. Volume = [Accounts -> Passwords]
  BY DEF Volume, VolumeOf, Accounts
<1>2. AppAccount \in Accounts
  BY TileFacts
<1>3. \A p : \A a \in Accounts : AllOn(p)[a] = p
  BY DEF AllOn
<1>4. Fresh \notin Volume
  <2>1. Fresh[AppAccount] = "none"
    BY <1>2, <1>3 DEF Fresh
  <2> QED
    BY <1>1, <1>2, <2>1 DEF Passwords
<1>5. AllOn("platform") \in Volume /\ AllOn("legacy") \in Volume
  BY <1>1 DEF AllOn, Passwords
<1>6. \A v \in Volume :
        (\A a \in Accounts : v[a] = "platform") => v = AllOn("platform")
  BY <1>1 DEF AllOn
<1> QED
  BY <1>1, <1>3, <1>4, <1>5, <1>6

\* `login` and its `case`, by the three statuses.
LEMMA LoginCases ==
  ASSUME NEW at, NEW account, NEW password, NEW accepted, NEW refused,
         TryLogin(at, account, password, accepted, refused)
  PROVE  /\ bridge = at
         /\ UNCHANGED <<tile, stack, vol, dbUp, next, appUp, backup, faults,
                        restores>>
         /\ \/ dbUp /\ vol[account] = password /\ bridge' = accepted
            \/ dbUp /\ vol[account] # password /\ bridge' = refused
            \/ ~dbUp /\ bridge' = "other"
<1>1. CASE ~dbUp
  BY <1>1 DEF TryLogin, Login
<1>2. CASE dbUp /\ vol[account] = password
  BY <1>2 DEF TryLogin, Login
<1>3. CASE dbUp /\ vol[account] # password
  BY <1>3 DEF TryLogin, Login
<1> QED
  BY <1>1, <1>2, <1>3

-----------------------------------------------------------------------------
(* The steps.                                                              *)

LEMMA BridgeInvInit == Init => BridgeInv
<1> SUFFICES ASSUME Init PROVE BridgeInv
  OBVIOUS
<1>1. tile \in Tiles /\ bridge = "off" /\ next = 1 /\ stack = "down"
      /\ backup = NoBackup /\ dbUp = FALSE /\ appUp = FALSE
      /\ faults = 0 /\ restores = 0
  BY DEF Init
<1>2. vol = Fresh \/ vol \in [Accounts -> Passwords \ {"platform"}]
  BY DEF Init
<1>3. vol \in Volume \cup {Fresh} /\ vol[AppAccount] # "platform"
  BY <1>1, <1>2, TileFacts, VolumeFacts
     DEF Volume, VolumeOf, Accounts, Fresh
<1>4. TypeOK
  <2>1. Len(AlterOrder) \in Nat \ {0} /\ MaxFaults \in Nat
        /\ MaxRestores \in Nat
    BY <1>1, TileFacts, BridgeAssumption
  <2>2. next \in 1 .. Len(AlterOrder) + 1 /\ faults \in 0 .. MaxFaults
        /\ restores \in 0 .. MaxRestores
    BY <1>1, <2>1
  <2>3. bridge \in {"off"} /\ bridge \notin Running
    BY <1>1 DEF Running
  <2> QED
    BY <1>1, <1>3, <2>2, <2>3, Zenon DEF TypeOK
<1>5. StepTwoMeansAll
  BY <1>1, <1>3 DEF StepTwoMeansAll, Consistent
<1> QED
  BY <1>1, <1>4, <1>5
     DEF BridgeInv, SentIsAltered, LegacyAfterRefusal, SuccessIsMoved, Success

\* The operators of the tile stay what they are when the tile does.
LEMMA TileStays ==
  ASSUME UNCHANGED tile
  PROVE  /\ UNCHANGED <<AlterOrder, AppAccount, AdminAccount, Accounts, Volume,
                        Fresh>>
         /\ \A p : AllOn(p)' = AllOn(p)
BY DEF AlterOrder, AppAccount, AdminAccount, Accounts, Volume, Fresh, AllOn,
       VolumeOf, AccountsOf

\* What a step that leaves the passwords alone has to keep.
LEMMA QuietStep ==
  ASSUME BridgeInv, UNCHANGED <<tile, vol, backup>>
  PROVE  /\ StepTwoMeansAll'
         /\ bridge = "alter" /\ bridge' = "alter" /\ next' = next =>
              SentIsAltered'
<1>1. StepTwoMeansAll
  BY DEF BridgeInv
<1>2. StepTwoMeansAll'
  BY <1>1, TileStays DEF StepTwoMeansAll, Consistent
<1>3. bridge = "alter" /\ bridge' = "alter" /\ next' = next => SentIsAltered'
  BY TileStays DEF BridgeInv, SentIsAltered
<1> QED
  BY <1>2, <1>3

\* The platform and the owner.
LEMMA OwnerKeepsInv ==
  ASSUME BridgeInv, Up \/ Revert \/ Stop \/ Backup \/ Restore
  PROVE  BridgeInv'
<1> USE DEF BridgeInv
<1>1. tile \in Tiles /\ tile' = tile
  BY DEF TypeOK, Up, Revert, Stop, Backup, Restore
<1>2. Len(AlterOrder) \in Nat \ {0} /\ MaxFaults \in Nat /\ MaxRestores \in Nat
  BY <1>1, TileFacts, BridgeAssumption
<1>3. AlterOrder' = AlterOrder /\ Volume' = Volume /\ Fresh' = Fresh
      /\ AdminAccount' = AdminAccount
  BY <1>1, TileStays
<1>4. CASE Up
  <2>1. appUp' \in BOOLEAN /\ (appUp' => stack = "head" /\ appUp)
    <3>1. PICK up \in {FALSE, stack = "head" /\ appUp} : appUp' = up
      BY <1>4, Zenon DEF Up
    <3> QED
      BY <3>1, Zenon
  <2>2. TypeOK'
    BY <1>2, <1>3, <1>4, <2>1 DEF Up, TypeOK, Running, Success, Failure
  <2>3. SuccessIsMoved'
    <3>1. bridge' \notin Success /\ vol' = vol
      BY <1>4 DEF Up, Success
    <3> QED
      BY <1>1, <2>1, <3>1, TileStays, Zenon DEF SuccessIsMoved
  <2>4. SentIsAltered' /\ LegacyAfterRefusal'
    BY <1>4 DEF Up, SentIsAltered, LegacyAfterRefusal
  <2> QED
    BY <1>4, <2>2, <2>3, <2>4, QuietStep DEF Up
<1>5. CASE Revert
  <2>1. TypeOK'
    BY <1>2, <1>3, <1>5 DEF Revert, TypeOK, Running, Success, Failure
  <2>2. SuccessIsMoved' /\ SentIsAltered' /\ LegacyAfterRefusal'
    BY <1>5 DEF Revert, SuccessIsMoved, SentIsAltered, LegacyAfterRefusal
  <2> QED
    BY <1>5, <2>1, <2>2, QuietStep DEF Revert
<1>6. CASE Stop
  <2>1. bridge' \notin Running /\ (bridge' = bridge \/ bridge' = "killed")
    BY <1>6 DEF Stop, Running
  <2>2. TypeOK'
    BY <1>2, <1>3, <1>6, <2>1 DEF Stop, TypeOK, Running, Success, Failure
  <2>3. SuccessIsMoved' /\ SentIsAltered' /\ LegacyAfterRefusal'
    BY <1>6, <2>1
       DEF Stop, SuccessIsMoved, SentIsAltered, LegacyAfterRefusal, Running
  <2> QED
    BY <1>6, <2>2, <2>3, QuietStep DEF Stop
<1>7. CASE Backup
  <2>1. TypeOK'
    BY <1>2, <1>3, <1>7 DEF Backup, TypeOK
  <2>2. StepTwoMeansAll'
    BY <1>1, <1>7, TileStays DEF Backup, StepTwoMeansAll, Consistent
  <2>3. SuccessIsMoved' /\ LegacyAfterRefusal' /\ SentIsAltered'
    BY <1>1, <1>7, TileStays
       DEF Backup, SuccessIsMoved, LegacyAfterRefusal, SentIsAltered
  <2> QED
    BY <2>1, <2>2, <2>3
<1>8. CASE Restore
  <2>1. TypeOK'
    BY <1>2, <1>3, <1>8 DEF Restore, TypeOK
  <2>2. StepTwoMeansAll'
    BY <1>1, <1>8, TileStays DEF Restore, StepTwoMeansAll, Consistent
  <2>3. bridge \notin Running
    BY <1>8 DEF Restore, TypeOK
  <2>4. SuccessIsMoved' /\ LegacyAfterRefusal' /\ SentIsAltered'
    BY <1>8, <2>3
       DEF Restore, SuccessIsMoved, LegacyAfterRefusal, SentIsAltered, Running
  <2> QED
    BY <2>1, <2>2, <2>4
<1> QED
  BY <1>4, <1>5, <1>6, <1>7, <1>8

\* The database, and faults.
LEMMA DatabaseKeepsInv ==
  ASSUME BridgeInv, DbStart \/ DbDown \/ NodeCrash
  PROVE  BridgeInv'
<1> USE DEF BridgeInv
<1>1. tile \in Tiles /\ tile' = tile
  BY DEF TypeOK, DbStart, DbDown, NodeCrash
<1>2. Len(AlterOrder) \in Nat \ {0} /\ MaxFaults \in Nat /\ MaxRestores \in Nat
  BY <1>1, TileFacts, BridgeAssumption
<1>3. AlterOrder' = AlterOrder /\ Volume' = Volume /\ Fresh' = Fresh
      /\ AdminAccount' = AdminAccount
  BY <1>1, TileStays
<1>4. CASE DbStart /\ vol # Fresh
  <2>1. vol' = vol
    BY <1>4 DEF DbStart
  <2>2. TypeOK'
    BY <1>2, <1>3, <1>4, <2>1 DEF DbStart, TypeOK
  <2>3. SuccessIsMoved' /\ LegacyAfterRefusal' /\ SentIsAltered'
    BY <1>1, <1>4, <2>1, TileStays
       DEF DbStart, SuccessIsMoved, LegacyAfterRefusal, SentIsAltered
  <2> QED
    BY <1>4, <2>1, <2>2, <2>3, QuietStep DEF DbStart
<1>5. CASE DbStart /\ vol = Fresh
  <2>1. vol' \in {AllOn("platform"), AllOn("legacy")}
        /\ (stack = "head" => vol' = AllOn("platform"))
    BY <1>5 DEF DbStart
  <2>2. TypeOK'
    BY <1>1, <1>2, <1>3, <1>5, <2>1, VolumeFacts DEF DbStart, TypeOK
  <2>3. Consistent(vol')
    BY <1>1, <2>1, TileFacts, VolumeFacts DEF Consistent
  <2>4. StepTwoMeansAll'
    BY <1>1, <1>5, <2>3, TileStays
       DEF DbStart, StepTwoMeansAll, Consistent
  <2>5. SuccessIsMoved'
    BY <1>1, <1>5, <2>1, TileStays DEF DbStart, SuccessIsMoved
  <2>6. bridge # "legacyAdmin" /\ ~(stack = "head" /\ bridge = "refusedBoth")
    <3>1. Fresh[AdminAccount] = "none"
      BY <1>1, TileFacts, VolumeFacts DEF Fresh
    <3> QED
      BY <1>5, <3>1 DEF LegacyAfterRefusal
  <2>7. LegacyAfterRefusal'
    BY <1>5, <2>6 DEF DbStart, LegacyAfterRefusal
  <2>8. SentIsAltered'
    <3>1. bridge = "alter" =>
            \A i \in 1 .. next - 1 : vol'[AlterOrder[i]] = "platform"
      <4>1. SUFFICES ASSUME bridge = "alter", NEW i \in 1 .. next - 1
                     PROVE  vol'[AlterOrder[i]] = "platform"
        OBVIOUS
      <4>2. i \in 1 .. Len(AlterOrder) /\ stack = "head"
        BY <1>2, <4>1 DEF TypeOK, Running
      <4> QED
        BY <1>1, <2>1, <4>2, TileFacts, VolumeFacts
    <3> QED
      BY <1>3, <1>5, <3>1 DEF DbStart, SentIsAltered
  <2> QED
    BY <2>2, <2>4, <2>5, <2>7, <2>8
<1>6. CASE DbDown \/ NodeCrash
  <2>1. UNCHANGED <<tile, stack, vol, next, appUp, backup, restores>>
        /\ dbUp' = FALSE /\ faults < MaxFaults /\ faults' = faults + 1
        /\ bridge' \in {bridge, "couldNotChange", "killed"}
        /\ bridge' # "alter"
    BY <1>6 DEF DbDown, NodeCrash, Deploying, Running
  <2>2. TypeOK'
    <3>1. bridge' \in {"off"} \cup Running \cup Success \cup Failure
      BY <2>1 DEF TypeOK, Failure
    <3>2. faults' \in 0 .. MaxFaults
      BY <1>2, <2>1 DEF TypeOK
    <3>3. bridge' \in Running => stack' = "head"
      BY <2>1 DEF TypeOK, Running
    <3> QED
      BY <1>3, <2>1, <3>1, <3>2, <3>3, Zenon DEF TypeOK
  <2>3. SuccessIsMoved'
    <3>1. bridge' \in Success => bridge \in Success
      BY <2>1 DEF Success
    <3> QED
      BY <1>1, <2>1, <3>1, TileStays, Zenon DEF SuccessIsMoved
  <2>4. SentIsAltered' /\ LegacyAfterRefusal'
    BY <1>3, <2>1 DEF SentIsAltered, LegacyAfterRefusal
  <2> QED
    BY <2>1, <2>2, <2>3, <2>4, QuietStep
<1> QED
  BY <1>4, <1>5, <1>6

\* A step of the script that changes nothing but where it stands.
LEMMA MoveKeepsInv ==
  ASSUME BridgeInv, stack = "head",
         UNCHANGED <<tile, stack, vol, dbUp, next, appUp, backup, faults,
                     restores>>,
         bridge' \in Running \cup Success \cup Failure,
         bridge' \in {"wait", "app", "platformAdmin", "legacyAdmin", "alter"} =>
           next = 1,
         bridge' = "legacyAdmin" => vol # Fresh /\ vol[AdminAccount] # "platform",
         bridge' = "refusedBoth" => vol[AdminAccount] = "other",
         bridge' \in Success => vol = AllOn("platform")
  PROVE  BridgeInv'
<1>1. tile' = tile /\ TypeOK
  BY DEF BridgeInv
<1>2. AlterOrder' = AlterOrder /\ Volume' = Volume /\ Fresh' = Fresh
      /\ AdminAccount' = AdminAccount
  BY <1>1, TileStays
<1>3. TypeOK'
  BY <1>1, <1>2 DEF TypeOK
<1>4. SentIsAltered'
  <2>1. bridge' # "alter" \/ 1 .. next' - 1 = {}
    OBVIOUS
  <2> QED
    BY <2>1 DEF SentIsAltered
<1>5. LegacyAfterRefusal'
  BY <1>2 DEF LegacyAfterRefusal
<1>6. SuccessIsMoved'
  BY <1>1, TileStays, Zenon DEF BridgeInv, SuccessIsMoved
<1> QED
  BY <1>3, <1>4, <1>5, <1>6, QuietStep DEF BridgeInv

\* The script, and the app that waits for it.
LEMMA ScriptKeepsInv ==
  ASSUME BridgeInv, GiveUp \/ Script \/ AppStart
  PROVE  BridgeInv'
<1> USE DEF BridgeInv
<1>1. tile \in Tiles
  BY DEF TypeOK
<1>2. /\ dbUp => vol \in Volume
      /\ \A a \in Accounts : vol \in Volume => vol[a] \in Passwords
      /\ vol \in Volume => vol # Fresh
      /\ AppAccount \in Accounts /\ AdminAccount \in Accounts
  BY <1>1, TileFacts, VolumeFacts DEF TypeOK
<1>3. bridge \in Running => stack = "head"
  BY DEF TypeOK
<1>4. vol[AppAccount] = "platform" => vol = AllOn("platform")
  BY DEF StepTwoMeansAll, Consistent
<1>5. CASE Answered \/ GiveUp
  BY <1>3, <1>5, MoveKeepsInv
     DEF Answered, GiveUp, SentIsAltered, Running, Success, Failure
<1>6. CASE LoginApp
  <2> DEFINE refused == IF AdminAccount = AppAccount THEN "legacyAdmin"
                        ELSE "platformAdmin"
  <2>1. TryLogin("app", AppAccount, "platform", "already", refused)
    BY <1>6 DEF LoginApp
  <2>2. /\ refused \in {"legacyAdmin", "platformAdmin"}
        /\ refused = "legacyAdmin" => AdminAccount = AppAccount
    OBVIOUS
  <2> HIDE DEF refused
  <2>3. /\ bridge = "app"
        /\ UNCHANGED <<tile, stack, vol, dbUp, next, appUp, backup, faults,
                       restores>>
        /\ \/ dbUp /\ vol[AppAccount] = "platform" /\ bridge' = "already"
           \/ dbUp /\ vol[AppAccount] # "platform" /\ bridge' = refused
           \/ ~dbUp /\ bridge' = "other"
    BY <2>1, LoginCases
  <2> QED
    BY <1>2, <1>3, <1>4, <2>2, <2>3, MoveKeepsInv
       DEF SentIsAltered, Running, Success, Failure
<1>7. CASE LoginPlatformAdmin
  <2>1. /\ bridge = "platformAdmin"
        /\ UNCHANGED <<tile, stack, vol, dbUp, next, appUp, backup, faults,
                       restores>>
        /\ \/ dbUp /\ vol[AdminAccount] = "platform" /\ bridge' = "alter"
           \/ dbUp /\ vol[AdminAccount] # "platform" /\ bridge' = "legacyAdmin"
           \/ ~dbUp /\ bridge' = "other"
    BY <1>7, LoginCases DEF LoginPlatformAdmin
  <2> QED
    BY <1>2, <1>3, <2>1, MoveKeepsInv
       DEF SentIsAltered, Running, Success, Failure
<1>8. CASE LoginLegacyAdmin
  <2>1. /\ bridge = "legacyAdmin"
        /\ UNCHANGED <<tile, stack, vol, dbUp, next, appUp, backup, faults,
                       restores>>
        /\ \/ dbUp /\ vol[AdminAccount] = "legacy" /\ bridge' = "alter"
           \/ dbUp /\ vol[AdminAccount] # "legacy" /\ bridge' = "refusedBoth"
           \/ ~dbUp /\ bridge' = "other"
    BY <1>8, LoginCases DEF LoginLegacyAdmin
  <2>2. dbUp /\ vol[AdminAccount] # "legacy" => vol[AdminAccount] = "other"
    BY <1>2, <2>1 DEF LegacyAfterRefusal, Passwords
  <2> QED
    BY <1>3, <2>1, <2>2, MoveKeepsInv
       DEF SentIsAltered, Running, Success, Failure
<1>9. CASE AlterAccount
  <2>1. tile' = tile /\ AlterOrder' = AlterOrder /\ Volume' = Volume
        /\ Fresh' = Fresh
    BY <1>9, TileStays DEF AlterAccount
  <2>2. vol \in Volume /\ stack = "head" /\ Volume = [Accounts -> Passwords]
    BY <1>2, <1>3, <1>9
       DEF AlterAccount, Running, Volume, VolumeOf, Accounts
  <2>3. next \in 1 .. Len(AlterOrder) /\ next' = next + 1
        /\ Len(AlterOrder) \in Nat
    BY <1>1, <1>9, TileFacts DEF AlterAccount, TypeOK
  <2>4. AlterOrder[next] \in Accounts
    BY <1>1, <2>3, TileFacts
  <2>5. /\ vol' \in Volume /\ vol'[AlterOrder[next]] = "platform"
        /\ \A a \in Accounts \ {AlterOrder[next]} : vol'[a] = vol[a]
    BY <1>9, <2>2, <2>4 DEF AlterAccount, Passwords
  <2>6. vol = AllOn("platform") => vol' = AllOn("platform")
    BY <1>1, <2>5, VolumeFacts
  <2>7. \A i \in 1 .. next : vol'[AlterOrder[i]] = "platform"
    <3>1. SUFFICES ASSUME NEW i \in 1 .. next, i # next
                   PROVE  vol'[AlterOrder[i]] = "platform"
      BY <2>5
    <3>2. i \in 1 .. next - 1 /\ i \in 1 .. Len(AlterOrder)
      BY <2>3, <3>1
    <3>3. AlterOrder[i] \in Accounts /\ AlterOrder[i] # AlterOrder[next]
      BY <1>1, <2>3, <3>1, <3>2, TileFacts
    <3>4. vol[AlterOrder[i]] = "platform"
      BY <1>9, <3>2 DEF AlterAccount, SentIsAltered
    <3> QED
      BY <2>5, <3>3, <3>4
  <2>8. Consistent(vol')
    <3>1. SUFFICES ASSUME vol'[AppAccount] = "platform"
                   PROVE  vol' = AllOn("platform")
      BY DEF Consistent
    <3>2. CASE next = Len(AlterOrder)
      <4>1. \A a \in Accounts : vol'[a] = "platform"
        BY <1>1, <2>7, <3>2, TileFacts
      <4>2. \A v \in Volume :
              (\A a \in Accounts : v[a] = "platform") => v = AllOn("platform")
        BY <1>1, VolumeFacts
      <4> QED
        BY <2>5, <4>1, <4>2, Zenon
    <3>3. CASE next # Len(AlterOrder)
      <4>1. AppAccount # AlterOrder[next] /\ AppAccount \in Accounts
        <5>1. Len(AlterOrder) \in 1 .. Len(AlterOrder)
          BY <2>3
        <5>2. /\ AppAccount = AlterOrder[Len(AlterOrder)]
              /\ AppAccount \in Accounts
              /\ \A i, j \in 1 .. Len(AlterOrder) :
                   AlterOrder[i] = AlterOrder[j] => i = j
          BY <1>1, TileFacts
        <5> QED
          BY <2>3, <3>3, <5>1, <5>2, Zenon
      <4> QED
        BY <1>4, <2>5, <2>6, <3>1, <4>1
    <3> QED
      BY <3>2, <3>3
  <2>9. TypeOK'
    <3>1. next' \in 1 .. Len(AlterOrder') + 1
      BY <2>1, <2>3
    <3>2. vol' \in Volume' \cup {Fresh'} /\ vol' # Fresh'
      BY <1>1, <2>1, <2>5, VolumeFacts
    <3> QED
      BY <1>9, <2>1, <3>1, <3>2 DEF AlterAccount, TypeOK
  <2>10. StepTwoMeansAll'
    BY <1>9, <2>1, <2>8, TileStays
       DEF AlterAccount, StepTwoMeansAll, Consistent
  <2>11. SentIsAltered'
    <3>1. bridge' = "alter" /\ next' - 1 = next
      BY <1>9, <2>3 DEF AlterAccount
    <3> QED
      BY <2>1, <2>7, <3>1 DEF SentIsAltered
  <2>12. LegacyAfterRefusal'
    BY <1>9 DEF AlterAccount, LegacyAfterRefusal
  <2>13. SuccessIsMoved'
    BY <1>9, <2>1, <2>6, TileStays
       DEF AlterAccount, SuccessIsMoved, Success
  <2> QED
    BY <2>9, <2>10, <2>11, <2>12, <2>13
<1>10. CASE AlterDone
  BY <1>3, <1>10, MoveKeepsInv DEF AlterDone, Running, Success, Failure
<1>11. CASE Verify
  <2>1. bridge' = "moved" => vol = AllOn("platform")
    <3>1. CASE Login(AppAccount, "platform") = 0
      BY <1>4, <3>1 DEF Login
    <3>2. CASE Login(AppAccount, "platform") # 0
      BY <1>11, <3>2 DEF Verify
    <3> QED
      BY <3>1, <3>2
  <2>2. bridge' \in {"moved", "stillRefused"}
    BY <1>11 DEF Verify
  <2> QED
    BY <1>3, <1>11, <2>1, <2>2, MoveKeepsInv
       DEF Verify, Running, Success, Failure
<1>12. CASE AppStart
  <2>1. tile' = tile /\ appUp' = TRUE /\ stack = "head" /\ bridge \in Success
        /\ UNCHANGED <<stack, vol, dbUp, bridge, next, backup, faults, restores>>
    BY <1>12 DEF AppStart
  <2>2. vol = AllOn("platform")
    BY <2>1 DEF SuccessIsMoved
  <2>3. TypeOK'
    BY <2>1, TileStays DEF TypeOK
  <2>4. SuccessIsMoved' /\ SentIsAltered' /\ LegacyAfterRefusal'
    BY <2>1, <2>2, TileStays
       DEF SuccessIsMoved, SentIsAltered, LegacyAfterRefusal
  <2> QED
    BY <2>1, <2>3, <2>4, QuietStep
<1> QED
  BY <1>5, <1>6, <1>7, <1>8, <1>9, <1>10, <1>11, <1>12 DEF Script

LEMMA BridgeInvNext == BridgeInv /\ [Next]_vars => BridgeInv'
<1> SUFFICES ASSUME BridgeInv, [Next]_vars PROVE BridgeInv'
  OBVIOUS
<1>1. CASE UNCHANGED vars
  <2>1. UNCHANGED <<tile, stack, vol, dbUp, bridge, next, appUp, backup,
                    faults, restores>>
    BY <1>1 DEF vars
  <2>2. TypeOK' /\ SentIsAltered' /\ LegacyAfterRefusal' /\ SuccessIsMoved'
    BY <2>1, TileStays
       DEF BridgeInv, TypeOK, SentIsAltered, LegacyAfterRefusal, SuccessIsMoved
  <2> QED
    BY <2>1, <2>2, QuietStep DEF BridgeInv
<1> QED
  BY <1>1, OwnerKeepsInv, DatabaseKeepsInv, ScriptKeepsInv DEF Next

-----------------------------------------------------------------------------
(* The theorems.                                                           *)

\* The states of the bridge, its database and the stack around them have their
\* types; in particular a running script belongs to a stack that is up.
THEOREM BridgeTypeCorrect == Safety => []TypeOK
<1>1. BridgeInv => TypeOK
  BY DEF BridgeInv
<1> QED
  BY <1>1, BridgeInvInit, BridgeInvNext, PTL DEF Safety

\* "romm's account is changed last, so step 2 passing means every account was
\* changed": of the database and of every copy of it, at every moment.
THEOREM AppLastMeansAll == Safety => []StepTwoMeansAll
<1>1. BridgeInv => StepTwoMeansAll
  BY DEF BridgeInv
<1> QED
  BY <1>1, BridgeInvInit, BridgeInvNext, PTL DEF Safety

\* The app of this compose never runs on a database with an account that is
\* not on the platform's password.
THEOREM AppWaitsForMove == Safety => []AppOnlyOnMoved
<1>1. BridgeInv => AppOnlyOnMoved
  BY DEF BridgeInv, SuccessIsMoved, AppOnlyOnMoved
<1> QED
  BY <1>1, BridgeInvInit, BridgeInvNext, PTL DEF Safety

\* The bridge reports both admin passwords refused only when the admin's is
\* neither.
THEOREM NeverLockedOut == Safety => []RefusedOnlyUnknown
<1>1. BridgeInv => RefusedOnlyUnknown
  BY DEF BridgeInv, LegacyAfterRefusal, RefusedOnlyUnknown
<1> QED
  BY <1>1, BridgeInvInit, BridgeInvNext, PTL DEF Safety

=============================================================================

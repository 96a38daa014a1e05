----------------------------- MODULE DrillsProofs -----------------------------
(***************************************************************************)
(* Proofs about module Drills, for any numbers of replicas, services,      *)
(* runs, faults and kills: what the drills know of the changes they made,  *)
(* that the outage lasts while it is looked at, what a passed drill leaves *)
(* behind, the types, and that one script runs at a time.                  *)
(***************************************************************************)
EXTENDS Drills, TLAPS

\* The steps of the outage drill from the named one on, in the order of the script.
FromReady == {"ready", "waiting", "recovered", "passed"}
FromRecreated == {"recreated"} \cup FromReady
FromResume == {"resume"} \cup FromRecreated
FromDelete == {"delete", "scale", "drain", "isolation", "restore"} \cup FromResume

\* What the outage drill has done by each of its steps.
Progress ==
  /\ drill.step \in FromDelete => drill.original = MinReplicas
  /\ drill.step \in {"drain", "isolation"} => replicas = 0
  /\ drill.step = "isolation" => pods = 0
  /\ drill.step \in FromResume => replicas >= MinReplicas
  /\ drill.step \in FromRecreated => autoSync["payment"]
  /\ drill.step \in FromReady => hpa = MinReplicas
  /\ drill.step \in FromReady \ {"ready"} => pods >= MinReplicas

AutoSyncType == autoSync \in [Apps -> BOOLEAN]

OutageInv == OutageTypeOK /\ AutoSyncType /\ Progress /\ DownIsRecorded

\* The script of the validation drill is a record of its five fields.
ScriptType ==
  /\ DOMAIN script = {"step", "original", "short", "paused", "patched"}
  /\ script.short \in BOOLEAN /\ script.patched \in BOOLEAN

\* It reads the settings of a drill only where an earlier run left them.
ShortWasLeft ==
  /\ script.short => leftArmed
  /\ script.step = "capture" => ~script.patched

ValidationInv == ScriptType /\ ShortWasLeft /\ armed \in BOOLEAN /\ ArmedIsRecorded

Inv == OutageInv /\ ValidationInv

----------------------------------------------------------------------------
\* The outage drill.

\* The body of a request is JSON or not.
LEMMA BodyType ==
  ASSUME drill.json \in BOOLEAN, NEW outcome PROVE BodyIsJson(outcome) \in BOOLEAN
BY DEF BodyIsJson

\* Every step of the script keeps what it knows.
LEMMA OutageStepKeeps ==
  ASSUME OutageInv, OutageStep PROVE OutageInv'
PROOF
<1> USE OutageAssumption
    DEF OutageInv, OutageTypeOK, OutageSteps, AutoSyncType, Progress, DownIsRecorded, Over,
        FromDelete, FromResume, FromRecreated, FromReady
<1>1. CASE GivesUp
  BY <1>1 DEF GivesUp, Over, Trap, Exits, clusterVars
<1>2. CASE OutageKilled
  BY <1>2 DEF OutageKilled, Over, Goes, clusterVars
<1>3. CASE Preconditions
  BY <1>3 DEF Preconditions, clusterVars
<1>4. CASE AskOthers
  <2> DEFINE asked == drill.asked + 1
  <2>1. PICK outcome : Ask(Others[asked], outcome, [drill EXCEPT !.asked = asked])
    BY <1>4 DEF AskOthers
  <2> DEFINE json == BodyIsJson(outcome)
  <2>2. asked \in Nat /\ json \in BOOLEAN
    BY BodyType
  <2>3. drill' = [[drill EXCEPT !.asked = asked] EXCEPT !.json = json]
    BY <2>1 DEF Ask
  <2>4. UNCHANGED <<clusterVars, autoSync, stranded>>
    BY <2>1 DEF Ask
  <2> HIDE DEF json, asked
  <2>5. OutageTypeOK'
    BY <2>2, <2>3, <2>4 DEF clusterVars
  <2>6. Progress' /\ DownIsRecorded' /\ AutoSyncType'
    BY <1>4, <2>3, <2>4 DEF AskOthers, clusterVars
  <2> QED
    BY <2>5, <2>6
<1>5. CASE AskPayment
  <2>1. PICK outcome : Ask("payment", outcome, [drill EXCEPT !.step = "pause"])
    BY <1>5 DEF AskPayment
  <2> DEFINE json == BodyIsJson(outcome)
  <2>2. json \in BOOLEAN
    BY BodyType
  <2>3. drill' = [[drill EXCEPT !.step = "pause"] EXCEPT !.json = json]
    BY <2>1 DEF Ask
  <2>4. UNCHANGED <<clusterVars, autoSync, stranded>>
    BY <2>1 DEF Ask
  <2> HIDE DEF json
  <2>5. OutageTypeOK'
    BY <2>2, <2>3, <2>4 DEF clusterVars
  <2>6. Progress' /\ DownIsRecorded' /\ AutoSyncType'
    BY <1>5, <2>3, <2>4 DEF AskPayment, clusterVars
  <2> QED
    BY <2>5, <2>6
<1>6. CASE Pause
  <2>1. OutageTypeOK'
    BY <1>6 DEF Pause, SetSync, Exits, clusterVars
  <2>2. AutoSyncType'
    BY <1>6 DEF Pause, SetSync, Exits, clusterVars
  <2>5. DownIsRecorded'
    BY <1>6 DEF Pause, SetSync, Exits, clusterVars
  <2>3. drill'.step \in {"snapshot", "trap_sync"}
    BY <1>6 DEF Pause, SetSync, Exits, clusterVars
  <2>4. Progress'
    BY <1>6, <2>3 DEF Pause, clusterVars
  <2> QED
    BY <2>1, <2>2, <2>4, <2>5
<1>7. CASE Snapshot
  BY <1>7 DEF Snapshot, clusterVars
<1>8. CASE DeleteHpa
  BY <1>8 DEF DeleteHpa, Goes, Exits
<1>9. CASE ScaleDown
  <2>1. OutageTypeOK'
    BY <1>9 DEF ScaleDown, Exits
  <2>2. AutoSyncType'
    BY <1>9 DEF ScaleDown, Exits
  <2>5. DownIsRecorded'
    BY <1>9 DEF ScaleDown, Exits
  <2>3. drill'.step \in {"drain", "trap_sync"} /\ drill'.original = drill.original
    BY <1>9 DEF ScaleDown, Exits
  <2>4. Progress'
    BY <1>9, <2>3 DEF ScaleDown, clusterVars
  <2> QED
    BY <2>1, <2>2, <2>4, <2>5
<1>10. CASE Drained
  BY <1>10 DEF Drained, clusterVars
<1>11. CASE OutageSeen
  BY <1>11 DEF OutageSeen, clusterVars
<1>12. CASE ScaleUp
  BY <1>12 DEF ScaleUp, Target, Goes, Exits
<1>13. CASE Resume
  <2>1. OutageTypeOK'
    BY <1>13 DEF Resume, SetSync, Exits, clusterVars
  <2>2. AutoSyncType'
    BY <1>13 DEF Resume, SetSync, Exits, clusterVars
  <2>5. DownIsRecorded'
    BY <1>13 DEF Resume, SetSync, Exits, clusterVars
  <2>3. /\ drill'.step \in {"recreated", "trap_sync"}
        /\ drill'.original = drill.original
        /\ autoSync'["payment"]
    BY <1>13 DEF Resume, SetSync, Exits, clusterVars
  <2>4. Progress'
    BY <1>13, <2>3 DEF Resume, clusterVars
  <2> QED
    BY <2>1, <2>2, <2>4, <2>5
<1>14. CASE Recreated
  BY <1>14 DEF Recreated, Target, Goes, clusterVars
<1>15. CASE Ready
  BY <1>15 DEF Ready, Target, Goes, clusterVars
<1>16. CASE WaitAlive
  BY <1>16 DEF WaitAlive, BodyIsJson, clusterVars
<1>17. CASE Recovered
  <2>1. PICK outcome : Ask("payment", outcome, [drill EXCEPT !.step = "passed"])
    BY <1>17 DEF Recovered
  <2> DEFINE json == BodyIsJson(outcome)
  <2>2. json \in BOOLEAN
    BY BodyType
  <2>3. drill' = [[drill EXCEPT !.step = "passed"] EXCEPT !.json = json]
    BY <2>1 DEF Ask
  <2>4. UNCHANGED <<clusterVars, autoSync, stranded>>
    BY <2>1 DEF Ask
  <2> HIDE DEF json
  <2>5. OutageTypeOK'
    BY <2>2, <2>3, <2>4 DEF clusterVars
  <2>6. Progress' /\ DownIsRecorded' /\ AutoSyncType'
    BY <1>17, <2>3, <2>4 DEF Recovered, clusterVars
  <2> QED
    BY <2>5, <2>6
<1>18. CASE TrapSync
  BY <1>18 DEF TrapSync, SetSync, Goes, clusterVars
<1>19. CASE TrapScale
  <2>1. drill' = [drill EXCEPT !.step = "ended"]
    BY <1>19 DEF TrapScale, Goes
  <2>2. Target \in {2, MinReplicas}
    BY DEF Target
  <2>3. replicas' \in {replicas, Target} /\ stranded' \in BOOLEAN
    BY <1>19 DEF TrapScale
  <2>4. OutageTypeOK'
    BY <1>19, <2>1, <2>2, <2>3 DEF TrapScale
  <2>5. AutoSyncType' /\ Progress'
    BY <1>19, <2>1 DEF TrapScale
  <2>6. DownIsRecorded'
    BY <1>19, <2>1, <2>2 DEF TrapScale
  <2> QED
    BY <2>4, <2>5, <2>6
<1> QED
  BY <1>1, <1>2, <1>3, <1>4, <1>5, <1>6, <1>7, <1>8, <1>9, <1>10, <1>11, <1>12, <1>13, <1>14, <1>15, <1>16, <1>17, <1>18, <1>19 DEF OutageStep

\* The cluster, and the root Application, keep what the script has done.
LEMMA ClusterKeeps ==
  ASSUME OutageInv, UNCHANGED autoSync, SyncPayment \/ PodsFollow \/ Autoscale
  PROVE  OutageInv'
PROOF
<1> USE OutageAssumption
    DEF OutageInv, OutageTypeOK, AutoSyncType, Progress, DownIsRecorded, Over,
        FromDelete, FromResume, FromRecreated, FromReady
<1>1. CASE SyncPayment
  BY <1>1 DEF SyncPayment
<1>2. CASE PodsFollow
  BY <1>2 DEF PodsFollow
<1>3. CASE Autoscale
  BY <1>3 DEF Autoscale
<1> QED
  BY <1>1, <1>2, <1>3

\* Sync may change for another Application, or be turned on.
LEMMA SyncKeeps ==
  ASSUME OutageInv, UNCHANGED outageVars,
         NEW a \in Apps, NEW on \in BOOLEAN, SetSync(a, on), on \/ a # "payment"
  PROVE  OutageInv'
PROOF
<1>1. AutoSyncType'
  BY DEF OutageInv, AutoSyncType, SetSync
<1>2. autoSync["payment"] => autoSync'["payment"]
  BY OutageAssumption DEF OutageInv, AutoSyncType, SetSync
<1>3. OutageTypeOK' /\ Progress' /\ DownIsRecorded'
  BY <1>2 DEF OutageInv, OutageTypeOK, Progress, DownIsRecorded, Over, outageVars, clusterVars
<1> QED
  BY <1>1, <1>3 DEF OutageInv

LEMMA OutageStartKeeps ==
  ASSUME OutageInv, OutageStarts, UNCHANGED autoSync
  PROVE  OutageInv'
BY DEF OutageInv, OutageTypeOK, OutageSteps, AutoSyncType, Progress, DownIsRecorded, Over,
       FromDelete, FromResume, FromRecreated, FromReady, OutageStarts, Fresh, clusterVars

----------------------------------------------------------------------------
\* The validation drill.

LEMMA ValidationStepKeeps ==
  ASSUME ValidationInv, ValidationStep PROVE ValidationInv'
PROOF
<1> USE DEF ValidationInv, ScriptType, ShortWasLeft, ArmedIsRecorded
<1>1. CASE Quit
  BY <1>1 DEF Quit, Restoring, ScriptOver, Quits, Moves, rolloutVars
<1>2. CASE ValidationKilled
  BY <1>2 DEF ValidationKilled, Moves, rolloutVars
<1>3. CASE Capture
  BY <1>3 DEF Capture, rolloutVars
<1>4. CASE PauseCatalog
  BY <1>4 DEF PauseCatalog, Quits, Moves, rolloutVars
<1>5. CASE Arm
  BY <1>5 DEF Arm, Quits, Moves
<1>6. CASE Inject
  BY <1>6 DEF Inject, Quits, Moves
<1>7. CASE AbortSeen
  BY <1>7 DEF AbortSeen, Moves, rolloutVars
<1>8. CASE ResultSeen
  BY <1>8 DEF ResultSeen, Quits, Moves, rolloutVars
<1>9. CASE TrapSettings
  <2>1. script' = [script EXCEPT !.step = "trap_image"]
    BY <1>9 DEF TrapSettings, TrapCommand, Moves
  <2>2. \/ armed' = script.short /\ UNCHANGED leftArmed
        \/ UNCHANGED armed /\ leftArmed' = (leftArmed \/ armed)
    BY <1>9 DEF TrapSettings, TrapCommand, NoFault, Fault
  <2>3. (armed' => leftArmed') /\ (leftArmed => leftArmed')
    <3>1. CASE armed' = script.short /\ UNCHANGED leftArmed
      BY <3>1
    <3>2. CASE UNCHANGED armed /\ leftArmed' = (leftArmed \/ armed)
      BY <3>2
    <3> QED
      BY <2>2, <3>1, <3>2
  <2>4. armed' \in BOOLEAN
    BY <2>2, Zenon
  <2> QED
    BY <1>9, <2>1, <2>3, <2>4 DEF TrapSettings, TrapCommand
<1>10. CASE TrapImage
  <2>1. script.step = "trap_image" /\ script' = [script EXCEPT !.step = "trap_undo"]
    BY <1>10 DEF TrapImage, TrapCommand, Moves
  <2>2. UNCHANGED <<armed, leftArmed>>
    BY <1>10 DEF TrapImage, TrapCommand
  <2> QED
    BY <2>1, <2>2
<1>11. CASE TrapUndo
  <2>1. script.step = "trap_undo" /\ script' = [script EXCEPT !.step = "trap_sync"]
    BY <1>11 DEF TrapUndo, TrapCommand, Moves
  <2>2. UNCHANGED <<armed, leftArmed>>
    BY <1>11 DEF TrapUndo, TrapCommand
  <2> QED
    BY <2>1, <2>2
<1>12. CASE TrapSyncCatalog
  BY <1>12 DEF TrapSyncCatalog, TrapCommand, Moves, rolloutVars
<1> QED
  BY <1>1, <1>2, <1>3, <1>4, <1>5, <1>6, <1>7, <1>8, <1>9, <1>10, <1>11, <1>12 DEF ValidationStep

\* What the script of the validation drill does to sync concerns catalog alone.
LEMMA ValidationSync ==
  ASSUME ValidationStep
  PROVE  UNCHANGED autoSync \/ \E on \in BOOLEAN : SetSync("catalog", on)
BY DEF ValidationStep, Quit, ValidationKilled, Capture, PauseCatalog, Arm, Inject, AbortSeen,
       ResultSeen, TrapSettings, TrapImage, TrapUndo, TrapSyncCatalog, TrapCommand

----------------------------------------------------------------------------
\* Both, one at a time.

LEMMA InvInit == Init => Inv
PROOF
<1> SUFFICES ASSUME Init PROVE Inv
  OBVIOUS
<1>1. OutageTypeOK
  <2>1. hpa = MinReplicas /\ replicas \in MinReplicas .. MaxReplicas /\ pods = replicas
          /\ stranded = FALSE
    BY DEF Init, OutageInit
  <2>2. drill = [step |-> "ended", asked |-> 0, original |-> 0, paused |-> FALSE,
                 scaled |-> FALSE, json |-> FALSE]
    BY DEF Init, OutageInit, Fresh
  <2>3. pods \in Nat
    BY <2>1, OutageAssumption
  <2>4. drill \in [step : OutageSteps, asked : Nat, original : {0, MinReplicas},
                   paused : BOOLEAN, scaled : BOOLEAN, json : BOOLEAN]
    BY <2>2 DEF OutageSteps
  <2> QED
    BY <2>1, <2>3, <2>4 DEF OutageTypeOK
<1>2. Progress /\ DownIsRecorded
  BY OutageAssumption
     DEF Init, OutageInit, Fresh, Progress, DownIsRecorded, FromDelete, FromResume,
         FromRecreated, FromReady
<1>3. AutoSyncType
  BY DEF Init, ScriptInit, AutoSyncType
<1>4. ValidationInv
  BY DEF Init, ValidationInit, NewScript, ValidationInv, ScriptType, ShortWasLeft, ArmedIsRecorded
<1> QED
  BY <1>1, <1>2, <1>3, <1>4 DEF Inv, OutageInv

LEMMA InvStep == Inv /\ [Next]_vars => Inv'
PROOF
<1> SUFFICES ASSUME Inv, [Next]_vars PROVE Inv'
  OBVIOUS
<1> USE DEF Inv
<1>0. ASSUME UNCHANGED outageVars, UNCHANGED autoSync PROVE OutageInv'
  BY <1>0 DEF OutageInv, OutageTypeOK, AutoSyncType, Progress, DownIsRecorded, Over, outageVars,
              clusterVars
<1>1. ASSUME UNCHANGED validationVars PROVE ValidationInv'
  BY <1>1 DEF ValidationInv, ScriptType, ShortWasLeft, ArmedIsRecorded, validationVars, rolloutVars
<1>2. CASE UNCHANGED vars
  BY <1>0, <1>1, <1>2 DEF vars, scriptVars
<1>3. CASE Run
  <2>1. CASE OutageStarts /\ UNCHANGED validationVars
    BY <1>1, <1>3, <2>1, OutageStartKeeps DEF Run
  <2>2. CASE ValidationStarts /\ UNCHANGED outageVars
    <3>1. ValidationInv'
      BY <2>2 DEF ValidationInv, ScriptType, ShortWasLeft, ArmedIsRecorded, ValidationStarts, NewScript,
                  ScriptOver, rolloutVars
    <3> QED
      BY <1>0, <1>3, <2>2, <3>1 DEF Run
  <2> QED
    BY <1>3, <2>1, <2>2 DEF Run
<1>4. CASE Script
  <2>1. CASE OutageStep /\ UNCHANGED validationVars
    BY <1>1, <2>1, OutageStepKeeps
  <2>2. CASE ValidationStep /\ UNCHANGED outageVars
    <3>1. ValidationInv'
      BY <2>2, ValidationStepKeeps
    <3>2. OutageInv'
      <4>1. CASE UNCHANGED autoSync
        BY <1>0, <2>2, <4>1
      <4>2. CASE \E on \in BOOLEAN : SetSync("catalog", on)
        BY <2>2, <4>2, SyncKeeps, ValidationAssumption
      <4> QED
        BY <2>2, <4>1, <4>2, ValidationSync
    <3> QED
      BY <3>1, <3>2
  <2> QED
    BY <1>4, <2>1, <2>2 DEF Script
<1>5. CASE Payment \/ Scaler
  <2>1. UNCHANGED validationVars /\ UNCHANGED autoSync
    BY <1>5 DEF Payment, Scaler, scriptVars
  <2>2. SyncPayment \/ PodsFollow \/ Autoscale
    BY <1>5 DEF Payment, Scaler, PaymentSettles
  <2> QED
    BY <1>1, <2>1, <2>2, ClusterKeeps
<1>6. CASE Catalog \/ CatalogAborts
  <2>1. UNCHANGED outageVars /\ UNCHANGED autoSync
    BY <1>6 DEF Catalog, CatalogAborts, scriptVars
  <2>2. UNCHANGED <<armed, script, leftArmed>>
    BY <1>6 DEF Catalog, CatalogAborts, CatalogSettles, SyncCatalog, Reconcile, Abort
  <2>3. ValidationInv'
    BY <2>2 DEF ValidationInv, ScriptType, ShortWasLeft, ArmedIsRecorded
  <2> QED
    BY <1>0, <2>1, <2>3
<1>7. CASE \E a \in Apps : Root(a)
  <2>1. PICK a \in Apps : Root(a)
    BY <1>7
  <2>2. SetSync(a, TRUE) /\ UNCHANGED outageVars /\ UNCHANGED validationVars
    BY <2>1 DEF Root, RootHeals
  <2> QED
    BY <1>1, <2>2, SyncKeeps
<1> QED
  BY <1>2, <1>3, <1>4, <1>5, <1>6, <1>7 DEF Next

LEMMA InvHolds == Spec => []Inv
BY InvInit, InvStep, PTL DEF Spec

----------------------------------------------------------------------------
\* Theorems.

\* The script knows whenever payment is scaled to zero, for any interleaving with the
\* controllers, and unless a fault hid it or the script was killed.
THEOREM DownKnown == Spec => []DownIsRecorded
PROOF
<1>1. Inv => DownIsRecorded
  BY DEF Inv, OutageInv
<1> QED
  BY <1>1, InvHolds, PTL

\* The validation drill knows whenever the deadline is short, likewise.
THEOREM ArmedKnown == Spec => []ArmedIsRecorded
PROOF
<1>1. Inv => ArmedIsRecorded
  BY DEF Inv, ValidationInv
<1> QED
  BY <1>1, InvHolds, PTL

\* While the other services are looked at payment is down, whatever Argo CD and the
\* autoscaler do meanwhile.
THEOREM OutageLasts == Spec => []OutageHolds
PROOF
<1>1. Inv => OutageHolds
  BY DEF Inv, OutageInv, Progress, OutageHolds
<1> QED
  BY <1>1, InvHolds, PTL

\* A drill that says it passed has restored payment, and it stays so.
THEOREM PassedRestores == Spec => []PassedMeansRestored
PROOF
<1>1. Inv => PassedMeansRestored
  BY DEF Inv, OutageInv, Progress, PassedMeansRestored, FromDelete, FromResume, FromRecreated,
         FromReady
<1> QED
  BY <1>1, InvHolds, PTL

----------------------------------------------------------------------------
\* The types.

\* No image has two revisions.
Renumbered == \A i, j \in DOMAIN revisions : i # j => revisions[i] # revisions[j]

Counters == faults \in 0 .. MaxFaults /\ runs \in 0 .. MaxRuns

Types == Counters /\ ValidationTypeOK /\ Renumbered /\ (Over \/ ScriptOver)

\* Without the place of one element a sequence has the others, in their order.
LEMMA RemoveAtFacts ==
  ASSUME NEW X, NEW s \in Seq(X), NEW i \in 1..Len(s)
  PROVE  LET t == RemoveAt(s, i)
         IN  /\ t \in Seq(X) /\ Len(t) = Len(s) - 1
             /\ \A k \in 1..Len(t) : t[k] = IF k < i THEN s[k] ELSE s[k + 1]
<1> DEFINE a == SubSeq(s, 1, i - 1)
           b == SubSeq(s, i + 1, Len(s))
<1>1. a \in Seq(X) /\ Len(a) = i - 1 /\ \A k \in 1..(i - 1) : a[k] = s[k]
  OBVIOUS
<1>2. b \in Seq(X) /\ Len(b) = Len(s) - i /\ \A k \in 1..(Len(s) - i) : b[k] = s[i + k]
  <2>1. i + 1 \in Nat /\ Len(s) \in Nat
    OBVIOUS
  <2>2. /\ b \in Seq(X) /\ Len(b) = IF i + 1 <= Len(s) THEN Len(s) - (i + 1) + 1 ELSE 0
        /\ \A k \in 1..Len(b) : b[k] = s[i + 1 + k - 1]
    OBVIOUS
  <2> HIDE DEF b
  <2>3. Len(b) = Len(s) - i
    BY <2>2
  <2>4. \A k \in 1..(Len(s) - i) : i + 1 + k - 1 = i + k
    OBVIOUS
  <2> QED
    BY <2>2, <2>3, <2>4
<1>3. RemoveAt(s, i) = a \o b
  BY DEF RemoveAt
<1> HIDE DEF a, b
<1>4. a \o b \in Seq(X) /\ Len(a \o b) = Len(s) - 1
  <2>1. a \in Seq(X) /\ b \in Seq(X)
    BY <1>1, <1>2
  <2>2. a \o b \in Seq(X) /\ Len(a \o b) = Len(a) + Len(b)
    BY <2>1
  <2>3. Len(a) + Len(b) = Len(s) - 1
    BY <1>1, <1>2
  <2> QED
    BY <2>2, <2>3
<1>5. ASSUME NEW k \in 1..(Len(s) - 1) PROVE (a \o b)[k] = IF k < i THEN s[k] ELSE s[k + 1]
  <2>1. (a \o b)[k] = IF k <= Len(a) THEN a[k] ELSE b[k - Len(a)]
    BY <1>1, <1>2
  <2>2. CASE k < i
    BY <1>1, <2>1, <2>2
  <2>3. CASE ~(k < i)
    <3>1. k - (i - 1) \in 1..(Len(s) - i) /\ i + (k - (i - 1)) = k + 1
      BY <2>3
    <3>2. (a \o b)[k] = b[k - (i - 1)]
      BY <1>1, <2>1, <2>3
    <3> QED
      BY <1>2, <2>3, <3>1, <3>2
  <2> QED
    BY <2>2, <2>3
<1> QED
  BY <1>3, <1>4, <1>5

LEMMA ReconcileTypes ==
  ASSUME ValidationTypeOK, Renumbered, Reconcile
  PROVE  ValidationTypeOK' /\ Renumbered'
<1> PICK r : r = revisions
  OBVIOUS
<1> PICK n : n = Len(r)
  OBVIOUS
<1>1. /\ image \in Images /\ r \in Seq(Images) /\ n \in 2..3 /\ DOMAIN r = 1..n
      /\ \A i \in 1..n : r[i] \in Images
      /\ \A i, j \in 1..n : i # j => r[i] # r[j]
  <2>1. image \in Images /\ r \in Seq(Images) /\ n \in 2..3
    BY DEF ValidationTypeOK
  <2>2. DOMAIN r = 1..n /\ \A i \in 1..n : r[i] \in Images
    BY <2>1
  <2>3. \A i, j \in 1..n : i # j => r[i] # r[j]
    BY <2>2 DEF Renumbered
  <2> QED
    BY <2>1, <2>2, <2>3
<1> DEFINE Fine(q) == /\ q \in Seq(Images) /\ Len(q) \in 2..3
                      /\ \A i, j \in DOMAIN q : i # j => q[i] # q[j]
<1>4. Fine(revisions') => ValidationTypeOK' /\ Renumbered'
  <2>1. UNCHANGED <<image, armed, script, leftArmed>> /\ degraded' = FALSE
    BY DEF Reconcile
  <2>2. ASSUME Fine(revisions') PROVE revisions' \in Seq(Images) /\ Len(revisions') \in 2..3
    BY <2>2
  <2>3. ASSUME Fine(revisions') PROVE Renumbered'
    BY <2>3 DEF Renumbered
  <2> HIDE DEF Fine
  <2> QED
    BY <2>1, <2>2, <2>3 DEF ValidationTypeOK, Images, Restoring
<1>2. CASE image \notin ToSet(revisions) /\ revisions' = Append(revisions, image)
  <2> PICK q : q = revisions'
    OBVIOUS
  <2>1. \A i \in 1..n : r[i] # image
    BY <1>1, <1>2 DEF ToSet
  <2>2. n = 2
    <3>1. ASSUME n = 3 PROVE FALSE
      <4>1. 1 \in 1..n /\ 2 \in 1..n /\ 3 \in 1..n
        BY <3>1
      <4> QED
        BY <1>1, <2>1, <4>1 DEF Images
    <3> QED
      BY <1>1, <3>1
  <2>3. /\ q \in Seq(Images) /\ Len(q) = 3 /\ q[3] = image
        /\ \A i \in 1..2 : q[i] = r[i]
    <3>1. q = Append(r, image)
      BY <1>2
    <3>2. r \in Seq(Images) /\ image \in Images /\ Len(r) = 2
      BY <1>1, <2>2
    <3>3. /\ Append(r, image) \in Seq(Images) /\ Len(Append(r, image)) = 3
          /\ Append(r, image)[3] = image
          /\ \A i \in 1..2 : Append(r, image)[i] = r[i]
      <4> PICK m : m = Len(r)
        OBVIOUS
      <4>1. r \in Seq(Images) /\ m = 2
        BY <3>2
      <4>2. /\ Append(r, image) \in Seq(Images) /\ Len(Append(r, image)) = m + 1
            /\ Append(r, image)[m + 1] = image
            /\ \A i \in 1..m : Append(r, image)[i] = r[i]
        <5>1. Append(r, image) \in Seq(Images)
          BY <3>2
        <5>2. Len(Append(r, image)) = m + 1 /\ Append(r, image)[m + 1] = image
          BY <3>2
        <5>3. \A i \in 1..m : Append(r, image)[i] = r[i]
          BY <3>2
        <5> QED
          BY <5>1, <5>2, <5>3
      <4> QED
        BY <4>1, <4>2
    <3> QED
      BY <3>1, <3>3
  <2>4. ASSUME NEW i \in 1..3, NEW j \in 1..3, i # j PROVE q[i] # q[j]
    <3>1. \A k \in 1..3 : k = 3 \/ k \in 1..2
      OBVIOUS
    <3> QED
      BY <1>1, <2>1, <2>2, <2>3, <2>4, <3>1
  <2> QED
    <3>1. DOMAIN q = 1..3 /\ Len(q) \in 2..3
      BY <2>3
    <3>2. Fine(q)
      BY <2>3, <2>4, <3>1
    <3> HIDE DEF Fine
    <3> QED
      BY <1>4, <3>2
<1>3. CASE \E i \in DOMAIN revisions :
             revisions[i] = image /\ revisions' = Append(RemoveAt(revisions, i), image)
  <2> PICK i \in 1..n : r[i] = image /\ revisions' = Append(RemoveAt(r, i), image)
    BY <1>1, <1>3
  <2> DEFINE t == RemoveAt(r, i)
  <2> PICK q : q = revisions'
    OBVIOUS
  <2>1. t \in Seq(Images) /\ Len(t) = n - 1
        /\ \A k \in 1..(n - 1) : t[k] = IF k < i THEN r[k] ELSE r[k + 1]
    <3>1. i \in 1..Len(r) /\ r \in Seq(Images)
      BY <1>1
    <3> HIDE DEF t
    <3>2. /\ t \in Seq(Images) /\ Len(t) = Len(r) - 1
          /\ \A k \in 1..Len(t) : t[k] = IF k < i THEN r[k] ELSE r[k + 1]
      BY <3>1, RemoveAtFacts DEF t
    <3> QED
      BY <3>2
  <2>2. q = Append(t, image)
    OBVIOUS
  <2> HIDE DEF t
  <2>3. q \in Seq(Images) /\ Len(q) = n /\ q[n] = image /\ \A k \in 1..(n - 1) : q[k] = t[k]
    BY <1>1, <2>1, <2>2
  <2> DEFINE old == [k \in 1..n |-> IF k = n THEN i ELSE IF k < i THEN k ELSE k + 1]
  <2>4. \A k \in 1..n : old[k] \in 1..n /\ q[k] = r[old[k]]
    <3>1. ASSUME NEW k \in 1..n, k # n PROVE old[k] \in 1..n /\ q[k] = r[old[k]]
      <4>1. k \in 1..(n - 1) /\ old[k] = IF k < i THEN k ELSE k + 1
        BY <1>1, <3>1
      <4> QED
        BY <1>1, <2>1, <2>3, <4>1
    <3>2. n \in 1..n /\ old[n] = i
      BY <1>1
    <3> QED
      BY <2>3, <3>1, <3>2
  <2>5. ASSUME NEW k \in 1..n, NEW j \in 1..n, k # j PROVE q[k] # q[j]
    <3>1. old[k] # old[j]
      BY <1>1, <2>5
    <3> HIDE DEF old
    <3>2. /\ old[k] \in 1..n /\ old[j] \in 1..n
          /\ q[k] = r[old[k]] /\ q[j] = r[old[j]]
      BY <2>4
    <3> PICK a, b : a = old[k] /\ b = old[j]
      OBVIOUS
    <3>3. r[a] # r[b]
      BY <1>1, <3>1, <3>2
    <3> QED
      BY <3>2, <3>3
  <2> QED
    <3>1. DOMAIN q = 1..n /\ Len(q) \in 2..3
      BY <1>1, <2>3
    <3>2. Fine(q)
      BY <2>3, <2>5, <3>1
    <3> HIDE DEF Fine
    <3> QED
      BY <1>4, <3>2
<1> QED
  BY <1>2, <1>3 DEF Reconcile

\* A step of a script is one of the script that runs, and counts the faults it meets.
LEMMA StepsCount ==
  ASSUME Counters, OutageStep \/ ValidationStep
  PROVE  faults' \in 0 .. MaxFaults
<1>1. \/ NoFault \/ Fault
  <2>1. CASE OutageStep
    BY <2>1 DEF OutageStep, GivesUp, OutageKilled, Preconditions, AskOthers, AskPayment, Ask, Pause,
         Snapshot, DeleteHpa, ScaleDown, Drained, OutageSeen, ScaleUp, Resume, Recreated, Ready,
         WaitAlive, Recovered, TrapSync, TrapScale, NoFault
  <2>2. CASE ValidationStep
    BY <2>2 DEF ValidationStep, Quit, ValidationKilled, Capture, PauseCatalog, Arm, Inject,
         AbortSeen, ResultSeen, TrapSettings, TrapImage, TrapUndo, TrapSyncCatalog, TrapCommand,
         NoFault
  <2> QED
    BY <2>1, <2>2
<1> QED
  BY <1>1, ScriptAssumption DEF Counters, Fault, NoFault

LEMMA OutageRuns == ASSUME OutageStep PROVE ~Over
BY DEF OutageStep, GivesUp, OutageKilled, Preconditions, AskOthers, AskPayment, Ask, Pause,
       Snapshot, DeleteHpa, ScaleDown, Drained, OutageSeen, ScaleUp, Resume, Recreated, Ready,
       WaitAlive, Recovered, TrapSync, TrapScale, Over

LEMMA ValidationRuns == ASSUME ValidationStep PROVE ~ScriptOver
BY DEF ValidationStep, Quit, ValidationKilled, Capture, PauseCatalog, Arm, Inject,
       AbortSeen, ResultSeen, TrapSettings, TrapImage, TrapUndo, TrapSyncCatalog, TrapCommand,
       ScriptOver

LEMMA BeforeLatest ==
  ASSUME NEW X, NEW s \in Seq(X), Len(s) > 1 PROVE s[Len(s) - 1] \in X
OBVIOUS

\* The validation drill sets images that exist, and leaves the revisions to the controller.
LEMMA ValidationStepTypes ==
  ASSUME ValidationTypeOK, ValidationStep PROVE ValidationTypeOK' /\ UNCHANGED revisions
<1>0. revisions \in Seq(Images) /\ Len(revisions) > 1
  <2>1. revisions \in Seq(Images)
    BY DEF ValidationTypeOK
  <2>2. Len(revisions) \in 2..3
    BY DEF ValidationTypeOK
  <2> PICK n : n = Len(revisions)
    OBVIOUS
  <2>3. n \in 2..3 => n > 1
    OBVIOUS
  <2> QED
    BY <2>1, <2>2, <2>3
<1> USE DEF ValidationTypeOK, Restoring, Images
<1>1. CASE Quit
  BY <1>1 DEF Quit, Quits, Moves, rolloutVars
<1>2. CASE ValidationKilled
  BY <1>2, Zenon DEF ValidationKilled, Moves, rolloutVars
<1>3. CASE Capture
  BY <1>3 DEF Capture, rolloutVars
<1>4. CASE PauseCatalog
  BY <1>4 DEF PauseCatalog, Quits, Moves, rolloutVars
<1>5. CASE Arm
  BY <1>5 DEF Arm, Quits, Moves
<1>6. CASE Inject
  BY <1>6 DEF Inject, Quits, Moves
<1>7. CASE AbortSeen
  BY <1>7 DEF AbortSeen, Moves, rolloutVars
<1>8. CASE ResultSeen
  BY <1>8 DEF ResultSeen, Quits, Moves, rolloutVars
<1>9. CASE TrapSettings
  <2>1. /\ script' = [script EXCEPT !.step = "trap_image"]
        /\ UNCHANGED <<image, revisions, degraded>>
    BY <1>9 DEF TrapSettings, TrapCommand, Moves
  <2>2. \/ armed' = script.short /\ UNCHANGED leftArmed
        \/ UNCHANGED armed /\ leftArmed' = (leftArmed \/ armed)
    BY <1>9 DEF TrapSettings, TrapCommand, NoFault, Fault
  <2>3. armed' \in BOOLEAN /\ leftArmed' \in BOOLEAN
    BY <2>2, Zenon
  <2> QED
    BY <2>1, <2>3
<1>10. CASE TrapImage
  <2>1. /\ script' = [script EXCEPT !.step = "trap_undo"]
        /\ UNCHANGED <<revisions, degraded, armed, leftArmed>>
    BY <1>10 DEF TrapImage, TrapCommand, Moves
  <2>2. image' = image \/ (script.original # "" /\ image' = script.original)
    BY <1>10 DEF TrapImage, TrapCommand
  <2> QED
    BY <2>1, <2>2
<1>11. CASE TrapUndo
  <2>1. /\ script' = [script EXCEPT !.step = "trap_sync"]
        /\ UNCHANGED <<revisions, degraded, armed, leftArmed>>
    BY <1>11 DEF TrapUndo, TrapCommand, Moves
  <2>2. image' = image \/ image' = revisions[Len(revisions) - 1]
    BY <1>11 DEF TrapUndo, TrapCommand
  <2> HIDE DEF Images
  <2>3. revisions[Len(revisions) - 1] \in Images
    BY <1>0, BeforeLatest
  <2>4. image' \in Images
    BY <2>2, <2>3
  <2> USE DEF Images
  <2> QED
    BY <2>1, <2>4
<1>12. CASE TrapSyncCatalog
  BY <1>12 DEF TrapSyncCatalog, TrapCommand, Moves, rolloutVars
<1> QED
  BY <1>1, <1>2, <1>3, <1>4, <1>5, <1>6, <1>7, <1>8, <1>9, <1>10, <1>11, <1>12 DEF ValidationStep

LEMMA TypesInit == Init => Types
<1> SUFFICES ASSUME Init PROVE Types
  OBVIOUS
<1>1. Counters
  BY ScriptAssumption DEF Init, ScriptInit, Counters
<1>2. /\ revisions = <<"older", "git">> /\ image = "git"
      /\ degraded = FALSE /\ armed = FALSE /\ leftArmed = FALSE
      /\ script = [step |-> "ended", original |-> "", short |-> FALSE, paused |-> FALSE,
                   patched |-> FALSE]
  BY DEF Init, ValidationInit, NewScript
<1>3. /\ revisions \in Seq(Images) /\ Len(revisions) \in 2..3
      /\ Renumbered
  <2> PICK r : r = <<"older", "git">>
    OBVIOUS
  <2>1. r \in Seq(Images) /\ Len(r) = 2 /\ r[1] = "older" /\ r[2] = "git"
    BY DEF Images
  <2>2. DOMAIN r = 1..2 /\ \A i \in 1..2 : i = 1 \/ i = 2
    BY <2>1
  <2>3. \A i, j \in DOMAIN r : i # j => r[i] # r[j]
    BY <2>1, <2>2
  <2>4. revisions = r
    BY <1>2
  <2>5. Renumbered
    BY <2>3, <2>4 DEF Renumbered
  <2> QED
    BY <2>1, <2>4, <2>5
<1>4. ValidationTypeOK
  BY <1>2, <1>3 DEF ValidationTypeOK, Images, Restoring
<1>5. ScriptOver
  BY <1>2 DEF ScriptOver
<1> QED
  BY <1>1, <1>3, <1>4, <1>5 DEF Types

LEMMA TypesStep == Types /\ [Next]_vars => Types'
<1> SUFFICES ASSUME Types, [Next]_vars PROVE Types'
  OBVIOUS
<1>0. Counters /\ ValidationTypeOK /\ Renumbered /\ (Over \/ ScriptOver)
  BY DEF Types
<1>1. ASSUME UNCHANGED validationVars PROVE ValidationTypeOK' /\ Renumbered' /\ ScriptOver' = ScriptOver
  BY <1>0, <1>1 DEF ValidationTypeOK, Renumbered, ScriptOver, validationVars, rolloutVars
<1>2. ASSUME UNCHANGED outageVars PROVE Over' = Over
  BY <1>2 DEF Over, outageVars
<1>3. CASE UNCHANGED vars
  BY <1>0, <1>1, <1>2, <1>3 DEF vars, scriptVars, Types, Counters
<1>4. CASE Run
  <2>1. Counters'
    BY <1>0, <1>4, ScriptAssumption DEF Run, Starts, Counters
  <2>2. CASE OutageStarts /\ UNCHANGED validationVars
    BY <1>1, <1>4, <2>1, <2>2 DEF Run, Types
  <2>3. CASE ValidationStarts /\ UNCHANGED outageVars
    <3>1. ValidationTypeOK' /\ Renumbered'
      BY <1>0, <2>3 DEF ValidationStarts, NewScript, rolloutVars, ValidationTypeOK, Renumbered
    <3> QED
      BY <1>2, <1>4, <2>1, <2>3, <3>1 DEF Run, Types
  <2> QED
    BY <1>4, <2>2, <2>3 DEF Run
<1>5. CASE Script
  <2>1. Counters'
    BY <1>0, <1>5, StepsCount DEF Script, Counters
  <2>2. CASE OutageStep /\ UNCHANGED validationVars
    BY <1>0, <1>1, <2>1, <2>2, OutageRuns DEF Types
  <2>3. CASE ValidationStep /\ UNCHANGED outageVars
    <3>1. ValidationTypeOK' /\ Renumbered'
      BY <1>0, <2>3, ValidationStepTypes DEF Renumbered
    <3> QED
      BY <1>0, <1>2, <2>1, <2>3, <3>1, ValidationRuns DEF Types
  <2> QED
    BY <1>5, <2>2, <2>3 DEF Script
<1>6. CASE Payment \/ Scaler
  <2>1. UNCHANGED <<scriptVars, validationVars, drill>>
    BY <1>6 DEF Payment, Scaler, PaymentSettles, SyncPayment, PodsFollow, Autoscale
  <2> QED
    BY <1>0, <1>1, <2>1 DEF Types, Counters, scriptVars, Over
<1>7. CASE Catalog \/ CatalogAborts
  <2>1. UNCHANGED <<scriptVars, outageVars, script>>
    BY <1>7 DEF Catalog, CatalogAborts, CatalogSettles, SyncCatalog, Reconcile, Abort
  <2>2. ValidationTypeOK' /\ Renumbered'
    <3>1. CASE SyncCatalog
      BY <1>0, <3>1 DEF SyncCatalog, ValidationTypeOK, Renumbered, Images
    <3>2. CASE Reconcile
      BY <1>0, <3>2, ReconcileTypes
    <3>3. CASE Abort
      BY <1>0, <3>3 DEF Abort, ValidationTypeOK, Renumbered
    <3> QED
      BY <1>7, <3>1, <3>2, <3>3 DEF Catalog, CatalogAborts, CatalogSettles
  <2> QED
    BY <1>0, <1>2, <2>1, <2>2 DEF Types, Counters, scriptVars, ScriptOver
<1>8. CASE \E a \in Apps : Root(a)
  BY <1>0, <1>1, <1>2, <1>8 DEF Root, Types, Counters
<1> QED
  BY <1>3, <1>4, <1>5, <1>6, <1>7, <1>8 DEF Next

\* The types hold, the controller has each image in one revision, and only one script runs.
THEOREM DrillTypes == Spec => []TypeOK
<1>1. Inv /\ Types => TypeOK
  BY DEF Inv, OutageInv, AutoSyncType, Types, Counters, TypeOK
<1> QED
  BY <1>1, TypesInit, TypesStep, InvHolds, PTL DEF Spec

================================================================================

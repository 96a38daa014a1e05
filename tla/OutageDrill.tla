------------------------------ MODULE OutageDrill ------------------------------
(***************************************************************************)
(* scripts/dep-324-outage-drill.sh: it takes payment down, looks at the    *)
(* other services, and restores payment.  A step is a command of the       *)
(* script.  Kubernetes, the autoscaler, Argo CD and the load balancer go   *)
(* on beside it.                                                           *)
(***************************************************************************)
EXTENDS DrillScript, Sequences

CONSTANTS
  Others,      \* the services that must stay up, in the order they are asked
  MinReplicas, \* minReplicas of payment in Git
  MaxReplicas

ASSUME OutageAssumption ==
  /\ Others \in Seq(STRING)
  /\ MinReplicas \in Nat \ {0} /\ MaxReplicas \in Nat
  /\ MinReplicas <= MaxReplicas
  /\ "payment" \in Apps

VARIABLES
  hpa,       \* minReplicas of hpa/payment, 0 if there is none
  replicas,  \* spec.replicas of deployment/payment
  pods,      \* the pods of payment
  drill,     \* the script: where it is, and its variables
  answered,  \* the services that answered since the last phase of checks began
  stranded   \* payment was left down, by a script that died or by a fault

clusterVars == <<hpa, replicas, pods>>
outageVars == <<clusterVars, drill, answered, stranded>>

\* BODY_FILE starts empty; original is ORIGINAL_MIN_REPLICAS, 0 for "".
Fresh == [step |-> "preconditions", asked |-> 0, original |-> 0, paused |-> FALSE,
          scaled |-> FALSE, json |-> FALSE]

OutageInit ==
  /\ hpa = MinReplicas
  /\ replicas \in MinReplicas .. MaxReplicas
  /\ pods = replicas
  /\ drill = [Fresh EXCEPT !.step = "ended"]
  /\ answered = {}
  /\ stranded = FALSE

Over == drill.step \in {"ended", "passed"}
Trap == {"trap_sync", "trap_scale"}
Goes(step) == drill' = [drill EXCEPT !.step = step]

\* fail, a command that fails under set -e, a time limit, an interrupt: exit.
Exits == drill' = [drill EXCEPT !.step = "trap_sync"]

OutageStarts ==
  /\ Over
  /\ drill' = Fresh
  /\ answered' = {}
  /\ UNCHANGED <<clusterVars, stranded>>

\* Every step before the trap may fail without having changed anything.
GivesUp ==
  /\ ~Over /\ drill.step \notin Trap
  /\ Exits
  /\ UNCHANGED <<clusterVars, autoSync, faults, answered, stranded>>

OutageKilled ==
  /\ MayKill
  /\ ~Over
  /\ Goes("ended")
  /\ stranded' = (stranded \/ replicas = 0)
  /\ UNCHANGED <<clusterVars, autoSync, faults, answered>>

\* The ingress, the Application and the autoscaler are there; the gateway is not.
Preconditions ==
  /\ drill.step = "preconditions"
  /\ hpa # 0
  /\ drill' = [drill EXCEPT !.step = "direct", !.asked = 0]
  /\ UNCHANGED <<clusterVars, autoSync, faults, answered, stranded>>

----------------------------------------------------------------------------
\* Requests through the load balancer.  It answers 502 to 504 itself, in HTML, when
\* it has no target; a request that times out leaves BODY_FILE as it was.

Outcomes(service) ==
  IF service = "payment" /\ pods = 0 THEN {"gateway_error", "timeout"}
  ELSE {"json", "gateway_error", "timeout"}

BodyIsJson(outcome) ==
  CASE outcome = "json" -> TRUE
    [] outcome = "gateway_error" -> FALSE
    [] OTHER -> drill.json

\* expect_alive: not one of the codes of a gateway error, and the body looks like JSON.
Alive(outcome) == outcome # "gateway_error" /\ BodyIsJson(outcome)

Ask(service, outcome, next) ==
  /\ outcome \in Outcomes(service)
  /\ Alive(outcome)
  /\ drill' = [next EXCEPT !.json = BodyIsJson(outcome)]
  /\ answered' = IF outcome = "json" THEN answered \cup {service} ELSE answered
  /\ UNCHANGED <<clusterVars, autoSync, faults, stranded>>

\* The other services are asked one after the other, before and during the outage.
AskOthers ==
  /\ drill.step \in {"direct", "isolation"}
  /\ drill.asked < Len(Others)
  /\ \E outcome \in Outcomes(Others[drill.asked + 1]) :
       Ask(Others[drill.asked + 1], outcome, [drill EXCEPT !.asked = @ + 1])

AskPayment ==
  /\ drill.step = "direct" /\ drill.asked = Len(Others)
  /\ \E outcome \in Outcomes("payment") :
       Ask("payment", outcome, [drill EXCEPT !.step = "pause"])

\* wait_alive: payment is asked until there is no gateway error or the time is over, ...
WaitAlive ==
  /\ drill.step = "waiting"
  /\ \E outcome \in Outcomes("payment") :
       drill' = [drill EXCEPT !.step = "recovered", !.json = BodyIsJson(outcome)]
  /\ UNCHANGED <<clusterVars, autoSync, faults, answered, stranded>>

\* ... and then once more.
Recovered ==
  /\ drill.step = "recovered"
  /\ \E outcome \in Outcomes("payment") :
       Ask("payment", outcome, [drill EXCEPT !.step = "passed"])

----------------------------------------------------------------------------
\* Commands that change the cluster.  One that fails ends the script; one whose reply
\* is lost does so after it took effect.

Pause ==
  /\ drill.step = "pause"
  /\ \/ SetSync("payment", FALSE) /\ NoFault
        /\ drill' = [drill EXCEPT !.step = "snapshot", !.paused = TRUE]
     \/ SetSync("payment", FALSE) /\ Fault /\ Exits
  /\ UNCHANGED <<clusterVars, answered, stranded>>

\* Mutant: the replicas of the moment are taken for the minimum.
SnapshotOfReplicas ==
  /\ drill.step = "snapshot"
  /\ hpa # 0
  /\ drill' = [drill EXCEPT !.step = "delete", !.original = replicas]
  /\ UNCHANGED <<clusterVars, autoSync, faults, answered, stranded>>

Snapshot ==
  /\ drill.step = "snapshot"
  /\ hpa # 0
  /\ drill' = [drill EXCEPT !.step = "delete", !.original = hpa]
  /\ UNCHANGED <<clusterVars, autoSync, faults, answered, stranded>>

DeleteHpa ==
  /\ drill.step = "delete"
  /\ hpa # 0
  /\ hpa' = 0
  /\ \/ NoFault /\ Goes("scale")
     \/ Fault /\ Exits
  /\ UNCHANGED <<replicas, pods, autoSync, answered, stranded>>

\* Mutant: the flag is not set.
ScaleDownUnrecorded ==
  /\ drill.step = "scale"
  /\ replicas' = 0
  /\ NoFault /\ Goes("drain")
  /\ UNCHANGED <<hpa, pods, autoSync, answered, stranded>>

ScaleDown ==
  /\ drill.step = "scale"
  /\ replicas' = 0
  /\ \/ /\ NoFault
        /\ drill' = [drill EXCEPT !.step = "drain", !.scaled = TRUE]
        /\ UNCHANGED stranded
     \/ Fault /\ Exits /\ stranded' = TRUE
  /\ UNCHANGED <<hpa, pods, autoSync, answered>>

Drained ==
  /\ drill.step = "drain"
  /\ pods = 0
  /\ drill' = [drill EXCEPT !.step = "isolation", !.asked = 0]
  /\ answered' = {}
  /\ UNCHANGED <<clusterVars, autoSync, faults, stranded>>

\* Only a gateway error counts as payment being down.
OutageSeen ==
  /\ drill.step = "isolation" /\ drill.asked = Len(Others)
  /\ "gateway_error" \in Outcomes("payment")
  /\ drill' = [drill EXCEPT !.step = "restore", !.json = FALSE]
  /\ UNCHANGED <<clusterVars, autoSync, faults, answered, stranded>>

\* ${ORIGINAL_MIN_REPLICAS:-2}
Target == IF drill.original = 0 THEN 2 ELSE drill.original

ScaleUp ==
  /\ drill.step = "restore"
  /\ replicas' = Target
  /\ \/ NoFault /\ Goes("resume")
     \/ Fault /\ Exits
  /\ UNCHANGED <<hpa, pods, autoSync, answered, stranded>>

Resume ==
  /\ drill.step = "resume"
  /\ SetSync("payment", TRUE)
  /\ \/ NoFault /\ drill' = [drill EXCEPT !.step = "recreated", !.paused = FALSE, !.scaled = FALSE]
     \/ Fault /\ Exits
  /\ UNCHANGED <<clusterVars, answered, stranded>>

Recreated ==
  /\ drill.step = "recreated"
  /\ hpa = Target
  /\ Goes("ready")
  /\ UNCHANGED <<clusterVars, autoSync, faults, answered, stranded>>

\* Mutant: the pods are not waited for.
ReadyAtOnce ==
  /\ drill.step = "ready"
  /\ Goes("waiting")
  /\ UNCHANGED <<clusterVars, autoSync, faults, answered, stranded>>

Ready ==
  /\ drill.step = "ready"
  /\ pods >= Target
  /\ Goes("waiting")
  /\ UNCHANGED <<clusterVars, autoSync, faults, answered, stranded>>

----------------------------------------------------------------------------
\* restore, run by the EXIT trap: what fails there is ignored.

TrapSync ==
  /\ drill.step = "trap_sync"
  /\ Goes("trap_scale")
  /\ \/ ~drill.paused /\ NoFault /\ UNCHANGED autoSync
     \/ drill.paused /\ NoFault /\ SetSync("payment", TRUE)
     \/ drill.paused /\ Fault /\ UNCHANGED autoSync
  /\ UNCHANGED <<clusterVars, answered, stranded>>

\* Mutant: the replicas are left to Argo CD, like the autoscaler.
TrapScaleLeftToArgo ==
  /\ drill.step = "trap_scale"
  /\ Goes("ended")
  /\ UNCHANGED <<clusterVars, autoSync, faults, answered, stranded>>

TrapScale ==
  /\ drill.step = "trap_scale"
  /\ Goes("ended")
  /\ \/ ~drill.scaled /\ NoFault /\ UNCHANGED <<replicas, stranded>>
     \/ drill.scaled /\ NoFault /\ replicas' = Target /\ UNCHANGED stranded
     \/ drill.scaled /\ Fault /\ UNCHANGED replicas /\ stranded' = TRUE
  /\ UNCHANGED <<hpa, pods, autoSync, answered>>

OutageStep ==
  \/ GivesUp \/ OutageKilled
  \/ Preconditions \/ AskOthers \/ AskPayment
  \/ Pause \/ Snapshot \/ DeleteHpa \/ ScaleDown \/ Drained
  \/ OutageSeen \/ ScaleUp \/ Resume \/ Recreated \/ Ready \/ WaitAlive \/ Recovered
  \/ TrapSync \/ TrapScale

----------------------------------------------------------------------------
\* The cluster.  The chart leaves spec.replicas out where there is an autoscaler, so
\* that Argo CD restores the autoscaler and never the number of replicas.

\* Mutant: the chart renders the replicas.
SyncPaymentReplicas ==
  /\ autoSync["payment"]
  /\ hpa # MinReplicas \/ replicas = 0
  /\ hpa' = MinReplicas
  /\ replicas' = IF replicas = 0 THEN MinReplicas ELSE replicas
  /\ UNCHANGED <<pods, drill, answered, stranded>>

SyncPayment ==
  /\ autoSync["payment"]
  /\ hpa # MinReplicas
  /\ hpa' = MinReplicas
  /\ UNCHANGED <<replicas, pods, drill, answered, stranded>>

\* An autoscaler leaves a workload at zero alone.
Autoscale ==
  /\ hpa # 0 /\ replicas # 0
  /\ replicas' \in hpa .. MaxReplicas
  /\ UNCHANGED <<hpa, pods, drill, answered, stranded>>

PodsFollow ==
  /\ pods # replicas
  /\ pods' = IF pods < replicas THEN pods + 1 ELSE pods - 1
  /\ UNCHANGED <<hpa, replicas, drill, answered, stranded>>

PaymentSettles == SyncPayment \/ PodsFollow

----------------------------------------------------------------------------
\* Properties.

OutageSteps == {"preconditions", "direct", "pause", "snapshot", "delete", "scale", "drain",
                "isolation", "restore", "resume", "recreated", "ready", "waiting", "recovered",
                "trap_sync", "trap_scale", "ended", "passed"}

\* The types of the variables.
OutageTypeOK ==
  /\ hpa \in {0, MinReplicas}
  /\ replicas \in {0, 2} \cup (MinReplicas .. MaxReplicas)
  /\ pods \in Nat
  /\ drill \in [step : OutageSteps, asked : Nat, original : {0, MinReplicas},
                paused : BOOLEAN, scaled : BOOLEAN, json : BOOLEAN]
  /\ stranded \in BOOLEAN

\* While the other services are looked at, payment is down and nothing brings it back,
\* although the root Application turns sync on again and the autoscaler returns.
OutageHolds == drill.step = "isolation" => replicas = 0 /\ pods = 0

\* Whenever payment is scaled to zero the script knows that it has to scale it up
\* again, unless a fault hid it or the script died.
DownIsRecorded == replicas = 0 => stranded \/ (drill.scaled /\ ~Over)

\* "DRILL PASSED" means that payment was restored, and stays so: its autoscaler is back
\* with the minimum it had, and the pods are there.
PassedMeansRestored ==
  drill.step = "passed" => hpa = drill.original /\ pods >= drill.original /\ autoSync["payment"]

\* Every run of the script, failed or not, is followed by payment being up, unless a fault
\* hid from it that payment is down, or a run was killed while it was: then only a later run
\* that gets past its own look at payment scales it up (PassedMeansRestored, if it passes).
PaymentUp == hpa = MinReplicas /\ pods >= MinReplicas
PaymentRestored == Over ~> (stranded \/ PaymentUp)

\* "re-verifies the other four services still answer through the ALB": a script that has
\* seen the outage has had an answer of each of them during it.
OthersAnswered ==
  drill.step = "restore" => \A i \in DOMAIN Others : Others[i] \in answered

================================================================================

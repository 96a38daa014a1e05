----------------------------- MODULE DrillScript -----------------------------
(***************************************************************************)
(* What the drills of scripts/ share.  Each is a bash script under set -e  *)
(* with an EXIT trap that restores what its flags say was changed, run     *)
(* beside two levels of Argo CD: an Application heals its workload while   *)
(* its automated sync is on (apps/sports-store-production.yaml), and the   *)
(* root Application heals the Applications, their sync policy included     *)
(* (apps/root-app.yaml).                                                   *)
(***************************************************************************)
EXTENDS Naturals

CONSTANTS
  Apps,       \* the Applications of the drills
  MaxFaults,  \* bound: replies that are lost, and commands of a trap that fail
  MaxRuns,    \* bound: how often a script is started
  MayKill     \* whether a script may be killed, so that its trap does not run

ASSUME ScriptAssumption ==
  /\ MaxFaults \in Nat /\ MaxRuns \in Nat
  /\ MayKill \in BOOLEAN

VARIABLES
  autoSync,  \* whether spec.syncPolicy.automated of each Application is set
  faults,
  runs

scriptVars == <<autoSync, faults, runs>>

ScriptInit ==
  /\ autoSync = [a \in Apps |-> TRUE]
  /\ faults = 0
  /\ runs = 0

\* kubectl patch application: syncPolicy.automated is set or removed.
SetSync(a, on) == autoSync' = [autoSync EXCEPT ![a] = on]

\* Mutant: the root Application does not heal.
RootHealsNothing(a) == FALSE /\ UNCHANGED autoSync

\* The root Application finds that one of its children differs from Git.
RootHeals(a) ==
  /\ ~autoSync[a]
  /\ SetSync(a, TRUE)

Starts == runs < MaxRuns /\ runs' = runs + 1

Fault == faults < MaxFaults /\ faults' = faults + 1
NoFault == UNCHANGED faults

==============================================================================

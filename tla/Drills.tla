-------------------------------- MODULE Drills --------------------------------
(***************************************************************************)
(* An operator who runs either drill, one at a time and one after the      *)
(* other, on the cluster the earlier ones left.                            *)
(***************************************************************************)
EXTENDS OutageDrill, ValidationDrill

vars == <<scriptVars, outageVars, validationVars>>

Init == ScriptInit /\ OutageInit /\ ValidationInit

Run ==
  /\ Over /\ ScriptOver
  /\ Starts
  /\ \/ OutageStarts /\ UNCHANGED validationVars
     \/ ValidationStarts /\ UNCHANGED outageVars
  /\ UNCHANGED <<autoSync, faults>>

\* The script that runs goes on.
Script ==
  /\ \/ OutageStep /\ UNCHANGED validationVars
     \/ ValidationStep /\ UNCHANGED outageVars
  /\ UNCHANGED runs

Payment == PaymentSettles /\ UNCHANGED <<scriptVars, validationVars>>
Scaler == Autoscale /\ UNCHANGED <<scriptVars, validationVars>>
Catalog == CatalogSettles /\ UNCHANGED <<scriptVars, outageVars>>
CatalogAborts == Abort /\ UNCHANGED <<scriptVars, outageVars>>
Root(a) == RootHeals(a) /\ UNCHANGED <<faults, runs, outageVars, validationVars>>

Next ==
  \/ Run \/ Script
  \/ Payment \/ Scaler \/ Catalog \/ CatalogAborts
  \/ \E a \in Apps : Root(a)

\* A script goes on: its waits and requests have time limits.  Controllers reconcile.
Spec ==
  /\ Init /\ [][Next]_vars
  /\ WF_vars(Script) /\ WF_vars(Payment) /\ WF_vars(Catalog)
  /\ \A a \in Apps : WF_vars(Root(a))

\* The types of all variables, and that the operator runs one script at a time.
TypeOK ==
  /\ autoSync \in [Apps -> BOOLEAN]
  /\ faults \in 0 .. MaxFaults /\ runs \in 0 .. MaxRuns
  /\ OutageTypeOK /\ ValidationTypeOK
  /\ Over \/ ScriptOver

================================================================================

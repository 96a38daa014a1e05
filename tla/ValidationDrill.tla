---------------------------- MODULE ValidationDrill ----------------------------
(***************************************************************************)
(* scripts/dep-271-validation-drill.sh: it sets an image that does not     *)
(* exist on the Rollout of catalog, waits for the Rollout to abort and for *)
(* K8sGPT to report it, and restores the image.  Argo CD and the Rollouts  *)
(* controller go on beside it.                                             *)
(***************************************************************************)
EXTENDS DrillScript, Sequences, SequencesExt

ASSUME ValidationAssumption == "catalog" \in Apps

VARIABLES
  image,      \* the image in the spec of the Rollout
  revisions,  \* the images it had, as the controller last saw them, the latest last
  degraded,   \* the phase of the Rollout
  armed,      \* progressDeadlineSeconds is short and progressDeadlineAbort is set
  script,     \* where the script is, and its variables
  leftArmed   \* the script died, or a fault hid from it that the abort is armed

rolloutVars == <<image, revisions, degraded, armed>>
validationVars == <<rolloutVars, script, leftArmed>>

\* original is ORIGINAL_IMAGE, "" until it is read; short stands for the two settings as
\* they were read: whether they are those of a drill.
NewScript == [step |-> "capture", original |-> "", short |-> FALSE,
              paused |-> FALSE, patched |-> FALSE]

\* The image in Git, the one before it, and the one of the drill.
Images == {"git", "older", "breaking"}

ValidationInit ==
  /\ image = "git"
  /\ revisions = <<"older", "git">>
  /\ degraded = FALSE
  /\ armed = FALSE
  /\ script = [NewScript EXCEPT !.step = "ended"]
  /\ leftArmed = FALSE

ScriptOver == script.step = "ended"
Restoring == {"trap_settings", "trap_image", "trap_undo", "trap_sync"}
Moves(step) == script' = [script EXCEPT !.step = step]
Quits == Moves("trap_settings")

ValidationStarts ==
  /\ ScriptOver
  /\ script' = NewScript
  /\ UNCHANGED <<rolloutVars, leftArmed>>

\* exit at any step before the trap: a precondition or a command that fails, a time
\* limit that is reached, an interrupt.
Quit ==
  /\ ~ScriptOver /\ script.step \notin Restoring
  /\ Quits
  /\ UNCHANGED <<rolloutVars, autoSync, faults, leftArmed>>

ValidationKilled ==
  /\ MayKill
  /\ ~ScriptOver
  /\ Moves("ended")
  /\ leftArmed' = (leftArmed \/ armed)
  /\ UNCHANGED <<rolloutVars, autoSync, faults>>

\* The preconditions hold; the image and the settings are read.
Capture ==
  /\ script.step = "capture"
  /\ script' = [script EXCEPT !.step = "pause", !.original = image, !.short = armed]
  /\ UNCHANGED <<rolloutVars, autoSync, faults, leftArmed>>

PauseCatalog ==
  /\ script.step = "pause"
  /\ SetSync("catalog", FALSE)
  /\ \/ NoFault /\ script' = [script EXCEPT !.step = "arm", !.paused = TRUE]
     \/ Fault /\ Quits
  /\ UNCHANGED <<rolloutVars, leftArmed>>

\* Mutant: the settings are patched and the flag is not set.
ArmUnrecorded ==
  /\ script.step = "arm"
  /\ armed' = TRUE
  /\ NoFault /\ Moves("inject")
  /\ UNCHANGED <<image, revisions, degraded, autoSync, leftArmed>>

Arm ==
  /\ script.step = "arm"
  /\ armed' = TRUE
  /\ \/ NoFault /\ script' = [script EXCEPT !.step = "inject", !.patched = TRUE]
        /\ UNCHANGED leftArmed
     \/ Fault /\ Quits /\ leftArmed' = TRUE
  /\ UNCHANGED <<image, revisions, degraded, autoSync>>

Inject ==
  /\ script.step = "inject"
  /\ image' = "breaking"
  /\ \/ NoFault /\ Moves("abort")
     \/ Fault /\ Quits
  /\ UNCHANGED <<revisions, degraded, armed, autoSync, leftArmed>>

AbortSeen ==
  /\ script.step = "abort"
  /\ degraded
  /\ Moves("result")
  /\ UNCHANGED <<rolloutVars, autoSync, faults, leftArmed>>

\* A Result of K8sGPT is found, or the time is over: the trap comes next either way.
ResultSeen ==
  /\ script.step = "result"
  /\ Quits
  /\ UNCHANGED <<rolloutVars, autoSync, faults, leftArmed>>

----------------------------------------------------------------------------
\* restore, run by the EXIT trap at the end of every run: what fails is ignored.

\* What a command of the trap does if it succeeds; or it fails, or is not run.
TrapCommand(step, condition, effect, none, next) ==
  /\ script.step = step
  /\ \/ condition /\ effect /\ NoFault
     \/ condition /\ none /\ Fault
     \/ ~condition /\ none /\ NoFault
  /\ Moves(next)

\* The settings become what was read: the defaults, 600 and false, if they were not set,
\* but those of the drill itself if an earlier run left them.
TrapSettings ==
  /\ TrapCommand("trap_settings", script.patched,
                 armed' = script.short /\ UNCHANGED leftArmed,
                 UNCHANGED armed /\ leftArmed' = (leftArmed \/ armed), "trap_image")
  /\ UNCHANGED <<image, revisions, degraded, autoSync>>

TrapImage ==
  /\ TrapCommand("trap_image", script.original # "", image' = script.original,
                 UNCHANGED image, "trap_undo")
  /\ UNCHANGED <<revisions, degraded, armed, autoSync, leftArmed>>

\* kubectl argo rollouts undo: back to the revision before the latest, whatever that is.
TrapUndo ==
  /\ TrapCommand("trap_undo", script.original # "" /\ Len(revisions) > 1,
                 image' = revisions[Len(revisions) - 1], UNCHANGED image, "trap_sync")
  /\ UNCHANGED <<revisions, degraded, armed, autoSync, leftArmed>>

TrapSyncCatalog ==
  /\ TrapCommand("trap_sync", script.paused, SetSync("catalog", TRUE), UNCHANGED autoSync,
                 "ended")
  /\ UNCHANGED <<rolloutVars, leftArmed>>

ValidationStep ==
  \/ Quit \/ ValidationKilled
  \/ Capture \/ PauseCatalog \/ Arm \/ Inject \/ AbortSeen \/ ResultSeen
  \/ TrapSettings \/ TrapImage \/ TrapUndo \/ TrapSyncCatalog

----------------------------------------------------------------------------
\* The controllers.

\* Argo CD sets the image of Git again; the settings are not in Git, and stay.
SyncCatalog ==
  /\ autoSync["catalog"]
  /\ image # "git"
  /\ image' = "git"
  /\ UNCHANGED <<revisions, degraded, armed, script, leftArmed>>

\* The Rollouts controller takes the image of the spec for the latest revision, a new one
\* or one that it had.
Reconcile ==
  /\ Last(revisions) # image
  /\ \/ image \notin ToSet(revisions) /\ revisions' = Append(revisions, image)
     \/ \E i \in DOMAIN revisions :
          revisions[i] = image /\ revisions' = Append(RemoveAt(revisions, i), image)
  /\ degraded' = FALSE
  /\ UNCHANGED <<image, armed, script, leftArmed>>

\* An image that cannot be pulled makes no progress: the Rollout is Degraded when its
\* deadline is over, the short one of the drill or the default.
Abort ==
  /\ Last(revisions) = "breaking" /\ ~degraded
  /\ degraded' = TRUE
  /\ UNCHANGED <<image, revisions, armed, script, leftArmed>>

CatalogSettles == SyncCatalog \/ Reconcile

----------------------------------------------------------------------------
\* Properties.

\* The types of the variables.
ValidationTypeOK ==
  /\ image \in Images
  /\ revisions \in Seq(Images) /\ Len(revisions) \in 2 .. 3
  /\ {degraded, armed, leftArmed} \subseteq BOOLEAN
  /\ script \in [step : {"capture", "pause", "arm", "inject", "abort", "result", "ended"} \cup Restoring,
                 original : Images \cup {""}, short : BOOLEAN, paused : BOOLEAN, patched : BOOLEAN]

\* The deadline is short only while a script is there to lengthen it again, unless a
\* fault or a kill left it so: nothing else repairs what is not in Git.
ArmedIsRecorded ==
  armed => leftArmed \/ (script.patched /\ script.step \notin {"trap_image", "trap_undo",
                                                              "trap_sync", "ended"})

\* However a run of the drill ends, killed between any two commands included, and
\* whatever the undo of its trap brings back, catalog gets the image of Git.
CatalogRestored == ScriptOver ~> (image = "git" /\ Last(revisions) = "git")

\* "pauses Argo CD auto-sync [...] (so self-heal doesn't fight us)": nothing but the
\* script changes the image it injected while it waits.
InjectedImageStays ==
  [][script.step \in {"abort", "result"} /\ image = "breaking" => image' = image]_validationVars

================================================================================

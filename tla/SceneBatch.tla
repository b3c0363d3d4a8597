----------------------------- MODULE SceneBatch -----------------------------
(***************************************************************************)
(* Scene images: the batches of tasks/generate_scene_image.py and their    *)
(* checkpoints (tasks/scene_batch_lifecycle.py), the request that          *)
(* dispatches one (routes/scene_image_dispatch.py), the versioned assets   *)
(* of postgres_visual_asset_storage.py, and the clean-up of the uploads    *)
(* that were rejected (rejected_scene_cleanup.py,                          *)
(* artifact_download_service.py).                                          *)
(*                                                                         *)
(* A batch runs next to the user, who stops, resumes and approves, and to  *)
(* other batches of the same run.  It has no claim on the run: checkpoints *)
(* between its steps and the conditions of its statements are all that     *)
(* keeps a late batch off.  Every checkpoint and every statement or call   *)
(* is an action.                                                           *)
(*                                                                         *)
(* Data: an asset is named by its idempotency key, the batch and the       *)
(* scene; an upload by batch, delivery and scene, as its file name is.     *)
(***************************************************************************)
EXTENDS Naturals, FiniteSets, FiniteSetsExt

CONSTANTS
  Batches,         \* tasks of kind generate_scene_image
  Scenes,          \* scenes of the active visual plan
  Starts,          \* how the batches may begin, and how much may fail (a bound)
  Redelivered,     \* batches whose message may be delivered twice (a bound)
  MaxStops,        \* bound on the user's stops, cancellations and deletions
  CleanupRetries   \* max_retries of retry_failed_deletions

ASSUME SceneAssumption ==
  /\ MaxStops \in Nat /\ CleanupRetries \in Nat \ {0}
  /\ Starts \subseteq [batches : [Batches -> {"triggered", "new", "over"}],
                       faults : Nat]

VARIABLES
  srun,       \* the run: stage, status, and whether its project is deleted
  request,    \* the API request that dispatches a batch
  batch,      \* the delivery of a batch, and its time limit
  row,        \* its run_tasks row
  reserved,   \* its quota owner
  assets,     \* creator_scene_assets
  objects,    \* keys in the object store
  files,      \* image files on the worker's disk
  cleanup,    \* creator_artifacts rows of rejected uploads: failures by key
  leaked,     \* history: uploads lost in the ways UploadsAccounted lists
  faultsLeft  \* how much may still fail

sceneVars == <<srun, request, batch, row, reserved, assets, objects, files,
               cleanup, leaked, faultsLeft>>

Deliveries == 2
MayRedeliver(b) == batch[b].delivery < IF b \in Redelivered THEN Deliveries ELSE 1

Key(b) == <<b, batch[b].delivery, batch[b].scene>>
Keys == Batches \X (1 .. Deliveries) \X Scenes
NoScene == "none"

SceneStages == {"VISUAL_PLAN_REVIEW", "VISUAL_ASSET_GENERATING",
                "VISUAL_ASSET_REVIEW"}
SafeFailureStages == SceneStages \ {"VISUAL_ASSET_REVIEW"}
LiveRows == {"pending", "queued", "running"}

(* Phases of a process that is at work in a delivery. *)
WorkPhases ==
  {"next", "generate", "authorize", "generated", "upload", "uploaded", "save",
   "saved", "record", "recorded", "retract", "discard", "tidy", "finish",
   "finalize", "mark", "settle"}

BatchPhases ==
  WorkPhases \cup {"idle", "retry", "crashed", "killed", "raised", "ended"}

(* The parent process after a hard limit: the delivery it cuts off, how far *)
(* it is, and the files the assets named when it looked.                    *)
NoLimit == [step |-> "none", of |-> 0, saved |-> {}]

IdleBatch == [phase |-> "idle", delivery |-> 0, scene |-> NoScene, todo |-> {},
              ok |-> {}, bad |-> {}, local |-> {}, cancelled |-> FALSE,
              billed |-> FALSE, wanted |-> {}, active |-> FALSE,
              limit |-> NoLimit]

(* A reservation is "authorized" while it is reserved and an attempt of it  *)
(* is open; "settled" stands for billable_unknown too.                      *)
Reservations == {"none", "reserved", "authorized", "consumed", "cancelled",
                 "settled"}

SceneTypeOK ==
  /\ srun \in [stage : SceneStages \cup {"AUDIO_GENERATING", "FAILED"},
               status : {"running", "cancelled", "failed"}, deleting : BOOLEAN,
               stops : 0 .. MaxStops]
  /\ request \in [Batches -> {"new", "reserved", "recorded", "published",
                              "promoted", "undo", "refund", "failed",
                              "unmarked", "abandoned", "done"}]
  /\ batch \in [Batches -> [phase : BatchPhases, delivery : 0 .. Deliveries,
       scene : Scenes \cup {NoScene}, todo : SUBSET Scenes,
       ok : SUBSET Scenes, bad : SUBSET Scenes, local : SUBSET Keys,
       cancelled : BOOLEAN, billed : BOOLEAN,
       wanted : SUBSET Scenes, active : BOOLEAN,
       limit : [step : {"none", "read", "unlink", "kill", "done"},
                of : 0 .. Deliveries, saved : SUBSET Keys]]]
  /\ row \in [Batches -> LiveRows \cup {"none", "success", "failed",
                                       "rejected", "revoked"}]
  /\ reserved \in [Batches -> Reservations]
  /\ \A a \in assets : a.id \in Batches \X Scenes /\ a.key \in Keys
  /\ objects \cup files \cup leaked \subseteq Keys
  /\ DOMAIN cleanup \subseteq Keys
  /\ faultsLeft \in Nat

(* A batch is one of the whole-run trigger, dispatched at the start, one   *)
(* that a request will dispatch, or one that has failed before.            *)
Begin(start) ==
  LET Now(b, triggered, new, over) ==
        CASE start.batches[b] = "triggered" -> triggered
          [] start.batches[b] = "new" -> new
          [] start.batches[b] = "over" -> over IN
  /\ request = [b \in Batches |-> Now(b, "done", "new", "done")]
  /\ batch = [b \in Batches |->
       Now(b, [IdleBatch EXCEPT !.wanted = Scenes, !.active = TRUE], IdleBatch,
           [IdleBatch EXCEPT !.delivery = 1, !.phase = "raised"])]
  /\ row = [b \in Batches |-> Now(b, "queued", "none", "failed")]
  /\ reserved = [b \in Batches |-> Now(b, "reserved", "none", "settled")]
  /\ faultsLeft = start.faults

SceneInit ==
  /\ \E start \in Starts : Begin(start)
  /\ srun = [stage |-> "VISUAL_ASSET_GENERATING", status |-> "running",
             deleting |-> FALSE, stops |-> 0]
  /\ assets = {} /\ objects = {} /\ files = {} /\ leaked = {}
  /\ cleanup = [k \in {} |-> 0]

-----------------------------------------------------------------------------
(* The reservation (postgres_usage_storage.py). *)

(* cancel_owned: only what nothing was billed to. *)
QuotaCancelled(q) == IF q \in {"reserved", "authorized"} THEN "cancelled" ELSE q

(* settle_owned: not when nothing was attempted. *)
QuotaSettled(q) == IF q \in {"authorized", "consumed"} THEN "settled" ELSE q

(* finalize_revoked_owned *)
QuotaFinalized(q) == IF q = "reserved" THEN "cancelled" ELSE QuotaSettled(q)

(* The quota step of fail_claimed_and_cancel_quota. *)
QuotaAfterFailure(q, billed) ==
  IF billed THEN QuotaSettled(q) ELSE QuotaCancelled(q)

Open(b) == reserved[b] \in {"reserved", "authorized", "consumed"}

-----------------------------------------------------------------------------
(* The request: _dispatch_image. *)

Ask(b, phase) == request' = [request EXCEPT ![b] = phase]

(* generate-image activates its result, regenerate-image does not.         *)
(* The dispatch of the whole-run trigger is DispatchCAS.                   *)
ReserveImage(b) ==
  /\ request[b] = "new"
  /\ srun.stage \in SceneStages
  /\ \E s \in Scenes, active \in BOOLEAN :
       /\ srun.stage = "VISUAL_PLAN_REVIEW" => active
       /\ batch' = [batch EXCEPT ![b] =
                      [IdleBatch EXCEPT !.wanted = {s}, !.active = active]]
  /\ reserved' = [reserved EXCEPT ![b] = "reserved"]
  /\ Ask(b, "reserved")
  /\ UNCHANGED <<srun, row, assets, objects, files, cleanup, leaked>>

RecordImage(b) ==
  /\ request[b] = "reserved"
  /\ row' = [row EXCEPT ![b] = "pending"]
  /\ Ask(b, "recorded")
  /\ UNCHANGED <<srun, batch, reserved, assets, objects, files, cleanup, leaked>>

PublishImage(b) ==
  /\ request[b] = "recorded"
  /\ Ask(b, "published")
  /\ UNCHANGED <<srun, batch, row, reserved, assets, objects, files, cleanup,
                 leaked>>

PromoteImage(b) ==
  /\ request[b] = "published"
  /\ row' = [row EXCEPT ![b] = IF @ = "pending" THEN "queued" ELSE @]
  /\ Ask(b, "promoted")
  /\ UNCHANGED <<srun, batch, reserved, assets, objects, files, cleanup, leaked>>

(* The run is read again: a stop during the dispatch undoes it. *)
ReadRunAgain(b) ==
  /\ request[b] = "promoted"
  /\ Ask(b, IF srun.status = "cancelled" THEN "undo" ELSE "done")
  /\ UNCHANGED <<srun, batch, row, reserved, assets, objects, files, cleanup,
                 leaked>>

Revoked(b) ==
  row' = [row EXCEPT ![b] = IF @ = "success" THEN @ ELSE "revoked"]

(* dispatcher.cancel, sent only if the publish did not raise, is a message *)
(* to a worker that may come too late; the row is what counts.             *)
UndoImage(b) ==
  /\ request[b] = "undo"
  /\ Revoked(b)
  /\ Ask(b, "refund")
  /\ UNCHANGED <<srun, batch, reserved, assets, objects, files, cleanup, leaked>>

(* Mutant: the request gives up without its quota. *)
RefundForgotten(b) ==
  /\ request[b] \in {"refund", "unmarked"}
  /\ Ask(b, IF request[b] = "refund" THEN "failed" ELSE "abandoned")
  /\ UNCHANGED <<srun, batch, row, reserved, assets, objects, files, cleanup,
                 leaked>>

(* The user is told 503 or 409. *)
RefundImage(b) ==
  /\ request[b] \in {"refund", "unmarked"}
  /\ reserved' = [reserved EXCEPT ![b] = QuotaCancelled(@)]
  /\ Ask(b, IF request[b] = "refund" THEN "failed" ELSE "abandoned")
  /\ UNCHANGED <<srun, batch, row, assets, objects, files, cleanup, leaked>>

(* The broker cannot be read or the row not be written: only the           *)
(* reservation is to be undone.  The publish raises, and may have reached  *)
(* the broker all the same; the broker is another one by now, or the       *)
(* promotion fails.  A failure to mark the row is only logged.             *)
RequestFails(b) ==
  /\ request[b] \in {"reserved", "recorded", "published", "undo"}
  /\ Ask(b, IF request[b] = "reserved" THEN "refund"
            ELSE IF request[b] = "undo" THEN "unmarked" ELSE "undo")
  /\ UNCHANGED <<srun, batch, row, reserved, assets, objects, files, cleanup,
                 leaked>>

RequestStep(b) ==
  \/ ReserveImage(b) \/ RecordImage(b) \/ PublishImage(b) \/ PromoteImage(b)
  \/ ReadRunAgain(b) \/ UndoImage(b) \/ RefundImage(b)

-----------------------------------------------------------------------------
(* The delivery. *)

In(b, phase) == batch[b].phase = phase
Go(b, phase) == batch' = [batch EXCEPT ![b].phase = phase]

(* The process ends with the delivery, or turns to another one: what it    *)
(* held in memory is gone. *)
LeftBy(b, phase) ==
  [IdleBatch EXCEPT !.phase = phase, !.delivery = batch[b].delivery,
     !.wanted = batch[b].wanted, !.active = batch[b].active,
     !.limit = batch[b].limit]
Leave(b, phase) == batch' = [batch EXCEPT ![b] = LeftBy(b, phase)]

Published(b) ==
  /\ request[b] \notin {"new", "reserved", "recorded"}
  /\ row[b] # "none"

Waiting(b) ==
  /\ Published(b)
  /\ batch[b].phase \in {"idle", "retry", "crashed"}
  /\ MayRedeliver(b)

(* run_task fails the run while it is in a safe stage. *)
RunFailed ==
  IF srun.stage \in SafeFailureStages /\ srun.status = "running"
  THEN [srun EXCEPT !.stage = "FAILED", !.status = "failed"] ELSE srun

(* The frame of run_task: claim, guards, then the loop over the scenes.  A *)
(* retry or a redelivery starts at the first scene again.                  *)
StartBatch(b) ==
  /\ Waiting(b)
  /\ row[b] \in {"pending", "queued", "failed"}
  /\ srun.status # "cancelled" /\ srun.stage \in SceneStages /\ Open(b)
  /\ row' = [row EXCEPT ![b] = "running"]
  /\ batch' = [batch EXCEPT ![b].phase = "next", ![b].delivery = @ + 1,
                 ![b].todo = batch[b].wanted]
  /\ UNCHANGED <<srun, request, reserved, assets, objects, files, cleanup, leaked>>

(* A claim that another delivery holds or ended is an idempotent skip,     *)
(* which settles; a guard or a settled reservation rejects the row, a      *)
(* cancelled one fails it.                                                 *)
RefuseBatch(b) ==
  /\ Waiting(b)
  /\ \/ /\ row[b] \notin {"pending", "queued", "failed"}
        /\ reserved' = [reserved EXCEPT ![b] = QuotaSettled(@)]
        /\ Go(b, "ended")
        /\ UNCHANGED <<srun, row>>
     \/ /\ row[b] \in {"pending", "queued", "failed"}
        /\ \/ srun.status = "cancelled" \/ srun.stage \notin SceneStages
           \/ reserved[b] = "settled"
        /\ row' = [row EXCEPT ![b] = "rejected"]
        /\ reserved' = [reserved EXCEPT ![b] = QuotaCancelled(@)]
        /\ Go(b, "raised")
        /\ UNCHANGED srun
     \/ /\ row[b] \in {"pending", "queued", "failed"}
        /\ srun.status # "cancelled" /\ srun.stage \in SceneStages
        /\ reserved[b] = "cancelled"
        /\ row' = [row EXCEPT ![b] = "failed"]
        /\ srun' = RunFailed
        /\ Go(b, "raised")
        /\ UNCHANGED reserved
  /\ UNCHANGED <<request, assets, objects, files, cleanup, leaked>>

(* SceneBatch.checkpoint *)
Stopped(b) == srun.status = "cancelled" \/ row[b] = "revoked"

Cancelled(b) ==
  batch' = [batch EXCEPT ![b].cancelled = TRUE, ![b].phase = "finish"]

(* The upload under way, if nobody else knows of it. *)
Orphan(b) ==
  {k \in objects : /\ k = Key(b) /\ k \notin DOMAIN cleanup
                   /\ \A a \in assets : a.key # k}

(* An exception leaves the delivery: it deletes the files it still owns,   *)
(* and fails the claimed task, its run and its quota in one transaction.   *)
FailsClaimed(b) ==
  /\ files' = files \ batch[b].local
  /\ leaked' = leaked \cup Orphan(b)
  /\ Leave(b, "raised")
  /\ IF row[b] = "running"
     THEN /\ row' = [row EXCEPT ![b] = "failed"]
          /\ srun' = RunFailed
          /\ reserved' = [reserved EXCEPT ![b] =
                            QuotaAfterFailure(@, batch[b].billed)]
     ELSE UNCHANGED <<row, srun, reserved>>

(* A provider timeout or rate limit is retried while there are retries.    *)
Retries(b) ==
  /\ MayRedeliver(b)
  /\ files' = files \ batch[b].local
  /\ Leave(b, "retry")
  /\ row' = [row EXCEPT ![b] = IF @ = "running" THEN "failed" ELSE @]
  /\ UNCHANGED <<srun, reserved, leaked>>

(* An error of one scene is collected. *)
SceneFails(b) ==
  /\ batch' = [batch EXCEPT ![b].bad = @ \cup {batch[b].scene},
                 ![b].phase = "next"]
  /\ leaked' = leaked \cup Orphan(b)

NextScene(b) ==
  /\ In(b, "next")
  /\ IF batch[b].todo = {} THEN Go(b, "finish")
     ELSE IF Stopped(b) THEN Cancelled(b)
     ELSE \E s \in batch[b].todo :
            batch' = [batch EXCEPT ![b].scene = s, ![b].todo = @ \ {s},
                        ![b].phase = "generate"]
  /\ UNCHANGED <<srun, request, row, reserved, assets, objects, files, cleanup,
                 leaked>>

(* The file is touched before the checkpoint. *)
Generate(b) ==
  /\ In(b, "generate")
  /\ files' = files \cup {Key(b)}
  /\ batch' = [batch EXCEPT ![b].local = @ \cup {Key(b)},
                 ![b].cancelled = Stopped(b),
                 ![b].phase = IF Stopped(b) THEN "finish" ELSE "authorize"]
  /\ UNCHANGED <<srun, request, row, reserved, assets, objects, cleanup, leaked>>

(* authorize_owned_provider_attempt: a closed owner is denied, except for  *)
(* an attempt that a first delivery has made.  After a denial too comes    *)
(* the checkpoint.                                                         *)
Authorize(b) ==
  /\ In(b, "authorize")
  /\ \/ /\ Open(b) \/ batch[b].delivery > 1
        /\ reserved' = [reserved EXCEPT ![b] =
                          IF @ = "reserved" THEN "authorized" ELSE @]
        /\ batch' = [batch EXCEPT ![b].phase = "generated", ![b].billed = TRUE]
        /\ UNCHANGED <<srun, row, files, leaked>>
     \/ /\ ~Open(b) /\ Stopped(b)
        /\ Cancelled(b)
        /\ UNCHANGED <<srun, row, reserved, files, leaked>>
     \/ ~Open(b) /\ ~Stopped(b) /\ FailsClaimed(b)
  /\ UNCHANGED <<request, assets, objects, cleanup>>

(* The answer of the provider, which writes the file; the checkpoint after *)
(* it comes first in any case.                                             *)
ProviderAnswers(b) ==
  /\ In(b, "generated")
  /\ IF Stopped(b) THEN Cancelled(b) /\ UNCHANGED files
     ELSE Go(b, "upload") /\ files' = files \cup {Key(b)}
  /\ UNCHANGED <<srun, request, row, reserved, assets, objects, cleanup, leaked>>

ProviderFails(b) ==
  /\ In(b, "generated")
  /\ ~Stopped(b)
  /\ \/ SceneFails(b) /\ UNCHANGED <<srun, row, reserved, files>>
     \/ Retries(b)
     \/ FailsClaimed(b)
  /\ UNCHANGED <<request, assets, objects, cleanup>>

(* The parent of a timed-out worker may have deleted the file.             *)
Upload(b) ==
  /\ In(b, "upload")
  /\ \/ /\ Stopped(b)
        /\ Cancelled(b)
        /\ UNCHANGED <<objects, leaked>>
     \/ /\ ~Stopped(b) /\ Key(b) \in files
        /\ objects' = objects \cup {Key(b)}
        /\ Go(b, "uploaded")
        /\ UNCHANGED leaked
     \/ /\ ~Stopped(b) /\ Key(b) \notin files
        /\ SceneFails(b)
        /\ UNCHANGED objects
  /\ UNCHANGED <<srun, request, row, reserved, assets, files, cleanup>>

(* Mutant: the file is the batch's until the save was acknowledged. *)
AfterUploadKeeping(b) ==
  /\ In(b, "uploaded")
  /\ \/ Stopped(b) /\ Cancelled(b) /\ objects' = objects \ {Key(b)}
     \/ ~Stopped(b) /\ Go(b, "save") /\ UNCHANGED objects
  /\ UNCHANGED <<srun, request, row, reserved, assets, files, cleanup, leaked>>

(* Cancelled while the upload was under way: the batch deletes its object, *)
(* and a failure of the SDK to do so is only logged.                       *)
AfterUpload(b) ==
  /\ In(b, "uploaded")
  /\ \/ /\ Stopped(b)
        /\ Cancelled(b)
        /\ objects' = objects \ {Key(b)}
     \/ /\ ~Stopped(b)
        /\ batch' = [batch EXCEPT ![b].phase = "save", ![b].local = @ \ {Key(b)}]
        /\ UNCHANGED objects
  /\ UNCHANGED <<srun, request, row, reserved, assets, files, cleanup, leaked>>

DeletionFails(b) ==
  /\ In(b, "uploaded")
  /\ Stopped(b)
  /\ Cancelled(b)
  /\ leaked' = leaked \cup {Key(b)}
  /\ UNCHANGED <<srun, request, row, reserved, assets, objects, files, cleanup>>

AssetId(b) == <<b, batch[b].scene>>
OfScene(s) == {a \in assets : a.id[2] = s}

(* save_asset, under the scene's advisory lock. *)
Saved(b) ==
  {IF batch[b].active /\ a \in OfScene(batch[b].scene)
   THEN [a EXCEPT !.active = FALSE] ELSE a : a \in assets}
  \cup {[id |-> AssetId(b), key |-> Key(b), active |-> batch[b].active,
    version |-> 1 + Max({0} \cup {a.version : a \in OfScene(batch[b].scene)})]}

NewAsset(b) ==
  /\ In(b, "save")
  /\ \A a \in assets : a.id # AssetId(b)

Accepts == ~srun.deleting /\ srun.status # "cancelled"

(* A second delivery is given the row of the first one, and its upload has *)
(* no owner.                                                               *)
Save(b) ==
  /\ In(b, "save")
  /\ \/ /\ ~NewAsset(b)
        /\ Go(b, "saved")
        /\ leaked' = leaked \cup {Key(b)}
        /\ UNCHANGED assets
     \/ /\ NewAsset(b) /\ ~Accepts
        /\ Go(b, "discard")
        /\ UNCHANGED <<assets, leaked>>
     \/ /\ NewAsset(b) /\ Accepts
        /\ assets' = Saved(b)
        /\ Go(b, "saved")
        /\ UNCHANGED leaked
  /\ UNCHANGED <<srun, request, row, reserved, objects, files, cleanup>>

(* The row is stored although its acknowledgement fails. *)
SaveUnanswered(b) ==
  /\ NewAsset(b) /\ Accepts
  /\ assets' = Saved(b)
  /\ batch' = [batch EXCEPT ![b].bad = @ \cup {batch[b].scene},
                 ![b].phase = "next"]
  /\ UNCHANGED <<srun, request, row, reserved, objects, files, cleanup, leaked>>

(* Cancelled now, the accepted asset is kept. *)
AfterSave(b) ==
  /\ In(b, "saved")
  /\ batch' = [batch EXCEPT ![b].ok = @ \cup {batch[b].scene},
                 ![b].cancelled = Stopped(b),
                 ![b].phase = IF Stopped(b) THEN "finish" ELSE "record"]
  /\ UNCHANGED <<srun, request, row, reserved, assets, objects, files, cleanup,
                 leaked>>

(* record_provider_call: a reservation that was cancelled refuses it, one  *)
(* that was settled too, unless the first delivery has recorded the call.  *)
(* An error ends the delivery.                                             *)
RecordCall(b) ==
  /\ In(b, "record")
  /\ \/ /\ \/ Open(b)
           \/ reserved[b] = "settled" /\ batch[b].delivery > 1
        /\ reserved' = [reserved EXCEPT ![b] = IF Open(b) THEN "consumed" ELSE @]
        /\ Go(b, "recorded")
        /\ UNCHANGED <<srun, row, files, leaked>>
     \/ ~Open(b) /\ FailsClaimed(b)
  /\ UNCHANGED <<request, assets, objects, cleanup>>

(* Cancelled now, the accepted asset is taken back. *)
AfterRecord(b) ==
  /\ In(b, "recorded")
  /\ Go(b, IF Stopped(b) THEN "retract" ELSE "next")
  /\ UNCHANGED <<srun, request, row, reserved, assets, objects, files, cleanup,
                 leaked>>

Retract(b) ==
  /\ In(b, "retract")
  /\ assets' = {a \in assets : a.id # AssetId(b)}
  /\ batch' = [batch EXCEPT ![b].ok = @ \ {batch[b].scene},
                 ![b].phase = "discard"]
  /\ leaked' = leaked \cup {a.key : a \in {x \in assets :
                              x.id = AssetId(b) /\ x.key # Key(b)}}
  /\ UNCHANGED <<srun, request, row, reserved, objects, files, cleanup>>

(* Mutant: nothing is recorded, the object is to be deleted at once. *)
DiscardUnrecorded(b) ==
  /\ In(b, "discard")
  /\ Go(b, "tidy")
  /\ UNCHANGED <<srun, request, row, reserved, assets, objects, files, cleanup,
                 leaked>>

(* discard_rejected_upload: a durable row before the first attempt. *)
Discard(b) ==
  /\ In(b, "discard")
  /\ cleanup' = [k \in DOMAIN cleanup \cup {Key(b)} |->
                   IF k = Key(b) THEN 0 ELSE cleanup[k]]
  /\ Go(b, "tidy")
  /\ UNCHANGED <<srun, request, row, reserved, assets, objects, files, leaked>>

Forgotten(k) == [x \in DOMAIN cleanup \ {k} |-> cleanup[x]]

(* One more failure, if the row is still there. *)
FailedAgain(k) ==
  [x \in DOMAIN cleanup |-> IF x = k THEN cleanup[x] + 1 ELSE cleanup[x]]

TidyUp(b) ==
  /\ In(b, "tidy")
  /\ objects' = objects \ {Key(b)}
  /\ files' = files \ {Key(b)}
  /\ cleanup' = Forgotten(Key(b))
  /\ Cancelled(b)
  /\ UNCHANGED <<srun, request, row, reserved, assets, leaked>>

TidyUpFails(b) ==
  /\ In(b, "tidy")
  /\ cleanup' = FailedAgain(Key(b))
  /\ Cancelled(b)
  /\ UNCHANGED <<srun, request, row, reserved, assets, objects, files, leaked>>

-----------------------------------------------------------------------------
(* The end of a batch. *)

LastCheckpoint(b) ==
  /\ In(b, "finish")
  /\ batch' = [batch EXCEPT ![b].cancelled = @ \/ Stopped(b),
                 ![b].phase = "finalize"]
  /\ UNCHANGED <<srun, request, row, reserved, assets, objects, files, cleanup,
                 leaked>>

AllFailed(b) == batch[b].bad = batch[b].wanted

(* Mutant: the stage the run is in does not matter. *)
MovesAnyStage(b) == srun.status # "cancelled"

(* conditional_update_run of SceneBatch.finish *)
Moves(b) ==
  /\ srun.stage \in IF AllFailed(b) THEN SafeFailureStages ELSE SceneStages
  /\ srun.status # "cancelled"

Finalize(b) ==
  /\ In(b, "finalize")
  /\ srun' = IF batch[b].cancelled \/ ~Moves(b) THEN srun
             ELSE IF AllFailed(b)
             THEN [srun EXCEPT !.stage = "FAILED", !.status = "failed"]
             ELSE [srun EXCEPT !.stage = "VISUAL_ASSET_REVIEW", !.status = "running"]
  /\ files' = files \ batch[b].local
  /\ batch' = [batch EXCEPT ![b].phase = "mark",
                 ![b].cancelled = @ \/ srun.status = "cancelled"]
  /\ UNCHANGED <<request, row, reserved, assets, objects, cleanup, leaked>>

(* A batch with a failed scene fails its row. *)
MarkRow(b) ==
  /\ In(b, "mark")
  /\ row' = [row EXCEPT ![b] =
               IF @ # "running" THEN @
               ELSE IF batch[b].cancelled \/ batch[b].bad # {} THEN "failed"
               ELSE "success"]
  /\ Go(b, "settle")
  /\ UNCHANGED <<srun, request, reserved, assets, objects, files, cleanup, leaked>>

SettleBatch(b) ==
  /\ In(b, "settle")
  /\ reserved' = [reserved EXCEPT ![b] = QuotaSettled(@)]
  /\ Leave(b, "ended")
  /\ UNCHANGED <<srun, request, row, assets, objects, files, cleanup, leaked>>

BatchStep(b) ==
  \/ StartBatch(b) \/ RefuseBatch(b) \/ NextScene(b) \/ Generate(b)
  \/ Authorize(b) \/ ProviderAnswers(b) \/ Upload(b) \/ AfterUpload(b)
  \/ Save(b) \/ AfterSave(b) \/ RecordCall(b) \/ AfterRecord(b) \/ Retract(b)
  \/ Discard(b) \/ TidyUp(b) \/ LastCheckpoint(b) \/ Finalize(b)
  \/ MarkRow(b) \/ SettleBatch(b)

-----------------------------------------------------------------------------
(* Statements that raise, time limits and deaths. *)

Working(b) == batch[b].phase \in WorkPhases

(* A checkpoint or a statement raises: in the loop the scene has failed,   *)
(* around it and in the accounting the delivery; the marking of the row is *)
(* only logged.                                                            *)
StatementFails(b) ==
  /\ Working(b)
  /\ IF batch[b].phase \in {"next", "record", "recorded", "finish", "finalize",
                            "settle"}
     THEN FailsClaimed(b)
     ELSE /\ IF In(b, "mark") THEN Go(b, "settle") /\ UNCHANGED leaked
             ELSE SceneFails(b)
          /\ UNCHANGED <<srun, row, reserved, files>>
  /\ UNCHANGED <<request, assets, objects, cleanup>>

(* SoftTimeLimitExceeded passes every handler of the batch; only marking   *)
(* the row swallows it.  Before the claim it leaves the row as it is.  The *)
(* message is acked.                                                       *)
SoftTimeLimit(b) ==
  /\ \/ Working(b) /\ ~In(b, "mark") /\ FailsClaimed(b)
     \/ /\ In(b, "mark") /\ Go(b, "settle")
        /\ UNCHANGED <<srun, row, reserved, files, leaked>>
     \/ /\ Waiting(b) /\ Go(b, "raised")
        /\ UNCHANGED <<srun, row, reserved, files, leaked>>
  /\ UNCHANGED <<request, assets, objects, cleanup>>

(* At the hard limit the parent acks the message and ends the claim, while *)
(* the worker goes on; once per batch (a bound).                           *)
HardTimeLimit(b) ==
  /\ Working(b)
  /\ batch[b].limit.step = "none"
  /\ batch' = [batch EXCEPT ![b].limit =
                 [step |-> "read", of |-> batch[b].delivery, saved |-> {}]]
  /\ IF row[b] = "running"
     THEN /\ row' = [row EXCEPT ![b] = "failed"]
          /\ srun' = RunFailed
          /\ reserved' = [reserved EXCEPT ![b] = QuotaFinalized(@)]
     ELSE UNCHANGED <<row, srun, reserved>>
  /\ UNCHANGED <<request, assets, objects, files, cleanup, leaked>>

(* _cleanup_hard_timeout_outputs looks the assets' files up ...             *)
ReadSaved(b) ==
  /\ batch[b].limit.step = "read"
  /\ batch' = [batch EXCEPT ![b].limit =
                 [@ EXCEPT !.step = "unlink",
                           !.saved = {k \in {a.key : a \in assets} : k[1] = b}]]
  /\ UNCHANGED <<srun, request, row, reserved, assets, objects, files, cleanup,
                 leaked>>

(* ... and deletes the others of that process.                             *)
UnlinkRest(b) ==
  /\ batch[b].limit.step = "unlink"
  /\ files' = {k \in files : k[1] = b /\ k[2] = batch[b].limit.of
                               => k \in batch[b].limit.saved}
  /\ batch' = [batch EXCEPT ![b].limit.step = "kill"]
  /\ UNCHANGED <<srun, request, row, reserved, assets, objects, cleanup, leaked>>

Killed(limit) == [limit EXCEPT !.step = IF @ = "kill" THEN "done" ELSE @]

Dies(b, phase) ==
  /\ batch' = [batch EXCEPT ![b] = [LeftBy(b, phase) EXCEPT !.limit = Killed(@)]]
  /\ leaked' = leaked \cup Orphan(b)

(* Only then is the worker killed, if it is still in that delivery.        *)
KillWorker(b) ==
  /\ batch[b].limit.step = "kill"
  /\ IF Working(b) /\ batch[b].limit.of = batch[b].delivery
     THEN Dies(b, "killed")
     ELSE /\ batch' = [batch EXCEPT ![b].limit.step = "done"]
          /\ UNCHANGED leaked
  /\ UNCHANGED <<srun, request, row, reserved, assets, objects, files, cleanup>>

(* The worker dies.  Its message is delivered again unless it was acked.   *)
Crash(b) ==
  /\ Working(b)
  /\ Dies(b, IF /\ batch[b].limit.step # "none"
                /\ batch[b].limit.of = batch[b].delivery
             THEN "killed" ELSE "crashed")
  /\ UNCHANGED <<srun, request, row, reserved, assets, objects, files, cleanup>>

(* The reconciler fails the row of a dead delivery and cancels its quota;  *)
(* it leaves the run alone for this kind.  Its steps are in                *)
(* DispatchReconciler.                                                     *)
Reopen(b) ==
  /\ row[b] = "running"
  /\ ~Working(b)
  /\ row' = [row EXCEPT ![b] = "failed"]
  /\ reserved' = [reserved EXCEPT ![b] = QuotaCancelled(@)]
  /\ UNCHANGED <<srun, request, batch, assets, objects, files, cleanup, leaked>>

CleanStep(b) == ReadSaved(b) \/ UnlinkRest(b) \/ KillWorker(b) \/ Reopen(b)

BatchFault(b) ==
  \/ RequestFails(b) \/ ProviderFails(b) \/ DeletionFails(b)
  \/ SaveUnanswered(b) \/ TidyUpFails(b) \/ StatementFails(b)
  \/ SoftTimeLimit(b) \/ HardTimeLimit(b) \/ Crash(b)

-----------------------------------------------------------------------------
(* The rejected uploads, and the user. *)

(* retry_failed_deletions of one record: object first, row last. *)
RetryCleanup(k) ==
  /\ k \in DOMAIN cleanup
  /\ cleanup[k] < CleanupRetries
  /\ objects' = objects \ {k}
  /\ files' = files \ {k}
  /\ cleanup' = Forgotten(k)
  /\ UNCHANGED <<srun, request, batch, row, reserved, assets, leaked>>

CleanupFails(k) ==
  /\ k \in DOMAIN cleanup
  /\ cleanup[k] < CleanupRetries
  /\ cleanup' = FailedAgain(k)
  /\ \/ objects' = objects \ {k}
     \/ UNCHANGED objects
  /\ UNCHANGED <<srun, request, batch, row, reserved, assets, files, leaked>>

(* The rows that are live are marked; the owners released are those of     *)
(* RunControl. *)
RevokeLive ==
  /\ row' = [b \in Batches |-> IF row[b] \in LiveRows THEN "revoked" ELSE row[b]]
  /\ reserved' = [b \in Batches |->
                    IF row[b] \in LiveRows THEN QuotaFinalized(reserved[b])
                    ELSE reserved[b]]

(* A stop, in a generating stage only, rolls the stage back. *)
StopRun ==
  /\ srun.status # "cancelled"
  /\ srun.stage \in {"VISUAL_ASSET_GENERATING", "AUDIO_GENERATING"}
  /\ srun.stops < MaxStops
  /\ srun' = [srun EXCEPT !.status = "cancelled", !.stops = @ + 1,
                !.stage = IF @ = "AUDIO_GENERATING" THEN "VISUAL_ASSET_REVIEW"
                          ELSE "VISUAL_PLAN_REVIEW"]
  /\ RevokeLive
  /\ UNCHANGED <<request, batch, assets, objects, files, cleanup, leaked>>

(* The first half of deleting a run, in any stage; the second half may     *)
(* fail and leave the run cancelled.                                       *)
CancelRun ==
  /\ srun.status # "cancelled"
  /\ srun.stops < MaxStops
  /\ srun' = [srun EXCEPT !.status = "cancelled", !.stops = @ + 1]
  /\ RevokeLive
  /\ UNCHANGED <<request, batch, assets, objects, files, cleanup, leaked>>

(* A failed run is in FAILED and is not followed any further.              *)
ResumeRun ==
  /\ srun.status = "cancelled"
  /\ srun' = [srun EXCEPT !.status = "running"]
  /\ UNCHANGED <<request, batch, row, reserved, assets, objects, files, cleanup,
                 leaked>>

ApproveAssets ==
  /\ srun.status = "running" /\ srun.stage = "VISUAL_ASSET_REVIEW"
  /\ srun' = [srun EXCEPT !.stage = "AUDIO_GENERATING"]
  /\ UNCHANGED <<request, batch, row, reserved, assets, objects, files, cleanup,
                 leaked>>

(* The project is marked before its runs are deleted. *)
DeleteProject ==
  /\ ~srun.deleting
  /\ srun.stops < MaxStops
  /\ srun' = [srun EXCEPT !.deleting = TRUE, !.stops = @ + 1]
  /\ UNCHANGED <<request, batch, row, reserved, assets, objects, files, cleanup,
                 leaked>>

(* Mutant: the asset that was active stays so. *)
ActivatedToo(id) ==
  {IF a.id = id THEN [a EXCEPT !.active = TRUE] ELSE a : a \in assets}

(* set_active *)
Activated(id) ==
  {IF a \in OfScene(id[2]) THEN [a EXCEPT !.active = (a.id = id)] ELSE a :
     a \in assets}

(* select_active checks that the asset exists; it may be gone by then.     *)
SelectAsset(id) ==
  /\ \E a \in assets : a.id = id /\ ~a.active
  /\ assets' = Activated(id)
  /\ UNCHANGED <<srun, request, batch, row, reserved, objects, files, cleanup,
                 leaked>>

UserStep == StopRun \/ CancelRun \/ ResumeRun \/ ApproveAssets \/ DeleteProject

SceneStep ==
  \/ \E b \in Batches : RequestStep(b) \/ BatchStep(b) \/ CleanStep(b)
  \/ \E k \in DOMAIN cleanup : RetryCleanup(k)
  \/ \E id \in Batches \X Scenes : SelectAsset(id)
  \/ UserStep

SceneFault ==
  \/ \E b \in Batches : BatchFault(b)
  \/ \E k \in DOMAIN cleanup : CleanupFails(k)

SceneNext ==
  \/ SceneStep /\ UNCHANGED faultsLeft
  \/ SceneFault /\ faultsLeft > 0 /\ faultsLeft' = faultsLeft - 1

SceneSafe == SceneInit /\ [][SceneNext]_sceneVars

-----------------------------------------------------------------------------
(* Properties. *)

(* visual_asset_service.py:4-5, "Exactly one asset per scene is marked     *)
(* active", as far as the code keeps it: never two, whatever batches,      *)
(* deliveries and selections overlap.  None is left when the active asset  *)
(* is taken back (AfterRecord).                                            *)
OneActiveAsset ==
  \A s \in Scenes : Cardinality({a \in OfScene(s) : a.active}) <= 1

(* Every object in the store has somebody who knows it: an asset, a        *)
(* clean-up record or a delivery at work; but for those lost by a failed   *)
(* SDK call or statement, by a time limit or a dead worker, and for one of *)
(* the two uploads of a scene that a second delivery generated again.      *)
UploadsAccounted ==
  \A k \in objects :
    \/ \E a \in assets : a.key = k
    \/ k \in DOMAIN cleanup \cup leaked
    \/ k = Key(k[1]) /\ batch[k[1]].phase \in {"uploaded", "save", "discard"}

(* The parent of a timed-out worker has deleted files, and the key is one  *)
(* of that worker's that no asset named yet when the parent looked.        *)
SavedTooLate(k) ==
  LET limit == batch[k[1]].limit IN
    k[2] = limit.of /\ limit.step \in {"kill", "done"} /\ k \notin limit.saved

(* The file of an accepted asset is never deleted: not by a batch that     *)
(* cleans up after an error or a soft limit (the save may have been stored *)
(* although it raised), nor by another delivery, nor by the parent of a    *)
(* worker at its hard limit, except that the worker is killed last, and    *)
(* the parent deletes the file of an asset saved after it looked.          *)
AssetFilesStay ==
  \A a \in assets : a.key \in files \/ SavedTooLate(a.key)

(* A batch that comes too late finds a stopped or an approved run as the   *)
(* user left it, though it has no claim and its last checkpoint was before *)
(* the stop (scene_batch_lifecycle.py:128).                                *)
LateBatchSparesRun ==
  [][srun.status = "cancelled" \/ srun.stage = "AUDIO_GENERATING"
       => UserStep \/ srun' = srun]_sceneVars

(* A request that tells the user it failed leaves nothing reserved, and no *)
(* row that anybody would still execute unless marking it failed.  What a  *)
(* delivery that was faster has billed is not given back: that reservation *)
(* is settled with the delivery, unless an error, a limit or a crash ends  *)
(* it after its row was revoked (nobody settles it then).                  *)
FailedRequestLeavesNothing ==
  \A b \in Batches : request[b] \in {"failed", "abandoned"} =>
    /\ reserved[b] \in {"consumed", "cancelled", "settled"}
    /\ reserved[b] = "consumed" => batch[b].phase \notin {"idle", "ended"}
    /\ request[b] = "failed" => row[b] \notin LiveRows

=============================================================================

---------------------------- MODULE MediaUploads ----------------------------
(***************************************************************************)
(* Media uploads of one workspace: the intent that owns an upload          *)
(* (postgres_upload_intent_storage.py), the request that uploads and       *)
(* saves (media_asset_service._store_asset), the storage budget            *)
(* (storage_policy.py), and the sweep that reconciles intents whose lease  *)
(* has expired (media_upload_reconciliation.py).                           *)
(*                                                                         *)
(* The database and the object store are written one after the other, and  *)
(* the process may die in between: every statement and every call of the   *)
(* store is an action.  A write the store has accepted may land after its  *)
(* process is gone.                                                        *)
(*                                                                         *)
(* Data: an upload names its intent, its key and its asset.  Sizes are     *)
(* small numbers.  A lease is live or not; leases run out at any time.     *)
(***************************************************************************)
EXTENDS Naturals, FiniteSets

CONSTANTS
  Uploads,       \* attempts to store a media file
  Big,           \* those of two bytes; the others have one
  Sweepers,      \* reconcile_media_uploads passes that may overlap
  MaxBytes,      \* MEDIA_MAX_STORED_BYTES, 0 for no limit
  MaxAssets,     \* MEDIA_MAX_ASSET_COUNT, 0 for no limit
  MaxReserved,   \* MEDIA_MAX_RESERVED_BYTES, 0 for no limit
  CleanupLimit,  \* max_retries of a clean-up
  UploadFaults   \* what may go wrong: cancel, put, raise, save, ack, delete,
                 \* crash, sweeper

ASSUME UploadAssumption ==
  /\ {MaxBytes, MaxAssets, MaxReserved} \subseteq Nat
  /\ CleanupLimit \in Nat \ {0}

VARIABLES
  intent,  \* creator_media_upload_intents
  upload,  \* where the request of an upload is
  sweep,   \* the sweepers
  media,   \* keys with a row in creator_media_assets
  blobs    \* keys in the object store

uploadVars == <<intent, upload, sweep, media, blobs>>

(* The sum of the sizes: one byte of each upload and the second one of     *)
(* those that have it.                                                     *)
Size(u) == IF u \in Big THEN 2 ELSE 1
Bytes(S) == Cardinality(S) + Cardinality(S \cap Big)

NobodySweeps == "nobody"
Sweepable == {"pending", "uploaded", "cleanup_pending", "reclaiming",
              "late_upload_watch"}
Counted == Sweepable \cup {"exhausted"}
CanMaterialize == {"pending", "reclaiming", "late_upload_watch"}

UploadPhases == {"idle", "reserved", "uploading", "uploaded", "save",
                 "compensate", "release", "keep", "adrift", "landed", "ended"}
SweepPhases == {"idle", "next", "delete", "record", "failure"}

RestingSweep == [phase |-> "idle", prior |-> [u \in {} |-> "none"], key |-> NobodySweeps,
                 died |-> FALSE]

UploadTypeOK ==
  /\ intent \in [Uploads ->
       [state : Counted \cup {"none", "completed", "reclaimed"},
        reserved : 0 .. 2, live : BOOLEAN,
        token : Sweepers \cup {NobodySweeps}, retries : 0 .. CleanupLimit + 1]]
  /\ upload \in [Uploads -> UploadPhases]
  /\ \A s \in Sweepers : /\ sweep[s].phase \in SweepPhases
                         /\ DOMAIN sweep[s].prior \subseteq Uploads
                         /\ sweep[s].key \in Uploads \cup {NobodySweeps}
  /\ media \cup blobs \subseteq Uploads

UploadInit ==
  /\ intent = [u \in Uploads |-> [state |-> "none", reserved |-> 0,
                 live |-> FALSE, token |-> NobodySweeps, retries |-> 0]]
  /\ upload = [u \in Uploads |-> "idle"]
  /\ sweep = [s \in Sweepers |-> RestingSweep]
  /\ media = {} /\ blobs = {}

-----------------------------------------------------------------------------
(* The request. *)

Reserving == {u \in Uploads : intent[u].state \in Counted}
ReservedSlots == Cardinality({u \in Reserving : intent[u].reserved > 0})
ReservedBytes ==
  ReservedSlots + Cardinality({u \in Reserving : intent[u].reserved = 2})

Within(amount, limit) == limit = 0 \/ amount <= limit

(* Mutant: what is reserved for others is not counted. *)
FitsStored(u) ==
  /\ Within(Bytes(media) + Size(u), MaxBytes)
  /\ Within(Cardinality(media) + 1, MaxAssets)
  /\ Within(ReservedBytes + Size(u), MaxReserved)

(* ensure_budget, under the workspace's lock *)
Fits(u) ==
  /\ Within(Bytes(media) + ReservedBytes + Size(u), MaxBytes)
  /\ Within(Cardinality(media) + ReservedSlots + 1, MaxAssets)
  /\ Within(ReservedBytes + Size(u), MaxReserved)

At(u, phase) == upload' = [upload EXCEPT ![u] = phase]

(* create_upload_intent; a refused upload leaves nothing behind. *)
CreateIntent(u) ==
  /\ upload[u] = "idle"
  /\ Fits(u)
  /\ intent' = [intent EXCEPT ![u].state = "pending", ![u].live = TRUE,
                              ![u].reserved = Size(u)]
  /\ At(u, "reserved")
  /\ UNCHANGED <<sweep, media, blobs>>

(* compensate_upload(deletion_failed = FALSE): whatever state the intent   *)
(* is in. *)
Released(u) == [intent EXCEPT ![u].state = "reclaimed", ![u].reserved = 0]

(* The checkpoint before the upload; later cancellations are shielded.     *)
Checkpoint(u) ==
  /\ upload[u] = "reserved"
  /\ \/ At(u, "uploading") /\ UNCHANGED intent
     \/ /\ "cancel" \in UploadFaults
        /\ At(u, "ended")
        /\ intent' = Released(u)
  /\ UNCHANGED <<sweep, media, blobs>>

MayLand(u) == blobs' = blobs \cup {u} \/ UNCHANGED blobs

(* OSError, or the deadline has passed when the uploading thread ends, are *)
(* compensated; other errors of the SDK leave the intent to the sweep.     *)
Put(u) ==
  /\ upload[u] = "uploading"
  /\ \/ At(u, "uploaded") /\ blobs' = blobs \cup {u}
     \/ "put" \in UploadFaults /\ At(u, "compensate") /\ MayLand(u)
     \/ "raise" \in UploadFaults /\ At(u, "ended") /\ MayLand(u)
  /\ UNCHANGED <<intent, sweep, media>>

MarkUploaded(u) ==
  /\ upload[u] = "uploaded"
  /\ IF intent[u].state = "pending"
     THEN intent' = [intent EXCEPT ![u].state = "uploaded"] /\ At(u, "save")
     ELSE At(u, "compensate") /\ UNCHANGED intent
  /\ UNCHANGED <<sweep, media, blobs>>

(* Mutant: the row is inserted whatever became of the intent. *)
OwnsUploadAlways(u) == TRUE

OwnsUpload(u) == intent[u].state = "uploaded"

(* save_uploaded_asset: the intent is completed and the row inserted in    *)
(* one transaction.  The acknowledgement of the commit may be lost, and    *)
(* then nothing is compensated.                                            *)
SaveMedia(u) ==
  /\ upload[u] = "save"
  /\ \/ /\ OwnsUpload(u)
        /\ intent' = [intent EXCEPT ![u].state = "completed"]
        /\ media' = media \cup {u}
        /\ At(u, "ended")
     \/ /\ ~OwnsUpload(u) \/ "save" \in UploadFaults
        /\ At(u, "compensate")
        /\ UNCHANGED <<intent, media>>
     \/ /\ "ack" \in UploadFaults
        /\ At(u, "ended")
        /\ UNCHANGED <<intent, media>>
  /\ UNCHANGED <<sweep, blobs>>

(* _compensate_upload *)
DeleteUpload(u) ==
  /\ upload[u] = "compensate"
  /\ \/ At(u, "release") /\ blobs' = blobs \ {u}
     \/ "delete" \in UploadFaults /\ At(u, "keep") /\ UNCHANGED blobs
  /\ UNCHANGED <<intent, sweep, media>>

Kept(u) == [intent EXCEPT ![u].state = "cleanup_pending"]

Compensate(u) ==
  /\ upload[u] \in {"release", "keep"}
  /\ intent' = IF upload[u] = "release" THEN Released(u) ELSE Kept(u)
  /\ At(u, "ended")
  /\ UNCHANGED <<sweep, media, blobs>>

(* The process dies; a write that is under way may land afterwards.        *)
UploaderDies(u) ==
  /\ "crash" \in UploadFaults
  /\ upload[u] \notin {"idle", "adrift", "landed", "ended"}
  /\ At(u, IF upload[u] = "uploading" THEN "adrift" ELSE "ended")
  /\ UNCHANGED <<intent, sweep, media, blobs>>

LandLate(u) ==
  /\ upload[u] = "adrift"
  /\ blobs' = blobs \cup {u}
  /\ At(u, "landed")
  /\ UNCHANGED <<intent, sweep, media>>

UploadStep(u) ==
  \/ CreateIntent(u) \/ Checkpoint(u) \/ Put(u) \/ MarkUploaded(u)
  \/ SaveMedia(u) \/ DeleteUpload(u) \/ Compensate(u)

-----------------------------------------------------------------------------
(* The sweep. *)

LeaseRunsOut(u) ==
  /\ intent[u].live
  /\ intent[u].state \in Sweepable
  /\ intent' = [intent EXCEPT ![u].live = FALSE]
  /\ UNCHANGED <<upload, sweep, media, blobs>>

Expired == {u \in Uploads : intent[u].state \in Sweepable /\ ~intent[u].live}
Holds(s) == LET i == intent[sweep[s].key]
            IN i.state = "reclaiming" /\ i.token = s
GoSweep(s, phase) == sweep' = [sweep EXCEPT ![s].phase = phase]
Abort(s) ==
  sweep' = [sweep EXCEPT ![s] = [RestingSweep EXCEPT !.died = sweep[s].died]]

(* claim_expired_upload_intents: the sweep works off the states the rows   *)
(* had before they were claimed.                                           *)
ClaimExpired(s) ==
  /\ sweep[s].phase = "idle"
  /\ Expired # {}
  /\ intent' = [u \in Uploads |->
       IF u \in Expired
       THEN [intent[u] EXCEPT !.state = "reclaiming", !.live = TRUE, !.token = s]
       ELSE intent[u]]
  /\ sweep' = [sweep EXCEPT ![s].phase = "next",
                 ![s].prior = [u \in Expired |-> intent[u].state]]
  /\ UNCHANGED <<upload, media, blobs>>

(* asset_exists_for_key *)
LookUp(s, u) ==
  /\ sweep[s].phase = "next"
  /\ u \in DOMAIN sweep[s].prior
  /\ sweep' = [sweep EXCEPT ![s].phase = IF u \in media THEN "record" ELSE "delete",
                            ![s].key = u]
  /\ UNCHANGED <<intent, upload, media, blobs>>

(* A statement that misses its claim raises, and the sweep ends.           *)
Record(s, updated) ==
  IF Holds(s)
  THEN /\ intent' = [intent EXCEPT ![sweep[s].key] = updated]
       /\ sweep' = [sweep EXCEPT ![s].phase = "next", ![s].key = NobodySweeps,
            ![s].prior = [u \in DOMAIN sweep[s].prior \ {sweep[s].key} |->
                            sweep[s].prior[u]]]
  ELSE Abort(s) /\ UNCHANGED intent

DeleteExpired(s) ==
  /\ sweep[s].phase = "delete"
  /\ \/ GoSweep(s, "record") /\ blobs' = blobs \ {sweep[s].key}
     \/ "delete" \in UploadFaults /\ GoSweep(s, "failure") /\ UNCHANGED blobs
  /\ UNCHANGED <<intent, upload, media>>

(* Mutant: a deleted object is taken to be gone for good. *)
AfterDeletionFinal(s) == [intent[sweep[s].key] EXCEPT !.state = "reclaimed"]

(* complete_upload_intent, record_upload_reclaimed, watch_for_late_upload: *)
(* the second look at an intent that is watched releases its capacity.     *)
AfterDeletion(s) ==
  LET u == sweep[s].key
      prior == sweep[s].prior[u]
  IN CASE u \in media -> [intent[u] EXCEPT !.state = "completed"]
       [] u \notin media /\ prior \in CanMaterialize ->
            [intent[u] EXCEPT !.state = "late_upload_watch", !.live = TRUE,
               !.reserved = IF prior = "late_upload_watch" THEN 0 ELSE @]
       [] OTHER -> [intent[u] EXCEPT !.state = "reclaimed"]

RecordDeleted(s) ==
  /\ sweep[s].phase = "record"
  /\ Record(s, AfterDeletion(s))
  /\ UNCHANGED <<upload, media, blobs>>

(* Mutant: failures are never counted. *)
AfterFailureForever(s) ==
  [intent[sweep[s].key] EXCEPT !.state = "cleanup_pending"]

(* record_upload_cleanup_failure *)
AfterFailure(s) ==
  LET i == intent[sweep[s].key]
  IN [i EXCEPT !.retries = @ + 1,
        !.state = IF i.retries + 1 >= CleanupLimit THEN "exhausted"
                  ELSE "cleanup_pending"]

RecordFailure(s) ==
  /\ sweep[s].phase = "failure"
  /\ Record(s, AfterFailure(s))
  /\ UNCHANGED <<upload, media, blobs>>

SweepEnds(s) ==
  /\ sweep[s].phase = "next"
  /\ DOMAIN sweep[s].prior = {}
  /\ Abort(s)
  /\ UNCHANGED <<intent, upload, media, blobs>>

(* The worker dies (bound: once). *)
SweeperDies(s) ==
  /\ "sweeper" \in UploadFaults
  /\ sweep[s].phase # "idle"
  /\ ~sweep[s].died
  /\ sweep' = [sweep EXCEPT ![s] = [RestingSweep EXCEPT !.died = TRUE]]
  /\ UNCHANGED <<intent, upload, media, blobs>>

SweepStep(s) ==
  \/ ClaimExpired(s) \/ (\E u \in Uploads : LookUp(s, u)) \/ DeleteExpired(s)
  \/ RecordDeleted(s) \/ RecordFailure(s) \/ SweepEnds(s)

UploadNext ==
  \/ \E u \in Uploads :
       UploadStep(u) \/ UploaderDies(u) \/ LandLate(u) \/ LeaseRunsOut(u)
  \/ \E s \in Sweepers : SweepStep(s) \/ SweeperDies(s)

(* Requests and the beat's sweep go on; leases run out; a write that is     *)
(* under way lands or not.                                                 *)
UploadFairness ==
  /\ \A u \in Uploads : WF_uploadVars(UploadStep(u)) /\ WF_uploadVars(LeaseRunsOut(u))
  /\ \A s \in Sweepers : WF_uploadVars(SweepStep(s))

UploadSafe == UploadInit /\ [][UploadNext]_uploadVars
UploadSpec == UploadSafe /\ UploadFairness

-----------------------------------------------------------------------------
(* Properties. *)

(* What the rows occupy never exceeds the workspace's limits, however many *)
(* uploads were admitted at once and however late they are saved           *)
(* (storage_policy.ensure_budget).                                         *)
BudgetKept ==
  /\ Within(Bytes(media), MaxBytes)
  /\ Within(Cardinality(media), MaxAssets)

Known(u) ==
  \/ intent[u].state \in Counted
  \/ upload[u] \in {"uploading", "uploaded", "save", "compensate", "keep"}

(* No object is lost: it has a row, its request is still at it, or its     *)
(* intent makes the sweep come back to it or tells the operator            *)
(* ("exhausted").  Excepted are uploads whose clean-up failed before the   *)
(* write landed: DelayedWritesAreFound.                                    *)
ObjectsAreKnown ==
  \A u \in blobs \ media : Known(u) \/ intent[u].retries > 0

(* docs/RUN_STORAGE_CONTRACT.md:168: the tombstone remains durable to      *)
(* detect and remove a delayed write.                                      *)
DelayedWritesAreFound == \A u \in blobs \ media : Known(u)

(* Capacity an upload reserved comes back, or the operator is told,        *)
(* whatever the request met: it is saved, released, or given up.           *)
CapacityComesBack ==
  \A u \in Uploads :
    (u \in Reserving) ~>
      \/ u \notin Reserving
      \/ intent[u].reserved = 0
      \/ intent[u].state = "exhausted"

=============================================================================

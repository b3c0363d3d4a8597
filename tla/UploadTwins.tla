---------------------------- MODULE UploadTwins ----------------------------
(***************************************************************************)
(* The statements on upload intents, media rows and deletion claims, sent  *)
(* to both stores: Postgres, and InMemoryMediaAssetStorage, which stands   *)
(* for it in the tests.  The stores write the same states under the same   *)
(* conditions, but they settle reserved bytes differently: each keeps its  *)
(* own rows here, and what a new upload is admitted by is compared.        *)
(*                                                                         *)
(* MediaUploads and MediaLibrary model who calls what; here the statements *)
(* come in any order, with the tokens of claims that are over too.  An     *)
(* upload is its number, the order of its row.                             *)
(***************************************************************************)
EXTENDS Integers, FiniteSets, FiniteSetsExt, Functions

CONSTANTS
  Uploads,     \* 1 .. n
  Bytes,       \* upload -> its size
  MaxStored,   \* MEDIA_MAX_STORED_BYTES
  MaxRetries,  \* of a clean-up
  BatchSize,   \* of a sweep
  LastToken    \* bound: claims

VARIABLES
  intents,  \* store -> upload -> its intent
  media,    \* store -> uploads with a media row
  fences,   \* upload -> the token of its deletion claim, of both stores
  tokens,   \* tokens given out
  replies,  \* store -> what it answered last
  late      \* a clean-up failed after the intent had been settled

intentVars == <<intents, media, fences, tokens, replies, late>>

Stores == {"postgres", "memory"}
Missing == [state |-> "none", reserved |-> 0, live |-> FALSE, token |-> 0, retries |-> 0]
TwinsInit ==
  /\ intents = [t \in Stores |-> [u \in Uploads |-> Missing]]
  /\ media = [t \in Stores |-> {}]
  /\ fences = [u \in Uploads |-> 0] /\ tokens = 0
  /\ replies = [t \in Stores |-> "none"] /\ late = FALSE

Open == {"pending", "uploaded", "cleanup_pending", "reclaiming", "late_upload_watch"}

\* get_storage_usage
StorageUsage(t) ==
  LET active == {u \in Uploads : intents[t][u].state \in Open \cup {"exhausted"}}
  IN  [storedBytes   |-> SumFunctionOnSet(Bytes, media[t]),
       storedAssets  |-> Cardinality(media[t]),
       reservedBytes |-> SumFunctionOnSet([u \in Uploads |-> intents[t][u].reserved], active),
       slotOwners    |-> Cardinality({u \in active : intents[t][u].reserved > 0})]

\* compensate_upload: Postgres frees the bytes of an object that is gone.
Compensated(t, i, failed) ==
  [i EXCEPT !.state = IF failed THEN "cleanup_pending" ELSE "reclaimed",
            !.reserved = IF t = "postgres" /\ ~failed THEN 0 ELSE @]

\* record_upload_reclaimed: the double frees them here.
Reclaimed(t, i) ==
  [i EXCEPT !.state = "reclaimed", !.reserved = IF t = "memory" THEN 0 ELSE @]

\* watch_for_late_upload
Watched(i, release) ==
  [i EXCEPT !.state = "late_upload_watch", !.live = TRUE,
            !.reserved = IF release THEN 0 ELSE @]

\* record_upload_cleanup_failure
CleanupFailed(i) ==
  [i EXCEPT !.retries = @ + 1,
            !.state = IF i.retries + 1 >= MaxRetries THEN "exhausted" ELSE "cleanup_pending"]

-----------------------------------------------------------------------------
(* A statement finds its row in each store, or is refused by it.           *)
Finds(t, u, condition(_), changed(_, _)) ==
  LET i == intents[t][u]
  IN  IF condition(i) THEN [reply |-> "done", intent |-> changed(t, i)]
      ELSE [reply |-> "refused", intent |-> i]
Both(u, condition(_), changed(_, _)) ==
  /\ intents["postgres"][u].state # "none"
  /\ intents' = [t \in Stores |->
       [intents[t] EXCEPT ![u] = Finds(t, u, condition, changed).intent]]
  /\ replies' = [t \in Stores |-> Finds(t, u, condition, changed).reply]
Elsewhere == UNCHANGED <<media, fences, tokens, late>>

ClaimedBy(i, token) == i.state = "reclaiming" /\ i.token = token

CreateUploadIntent(u) ==
  LET fits(t) == StorageUsage(t).storedBytes + StorageUsage(t).reservedBytes + Bytes[u]
                   <= MaxStored
      new == [Missing EXCEPT !.state = "pending", !.reserved = Bytes[u], !.live = TRUE]
  IN  /\ intents["postgres"][u] = Missing
      /\ u - 1 \in Uploads => intents["postgres"][u - 1] # Missing
      /\ intents' = [t \in Stores |-> IF fits(t) THEN [intents[t] EXCEPT ![u] = new] ELSE intents[t]]
      /\ replies' = [t \in Stores |-> IF fits(t) THEN "done" ELSE "budget"]
      /\ Elsewhere

MarkUploaded(u) ==
  /\ Both(u, LAMBDA i : i.state = "pending", LAMBDA t, i : [i EXCEPT !.state = "uploaded"])
  /\ Elsewhere

\* save_uploaded_asset: the intent is completed and the row inserted.
SaveUploaded(u) ==
  /\ Both(u, LAMBDA i : i.state = "uploaded", LAMBDA t, i : [i EXCEPT !.state = "completed"])
  /\ media' = [t \in Stores |-> IF replies'[t] = "done" THEN media[t] \cup {u} ELSE media[t]]
  /\ UNCHANGED <<fences, tokens, late>>

\* complete_upload_intent, for the uploader or for a sweep.
Complete(u, token) ==
  /\ Both(u, LAMBDA i : IF token = 0 THEN i.state = "uploaded" ELSE ClaimedBy(i, token),
          LAMBDA t, i : [i EXCEPT !.state = "completed"])
  /\ Elsewhere

Compensate(u, failed) ==
  /\ Both(u, LAMBDA i : TRUE, LAMBDA t, i : Compensated(t, i, failed))
  /\ late' = (late \/ (failed /\ intents["postgres"][u].state \in {"reclaimed", "completed"}))
  /\ UNCHANGED <<media, fences, tokens>>

RecordReclaimed(u, token) ==
  /\ Both(u, LAMBDA i : ClaimedBy(i, token), LAMBDA t, i : Reclaimed(t, i))
  /\ Elsewhere
WatchForLateUpload(u, token, release) ==
  /\ Both(u, LAMBDA i : ClaimedBy(i, token), LAMBDA t, i : Watched(i, release))
  /\ Elsewhere
RecordCleanupFailure(u, token) ==
  /\ intents["postgres"][u].retries < MaxRetries
  /\ Both(u, LAMBDA i : ClaimedBy(i, token), LAMBDA t, i : CleanupFailed(i))
  /\ Elsewhere

LeaseRunsOut(u) ==
  /\ intents["postgres"][u].live
  /\ intents' = [t \in Stores |-> [intents[t] EXCEPT ![u].live = FALSE]]
  /\ UNCHANGED <<media, fences, tokens, replies, late>>

\* claim_expired_upload_intents: the first of the expired rows, each with a
\* token of its own; the answer shows the states before.
ClaimExpired ==
  LET expired(t) == {u \in Uploads : intents[t][u].state \in Open /\ ~intents[t][u].live}
      batch(t) == {u \in expired(t) : Cardinality({v \in expired(t) : v < u}) < BatchSize}
      token(t, u) == tokens + Cardinality({v \in batch(t) : v <= u})
  IN  /\ expired("postgres") \cup expired("memory") # {}
      /\ tokens + BatchSize <= LastToken
      /\ tokens' = tokens + Max({Cardinality(batch(t)) : t \in Stores})
      /\ intents' = [t \in Stores |-> [u \in Uploads |->
           IF u \in batch(t)
           THEN [intents[t][u] EXCEPT !.state = "reclaiming", !.live = TRUE, !.token = token(t, u)]
           ELSE intents[t][u]]]
      /\ replies' = [t \in Stores |-> [u \in batch(t) |-> intents[t][u].state]]
      /\ UNCHANGED <<media, fences, late>>

-----------------------------------------------------------------------------
(* Deletion claims of media rows nothing refers to.                        *)
ClaimRetained(u) ==
  /\ u \in media["postgres"] /\ tokens < LastToken
  /\ IF fences[u] = 0
     THEN fences' = [fences EXCEPT ![u] = tokens + 1] /\ tokens' = tokens + 1
     ELSE UNCHANGED <<fences, tokens>>
  /\ UNCHANGED <<intents, media, replies, late>>
ReleaseRetained(u, token) ==
  /\ fences[u] = token /\ fences' = [fences EXCEPT ![u] = 0]
  /\ UNCHANGED <<intents, media, tokens, replies, late>>
FinalizeRetained(u, token) ==
  /\ u \in media["postgres"] \cup media["memory"] /\ fences[u] = token
  /\ media' = [t \in Stores |-> media[t] \ {u}]
  /\ fences' = [fences EXCEPT ![u] = 0]
  /\ UNCHANGED <<intents, tokens, replies, late>>
GetAsset(t) == {u \in media[t] : fences[u] = 0}
AssetExistsForKey(t, u) == u \in media[t]

\* Nothing is compared once late is set.
TwinsNext == ~late /\
  \/ ClaimExpired
  \/ \E u \in Uploads :
       \/ CreateUploadIntent(u) \/ MarkUploaded(u) \/ SaveUploaded(u) \/ Complete(u, 0)
       \/ LeaseRunsOut(u) \/ ClaimRetained(u)
       \/ \E flag \in BOOLEAN : Compensate(u, flag)
       \/ \E token \in 1 .. tokens :
            \/ Complete(u, token) \/ RecordReclaimed(u, token)
            \/ RecordCleanupFailure(u, token) \/ ReleaseRetained(u, token)
            \/ FinalizeRetained(u, token)
            \/ \E flag \in BOOLEAN : WatchForLateUpload(u, token, flag)

-----------------------------------------------------------------------------
(* The double answers the statements of this module as Postgres does (the  *)
(* listings of assets under a deletion claim are not among them), and      *)
(* admits uploads by the same occupancy, in whatever order uploaders and   *)
(* sweeps come; but for a clean-up that fails after the intent was settled, *)
(* which only one of them counts again.                                    *)
UploadTwinsAgree ==
  ~late =>
    /\ replies["postgres"] = replies["memory"]
    /\ StorageUsage("postgres") = StorageUsage("memory")
    /\ GetAsset("postgres") = GetAsset("memory")
    /\ \A u \in Uploads :
         /\ AssetExistsForKey("postgres", u) = AssetExistsForKey("memory", u)
         /\ [intents["postgres"][u] EXCEPT !.reserved = 0]
              = [intents["memory"][u] EXCEPT !.reserved = 0]
=============================================================================

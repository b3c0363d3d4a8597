---------------------------- MODULE MediaProofs ----------------------------
(***************************************************************************)
(* Safety of generated and uploaded media, for every value of the          *)
(* constants: what SceneBatch and MediaLibrary promise.                    *)
(*                                                                         *)
(* Scenes.  The argument is about names.  A batch names an upload by its   *)
(* delivery and scene, so the keys of what it has still to do are fresh:   *)
(* no asset and no clean-up record has them (KeysAtWork).  That is why the *)
(* batch may delete what it calls its own, and a clean-up what it          *)
(* recorded, without asking whether an asset lives there (AssetsSafe).     *)
(* The parent of a timed-out worker asks, and too early: what it deletes   *)
(* all the same is SavedTooLate.                                           *)
(*                                                                         *)
(* Uploads and library.  An asset that can be seen has its object, what a  *)
(* timeline or an approval refers to is not deleted, what is rendered was  *)
(* approved, and no object is lost.  UploadInv is about the uploads and    *)
(* the sweep of their intents, and LibraryInv about retention, the         *)
(* timeline and the approvals.  The two meet in Done: an upload that has a *)
(* row, or is being retained or deleted, is finished and will never write, *)
(* save or be swept again.                                                 *)
(***************************************************************************)
EXTENDS SceneBatch, MediaLibrary, SequenceTheorems, FiniteSetTheorems, TLAPS

-----------------------------------------------------------------------------
(* Scenes.                                                                 *)

(* A row of creator_scene_assets; what a version is does not matter here.  *)
IsAsset(a) ==
  /\ a = [id |-> a.id, key |-> a.key, active |-> a.active, version |-> a.version]
  /\ a.key \in Keys
  /\ a.id = <<a.key[1], a.key[3]>>
  /\ a.active \in BOOLEAN

(* The types of the variables, as SceneTypeOK has them.                    *)
RunRecords ==
  [stage : SceneStages \cup {"AUDIO_GENERATING", "FAILED"},
   status : {"running", "cancelled", "failed"}, deleting : BOOLEAN,
   stops : 0 .. MaxStops]

RequestStates ==
  {"new", "reserved", "recorded", "published", "promoted", "undo", "refund",
   "failed", "unmarked", "abandoned", "done"}

LimitRecords ==
  [step : {"none", "read", "unlink", "kill", "done"}, of : 0 .. Deliveries,
   saved : SUBSET Keys]

BatchRecords ==
  [phase : BatchPhases, delivery : 0 .. Deliveries,
   scene : Scenes \cup {NoScene}, todo : SUBSET Scenes, ok : SUBSET Scenes,
   bad : SUBSET Scenes, local : SUBSET Keys, cancelled : BOOLEAN,
   billed : BOOLEAN, wanted : SUBSET Scenes, active : BOOLEAN,
   limit : LimitRecords]

RowStates == LiveRows \cup {"none", "success", "failed", "rejected", "revoked"}

SceneTypes ==
  /\ srun \in RunRecords
  /\ request \in [Batches -> RequestStates]
  /\ batch \in [Batches -> BatchRecords]
  /\ row \in [Batches -> RowStates]
  /\ reserved \in [Batches -> Reservations]
  /\ \A a \in assets : IsAsset(a)
  /\ objects \cup files \cup leaked \subseteq Keys
  /\ DOMAIN cleanup \subseteq Keys
  /\ faultsLeft \in Nat

(* The phases in which a batch works on the upload of one scene: before    *)
(* the save (Fresh...), with its file, when it is rejected, with an object *)
(* in the store that only the batch knows, and all of them.                *)
FilePhases == {"authorize", "generated", "upload", "uploaded", "save"}
FreshPhases == FilePhases \cup {"generate"}
RejectPhases == {"discard", "tidy"}
ObjectPhases == {"uploaded", "save", "discard"}
ScenePhases == FreshPhases \cup RejectPhases
                 \cup {"saved", "record", "recorded", "retract"}

NoAssetAt(k) == \A a \in assets : a.key # k
Fresh(k) == NoAssetAt(k) /\ k \notin DOMAIN cleanup

(* The file is there, or the parent of a timed-out worker has deleted it.  *)
OnDisk(k) == k \in files \/ SavedTooLate(k)

AtWork(b) ==
  LET mine == batch[b] IN
  /\ mine.phase \in ScenePhases => mine.scene \in Scenes \ mine.todo
  /\ mine.phase \in WorkPhases => mine.delivery > 0
  /\ mine.phase \notin WorkPhases => mine.local = {} /\ mine.todo = {}
  /\ mine.phase \in FreshPhases => Fresh(Key(b))
  /\ mine.phase \in RejectPhases => NoAssetAt(Key(b))
  /\ mine.phase \in FilePhases => OnDisk(Key(b))
  /\ mine.phase = "save" => Key(b) \notin mine.local
  /\ \A k \in mine.local :
       /\ k[1] = b /\ k[2] = mine.delivery /\ k[3] \notin mine.todo
       /\ NoAssetAt(k)
  /\ \A s \in mine.todo : Fresh(<<b, mine.delivery, s>>)
  /\ \A d \in 1 .. Deliveries, s \in Scenes :
       d > mine.delivery => Fresh(<<b, d, s>>)
  /\ ~Published(b) =>
       mine.phase = "idle" /\ mine.delivery = 0 /\ mine.limit.step = "none"

KeysAtWork == \A b \in Batches : AtWork(b)

AssetsSafe ==
  /\ \A a \in assets : OnDisk(a.key) /\ a.key \notin DOMAIN cleanup
  /\ \A a1, a2 \in assets : a1.id = a2.id => a1 = a2
  /\ \A a1, a2 \in assets :
       a1.active /\ a2.active /\ a1.id[2] = a2.id[2] => a1 = a2

(* A request has no row before it has reserved; the row of one that gave   *)
(* up is final before its quota goes, what is not reserved any more never  *)
(* is again, and a delivery that has billed something settles before it    *)
(* ends.                                                                   *)
Spent == {"consumed", "cancelled", "settled"}

UndoneRequests ==
  \A b \in Batches :
    /\ request[b] \in {"new", "reserved"} => row[b] = "none"
    /\ request[b] # "new" => reserved[b] # "none"
    /\ request[b] \in {"refund", "failed"} => row[b] \in {"none", "success", "revoked"}
    /\ request[b] \in {"failed", "abandoned"} => reserved[b] \in Spent
    /\ reserved[b] = "consumed" => batch[b].phase \notin {"idle", "ended"}

SceneInv ==
  SceneTypes /\ KeysAtWork /\ AssetsSafe /\ UndoneRequests /\ UploadsAccounted

-----------------------------------------------------------------------------
(* Initially. *)

LEMMA SceneInvInit == ASSUME SceneInit PROVE SceneInv
<1> PICK start \in Starts : Begin(start)
  BY DEF SceneInit
<1>0. /\ start.batches \in [Batches -> {"triggered", "new", "over"}]
      /\ start.faults \in Nat
  BY SceneAssumption
<1> DEFINE Kind(b) == start.batches[b]
<1>1. /\ IdleBatch \in BatchRecords /\ IdleBatch.phase = "idle"
      /\ IdleBatch.delivery = 0 /\ IdleBatch.local = {} /\ IdleBatch.todo = {}
      /\ IdleBatch.limit = NoLimit
  BY DEF IdleBatch, NoLimit, BatchRecords, BatchPhases, LimitRecords, Deliveries
<1> DEFINE triggered == [IdleBatch EXCEPT !.wanted = Scenes, !.active = TRUE]
           over == [IdleBatch EXCEPT !.delivery = 1, !.phase = "raised"]
<1>2. /\ triggered \in BatchRecords /\ triggered.phase = "idle"
      /\ triggered.delivery = 0 /\ triggered.local = {} /\ triggered.todo = {}
  BY <1>1 DEF BatchRecords
<1>3. /\ over \in BatchRecords /\ over.phase = "raised"
      /\ over.delivery = 1 /\ over.local = {} /\ over.todo = {}
  <2> DEFINE r == [IdleBatch EXCEPT !.delivery = 1]
  <2>1. /\ r \in BatchRecords /\ r.delivery = 1 /\ r.local = {} /\ r.todo = {}
    BY <1>1 DEF BatchRecords, Deliveries
  <2>2. over = [r EXCEPT !.phase = "raised"]
    OBVIOUS
  <2>3. "raised" \in BatchPhases
    BY DEF BatchPhases
  <2> HIDE DEF r, over
  <2> QED BY <2>1, <2>2, <2>3 DEF BatchRecords
<1> HIDE DEF triggered, over
<1>4. ASSUME NEW b \in Batches
      PROVE  \/ /\ request[b] = "done" /\ row[b] = "queued"
                /\ batch[b] = triggered /\ reserved[b] = "reserved"
             \/ /\ request[b] = "new" /\ row[b] = "none"
                /\ batch[b] = IdleBatch /\ reserved[b] = "none"
             \/ /\ request[b] = "done" /\ row[b] = "failed"
                /\ batch[b] = over /\ reserved[b] = "settled"
  <2>1. Kind(b) \in {"triggered", "new", "over"}
    BY <1>0
  <2>2. CASE Kind(b) = "triggered"
    BY <2>2 DEF Begin, triggered
  <2>3. CASE Kind(b) = "new"
    BY <2>3 DEF Begin
  <2>4. CASE Kind(b) = "over"
    BY <2>4 DEF Begin, over
  <2> QED BY <2>1, <2>2, <2>3, <2>4
<1>5. SceneTypes
  <2>1. /\ request = [b \in Batches |-> request[b]]
        /\ batch = [b \in Batches |-> batch[b]]
        /\ row = [b \in Batches |-> row[b]]
        /\ reserved = [b \in Batches |-> reserved[b]]
    <3> DEFINE Now(b, one, two, three) ==
                 CASE start.batches[b] = "triggered" -> one
                   [] start.batches[b] = "new" -> two
                   [] start.batches[b] = "over" -> three
    <3>1. /\ request = [b \in Batches |-> Now(b, "done", "new", "done")]
          /\ batch = [b \in Batches |-> Now(b, triggered, IdleBatch, over)]
          /\ row = [b \in Batches |-> Now(b, "queued", "none", "failed")]
          /\ reserved = [b \in Batches |-> Now(b, "reserved", "none", "settled")]
      BY DEF Begin, triggered, over
    <3> HIDE DEF Now
    <3> QED BY <3>1
  <2>2. /\ request \in [Batches -> RequestStates]
        /\ batch \in [Batches -> BatchRecords]
    BY <1>1, <1>2, <1>3, <1>4, <2>1 DEF RequestStates
  <2>3. /\ row \in [Batches -> RowStates]
        /\ reserved \in [Batches -> Reservations]
    BY <1>4, <2>1 DEF RowStates, LiveRows, Reservations
  <2>4. srun \in RunRecords
    BY SceneAssumption DEF SceneInit, RunRecords, SceneStages
  <2>5. faultsLeft \in Nat
    BY <1>0 DEF Begin
  <2> QED BY <2>2, <2>3, <2>4, <2>5 DEF SceneInit, SceneTypes
<1>6. KeysAtWork
  <2> SUFFICES ASSUME NEW b \in Batches PROVE AtWork(b)
    BY DEF KeysAtWork
  <2>1. \A k : Fresh(k)
    BY DEF SceneInit, Fresh, NoAssetAt
  <2>2. /\ batch[b].phase \in {"idle", "raised"} /\ batch[b].local = {}
        /\ batch[b].todo = {}
        /\ ~Published(b) => batch[b] = IdleBatch
    BY <1>1, <1>2, <1>3, <1>4 DEF Published
  <2> QED BY <2>1, <2>2, <1>1 DEF AtWork, ScenePhases, FreshPhases, FilePhases,
             RejectPhases, WorkPhases, NoLimit
<1>7. AssetsSafe /\ UploadsAccounted
  BY DEF SceneInit, AssetsSafe, UploadsAccounted
<1>8. UndoneRequests
  BY <1>4 DEF UndoneRequests
<1> QED BY <1>5, <1>6, <1>7, <1>8 DEF SceneInv

-----------------------------------------------------------------------------
(* Frames: what a step need not do to keep a part of SceneInv. *)

(* What the parent of a worker has begun to delete it does not take back.  *)
LimitKept(c) ==
  batch[c].limit.step \in {"kill", "done"} =>
    /\ batch'[c].limit.step \in {"kill", "done"}
    /\ batch'[c].limit.of = batch[c].limit.of
    /\ batch'[c].limit.saved = batch[c].limit.saved

LEMMA LateStays ==
  ASSUME NEW k, LimitKept(k[1]), SavedTooLate(k)
  PROVE  SavedTooLate(k)'
BY DEF LimitKept, SavedTooLate

(* A batch is not disturbed by a step that leaves it alone, gives its      *)
(* names to no asset and no record and deletes no file it works on.        *)
LEMMA AtWorkFrame ==
  ASSUME NEW c \in Batches, AtWork(c), batch'[c] = batch[c],
         Published(c) => Published(c)',
         \A k : k[1] = c /\ NoAssetAt(k) => NoAssetAt(k)',
         \A k : k[1] = c /\ Fresh(k) => Fresh(k)',
         \A k \in files : k[1] = c /\ Fresh(k) => k \in files'
  PROVE  AtWork(c)'
<1>1. Key(c)' = Key(c) /\ Key(c)[1] = c
  BY DEF Key
<1>2. Fresh(Key(c)) => Fresh(Key(c))' /\ (OnDisk(Key(c)) => OnDisk(Key(c))')
  BY <1>1 DEF OnDisk, SavedTooLate
<1>3. NoAssetAt(Key(c)) => NoAssetAt(Key(c))'
  BY <1>1
<1>4. \A k \in batch[c].local : NoAssetAt(k)'
  BY DEF AtWork
<1>5. \A d, s : Fresh(<<c, d, s>>) => Fresh(<<c, d, s>>)'
  OBVIOUS
<1>6. /\ Fresh(Key(c)') = Fresh(Key(c)) /\ NoAssetAt(Key(c)') = NoAssetAt(Key(c))
      /\ OnDisk(Key(c)') = OnDisk(Key(c))
  BY <1>1
<1> QED BY <1>1, <1>2, <1>3, <1>4, <1>5 DEF AtWork, FreshPhases

(* The record of a batch, from the types of the state. *)
LEMMA BatchTypes ==
  ASSUME SceneTypes, NEW b \in Batches
  PROVE  batch \in [Batches -> BatchRecords] /\ batch[b] \in BatchRecords
BY DEF SceneTypes

(* A delivery that is at work was published. *)
LEMMA WorkIsPublished ==
  ASSUME SceneInv, NEW b \in Batches, batch[b].phase # "idle"
  PROVE  Published(b)
BY DEF SceneInv, KeysAtWork, AtWork

(* A step moves one batch to a phase: with its scene, what it has to do    *)
(* and what it calls its own while it is at work, with nothing otherwise.  *)
Moved(b, p) ==
  /\ batch' \in [Batches -> BatchRecords]
  /\ \A c \in Batches \ {b} : batch'[c] = batch[c]
  /\ batch'[b].phase = p
  /\ batch'[b].delivery = batch[b].delivery
  /\ LimitKept(b)
  /\ IF p \in WorkPhases
     THEN /\ batch'[b].scene = batch[b].scene
          /\ batch'[b].todo = batch[b].todo
          /\ batch'[b].local = batch[b].local
     ELSE batch'[b].todo = {} /\ batch'[b].local = {}

(* A record that differs in its phase, its results and its flags. *)
LEMMA UpdateMoves ==
  ASSUME SceneTypes, NEW b \in Batches, NEW new \in BatchRecords,
         batch' = [batch EXCEPT ![b] = new], new.phase \in WorkPhases,
         new.delivery = batch[b].delivery, new.scene = batch[b].scene,
         new.todo = batch[b].todo, new.local = batch[b].local,
         new.limit = batch[b].limit
  PROVE  Moved(b, new.phase)
BY BatchTypes DEF Moved, LimitKept

(* A step of Go moves one batch. *)
LEMMA GoMoves ==
  ASSUME SceneTypes, NEW b \in Batches, AtWork(b), NEW p \in BatchPhases, Go(b, p),
         p \notin WorkPhases => batch[b].phase \notin WorkPhases
  PROVE  Moved(b, p)
<1> DEFINE new == [batch[b] EXCEPT !.phase = p]
<1>1. /\ new \in BatchRecords /\ new.phase = p /\ new.delivery = batch[b].delivery
      /\ new.scene = batch[b].scene /\ new.todo = batch[b].todo
      /\ new.local = batch[b].local /\ new.limit = batch[b].limit
  BY BatchTypes DEF BatchRecords
<1>2. batch' = [batch EXCEPT ![b] = new]
  BY DEF Go
<1> HIDE DEF new
<1>3. /\ batch' \in [Batches -> BatchRecords] /\ batch'[b] = new
      /\ \A c \in Batches \ {b} : batch'[c] = batch[c]
  BY <1>1, <1>2, BatchTypes
<1> QED BY <1>1, <1>3 DEF Moved, LimitKept, AtWork

(* What a process leaves behind. *)
LEMMA LeftByIs ==
  ASSUME SceneTypes, NEW b \in Batches, NEW p \in BatchPhases
  PROVE  LET r == LeftBy(b, p) IN
         /\ r \in BatchRecords /\ r.phase = p /\ r.delivery = batch[b].delivery
         /\ r.todo = {} /\ r.local = {} /\ r.limit = batch[b].limit
<1>1. /\ batch[b].delivery \in 0 .. Deliveries /\ batch[b].wanted \in SUBSET Scenes
      /\ batch[b].active \in BOOLEAN /\ batch[b].limit \in LimitRecords
  BY BatchTypes DEF BatchRecords
<1>2. IdleBatch \in BatchRecords /\ IdleBatch.todo = {} /\ IdleBatch.local = {}
  BY DEF IdleBatch, NoLimit, BatchRecords, BatchPhases, LimitRecords, Deliveries
<1> DEFINE r1 == [IdleBatch EXCEPT !.phase = p]
           r2 == [r1 EXCEPT !.delivery = batch[b].delivery]
           r3 == [r2 EXCEPT !.wanted = batch[b].wanted]
           r4 == [r3 EXCEPT !.active = batch[b].active]
           r5 == [r4 EXCEPT !.limit = batch[b].limit]
<1>3. /\ r1 \in BatchRecords /\ r1.phase = p
      /\ r1.todo = {} /\ r1.local = {}
  BY <1>2 DEF BatchRecords
<1> HIDE DEF r1
<1>4. /\ r2 \in BatchRecords /\ r2.phase = p /\ r2.delivery = batch[b].delivery
      /\ r2.todo = {} /\ r2.local = {}
  BY <1>1, <1>3 DEF BatchRecords
<1> HIDE DEF r2
<1>5. /\ r3 \in BatchRecords /\ r3.phase = p /\ r3.delivery = batch[b].delivery
      /\ r3.todo = {} /\ r3.local = {}
  BY <1>1, <1>4 DEF BatchRecords
<1> HIDE DEF r3
<1>6. /\ r4 \in BatchRecords /\ r4.phase = p /\ r4.delivery = batch[b].delivery
      /\ r4.todo = {} /\ r4.local = {}
  BY <1>1, <1>5 DEF BatchRecords
<1> HIDE DEF r4
<1>7. /\ r5 \in BatchRecords /\ r5.phase = p /\ r5.delivery = batch[b].delivery
      /\ r5.todo = {} /\ r5.local = {} /\ r5.limit = batch[b].limit
  BY <1>1, <1>6 DEF BatchRecords
<1>8. LeftBy(b, p) = r5
  BY Zenon DEF LeftBy, r1, r2, r3, r4
<1> QED BY <1>7, <1>8

LEMMA LeaveMoves ==
  ASSUME SceneTypes, NEW b \in Batches, NEW p \in BatchPhases \ WorkPhases,
         Leave(b, p)
  PROVE  Moved(b, p)
<1> DEFINE r == LeftBy(b, p)
<1>1. /\ r \in BatchRecords /\ r.phase = p /\ r.delivery = batch[b].delivery
      /\ r.todo = {} /\ r.local = {} /\ r.limit = batch[b].limit
  BY LeftByIs
<1>2. batch' = [batch EXCEPT ![b] = r]
  BY DEF Leave
<1> HIDE DEF r
<1> QED BY <1>1, <1>2, BatchTypes DEF Moved, LimitKept

(* A batch that is cancelled ends its loop. *)
LEMMA CancelledMoves ==
  ASSUME SceneTypes, NEW b \in Batches, Cancelled(b)
  PROVE  Moved(b, "finish")
<1> DEFINE new == [batch[b] EXCEPT !.cancelled = TRUE, !.phase = "finish"]
<1>1. new \in BatchRecords
  BY ZenonT(60), BatchTypes DEF BatchRecords, BatchPhases, WorkPhases
<1>2. batch' = [batch EXCEPT ![b] = new]
  BY BatchTypes DEF Cancelled
<1>3. /\ new.delivery = batch[b].delivery /\ new.scene = batch[b].scene
      /\ new.todo = batch[b].todo /\ new.local = batch[b].local
      /\ new.phase = "finish" /\ new.limit = batch[b].limit
  BY BatchTypes DEF BatchRecords
<1> QED BY <1>1, <1>2, <1>3, UpdateMoves DEF WorkPhases

(* A scene that failed is collected, and the loop goes on. *)
LEMMA CollectedMoves ==
  ASSUME SceneTypes, NEW b \in Batches, batch[b].scene \in Scenes,
         batch' = [batch EXCEPT ![b].bad = @ \cup {batch[b].scene},
                       ![b].phase = "next"]
  PROVE  Moved(b, "next")
<1> DEFINE new == [batch[b] EXCEPT !.bad = @ \cup {batch[b].scene},
                                   !.phase = "next"]
<1>1. new \in BatchRecords
  BY ZenonT(60), BatchTypes DEF BatchRecords, BatchPhases, WorkPhases
<1>2. batch' = [batch EXCEPT ![b] = new]
  BY BatchTypes
<1>3. /\ new.delivery = batch[b].delivery /\ new.scene = batch[b].scene
      /\ new.todo = batch[b].todo /\ new.local = batch[b].local
      /\ new.phase = "next" /\ new.limit = batch[b].limit
  BY BatchTypes DEF BatchRecords
<1> QED BY <1>1, <1>2, <1>3, UpdateMoves DEF WorkPhases

(* Names are fresh as long as no asset and no record is added.             *)
LEMMA FreshFrame ==
  ASSUME assets' = assets, DOMAIN cleanup' = DOMAIN cleanup
  PROVE  \A k : Fresh(k)' = Fresh(k) /\ NoAssetAt(k)' = NoAssetAt(k)
BY DEF Fresh, NoAssetAt

(* A batch that goes on with its scene, or leaves it: what the new phase   *)
(* promises must hold, the rest stays true.                                *)
LEMMA AtWorkMove ==
  ASSUME SceneTypes, NEW b \in Batches, AtWork(b), NEW p, Moved(b, p),
         Published(b), Published(b)',
         p \in WorkPhases => batch[b].phase \in WorkPhases,
         p \in ScenePhases => batch[b].phase \in ScenePhases,
         p \in FreshPhases => Fresh(Key(b))',
         p \in RejectPhases => NoAssetAt(Key(b))',
         p \in FilePhases => OnDisk(Key(b))',
         p # "save",
         \A k \in batch[b].local : NoAssetAt(k)',
         \A k : Fresh(k) /\ ~Fresh(k)' => k = Key(b) /\ batch[b].phase \in ScenePhases
  PROVE  AtWork(b)'
<1>1. batch[b] \in BatchRecords
  BY BatchTypes
<1>2. batch'[b].todo \subseteq batch[b].todo /\ batch'[b].local \subseteq batch[b].local
      /\ batch'[b].delivery = batch[b].delivery /\ batch'[b].phase = p
  BY DEF Moved
<1>3. p \in ScenePhases => Key(b)' = Key(b) /\ batch'[b].scene = batch[b].scene
  BY DEF Key, Moved, ScenePhases, FreshPhases, FilePhases, RejectPhases, WorkPhases
<1>4. \A s \in batch[b].todo : Fresh(<<b, batch[b].delivery, s>>)'
  <2> SUFFICES ASSUME NEW s \in batch[b].todo
               PROVE  Fresh(<<b, batch[b].delivery, s>>)'
    OBVIOUS
  <2> DEFINE k == <<b, batch[b].delivery, s>>
  <2>1. Fresh(k) /\ (batch[b].phase \in ScenePhases => batch[b].scene # s)
    BY DEF AtWork
  <2>2. k = Key(b) => s = batch[b].scene
    BY DEF Key
  <2>3. PICK x : x = k
    OBVIOUS
  <2>4. Fresh(x)'
    BY <2>1, <2>2, <2>3
  <2>5. k' = <<b, batch'[b].delivery, s>> /\ batch'[b].delivery = batch[b].delivery
    BY <1>2
  <2> QED BY <2>3, <2>4, <2>5
<1>5. \A d \in 1 .. Deliveries, s \in Scenes :
        d > batch[b].delivery => Fresh(<<b, d, s>>)'
  <2> SUFFICES ASSUME NEW d \in 1 .. Deliveries, NEW s \in Scenes,
                      d > batch[b].delivery
               PROVE  Fresh(<<b, d, s>>)'
    OBVIOUS
  <2>1. <<b, d, s>> # Key(b) /\ Fresh(<<b, d, s>>)
    BY <1>1 DEF AtWork, Key, BatchRecords, Deliveries
  <2> QED BY <2>1
<1>6. /\ p \in FreshPhases => Fresh(Key(b))'
      /\ p \in RejectPhases => NoAssetAt(Key(b))'
      /\ p \in FilePhases => OnDisk(Key(b))'
  OBVIOUS
<1>7. p \in ScenePhases => batch'[b].scene \in Scenes \ batch'[b].todo
  BY <1>2, <1>3 DEF AtWork
<1>8. /\ p \in WorkPhases => batch'[b].delivery > 0
      /\ p \notin WorkPhases => batch'[b].local = {} /\ batch'[b].todo = {}
  BY <1>2 DEF AtWork, Moved
<1>9. \A k \in batch'[b].local :
       /\ k[1] = b /\ k[2] = batch'[b].delivery /\ k[3] \notin batch'[b].todo
       /\ NoAssetAt(k)'
  BY <1>2 DEF AtWork
<1> QED BY <1>2, <1>4, <1>5, <1>6, <1>7, <1>8, <1>9 DEF AtWork

(* The other batches of a step that writes one batch and adds no name.     *)
LEMMA OthersKeep ==
  ASSUME KeysAtWork, NEW b \in Batches,
         \A c \in Batches \ {b} : batch'[c] = batch[c],
         \A c \in Batches \ {b} : Published(c) => Published(c)',
         \A k : k[1] # b /\ NoAssetAt(k) => NoAssetAt(k)',
         \A k : k[1] # b /\ Fresh(k) => Fresh(k)',
         \A k \in files : k[1] # b /\ Fresh(k) => k \in files',
         AtWork(b)'
  PROVE  KeysAtWork'
<1>1. ASSUME NEW c \in Batches, c # b PROVE AtWork(c)'
  BY <1>1, AtWorkFrame DEF KeysAtWork
<1> QED BY <1>1 DEF KeysAtWork

(* Files stay safe while no asset is added and no file of one goes. *)
LEMMA SafeFrame ==
  ASSUME SceneTypes, AssetsSafe, assets' = assets,
         DOMAIN cleanup' \subseteq DOMAIN cleanup,
         \A c \in Batches : LimitKept(c),
         \A a \in assets : a.key \in files => OnDisk(a.key)'
  PROVE  AssetsSafe'
<1>1. \A a \in assets : a.key[1] \in Batches
  BY DEF SceneTypes, IsAsset, Keys
<1>2. \A a \in assets : OnDisk(a.key)'
  BY <1>1, LateStays DEF AssetsSafe, OnDisk
<1>3. /\ \A a \in assets : OnDisk(a.key)' /\ a.key \notin DOMAIN cleanup'
      /\ \A a1, a2 \in assets : a1.id = a2.id => a1 = a2
      /\ \A a1, a2 \in assets :
           a1.active /\ a2.active /\ a1.id[2] = a2.id[2] => a1 = a2
  BY <1>2 DEF AssetsSafe
<1> QED BY <1>3 DEF AssetsSafe

(* UploadsAccounted of one object. *)
Accounted(k) ==
  \/ \E a \in assets : a.key = k
  \/ k \in DOMAIN cleanup \cup leaked
  \/ k = Key(k[1]) /\ batch[k[1]].phase \in ObjectPhases

(* An object stays accounted for while its asset, its record and its batch *)
(* are left alone.                                                         *)
LEMMA UploadsFrame ==
  ASSUME SceneTypes, UploadsAccounted, NEW b \in Batches,
         \A c \in Batches \ {b} : batch'[c] = batch[c],
         \A k \in objects' : k \in objects \/ Accounted(k)',
         \A a \in assets : a.key \in objects' => Accounted(a.key)',
         \A k \in DOMAIN cleanup \cup leaked : k \in objects' => Accounted(k)',
         batch[b].phase \in ObjectPhases =>
           \A k \in objects' : k = Key(b) => Accounted(k)'
  PROVE  UploadsAccounted'
<1> SUFFICES ASSUME NEW k \in objects', k \in objects PROVE Accounted(k)'
  BY DEF UploadsAccounted, Accounted, ObjectPhases
<1>1. Accounted(k)
  BY DEF UploadsAccounted, Accounted, ObjectPhases
<1>2. CASE \E a \in assets : a.key = k
  BY <1>2
<1>3. CASE k \in DOMAIN cleanup \cup leaked
  BY <1>3
<1>4. CASE k = Key(k[1]) /\ batch[k[1]].phase \in ObjectPhases
  <2>1. k[1] \in Batches
    BY DEF SceneTypes, Keys
  <2>2. CASE k[1] = b
    BY <1>4, <2>2
  <2>3. CASE k[1] # b
    <3>1. batch'[k[1]] = batch[k[1]]
      BY <2>1, <2>3
    <3> QED BY <3>1, <1>4 DEF Accounted, Key
  <2> QED BY <2>2, <2>3
<1> QED BY <1>1, <1>2, <1>3, <1>4 DEF Accounted

(* What a delivery does to the run, to its row and to its reservation.     *)
Booked(b) ==
  /\ request' = request
  /\ srun' \in RunRecords
  /\ row' \in [Batches -> RowStates]
  /\ reserved' \in [Batches -> Reservations]
  /\ \A c \in Batches \ {b} : row'[c] = row[c] /\ reserved'[c] = reserved[c]
  /\ row[b] \in {"none", "success", "revoked"} => row'[b] = row[b]
  /\ row'[b] = "none" => row[b] = "none"
  /\ reserved'[b] = "none" => reserved[b] = "none"
  /\ reserved[b] \in Spent => reserved'[b] \in Spent
  /\ reserved'[b] = "consumed" => batch'[b].phase \notin {"idle", "ended"}

LEMMA BookedKeeps ==
  ASSUME SceneInv, NEW b \in Batches, Booked(b),
         \A c \in Batches \ {b} : batch'[c] = batch[c]
  PROVE  /\ UndoneRequests'
         /\ \A c \in Batches : Published(c) => Published(c)'
<1>1. ASSUME NEW c \in Batches, c # b
      PROVE  /\ request'[c] = request[c] /\ row'[c] = row[c]
             /\ reserved'[c] = reserved[c] /\ batch'[c] = batch[c]
  BY <1>1 DEF Booked
<1>2. request'[b] = request[b]
  BY DEF Booked
<1>3. UndoneRequests'
  BY <1>1, <1>2 DEF UndoneRequests, SceneInv, Booked
<1>4. \A c \in Batches : Published(c) => Published(c)'
  BY <1>1, <1>2 DEF Published, Booked
<1> QED BY <1>3, <1>4

(* A step that books nothing. *)
LEMMA NothingBooked ==
  ASSUME SceneInv, NEW b \in Batches, UNCHANGED <<srun, request, row, reserved>>,
         \/ batch'[b].phase \notin {"idle", "ended"}
         \/ batch'[b].phase = batch[b].phase
  PROVE  Booked(b)
BY DEF Booked, SceneInv, SceneTypes, UndoneRequests

(* A step of a batch that adds no name and no object, deletes no file but  *)
(* the batch's own, and forgets no upload.                                 *)
LEMMA SceneMove ==
  ASSUME SceneInv, NEW b \in Batches, NEW p, Moved(b, p), Booked(b), Published(b),
         assets' = assets, DOMAIN cleanup' = DOMAIN cleanup,
         objects' \subseteq objects, faultsLeft' \in Nat,
         files \ batch[b].local \subseteq files', files' \subseteq Keys,
         leaked \subseteq leaked', leaked' \subseteq Keys,
         p \in WorkPhases => batch[b].phase \in WorkPhases,
         p \in ScenePhases => batch[b].phase \in ScenePhases,
         p \in FreshPhases => batch[b].phase \in FreshPhases,
         p \in FilePhases => batch[b].phase \in FilePhases /\ files \subseteq files',
         p \notin ObjectPhases \cup RejectPhases,
         \A k \in objects' :
           k = Key(b) /\ batch[b].phase \in ObjectPhases => Accounted(k)'
  PROVE  SceneInv'
<1> USE DEF SceneInv
<1>1. \A k : Fresh(k)' = Fresh(k) /\ NoAssetAt(k)' = NoAssetAt(k)
  BY FreshFrame
<1>2. /\ \A c \in Batches \ {b} : batch'[c] = batch[c]
      /\ batch' \in [Batches -> BatchRecords] /\ batch'[b].phase = p
      /\ LimitKept(b)
  BY DEF Moved
<1>3. /\ UndoneRequests'
      /\ \A c \in Batches : Published(c) => Published(c)'
  BY <1>2, BookedKeeps
<1>4. AtWork(b) /\ Key(b)[1] = b /\ \A k \in batch[b].local : k[1] = b /\ NoAssetAt(k)
  BY DEF KeysAtWork, AtWork, Key
<1>5. \A c \in Batches : LimitKept(c)
  BY <1>2 DEF LimitKept
<1>6. AtWork(b)'
  <2>1. p \in FreshPhases => Fresh(Key(b)) /\ Fresh(Key(b)') = Fresh(Key(b)) /\ Key(b)' = Key(b)
    BY <1>4 DEF AtWork, Moved, Key, FreshPhases, FilePhases, WorkPhases
  <2>2. p \in FreshPhases => Fresh(Key(b))'
    BY <1>1, <2>1
  <2>3. p \in FilePhases => OnDisk(Key(b))'
    <3>1. p \in FilePhases => OnDisk(Key(b)) /\ Key(b)' = Key(b)
      BY <1>4, <2>1 DEF AtWork, FreshPhases
    <3> QED
      BY <1>2, <1>4, <3>1, LateStays DEF OnDisk
  <2>4. p # "save" /\ p \notin RejectPhases
    BY DEF ObjectPhases
  <2>5. /\ \A k \in batch[b].local : NoAssetAt(k)'
        /\ \A k : Fresh(k) => Fresh(k)'
    BY <1>1, <1>4
  <2> QED BY <1>3, <1>4, <2>2, <2>3, <2>4, <2>5, AtWorkMove
<1>7. SceneTypes'
  BY <1>2 DEF Booked, SceneTypes, IsAsset
<1>8. KeysAtWork'
  BY <1>1, <1>2, <1>3, <1>4, <1>6, OthersKeep
<1>9. AssetsSafe'
  <2>1. \A a \in assets : a.key \in files => OnDisk(a.key)'
    BY <1>4 DEF NoAssetAt, OnDisk
  <2> QED BY <1>5, <2>1, SafeFrame
<1>10. UploadsAccounted'
  <2>1. /\ \A k \in objects' : k \in objects
        /\ \A a \in assets : Accounted(a.key)'
        /\ \A k \in DOMAIN cleanup \cup leaked : Accounted(k)'
    BY DEF Accounted
  <2> QED BY <1>2, <2>1, UploadsFrame
<1> QED BY <1>3, <1>7, <1>8, <1>9, <1>10

-----------------------------------------------------------------------------
(* The steps of a batch that name nothing new. *)

LEMMA QuotaMoves ==
  ASSUME NEW q \in Reservations, NEW billed \in BOOLEAN
  PROVE  \A r \in {QuotaCancelled(q), QuotaSettled(q), QuotaFinalized(q),
                   QuotaAfterFailure(q, billed)} :
           /\ r \in Reservations
           /\ r = "none" => q = "none"
           /\ q \in Spent => r \in Spent
           /\ r = "consumed" => q = "consumed" /\ r # QuotaSettled(q)
BY DEF QuotaCancelled, QuotaSettled, QuotaFinalized, QuotaAfterFailure,
   Reservations, Spent

LEMMA RunMayFail ==
  ASSUME SceneTypes, srun' = srun \/ srun' = RunFailed
  PROVE  srun' \in RunRecords
BY DEF RunFailed, SceneTypes, RunRecords

(* Phases of work, and those that are none. *)
LEMMA PhasesAre ==
  /\ ScenePhases \subseteq WorkPhases /\ WorkPhases \subseteq BatchPhases
  /\ {"idle", "retry", "crashed", "killed", "raised", "ended"} \subseteq
       BatchPhases \ WorkPhases
  /\ ObjectPhases \subseteq ScenePhases
  /\ "next" \notin ScenePhases /\ "finish" \notin ScenePhases
  /\ "finalize" \notin ScenePhases /\ "mark" \notin ScenePhases
  /\ "settle" \notin ScenePhases
  /\ {"next", "finish", "finalize", "mark", "settle"} \subseteq WorkPhases
BY DEF ScenePhases, FreshPhases, FilePhases, RejectPhases, ObjectPhases,
   WorkPhases, BatchPhases

LEMMA SubsetPhases ==
  /\ FilePhases \subseteq FreshPhases /\ FreshPhases \subseteq ScenePhases
  /\ RejectPhases \subseteq ScenePhases
BY DEF ScenePhases, FreshPhases

(* A batch that leaves its scene, or its delivery.                         *)
LEMMA LeavesScene ==
  ASSUME SceneInv, NEW b \in Batches, NEW p, Moved(b, p), Booked(b),
         batch[b].phase \in WorkPhases, p \notin ScenePhases,
         assets' = assets, DOMAIN cleanup' = DOMAIN cleanup,
         objects' \subseteq objects, faultsLeft' \in Nat,
         files \ batch[b].local \subseteq files', files' \subseteq files,
         leaked \subseteq leaked', leaked' \subseteq Keys,
         \A k \in objects' :
           k = Key(b) /\ batch[b].phase \in ObjectPhases => Accounted(k)'
  PROVE  SceneInv'
<1>1. Published(b)
  BY PhasesAre, WorkIsPublished
<1>2. files' \subseteq Keys
  BY DEF SceneInv, SceneTypes
<1>3. p \notin FreshPhases /\ p \notin FilePhases /\ p \notin ObjectPhases \cup RejectPhases
  BY SubsetPhases, PhasesAre
<1> QED BY <1>1, <1>2, <1>3, SceneMove

(* Every exit accounts for the upload that was under way. *)
LEMMA OrphanIsLeaked ==
  ASSUME NEW b \in Batches, assets' = assets, objects' \subseteq objects,
         DOMAIN cleanup' = DOMAIN cleanup, leaked' = leaked \cup Orphan(b),
         NEW k \in objects', k = Key(b)
  PROVE  Accounted(k)'
BY DEF Accounted, Orphan

LEMMA OrphanIsKey ==
  ASSUME SceneInv, NEW b \in Batches
  PROVE  Orphan(b) \subseteq Keys /\ leaked \cup Orphan(b) \subseteq Keys
BY DEF Orphan, SceneInv, SceneTypes

LEMMA FailsClaimedKeeps ==
  ASSUME SceneInv, NEW b \in Batches, batch[b].phase \in WorkPhases, FailsClaimed(b),
         UNCHANGED <<request, assets, objects, cleanup>>, faultsLeft' \in Nat
  PROVE  SceneInv'
<1>1. Moved(b, "raised")
  BY PhasesAre, LeaveMoves DEF FailsClaimed, SceneInv
<1>2. Booked(b)
  <2>1. batch[b].billed \in BOOLEAN /\ reserved[b] \in Reservations
    BY BatchTypes DEF SceneInv, SceneTypes, BatchRecords
  <2>2. srun' \in RunRecords
    BY RunMayFail DEF FailsClaimed, SceneInv, SceneTypes
  <2>3. batch'[b].phase \notin {"idle", "ended"}
    BY <1>1 DEF Moved
  <2>4. CASE row[b] = "running"
    <3>1. /\ row' = [row EXCEPT ![b] = "failed"]
          /\ reserved' = [reserved EXCEPT ![b] =
                            QuotaAfterFailure(@, batch[b].billed)]
      BY <2>4 DEF FailsClaimed
    <3> QED BY <2>1, <2>2, <2>3, <2>4, <3>1, QuotaMoves DEF Booked, SceneInv,
               SceneTypes, RowStates
  <2>5. CASE row[b] # "running"
    BY <2>2, <2>3, <2>5 DEF FailsClaimed, Booked, SceneInv, SceneTypes
  <2> QED BY <2>4, <2>5
<1>3. /\ files \ batch[b].local \subseteq files' /\ files' \subseteq files
      /\ leaked' = leaked \cup Orphan(b)
  BY DEF FailsClaimed
<1>4. \A k \in objects' : k = Key(b) => Accounted(k)'
  BY <1>3, OrphanIsLeaked
<1> QED BY <1>1, <1>2, <1>3, <1>4, OrphanIsKey, PhasesAre, LeavesScene

LEMMA SceneFailsKeeps ==
  ASSUME SceneInv, NEW b \in Batches, batch[b].phase \in ScenePhases, SceneFails(b),
         UNCHANGED <<srun, request, row, reserved, assets, objects, files, cleanup>>,
         faultsLeft' \in Nat
  PROVE  SceneInv'
<1>1. Moved(b, "next")
  BY CollectedMoves DEF SceneFails, SceneInv, KeysAtWork, AtWork
<1>2. Booked(b)
  BY <1>1, NothingBooked DEF Moved
<1>3. leaked' = leaked \cup Orphan(b)
  BY DEF SceneFails
<1>4. \A k \in objects' : k = Key(b) => Accounted(k)'
  BY <1>3, OrphanIsLeaked
<1> QED BY <1>1, <1>2, <1>3, <1>4, OrphanIsKey, PhasesAre, LeavesScene

LEMMA CancelledKeeps ==
  ASSUME SceneInv, NEW b \in Batches, batch[b].phase \in WorkPhases, Cancelled(b),
         UNCHANGED <<srun, request, row, reserved, assets, files>>,
         DOMAIN cleanup' = DOMAIN cleanup, objects' \subseteq objects,
         leaked \subseteq leaked', leaked' \subseteq Keys, faultsLeft' \in Nat,
         batch[b].phase \in ObjectPhases => Key(b) \notin objects' \/ Key(b) \in leaked'
  PROVE  SceneInv'
<1>1. Moved(b, "finish")
  BY CancelledMoves DEF SceneInv
<1>2. Booked(b)
  BY <1>1, NothingBooked DEF Moved
<1>3. \A k \in objects' :
        k = Key(b) /\ batch[b].phase \in ObjectPhases => Accounted(k)'
  BY DEF Accounted
<1> QED BY <1>1, <1>2, <1>3, PhasesAre, LeavesScene

LEMMA GoKeeps ==
  ASSUME SceneInv, NEW b \in Batches, NEW p \in BatchPhases, Go(b, p), Booked(b),
         Published(b), UNCHANGED <<assets, objects, files, cleanup, leaked>>,
         faultsLeft' \in Nat,
         \/ /\ batch[b].phase \notin WorkPhases
            /\ p \notin WorkPhases
         \/ /\ batch[b].phase \in WorkPhases \ ObjectPhases
            /\ \/ p \in WorkPhases \ ScenePhases
               \/ p \in {"recorded", "retract"} /\ batch[b].phase \in ScenePhases
  PROVE  SceneInv'
<1>1. Moved(b, p)
  <2>1. {"recorded", "retract"} \subseteq WorkPhases
    BY DEF WorkPhases
  <2> QED BY <2>1, GoMoves DEF SceneInv, KeysAtWork
<1>2. files' \subseteq Keys /\ leaked' \subseteq Keys
  BY DEF SceneInv, SceneTypes
<1>3. CASE batch[b].phase \notin WorkPhases /\ p \notin WorkPhases
  BY <1>1, <1>2, <1>3, PhasesAre, SubsetPhases, SceneMove
<1>4. CASE /\ batch[b].phase \in WorkPhases \ ObjectPhases
           /\ p \in WorkPhases \ ScenePhases
  BY <1>1, <1>2, <1>4, PhasesAre, SubsetPhases, SceneMove
<1>5. CASE /\ batch[b].phase \in ScenePhases \ ObjectPhases
           /\ p \in {"recorded", "retract"}
  <2>1. p \notin FreshPhases /\ p \notin FilePhases /\ p \notin ObjectPhases \cup RejectPhases
    BY <1>5 DEF FreshPhases, FilePhases, ObjectPhases, RejectPhases
  <2>2. batch[b].phase \in WorkPhases
    BY <1>5, PhasesAre
  <2> QED BY <1>1, <1>2, <1>5, <2>1, <2>2, SceneMove
<1> QED BY <1>3, <1>4, <1>5, PhasesAre

(* A delivery that is refused before it begins. *)
LEMMA RefuseBatchKeeps ==
  ASSUME SceneInv, NEW b \in Batches, RefuseBatch(b), faultsLeft' \in Nat
  PROVE  SceneInv'
<1>1. /\ UNCHANGED <<request, assets, objects, files, cleanup, leaked>>
      /\ Published(b) /\ batch[b].phase \notin WorkPhases
  BY PhasesAre DEF RefuseBatch, Waiting
<1>2. reserved[b] \in Reservations /\ DOMAIN batch = Batches
      /\ batch[b] \in BatchRecords
  BY BatchTypes DEF SceneInv, SceneTypes
<1>3. PICK p \in {"ended", "raised"} : Go(b, p) /\ Booked(b)
  <2>1. CASE /\ row[b] \notin {"pending", "queued", "failed"}
             /\ reserved' = [reserved EXCEPT ![b] = QuotaSettled(@)]
             /\ Go(b, "ended")
             /\ UNCHANGED <<srun, row>>
    <3>1. QuotaSettled(reserved[b]) \in Reservations \ {"consumed"}
          /\ (QuotaSettled(reserved[b]) = "none" => reserved[b] = "none")
          /\ (reserved[b] \in Spent => QuotaSettled(reserved[b]) \in Spent)
      BY <1>2 DEF QuotaSettled, Reservations, Spent
    <3> QED BY <1>1, <2>1, <3>1 DEF Booked, SceneInv, SceneTypes
  <2>2. CASE /\ row[b] \in {"pending", "queued", "failed"}
             /\ row' = [row EXCEPT ![b] = "rejected"]
             /\ reserved' = [reserved EXCEPT ![b] = QuotaCancelled(@)]
             /\ Go(b, "raised")
             /\ UNCHANGED srun
    <3>1. /\ QuotaCancelled(reserved[b]) \in Reservations
          /\ QuotaCancelled(reserved[b]) = "none" => reserved[b] = "none"
          /\ reserved[b] \in Spent => QuotaCancelled(reserved[b]) \in Spent
      BY <1>2, QuotaMoves
    <3>2. batch'[b].phase = "raised"
      BY <1>2, <2>2 DEF Go, BatchRecords
    <3> QED BY <1>1, <2>2, <3>1, <3>2 DEF Booked, SceneInv, SceneTypes, RowStates
  <2>3. CASE /\ row[b] \in {"pending", "queued", "failed"}
             /\ row' = [row EXCEPT ![b] = "failed"]
             /\ srun' = RunFailed
             /\ Go(b, "raised")
             /\ UNCHANGED reserved
    <3>1. srun' \in RunRecords
      BY <2>3, RunMayFail DEF SceneInv
    <3>2. batch'[b].phase = "raised"
      BY <1>2, <2>3 DEF Go, BatchRecords
    <3> QED BY <1>1, <2>3, <3>1, <3>2 DEF Booked, SceneInv, SceneTypes, RowStates
  <2> QED BY <2>1, <2>2, <2>3 DEF RefuseBatch
<1>4. p \in BatchPhases \ WorkPhases
  BY PhasesAre
<1> QED BY <1>1, <1>3, <1>4, GoKeeps

(* The checkpoints between the steps write nothing but the batch. *)
LEMMA SceneCheckpointKeeps ==
  ASSUME SceneInv, NEW b \in Batches, faultsLeft' \in Nat,
         AfterSave(b) \/ AfterRecord(b) \/ LastCheckpoint(b)
  PROVE  SceneInv'
<1>0. UNCHANGED <<srun, request, row, reserved, assets, objects, files, cleanup,
                 leaked>>
  BY DEF AfterSave, AfterRecord, LastCheckpoint
<1>1. SceneTypes /\ batch[b] \in BatchRecords /\ Stopped(b) \in BOOLEAN
  BY BatchTypes DEF SceneInv, Stopped
<1>2. CASE AfterRecord(b)
  <2>1. batch[b].phase = "recorded" /\ Published(b)
    BY <1>2, WorkIsPublished DEF AfterRecord, In
  <2> PICK p \in {"retract", "next"} : Go(b, p)
    BY <1>2 DEF AfterRecord
  <2>2. /\ batch[b].phase \in WorkPhases \ ObjectPhases
        /\ batch[b].phase \in ScenePhases
    BY <2>1 DEF WorkPhases, ObjectPhases, ScenePhases
  <2>3. p \in WorkPhases \ ScenePhases \/ p = "retract"
    BY PhasesAre
  <2>4. batch'[b].phase = p /\ p \in BatchPhases
    BY <1>1, PhasesAre DEF Go, SceneTypes, BatchRecords, BatchPhases, WorkPhases
  <2> QED BY <1>0, <2>1, <2>2, <2>3, <2>4, NothingBooked, GoKeeps
<1>3. CASE AfterSave(b)
  <2> DEFINE new == [batch[b] EXCEPT !.ok = @ \cup {batch[b].scene},
                       !.cancelled = Stopped(b),
                       !.phase = IF Stopped(b) THEN "finish" ELSE "record"]
  <2>0. batch[b].phase = "saved" /\ batch[b].scene \in Scenes
    BY <1>3 DEF AfterSave, In, SceneInv, KeysAtWork, AtWork, ScenePhases
  <2>1. /\ new \in BatchRecords /\ new.delivery = batch[b].delivery
        /\ new.scene = batch[b].scene /\ new.todo = batch[b].todo
        /\ new.local = batch[b].local /\ new.phase \in {"finish", "record"}
        /\ new.limit = batch[b].limit
    BY <2>0, <1>1 DEF BatchRecords, BatchPhases, WorkPhases
  <2>2. batch' = [batch EXCEPT ![b] = new]
    BY <1>3 DEF AfterSave
  <2> HIDE DEF new
  <2>3. Moved(b, new.phase) /\ batch'[b].phase = new.phase
    BY <1>1, <2>1, <2>2, UpdateMoves DEF WorkPhases, Moved
  <2>4. /\ Booked(b) /\ Published(b)
    BY <1>0, <2>0, <2>1, <2>3, NothingBooked, WorkIsPublished
  <2>5. /\ batch[b].phase \in ScenePhases /\ batch[b].phase \in WorkPhases
        /\ batch[b].phase \notin ObjectPhases
        /\ new.phase \notin FreshPhases /\ new.phase \notin FilePhases
        /\ new.phase \notin ObjectPhases \cup RejectPhases
    BY <2>0, <2>1 DEF ScenePhases, WorkPhases, FreshPhases, FilePhases,
       RejectPhases, ObjectPhases
  <2>6. files' \subseteq Keys /\ leaked' \subseteq Keys
    BY <1>0, <1>1 DEF SceneTypes
  <2> QED BY <1>0, <2>3, <2>4, <2>5, <2>6, SceneMove
<1>4. CASE LastCheckpoint(b)
  <2> DEFINE new == [batch[b] EXCEPT !.cancelled = @ \/ Stopped(b),
                                     !.phase = "finalize"]
  <2>0. batch[b].phase = "finish"
    BY <1>4 DEF LastCheckpoint, In
  <2>1. /\ new \in BatchRecords /\ new.delivery = batch[b].delivery
        /\ new.scene = batch[b].scene /\ new.todo = batch[b].todo
        /\ new.local = batch[b].local /\ new.phase = "finalize"
        /\ new.limit = batch[b].limit
    BY <1>1 DEF BatchRecords, BatchPhases, WorkPhases
  <2>2. batch' = [batch EXCEPT ![b] = new]
    BY <1>4 DEF LastCheckpoint
  <2> HIDE DEF new
  <2>3. Moved(b, "finalize")
    BY <1>1, <2>1, <2>2, PhasesAre, UpdateMoves
  <2>4. Booked(b)
    BY <1>0, <2>3, NothingBooked DEF Moved
  <2>5. batch[b].phase \in WorkPhases \ ObjectPhases
    BY <2>0, PhasesAre
  <2>6. leaked' \subseteq Keys
    BY <1>0, <1>1 DEF SceneTypes
  <2> QED BY <1>0, <2>3, <2>4, <2>5, <2>6, PhasesAre, LeavesScene
<1> QED BY <1>2, <1>3, <1>4

(* The attempt is authorized, denied, or refused with an error. *)
LEMMA AuthorizeKeeps ==
  ASSUME SceneInv, NEW b \in Batches, Authorize(b), faultsLeft' \in Nat
  PROVE  SceneInv'
<1>0. /\ UNCHANGED <<request, assets, objects, cleanup>>
      /\ batch[b].phase = "authorize" /\ batch[b].phase \in WorkPhases
      /\ batch[b].phase \notin ObjectPhases
  BY DEF Authorize, In, WorkPhases, ObjectPhases
<1>1. SceneTypes /\ batch[b] \in BatchRecords
  BY BatchTypes DEF SceneInv
<1>2. CASE /\ reserved' = [reserved EXCEPT ![b] =
                             IF @ = "reserved" THEN "authorized" ELSE @]
           /\ batch' = [batch EXCEPT ![b].phase = "generated", ![b].billed = TRUE]
           /\ UNCHANGED <<srun, row, files, leaked>>
  <2> DEFINE new == [batch[b] EXCEPT !.phase = "generated", !.billed = TRUE]
  <2>1. /\ new \in BatchRecords /\ new.delivery = batch[b].delivery
        /\ new.scene = batch[b].scene /\ new.todo = batch[b].todo
        /\ new.local = batch[b].local /\ new.phase = "generated"
        /\ new.limit = batch[b].limit
    BY <1>1 DEF BatchRecords, BatchPhases, WorkPhases
  <2>2. batch' = [batch EXCEPT ![b] = new]
    BY <1>2
  <2> HIDE DEF new
  <2>3. Moved(b, "generated") /\ batch'[b].phase = "generated"
    BY <1>1, <2>1, <2>2, UpdateMoves DEF WorkPhases, Moved
  <2>4. Booked(b) /\ Published(b)
    BY <1>0, <1>1, <1>2, <2>3, WorkIsPublished DEF Booked, SceneTypes, Reservations,
       Spent
  <2>5. /\ batch[b].phase \in FilePhases
        /\ "generated" \notin ObjectPhases \cup RejectPhases
    BY <1>0 DEF FilePhases, ObjectPhases, RejectPhases
  <2>6. files' \subseteq Keys /\ leaked' \subseteq Keys
    BY <1>1, <1>2 DEF SceneTypes
  <2> QED BY <1>0, <1>2, <2>3, <2>4, <2>5, <2>6, SubsetPhases, SceneMove
<1>3. CASE Cancelled(b) /\ UNCHANGED <<srun, row, reserved, files, leaked>>
  <2>1. leaked' \subseteq Keys
    BY <1>1, <1>3 DEF SceneTypes
  <2> QED BY <1>0, <1>3, <2>1, CancelledKeeps
<1>4. CASE FailsClaimed(b)
  BY <1>0, <1>4, FailsClaimedKeeps
<1> QED BY <1>2, <1>3, <1>4 DEF Authorize

(* The provider answers and writes the file, or fails. *)
LEMMA ProviderAnswersKeeps ==
  ASSUME SceneInv, NEW b \in Batches, ProviderAnswers(b), faultsLeft' \in Nat
  PROVE  SceneInv'
<1>0. /\ UNCHANGED <<srun, request, row, reserved, assets, objects, cleanup, leaked>>
      /\ batch[b].phase = "generated" /\ batch[b].phase \in WorkPhases
      /\ batch[b].phase \notin ObjectPhases
  BY DEF ProviderAnswers, In, WorkPhases, ObjectPhases
<1>1. SceneTypes /\ batch[b] \in BatchRecords /\ leaked' \subseteq Keys
  BY <1>0, BatchTypes DEF SceneInv, SceneTypes
<1>2. CASE Cancelled(b) /\ UNCHANGED files
  BY <1>0, <1>1, <1>2, CancelledKeeps
<1>3. CASE Go(b, "upload") /\ files' = files \cup {Key(b)}
  <2>1. Moved(b, "upload") /\ batch'[b].phase = "upload"
    BY <1>1, <1>3, GoMoves DEF WorkPhases, BatchPhases, SceneInv, KeysAtWork, Moved
  <2>2. Booked(b) /\ Published(b)
    BY <1>0, <2>1, NothingBooked, WorkIsPublished
  <2>3. Key(b) \in Keys
    BY <1>0, <1>1 DEF SceneInv, KeysAtWork, AtWork, Key, Keys, ScenePhases,
       FreshPhases, FilePhases, BatchRecords
  <2>4. /\ batch[b].phase \in FilePhases
        /\ "upload" \notin ObjectPhases \cup RejectPhases
    BY <1>0 DEF FilePhases, ObjectPhases, RejectPhases
  <2>5. files' \subseteq Keys
    BY <1>1, <1>3, <2>3 DEF SceneTypes
  <2> QED BY <1>0, <1>1, <1>3, <2>1, <2>2, <2>4, <2>5, SubsetPhases, SceneMove
<1> QED BY <1>2, <1>3 DEF ProviderAnswers

LEMMA ProviderFailsKeeps ==
  ASSUME SceneInv, NEW b \in Batches, ProviderFails(b), faultsLeft' \in Nat
  PROVE  SceneInv'
<1>0. /\ UNCHANGED <<request, assets, objects, cleanup>>
      /\ batch[b].phase = "generated" /\ batch[b].phase \in WorkPhases
      /\ batch[b].phase \in ScenePhases /\ batch[b].phase \notin ObjectPhases
  BY DEF ProviderFails, In, WorkPhases, ObjectPhases, ScenePhases, FreshPhases,
     FilePhases
<1>1. CASE SceneFails(b) /\ UNCHANGED <<srun, row, reserved, files>>
  BY <1>0, <1>1, SceneFailsKeeps
<1>2. CASE Retries(b)
  <2>1. Moved(b, "retry")
    BY <1>2, PhasesAre, LeaveMoves DEF Retries, SceneInv
  <2>2. Booked(b)
    BY <1>0, <1>2, <2>1 DEF Retries, Booked, Moved, SceneInv, SceneTypes, RowStates
  <2>3. /\ files' = files \ batch[b].local /\ UNCHANGED leaked /\ leaked' \subseteq Keys
    BY <1>2 DEF Retries, SceneInv, SceneTypes
  <2> QED BY <1>0, <2>1, <2>2, <2>3, PhasesAre, LeavesScene
<1>3. CASE FailsClaimed(b)
  BY <1>0, <1>3, FailsClaimedKeeps
<1> QED BY <1>1, <1>2, <1>3 DEF ProviderFails

(* The record of the call, whose failure ends the delivery. *)
LEMMA RecordCallKeeps ==
  ASSUME SceneInv, NEW b \in Batches, RecordCall(b), faultsLeft' \in Nat
  PROVE  SceneInv'
<1>0. /\ UNCHANGED <<request, assets, objects, cleanup>>
      /\ batch[b].phase = "record" /\ batch[b].phase \in WorkPhases \ ObjectPhases
      /\ batch[b].phase \in ScenePhases
  BY DEF RecordCall, In, WorkPhases, ObjectPhases, ScenePhases
<1>1. CASE /\ reserved' = [reserved EXCEPT ![b] = IF Open(b) THEN "consumed" ELSE @]
           /\ Go(b, "recorded")
           /\ UNCHANGED <<srun, row, files, leaked>>
  <2>1. batch'[b].phase = "recorded" /\ "recorded" \in BatchPhases /\ Published(b)
    BY <1>0, <1>1, BatchTypes, WorkIsPublished DEF Go, SceneInv, BatchRecords,
       BatchPhases, WorkPhases
  <2>2. Booked(b)
    BY <1>0, <1>1, <2>1 DEF Booked, SceneInv, SceneTypes, Reservations, Spent
  <2> QED BY <1>0, <1>1, <2>1, <2>2, GoKeeps
<1>2. CASE FailsClaimed(b)
  BY <1>0, <1>2, FailsClaimedKeeps
<1> QED BY <1>1, <1>2 DEF RecordCall

(* The end of a batch: the stage, the row, the quota. *)
LEMMA FinalizeKeeps ==
  ASSUME SceneInv, NEW b \in Batches, Finalize(b), faultsLeft' \in Nat
  PROVE  SceneInv'
<1>0. /\ UNCHANGED <<request, row, reserved, assets, objects, cleanup, leaked>>
      /\ batch[b].phase = "finalize" /\ files' = files \ batch[b].local
      /\ batch[b].phase \in WorkPhases \ ObjectPhases
  BY PhasesAre DEF Finalize, In
<1>1. SceneTypes /\ batch[b] \in BatchRecords /\ leaked' \subseteq Keys
  BY <1>0, BatchTypes DEF SceneInv, SceneTypes
<1>2. Moved(b, "mark") /\ batch'[b].phase = "mark"
  <2> DEFINE new == [batch[b] EXCEPT !.phase = "mark",
                       !.cancelled = @ \/ srun.status = "cancelled"]
  <2>1. /\ new \in BatchRecords /\ new.delivery = batch[b].delivery
        /\ new.scene = batch[b].scene /\ new.todo = batch[b].todo
        /\ new.local = batch[b].local /\ new.phase = "mark"
        /\ new.limit = batch[b].limit
    BY <1>1 DEF BatchRecords, BatchPhases, WorkPhases
  <2>2. batch' = [batch EXCEPT ![b] = new]
    BY DEF Finalize
  <2> HIDE DEF new
  <2> QED BY <1>1, <2>1, <2>2, PhasesAre, UpdateMoves DEF Moved
<1>3. srun' \in RunRecords
  <2>1. /\ [srun EXCEPT !.stage = "FAILED", !.status = "failed"] \in RunRecords
        /\ [srun EXCEPT !.stage = "VISUAL_ASSET_REVIEW", !.status = "running"]
             \in RunRecords
    BY <1>1 DEF SceneTypes, RunRecords, SceneStages
  <2> QED BY <1>1, <2>1 DEF Finalize, SceneTypes
<1>4. Booked(b)
  BY <1>0, <1>1, <1>2, <1>3 DEF Booked, SceneTypes, SceneInv
<1> QED BY <1>0, <1>1, <1>2, <1>4, PhasesAre, LeavesScene

LEMMA EndKeeps ==
  ASSUME SceneInv, NEW b \in Batches, MarkRow(b) \/ SettleBatch(b),
         faultsLeft' \in Nat
  PROVE  SceneInv'
<1>0. /\ UNCHANGED <<srun, request, assets, objects, files, cleanup, leaked>>
      /\ batch[b].phase \in {"mark", "settle"}
      /\ batch[b].phase \in WorkPhases \ ObjectPhases /\ Published(b)
  BY PhasesAre, WorkIsPublished DEF MarkRow, SettleBatch, In
<1>1. SceneTypes /\ leaked' \subseteq Keys
  BY <1>0 DEF SceneInv, SceneTypes
<1>2. CASE MarkRow(b)
  <2>1. batch'[b].phase = "settle" /\ Go(b, "settle")
    BY <1>1, <1>2, BatchTypes DEF MarkRow, Go, BatchRecords
  <2>2. Booked(b)
    BY <1>0, <1>1, <1>2, <2>1 DEF MarkRow, Booked, SceneTypes, RowStates
  <2> QED BY <1>0, <2>1, <2>2, PhasesAre, GoKeeps
<1>3. CASE SettleBatch(b)
  <2>1. Moved(b, "ended") /\ batch'[b].phase = "ended"
    BY <1>1, <1>3, PhasesAre, LeaveMoves DEF SettleBatch, Moved
  <2>2. Booked(b)
    <3>1. reserved[b] \in Reservations
      BY <1>1 DEF SceneTypes
    <3>2. /\ QuotaSettled(reserved[b]) \in Reservations \ {"consumed"}
          /\ QuotaSettled(reserved[b]) = "none" => reserved[b] = "none"
          /\ reserved[b] \in Spent => QuotaSettled(reserved[b]) \in Spent
      BY <3>1 DEF QuotaSettled, Reservations, Spent
    <3>3. reserved' = [reserved EXCEPT ![b] = QuotaSettled(@)] /\ row' = row
      BY <1>3 DEF SettleBatch
    <3> QED BY <1>0, <1>1, <2>1, <3>2, <3>3 DEF Booked, SceneTypes
  <2> QED BY <1>0, <1>1, <2>1, <2>2, PhasesAre, LeavesScene
<1> QED BY <1>2, <1>3

(* A statement raises, or a soft limit strikes. *)
LEMMA StatementFailsKeeps ==
  ASSUME SceneInv, NEW b \in Batches, StatementFails(b) \/ SoftTimeLimit(b),
         faultsLeft' \in Nat
  PROVE  SceneInv'
<1>0. UNCHANGED <<request, assets, objects, cleanup>>
  BY DEF StatementFails, SoftTimeLimit
<1>1. CASE FailsClaimed(b) /\ Working(b)
  BY <1>0, <1>1, FailsClaimedKeeps DEF Working
<1>2. CASE /\ Go(b, "settle") /\ batch[b].phase = "mark"
           /\ UNCHANGED <<srun, row, reserved, files, leaked>>
  <2>1. batch'[b].phase = "settle" /\ Published(b)
    BY <1>2, BatchTypes, WorkIsPublished DEF SceneInv, Go, BatchRecords
  <2> QED BY <1>0, <1>2, <2>1, PhasesAre, NothingBooked, GoKeeps
<1>3. CASE /\ SceneFails(b) /\ UNCHANGED <<srun, row, reserved, files>>
           /\ Working(b)
           /\ batch[b].phase \notin {"next", "record", "recorded", "finish",
                                     "finalize", "settle", "mark"}
  <2>1. batch[b].phase \in ScenePhases
    BY <1>3 DEF Working, WorkPhases, ScenePhases, FreshPhases, FilePhases,
       RejectPhases
  <2> QED BY <1>0, <1>3, <2>1, SceneFailsKeeps
<1>4. CASE /\ Waiting(b) /\ Go(b, "raised")
           /\ UNCHANGED <<srun, row, reserved, files, leaked>>
  <2>1. batch'[b].phase = "raised" /\ Published(b) /\ batch[b].phase \notin WorkPhases
    BY <1>4, BatchTypes, PhasesAre DEF SceneInv, Go, BatchRecords, Waiting
  <2> QED BY <1>0, <1>4, <2>1, PhasesAre, NothingBooked, GoKeeps
<1> QED BY <1>1, <1>2, <1>3, <1>4 DEF StatementFails, SoftTimeLimit, In

(* A worker that dies, or is killed. *)
LEMMA DiesKeeps ==
  ASSUME SceneInv, NEW b \in Batches, NEW p \in {"killed", "crashed"}, Dies(b, p),
         Working(b), faultsLeft' \in Nat,
         UNCHANGED <<srun, request, row, reserved, assets, objects, files, cleanup>>
  PROVE  SceneInv'
<1> DEFINE r == LeftBy(b, p)
           lim == Killed(r.limit)
           new == [r EXCEPT !.limit = lim]
<1>0. p \in BatchPhases \ WorkPhases /\ SceneTypes
  BY PhasesAre DEF SceneInv
<1>1. /\ r \in BatchRecords /\ r.phase = p /\ r.delivery = batch[b].delivery
      /\ r.todo = {} /\ r.local = {} /\ r.limit = batch[b].limit
  BY <1>0, LeftByIs
<1>4. batch' = [batch EXCEPT ![b] = new]
  BY DEF Dies
<1> HIDE DEF r
<1>2. /\ lim \in LimitRecords
      /\ r.limit.step \in {"kill", "done"} =>
           /\ lim.step \in {"kill", "done"} /\ lim.of = r.limit.of
           /\ lim.saved = r.limit.saved
  <2>1. r.limit \in LimitRecords
    BY <1>1 DEF BatchRecords
  <2> QED BY <2>1 DEF LimitRecords, Killed
<1> HIDE DEF lim
<1>5. /\ new \in BatchRecords /\ new.phase = p /\ new.delivery = batch[b].delivery
      /\ new.todo = {} /\ new.local = {} /\ new.limit = lim
  BY <1>1, <1>2 DEF BatchRecords
<1> HIDE DEF new
<1>6. Moved(b, p) /\ batch'[b].phase = p
  BY <1>0, <1>1, <1>2, <1>4, <1>5, BatchTypes DEF Moved, LimitKept
<1>7. Booked(b)
  BY <1>6, NothingBooked
<1>8. leaked' = leaked \cup Orphan(b)
  BY DEF Dies
<1>9. \A k \in objects' : k = Key(b) => Accounted(k)'
  BY <1>8, OrphanIsLeaked
<1> QED BY <1>0, <1>6, <1>7, <1>8, <1>9, OrphanIsKey, PhasesAre, LeavesScene DEF Working

-----------------------------------------------------------------------------
(* The steps that begin a delivery or a scene, and those of the upload.    *)

(* A step of one batch that leaves assets, records and files to the rest.  *)
LEMMA BatchKeeps ==
  ASSUME SceneInv, NEW b \in Batches, batch' \in [Batches -> BatchRecords],
         \A c \in Batches \ {b} : batch'[c] = batch[c],
         LimitKept(b), AtWork(b)', Booked(b),
         assets' = assets, DOMAIN cleanup' = DOMAIN cleanup,
         files \subseteq files', files' \subseteq Keys,
         objects' \subseteq Keys, leaked \subseteq leaked', leaked' \subseteq Keys,
         \A k \in objects' : k \in objects \/ Accounted(k)',
         batch[b].phase \in ObjectPhases =>
           \A k \in objects' : k = Key(b) => Accounted(k)',
         faultsLeft' \in Nat
  PROVE  SceneInv'
<1> USE DEF SceneInv
<1>1. \A k : Fresh(k)' = Fresh(k) /\ NoAssetAt(k)' = NoAssetAt(k)
  BY FreshFrame
<1>2. /\ UndoneRequests'
      /\ \A c \in Batches : Published(c) => Published(c)'
  BY BookedKeeps
<1>3. SceneTypes'
  BY DEF Booked, SceneTypes, IsAsset
<1>4. KeysAtWork'
  BY <1>1, <1>2, OthersKeep
<1>5. AssetsSafe'
  <2>1. \A c \in Batches : LimitKept(c)
    BY DEF LimitKept
  <2>2. \A a \in assets : a.key \in files => OnDisk(a.key)'
    BY DEF OnDisk
  <2> QED BY <2>1, <2>2, SafeFrame
<1>6. UploadsAccounted'
  <2>1. /\ \A a \in assets : Accounted(a.key)'
        /\ \A k \in DOMAIN cleanup \cup leaked : Accounted(k)'
    BY DEF Accounted
  <2> QED BY <2>1, UploadsFrame
<1> QED BY <1>2, <1>3, <1>4, <1>5, <1>6

(* A delivery starts: its names are those of no delivery before it. *)
LEMMA StartBatchKeeps ==
  ASSUME SceneInv, NEW b \in Batches, StartBatch(b), faultsLeft' \in Nat
  PROVE  SceneInv'
<1>0. /\ UNCHANGED <<srun, request, reserved, assets, objects, files, cleanup, leaked>>
      /\ batch[b].phase \in {"idle", "retry", "crashed"}
      /\ Published(b) /\ MayRedeliver(b) /\ row[b] \in {"pending", "queued", "failed"}
  BY DEF StartBatch, Waiting
<1>1. SceneTypes /\ batch[b] \in BatchRecords /\ batch[b].phase \notin WorkPhases
  BY <1>0, BatchTypes, PhasesAre DEF SceneInv
<1>2. \A k : Fresh(k)' = Fresh(k) /\ NoAssetAt(k)' = NoAssetAt(k)
  BY <1>0, FreshFrame
<1>3. AtWork(b) /\ Key(b)[1] = b
  BY DEF SceneInv, KeysAtWork, Key
<1> PICK d \in 0 .. 1 : d = batch[b].delivery
  BY <1>0, <1>1 DEF MayRedeliver, BatchRecords, Deliveries
<1> DEFINE n1 == [batch[b] EXCEPT !.phase = "next"]
           n2 == [n1 EXCEPT !.delivery = d + 1]
           new == [n2 EXCEPT !.todo = batch[b].wanted]
<1>4. /\ new \in BatchRecords /\ new.phase = "next" /\ new.delivery = d + 1
      /\ new.local = {} /\ new.todo \subseteq Scenes
      /\ new.limit = batch[b].limit
  <2>0. d + 1 \in 0 .. Deliveries /\ batch[b].wanted \in SUBSET Scenes
        /\ batch[b].local = {} /\ "next" \in BatchPhases
    BY <1>1, <1>3, PhasesAre DEF BatchRecords, Deliveries, AtWork
  <2>1. n1 \in BatchRecords /\ n1.phase = "next" /\ n1.local = {}
        /\ n1.limit = batch[b].limit
    BY <1>1, <2>0 DEF BatchRecords
  <2> HIDE DEF n1
  <2>2. n2 \in BatchRecords /\ n2.phase = "next" /\ n2.local = {}
        /\ n2.limit = batch[b].limit /\ n2.delivery = d + 1
    BY <2>0, <2>1 DEF BatchRecords
  <2> HIDE DEF n2
  <2> QED BY <2>0, <2>2 DEF BatchRecords
<1>5. batch' = [batch EXCEPT ![b] = new]
  BY Zenon, <1>1 DEF StartBatch
<1> HIDE DEF new
<1>6. /\ batch' \in [Batches -> BatchRecords] /\ batch'[b] = new
      /\ \A c \in Batches \ {b} : batch'[c] = batch[c]
  BY <1>1, <1>4, <1>5, BatchTypes
<1>7. Booked(b)
  BY <1>0, <1>1, <1>4, <1>6 DEF StartBatch, Booked, SceneInv, SceneTypes, RowStates,
     LiveRows, UndoneRequests
<1>8. Published(b)'
  BY <1>0, <1>7, BookedKeeps, <1>6
<1>9. AtWork(b)'
  <2>1. /\ \A n \in 1 .. Deliveries, x \in Scenes : n > d => Fresh(<<b, n, x>>)'
        /\ \A x \in Scenes : Fresh(<<b, d + 1, x>>)'
    BY <1>2, <1>3 DEF AtWork, Deliveries
  <2>2. "next" \notin ScenePhases /\ "next" \notin FreshPhases
        /\ "next" \notin RejectPhases /\ "next" \notin FilePhases
    BY PhasesAre, SubsetPhases
  <2>3. \A x \in new.todo : Fresh(<<b, d + 1, x>>)'
    BY <1>4, <2>1
  <2> QED BY <1>4, <1>6, <1>8, <2>1, <2>2, <2>3, PhasesAre DEF AtWork, Deliveries
<1>10. LimitKept(b)
  BY <1>4, <1>6 DEF LimitKept
<1>11. /\ files' \subseteq Keys /\ objects' \subseteq Keys /\ leaked' \subseteq Keys
       /\ batch[b].phase \notin ObjectPhases
  BY <1>0, <1>1, PhasesAre DEF SceneTypes
<1> QED BY <1>0, <1>6, <1>7, <1>9, <1>10, <1>11, BatchKeeps

(* The batch turns to its next scene, whose name is still fresh. *)
LEMMA NextSceneKeeps ==
  ASSUME SceneInv, NEW b \in Batches, NextScene(b), faultsLeft' \in Nat
  PROVE  SceneInv'
<1>0. /\ UNCHANGED <<srun, request, row, reserved, assets, objects, files, cleanup,
                 leaked>>
      /\ batch[b].phase = "next" /\ batch[b].phase \in WorkPhases \ ObjectPhases
      /\ Published(b) /\ leaked' \subseteq Keys
  BY PhasesAre, WorkIsPublished DEF NextScene, In, SceneInv, SceneTypes
<1>1. SceneTypes /\ batch[b] \in BatchRecords /\ AtWork(b)
  BY BatchTypes DEF SceneInv, KeysAtWork
<1>2. CASE Go(b, "finish")
  <2>1. batch'[b].phase = "finish"
    BY <1>1, <1>2, BatchTypes DEF Go, BatchRecords
  <2> QED BY <1>0, <1>2, <2>1, PhasesAre, NothingBooked, GoKeeps
<1>3. CASE Cancelled(b)
  BY <1>0, <1>3, CancelledKeeps
<1>4. CASE \E s \in batch[b].todo :
             batch' = [batch EXCEPT ![b].scene = s, ![b].todo = @ \ {s},
                         ![b].phase = "generate"]
  <2> PICK s \in batch[b].todo :
        batch' = [batch EXCEPT ![b].scene = s, ![b].todo = @ \ {s},
                    ![b].phase = "generate"]
    BY <1>4
  <2> DEFINE n1 == [batch[b] EXCEPT !.scene = s]
             n2 == [n1 EXCEPT !.todo = batch[b].todo \ {s}]
             new == [n2 EXCEPT !.phase = "generate"]
  <2>1. /\ new \in BatchRecords /\ new.phase = "generate"
        /\ new.delivery = batch[b].delivery /\ new.local = batch[b].local
        /\ new.todo = batch[b].todo \ {s} /\ new.scene = s
        /\ new.limit = batch[b].limit /\ s \in Scenes
    <3>0. s \in Scenes /\ batch[b].todo \ {s} \in SUBSET Scenes
          /\ "generate" \in BatchPhases
      BY <1>1 DEF BatchRecords, BatchPhases, WorkPhases
    <3>1. n1 \in BatchRecords /\ n1.scene = s /\ n1.todo = batch[b].todo
          /\ n1.local = batch[b].local /\ n1.delivery = batch[b].delivery
          /\ n1.limit = batch[b].limit
      BY <1>1, <3>0 DEF BatchRecords
    <3> HIDE DEF n1
    <3>2. n2 \in BatchRecords /\ n2.scene = s /\ n2.todo = batch[b].todo \ {s}
          /\ n2.local = batch[b].local /\ n2.delivery = batch[b].delivery
          /\ n2.limit = batch[b].limit
      BY <3>0, <3>1 DEF BatchRecords
    <3> HIDE DEF n2
    <3> QED BY <3>0, <3>2 DEF BatchRecords
  <2>2. batch' = [batch EXCEPT ![b] = new]
    BY Zenon, <1>1
  <2> HIDE DEF new
  <2>3. /\ batch' \in [Batches -> BatchRecords] /\ batch'[b] = new
        /\ \A c \in Batches \ {b} : batch'[c] = batch[c]
    <3>1. new \in BatchRecords /\ batch \in [Batches -> BatchRecords]
      BY <1>1, <2>1, BatchTypes
    <3> QED BY <2>2, <3>1
  <2>4. Booked(b)
    BY <1>0, <2>1, <2>3, NothingBooked
  <2>5. \A k : Fresh(k)' = Fresh(k) /\ NoAssetAt(k)' = NoAssetAt(k)
    BY <1>0, FreshFrame
  <2>6. AtWork(b)'
    <3>1. Key(b)' = <<b, batch[b].delivery, s>>
      BY <2>1, <2>3 DEF Key
    <3>2. Fresh(<<b, batch[b].delivery, s>>)
      BY <1>1 DEF AtWork
    <3>3. PICK x : x = <<b, batch[b].delivery, s>>
      OBVIOUS
    <3>4. Fresh(x)' /\ x = Key(b)'
      BY <2>5, <3>1, <3>2, <3>3
    <3>5. Fresh(Key(b))'
      BY <3>4 DEF Fresh, NoAssetAt
    <3>6. /\ "generate" \in ScenePhases /\ "generate" \in FreshPhases
          /\ "generate" \in WorkPhases
          /\ "generate" \notin FilePhases /\ "generate" \notin RejectPhases
      BY DEF ScenePhases, FreshPhases, FilePhases, RejectPhases, WorkPhases
    <3>7. batch[b].delivery > 0 /\ Published(b)'
      BY <1>0, <1>1, <2>3, <2>4, BookedKeeps DEF AtWork
    <3> PICK d : d = batch[b].delivery
      OBVIOUS
    <3>8. \A k \in new.local :
            /\ k[1] = b /\ k[2] = d /\ k[3] \notin new.todo
            /\ NoAssetAt(k)'
      BY <1>1, <2>1, <2>5 DEF AtWork
    <3>9. \A y \in new.todo : Fresh(<<b, d, y>>)'
      <4>1. \A y \in batch[b].todo : Fresh(<<b, d, y>>)
        BY <1>1 DEF AtWork
      <4> QED BY <2>1, <2>5, <4>1
    <3>10. \A n \in 1 .. Deliveries, y \in Scenes :
             n > d => Fresh(<<b, n, y>>)'
      <4>1. \A n \in 1 .. Deliveries, y \in Scenes :
              n > d => Fresh(<<b, n, y>>)
        BY <1>1 DEF AtWork
      <4> QED BY <2>1, <2>5, <4>1
    <3>11. /\ batch'[b].phase = "generate" /\ batch'[b].delivery = d
           /\ batch'[b].local = new.local /\ batch'[b].todo = new.todo
           /\ batch'[b].scene \in Scenes \ new.todo
      BY <2>1, <2>3
    <3> QED BY <3>5, <3>6, <3>7, <3>8, <3>9, <3>10, <3>11 DEF AtWork
  <2>7. LimitKept(b)
    BY <2>1, <2>3 DEF LimitKept
  <2>8. files' \subseteq Keys /\ objects' \subseteq Keys
    BY <1>0, <1>1 DEF SceneTypes
  <2> QED BY <1>0, <2>3, <2>4, <2>6, <2>7, <2>8, BatchKeeps
<1> QED BY <1>2, <1>3, <1>4 DEF NextScene

(* The name of the upload a batch works on. *)
LEMMA KeyIsName ==
  ASSUME SceneInv, NEW b \in Batches, batch[b].phase \in ScenePhases
  PROVE  /\ Key(b) \in Keys /\ Key(b)[1] = b /\ Key(b)[2] = batch[b].delivery
         /\ Key(b)[3] = batch[b].scene /\ batch[b].scene \in Scenes \ batch[b].todo
         /\ batch[b].delivery > 0
<1>1. batch[b] \in BatchRecords /\ AtWork(b) /\ batch[b].phase \in WorkPhases
  BY BatchTypes, PhasesAre DEF SceneInv, KeysAtWork
<1>2. batch[b].scene \in Scenes \ batch[b].todo
  BY <1>1 DEF AtWork
<1>3. batch[b].delivery \in 1 .. Deliveries
  BY <1>1 DEF AtWork, BatchRecords, Deliveries
<1> QED BY <1>2, <1>3 DEF Key, Keys

(* A batch goes on with its scene; what it calls its own may change.       *)
LEMMA AtWorkStays ==
  ASSUME SceneInv, NEW b \in Batches, batch[b].phase \in ScenePhases,
         batch'[b].phase \in WorkPhases \ RejectPhases,
         batch'[b].delivery = batch[b].delivery,
         batch'[b].scene = batch[b].scene, batch'[b].todo = batch[b].todo,
         NEW L, batch'[b].local = L, L \subseteq batch[b].local \cup {Key(b)},
         batch'[b].phase = "save" => Key(b) \notin L,
         Published(b)', \A k : Fresh(k)' = Fresh(k) /\ NoAssetAt(k)' = NoAssetAt(k),
         Fresh(Key(b)), batch'[b].phase \in FilePhases => OnDisk(Key(b))'
  PROVE  AtWork(b)'
<1>1. AtWork(b)
  BY DEF SceneInv, KeysAtWork
<1>2. /\ Key(b) \in Keys /\ Key(b)[1] = b /\ Key(b)[2] = batch[b].delivery
      /\ Key(b)[3] = batch[b].scene /\ batch[b].scene \in Scenes \ batch[b].todo
      /\ batch[b].delivery > 0
  BY KeyIsName
<1> PICK d, k : d = batch[b].delivery /\ k = Key(b)
  OBVIOUS
<1>3. k = Key(b)' /\ Fresh(k)'
  BY DEF Key
<1>4. Fresh(Key(b))'
  BY <1>3 DEF Fresh, NoAssetAt
<1>5. \A x \in L : x[1] = b /\ x[2] = d /\ x[3] \notin batch[b].todo /\ NoAssetAt(x)'
  BY <1>1, <1>2 DEF AtWork, Fresh
<1>6. \A s \in batch[b].todo : Fresh(<<b, d, s>>)'
  BY <1>1 DEF AtWork
<1>7. \A n \in 1 .. Deliveries, s \in Scenes : n > d => Fresh(<<b, n, s>>)'
  BY <1>1 DEF AtWork
<1>8. batch'[b].delivery = d /\ d > 0 /\ batch'[b].scene \in Scenes \ batch'[b].todo
  BY <1>2
<1>9. \A s \in batch'[b].todo : Fresh(<<b, d, s>>)'
  BY <1>6
<1>10. (Key(b))' \notin L \/ batch'[b].phase # "save"
  BY <1>3
<1>11. \A x \in L : x[1] = b /\ x[2] = d /\ x[3] \notin batch'[b].todo /\ NoAssetAt(x)'
  BY <1>5
<1> QED BY <1>4, <1>7, <1>8, <1>9, <1>10, <1>11 DEF AtWork

(* A file of the batch's own. *)
LEMMA GenerateKeeps ==
  ASSUME SceneInv, NEW b \in Batches, Generate(b), faultsLeft' \in Nat
  PROVE  SceneInv'
<1>0. /\ UNCHANGED <<srun, request, row, reserved, assets, objects, cleanup, leaked>>
      /\ batch[b].phase = "generate" /\ files' = files \cup {Key(b)}
      /\ batch[b].phase \in ScenePhases /\ Published(b)
      /\ batch[b].phase \in FreshPhases
  BY WorkIsPublished DEF Generate, In, ScenePhases, FreshPhases
<1>1. SceneTypes /\ batch[b] \in BatchRecords /\ AtWork(b) /\ Key(b) \in Keys
  BY <1>0, BatchTypes, KeyIsName DEF SceneInv, KeysAtWork
<1> DEFINE p == IF Stopped(b) THEN "finish" ELSE "authorize"
           n1 == [batch[b] EXCEPT !.local = batch[b].local \cup {Key(b)}]
           n2 == [n1 EXCEPT !.cancelled = Stopped(b)]
           new == [n2 EXCEPT !.phase = p]
<1>2. /\ new \in BatchRecords /\ new.phase \in {"finish", "authorize"}
      /\ new.delivery = batch[b].delivery /\ new.scene = batch[b].scene
      /\ new.todo = batch[b].todo /\ new.local = batch[b].local \cup {Key(b)}
      /\ new.limit = batch[b].limit
  <2>0. /\ batch[b].local \cup {Key(b)} \in SUBSET Keys /\ Stopped(b) \in BOOLEAN
        /\ p \in {"finish", "authorize"} /\ {"finish", "authorize"} \subseteq BatchPhases
    BY <1>1 DEF Stopped, BatchRecords, BatchPhases, WorkPhases
  <2> HIDE DEF p
  <2>1. /\ n1 \in BatchRecords /\ n1.delivery = batch[b].delivery
        /\ n1.scene = batch[b].scene /\ n1.todo = batch[b].todo
        /\ n1.local = batch[b].local \cup {Key(b)} /\ n1.limit = batch[b].limit
    BY <1>1, <2>0 DEF BatchRecords
  <2> HIDE DEF n1
  <2>2. /\ n2 \in BatchRecords /\ n2.delivery = batch[b].delivery
        /\ n2.scene = batch[b].scene /\ n2.todo = batch[b].todo
        /\ n2.local = batch[b].local \cup {Key(b)} /\ n2.limit = batch[b].limit
    BY <2>0, <2>1 DEF BatchRecords
  <2> HIDE DEF n2
  <2> QED BY <2>0, <2>2 DEF BatchRecords
<1>3. batch' = [batch EXCEPT ![b] = new]
  BY Zenon, <1>1 DEF Generate
<1> HIDE DEF new
<1>4. /\ batch' \in [Batches -> BatchRecords] /\ batch'[b] = new
      /\ \A c \in Batches \ {b} : batch'[c] = batch[c]
  <2>1. batch \in [Batches -> BatchRecords]
    BY <1>1, BatchTypes
  <2> QED BY <1>2, <1>3, <2>1
<1>5. Booked(b)
  BY <1>0, <1>2, <1>4, NothingBooked
<1>6. LimitKept(b) /\ Published(b)'
  BY <1>0, <1>2, <1>4, <1>5, BookedKeeps DEF LimitKept
<1>7. AtWork(b)'
  <2>1. \A k : Fresh(k)' = Fresh(k) /\ NoAssetAt(k)' = NoAssetAt(k)
    BY <1>0, FreshFrame
  <2>2. Fresh(Key(b)) /\ Key(b)' = Key(b)
    BY <1>0, <1>1, <1>2, <1>4 DEF AtWork, Key
  <2>3. OnDisk(Key(b))'
    BY <1>0, <2>2 DEF OnDisk
  <2>4. batch'[b].phase \in WorkPhases \ RejectPhases /\ batch'[b].phase # "save"
    BY <1>2, <1>4 DEF WorkPhases, RejectPhases
  <2>5. /\ batch'[b].delivery = batch[b].delivery
        /\ batch'[b].scene = batch[b].scene /\ batch'[b].todo = batch[b].todo
    BY <1>2, <1>4
  <2>6. batch'[b].local = batch[b].local \cup {Key(b)}
    BY <1>2, <1>4
  <2> QED BY <1>0, <1>6, <2>1, <2>2, <2>3, <2>4, <2>5, <2>6, AtWorkStays
<1>8. /\ files' \subseteq Keys /\ objects' \subseteq Keys /\ leaked' \subseteq Keys
      /\ batch[b].phase \notin ObjectPhases /\ files \subseteq files'
  BY <1>0, <1>1 DEF SceneTypes, ObjectPhases
<1> QED BY <1>0, <1>4, <1>5, <1>6, <1>7, <1>8, BatchKeeps

(* The upload: the object is in the store, and only the batch knows it.    *)
LEMMA SceneUploadKeeps ==
  ASSUME SceneInv, NEW b \in Batches, Upload(b), faultsLeft' \in Nat
  PROVE  SceneInv'
<1>0. /\ UNCHANGED <<srun, request, row, reserved, assets, files, cleanup>>
      /\ batch[b].phase = "upload" /\ batch[b].phase \in ScenePhases
      /\ batch[b].phase \in WorkPhases \ ObjectPhases
      /\ batch[b].phase \in FilePhases /\ Published(b)
  BY WorkIsPublished DEF Upload, In, ScenePhases, FreshPhases, FilePhases,
     WorkPhases, ObjectPhases
<1>1. SceneTypes /\ AtWork(b) /\ Key(b) \in Keys /\ leaked \subseteq Keys
  BY <1>0, KeyIsName DEF SceneInv, KeysAtWork, SceneTypes
<1>2. CASE Cancelled(b) /\ UNCHANGED <<objects, leaked>>
  BY <1>0, <1>1, <1>2, CancelledKeeps
<1>3. CASE SceneFails(b) /\ UNCHANGED objects
  BY <1>0, <1>3, SceneFailsKeeps
<1>4. CASE /\ Go(b, "uploaded") /\ objects' = objects \cup {Key(b)}
           /\ UNCHANGED leaked
  <2>1. Moved(b, "uploaded") /\ batch'[b].phase = "uploaded"
    <3>1. "uploaded" \in WorkPhases /\ "uploaded" \in BatchPhases
      BY PhasesAre DEF WorkPhases
    <3> QED BY <1>1, <1>4, <3>1, GoMoves DEF Moved
  <2>2. Booked(b)
    BY <1>0, <2>1, NothingBooked
  <2>3. \A k : Fresh(k)' = Fresh(k) /\ NoAssetAt(k)' = NoAssetAt(k)
    BY <1>0, FreshFrame
  <2>4. Published(b)' /\ Key(b)' = Key(b)
    BY <1>0, <2>1, <2>2, BookedKeeps DEF Moved, Key, WorkPhases
  <2>5. AtWork(b)'
    <3>1. Fresh(Key(b)) /\ OnDisk(Key(b)) /\ Key(b)[1] = b
      BY <1>0, <1>1, SubsetPhases DEF AtWork, Key
    <3>2. Fresh(Key(b))' /\ OnDisk(Key(b))'
      <4>1. Fresh(Key(b)') /\ Fresh(Key(b)') = Fresh(Key(b))'
        BY <2>3, <2>4, <3>1 DEF Fresh, NoAssetAt
      <4>2. files' = files /\ LimitKept(b)
        BY <1>0, <2>1 DEF Moved
      <4> QED BY <2>4, <3>1, <4>1, <4>2, LateStays DEF OnDisk
    <3>3. \A k \in batch[b].local : NoAssetAt(k)'
      BY <1>1, <2>3 DEF AtWork
    <3> QED BY <1>0, <1>1, <2>1, <2>3, <2>4, <3>2, <3>3, AtWorkMove DEF RejectPhases
  <2>6. \A k \in objects' : k \in objects \/ Accounted(k)'
    <3>1. \A k \in objects' : k \in objects \/ k = Key(b)
      BY <1>4
    <3>2. ASSUME NEW k, k = Key(b) PROVE Accounted(k)'
      <4>1. k[1] = b /\ k = Key(b)'
        BY <2>4, <3>2 DEF Key
      <4> QED BY <2>1, <4>1 DEF Accounted, ObjectPhases
    <3> QED BY <3>1, <3>2
  <2>7. /\ files' \subseteq Keys /\ objects' \subseteq Keys /\ leaked' \subseteq Keys
        /\ files \subseteq files' /\ leaked \subseteq leaked'
    BY <1>0, <1>1, <1>4 DEF SceneTypes
  <2> QED BY <1>0, <2>1, <2>2, <2>5, <2>6, <2>7, BatchKeeps DEF Moved
<1> QED BY <1>2, <1>3, <1>4 DEF Upload

(* The check after the upload: on to the save, or delete the object. *)
LEMMA AfterUploadKeeps ==
  ASSUME SceneInv, NEW b \in Batches, AfterUpload(b) \/ DeletionFails(b),
         faultsLeft' \in Nat
  PROVE  SceneInv'
<1>0. /\ UNCHANGED <<srun, request, row, reserved, assets, files, cleanup>>
      /\ batch[b].phase = "uploaded" /\ batch[b].phase \in ScenePhases
      /\ batch[b].phase \in WorkPhases /\ batch[b].phase \in FilePhases
      /\ Published(b)
  BY WorkIsPublished DEF AfterUpload, DeletionFails, In, ScenePhases, FreshPhases,
     FilePhases, WorkPhases
<1>1. SceneTypes /\ AtWork(b) /\ Key(b) \in Keys /\ batch[b] \in BatchRecords
      /\ leaked \subseteq Keys
  BY <1>0, KeyIsName, BatchTypes DEF SceneInv, KeysAtWork, SceneTypes
<1>2. CASE /\ Cancelled(b)
           /\ \/ objects' = objects \ {Key(b)} /\ UNCHANGED leaked
              \/ leaked' = leaked \cup {Key(b)} /\ UNCHANGED objects
  BY <1>0, <1>1, <1>2, CancelledKeeps
<1>3. CASE /\ batch' = [batch EXCEPT ![b].phase = "save", ![b].local = @ \ {Key(b)}]
           /\ UNCHANGED <<objects, leaked>>
  <2> DEFINE n1 == [batch[b] EXCEPT !.phase = "save"]
             new == [n1 EXCEPT !.local = batch[b].local \ {Key(b)}]
  <2>1. /\ new \in BatchRecords /\ new.phase = "save"
        /\ new.delivery = batch[b].delivery /\ new.scene = batch[b].scene
        /\ new.todo = batch[b].todo /\ new.local = batch[b].local \ {Key(b)}
        /\ new.limit = batch[b].limit
    <3>1. batch[b].local \ {Key(b)} \in SUBSET Keys /\ "save" \in BatchPhases
      BY <1>1 DEF BatchRecords, BatchPhases, WorkPhases
    <3>2. /\ n1 \in BatchRecords /\ n1.phase = "save"
          /\ n1.delivery = batch[b].delivery /\ n1.scene = batch[b].scene
          /\ n1.todo = batch[b].todo /\ n1.limit = batch[b].limit
      BY <1>1, <3>1 DEF BatchRecords
    <3> HIDE DEF n1
    <3> QED BY <3>1, <3>2 DEF BatchRecords
  <2>2. batch' = [batch EXCEPT ![b] = new]
    BY Zenon, <1>1, <1>3
  <2> HIDE DEF new
  <2>3. /\ batch' \in [Batches -> BatchRecords] /\ batch'[b] = new
        /\ \A c \in Batches \ {b} : batch'[c] = batch[c]
    <3>1. batch \in [Batches -> BatchRecords]
      BY <1>1, BatchTypes
    <3> QED BY <2>1, <2>2, <3>1
  <2>4. Booked(b)
    BY <1>0, <2>1, <2>3, NothingBooked
  <2>5. LimitKept(b) /\ Published(b)' /\ Key(b)' = Key(b) /\ Key(b)[1] = b
    BY <1>0, <2>1, <2>3, <2>4, BookedKeeps DEF LimitKept, Key
  <2>6. Fresh(Key(b)) /\ OnDisk(Key(b))
    BY <1>0, <1>1, SubsetPhases DEF AtWork
  <2>7. AtWork(b)'
    <3>1. \A k : Fresh(k)' = Fresh(k) /\ NoAssetAt(k)' = NoAssetAt(k)
      BY <1>0, FreshFrame
    <3>2. OnDisk(Key(b))'
      BY <1>0, <2>5, <2>6, LateStays DEF OnDisk
    <3>3. /\ batch'[b].phase \in WorkPhases \ RejectPhases
          /\ batch'[b].delivery = batch[b].delivery
          /\ batch'[b].scene = batch[b].scene /\ batch'[b].todo = batch[b].todo
      BY <2>1, <2>3 DEF WorkPhases, RejectPhases
    <3>4. batch'[b].local = batch[b].local \ {Key(b)}
      BY <2>1, <2>3
    <3> QED BY <1>0, <2>5, <2>6, <3>1, <3>2, <3>3, <3>4, AtWorkStays
  <2>8. \A k \in objects' : k = Key(b) => Accounted(k)'
    BY <2>1, <2>3, <2>5 DEF Accounted, ObjectPhases
  <2>9. /\ files' \subseteq Keys /\ objects' \subseteq Keys /\ leaked' \subseteq Keys
        /\ files \subseteq files' /\ objects' \subseteq objects
    BY <1>0, <1>1, <1>3 DEF SceneTypes
  <2> QED BY <1>0, <1>3, <2>3, <2>4, <2>5, <2>7, <2>8, <2>9, BatchKeeps
<1> QED BY <1>2, <1>3 DEF AfterUpload, DeletionFails

(* Whether it is active is all that is ever changed in an asset. *)
LEMMA AssetUpdate ==
  ASSUME NEW a, IsAsset(a), NEW v \in BOOLEAN
  PROVE  /\ IsAsset([a EXCEPT !.active = v])
         /\ [a EXCEPT !.active = v].id = a.id
         /\ [a EXCEPT !.active = v].key = a.key
         /\ [a EXCEPT !.active = v].active = v
<1> DEFINE r == [id |-> a.id, key |-> a.key, active |-> v, version |-> a.version]
<1>1. [a EXCEPT !.active = v] = r
  <2>1. a = [id |-> a.id, key |-> a.key, active |-> a.active, version |-> a.version]
    BY DEF IsAsset
  <2>2. [[id |-> a.id, key |-> a.key, active |-> a.active, version |-> a.version]
           EXCEPT !.active = v] = r
    OBVIOUS
  <2> QED BY <2>1, <2>2
<1>2. r.id = a.id /\ r.key = a.key /\ r.active = v /\ r.version = a.version
  OBVIOUS
<1>3. IsAsset(r)
  BY <1>2 DEF IsAsset
<1> QED BY <1>1, <1>2, <1>3

(* What an asset is named after is a batch and a scene. *)
LEMMA AssetNames ==
  ASSUME NEW a, IsAsset(a)
  PROVE  a.id \in Batches \X Scenes /\ a.key \in Keys
<1>1. a.key[1] \in Batches /\ a.key[3] \in Scenes
  BY DEF IsAsset, Keys
<1>2. a.id = <<a.key[1], a.key[3]>> /\ a.key \in Keys
  BY DEF IsAsset
<1> QED BY <1>1, <1>2

(* save_asset: the rows that are there keep their names, one that was      *)
(* active may not be so any more, and the new one has the batch's.         *)
LEMMA SavedAssets ==
  ASSUME SceneInv, NEW b \in Batches, batch[b].phase = "save",
         \A a \in assets : a.id # AssetId(b), assets' = Saved(b)
  PROVE  /\ \A a \in assets' : IsAsset(a)
         /\ \A a \in assets' : a.key = Key(b) \/ \E x \in assets : x.key = a.key
         /\ \A x \in assets : \E a \in assets' : a.key = x.key
         /\ \E a \in assets' : a.key = Key(b)
         /\ \A a1, a2 \in assets' : a1.id = a2.id => a1 = a2
         /\ \A a1, a2 \in assets' :
              a1.active /\ a2.active /\ a1.id[2] = a2.id[2] => a1 = a2
<1> USE DEF SceneInv
<1>0. batch[b] \in BatchRecords /\ "save" \in ScenePhases
  BY BatchTypes DEF SceneInv, ScenePhases, FreshPhases, FilePhases
<1>1. /\ Key(b) \in Keys /\ Key(b)[1] = b /\ Key(b)[3] = batch[b].scene
      /\ batch[b].scene \in Scenes /\ batch[b].active \in BOOLEAN
  BY <1>0, KeyIsName DEF BatchRecords
<1> DEFINE here(a) == batch[b].active /\ a \in OfScene(batch[b].scene)
           kept(a) == IF here(a) THEN [a EXCEPT !.active = FALSE] ELSE a
<1> PICK v : assets' = {kept(a) : a \in assets} \cup
       {[id |-> AssetId(b), key |-> Key(b), active |-> batch[b].active,
         version |-> v]}
  BY DEF Saved
<1> DEFINE new == [id |-> AssetId(b), key |-> Key(b), active |-> batch[b].active,
                   version |-> v]
<1>2. \A a \in assets :
        /\ IsAsset(kept(a)) /\ kept(a).id = a.id /\ kept(a).key = a.key
        /\ kept(a).active => a.active /\ ~here(a)
  BY AssetUpdate DEF SceneTypes
<1>3. IsAsset(new) /\ new.id = AssetId(b) /\ new.key = Key(b)
  BY <1>1 DEF IsAsset, AssetId, Key
<1>4. \A a \in assets' : a = new \/ \E x \in assets : a = kept(x)
  OBVIOUS
<1>5. /\ \A x \in assets : kept(x) \in assets'
      /\ new \in assets'
  OBVIOUS
<1> HIDE DEF kept, new
<1>6. /\ \A a \in assets' : IsAsset(a)
      /\ \A a \in assets' : a.key = Key(b) \/ \E x \in assets : x.key = a.key
      /\ \A x \in assets : \E a \in assets' : a.key = x.key
      /\ \E a \in assets' : a.key = Key(b)
  BY <1>2, <1>3, <1>4, <1>5
<1>7. ASSUME NEW a1 \in assets', NEW a2 \in assets', a1.id = a2.id
      PROVE  a1 = a2
  BY <1>2, <1>3, <1>4, <1>7 DEF AssetsSafe
<1>8. ASSUME NEW a1 \in assets', NEW a2 \in assets', a1.active, a2.active,
             a1.id[2] = a2.id[2]
      PROVE  a1 = a2
  <2>1. ASSUME NEW x \in assets, kept(x).active, kept(x).id[2] = new.id[2],
               new.active
        PROVE  FALSE
    <3>1. x \in OfScene(batch[b].scene)
      BY <1>2, <1>3, <2>1 DEF OfScene, AssetId
    <3>2. ~here(x) /\ batch[b].active
      BY <1>2, <2>1 DEF new
    <3> QED BY <3>1, <3>2
  <2>2. CASE a1 = new \/ a2 = new
    BY <1>4, <1>8, <2>1, <2>2
  <2>3. CASE a1 # new /\ a2 # new
    BY <1>2, <1>4, <1>8, <2>3 DEF AssetsSafe
  <2> QED BY <2>2, <2>3
<1> QED BY <1>6, <1>7, <1>8

(* A step of one batch on its own upload: it moves the batch, and what     *)
(* becomes of the assets, of the records and of the store is given.        *)
LEMMA UploadObjectKeeps ==
  ASSUME SceneInv, NEW b \in Batches, NEW p, Moved(b, p), Booked(b), Published(b),
         batch[b].phase \in WorkPhases, p \in WorkPhases \ FreshPhases,
         p \in ScenePhases => batch[b].phase \in ScenePhases,
         p \in RejectPhases => NoAssetAt(Key(b))',
         \A a \in assets' : IsAsset(a),
         \A a1, a2 \in assets' : a1.id = a2.id => a1 = a2,
         \A a1, a2 \in assets' :
           a1.active /\ a2.active /\ a1.id[2] = a2.id[2] => a1 = a2,
         \A a \in assets' : /\ a.key \notin DOMAIN cleanup'
                            /\ a.key \in files => a.key \in files'
                            /\ OnDisk(a.key),
         DOMAIN cleanup' \subseteq Keys,
         \A k : k # Key(b) => /\ NoAssetAt(k) => NoAssetAt(k)'
                              /\ Fresh(k) => Fresh(k)',
         \A k : Fresh(k) /\ ~Fresh(k)' => batch[b].phase \in ScenePhases,
         Key(b) \in batch[b].local => \A a \in assets' : a.key # Key(b),
         \A k \in files : k[1] # b => k \in files', files' \subseteq files,
         objects' \subseteq objects, leaked \subseteq leaked', leaked' \subseteq Keys,
         \A a \in assets : a.key \in objects' => Accounted(a.key)',
         \A k \in DOMAIN cleanup : k \in objects' => Accounted(k)',
         batch[b].phase \in ObjectPhases =>
           \A k \in objects' : k = Key(b) => Accounted(k)',
         faultsLeft' \in Nat
  PROVE  SceneInv'
<1> USE DEF SceneInv
<1>1. /\ \A c \in Batches \ {b} : batch'[c] = batch[c]
      /\ batch' \in [Batches -> BatchRecords] /\ batch'[b].phase = p
      /\ LimitKept(b)
  BY DEF Moved
<1>2. /\ UndoneRequests'
      /\ \A c \in Batches : Published(c) => Published(c)'
  BY <1>1, BookedKeeps
<1>3. AtWork(b) /\ Key(b)[1] = b
  BY DEF KeysAtWork, Key
<1>4. AtWork(b)'
  <2>1. \A k \in batch[b].local : NoAssetAt(k)'
    BY <1>3 DEF AtWork, NoAssetAt
  <2>2. p \notin FilePhases /\ p # "save" /\ p \notin FreshPhases
    BY DEF FreshPhases, FilePhases
  <2> QED BY <1>2, <1>3, <2>1, <2>2, AtWorkMove
<1>5. SceneTypes'
  <2>1. \A a \in assets' : IsAsset(a)'
    BY DEF IsAsset
  <2>2. objects' \cup files' \cup leaked' \subseteq Keys
    BY DEF SceneTypes
  <2> QED BY <1>1, <2>1, <2>2 DEF Booked, SceneTypes
<1>6. KeysAtWork'
  BY <1>1, <1>2, <1>3, <1>4, OthersKeep
<1>7. AssetsSafe'
  <2>1. \A a \in assets' : a.key[1] \in Batches
    BY DEF IsAsset, Keys
  <2>2. \A c \in Batches : LimitKept(c)
    BY <1>1 DEF LimitKept
  <2>3. \A a \in assets' : OnDisk(a.key)'
    BY <2>1, <2>2, LateStays DEF OnDisk
  <2> QED BY <2>3 DEF AssetsSafe
<1>8. UploadsAccounted'
  <2>1. \A k \in leaked : Accounted(k)'
    BY DEF Accounted
  <2> QED BY <1>1, <2>1, UploadsFrame
<1> QED BY <1>2, <1>5, <1>6, <1>7, <1>8

(* The save makes one asset active and switches the others off. *)
LEMMA SaveKeeps ==
  ASSUME SceneInv, NEW b \in Batches, Save(b) \/ SaveUnanswered(b),
         faultsLeft' \in Nat
  PROVE  SceneInv'
<1>0. /\ UNCHANGED <<srun, request, row, reserved, objects, files, cleanup>>
      /\ batch[b].phase = "save" /\ Published(b)
      /\ batch[b].phase \in ScenePhases /\ batch[b].phase \in WorkPhases
      /\ batch[b].phase \in FilePhases
  BY WorkIsPublished DEF Save, SaveUnanswered, NewAsset, In, ScenePhases, FreshPhases,
     FilePhases, WorkPhases
<1>1. /\ Key(b) \in Keys /\ Key(b)[1] = b /\ batch[b].scene \in Scenes
      /\ SceneTypes /\ AtWork(b) /\ leaked \subseteq Keys
  BY <1>0, KeyIsName DEF SceneInv, KeysAtWork, SceneTypes
<1> DEFINE Same == assets' = assets /\ UNCHANGED leaked
           Lost == assets' = assets /\ leaked' = leaked \cup {Key(b)}
           Placed == /\ \A a \in assets : a.id # AssetId(b)
                     /\ assets' = Saved(b) /\ UNCHANGED leaked
<1> PICK p \in {"saved", "next", "discard"} :
         /\ Moved(b, p)
         /\ \/ p \in {"saved", "next"} /\ (Lost \/ Placed)
            \/ p = "discard" /\ Same
  <2>0. {"saved", "discard"} \subseteq WorkPhases /\ WorkPhases \subseteq BatchPhases
    BY PhasesAre DEF WorkPhases
  <2>1. CASE Go(b, "saved") /\ (Lost \/ Placed)
    BY <1>1, <2>0, <2>1, GoMoves
  <2>2. CASE Go(b, "discard") /\ Same
    BY <1>1, <2>0, <2>2, GoMoves
  <2>3. CASE /\ batch' = [batch EXCEPT ![b].bad = @ \cup {batch[b].scene},
                       ![b].phase = "next"]
             /\ Placed
    BY <1>1, <2>3, CollectedMoves
  <2> QED BY <2>1, <2>2, <2>3 DEF Save, SaveUnanswered, NewAsset
<1>2. batch'[b].phase = p /\ (p # "next" => Key(b)' = Key(b))
      /\ p \in WorkPhases \ FreshPhases /\ (p \in RejectPhases => p = "discard")
  BY DEF Moved, Key, WorkPhases, FreshPhases, FilePhases, RejectPhases
<1>3. /\ OnDisk(Key(b)) /\ Fresh(Key(b)) /\ Key(b) \notin batch[b].local
  BY <1>0, <1>1, SubsetPhases DEF AtWork
<1>4. /\ \A a \in assets' : IsAsset(a)
      /\ \A a \in assets' : a.key = Key(b) \/ \E x \in assets : x.key = a.key
      /\ \A x \in assets : \E a \in assets' : a.key = x.key
      /\ \A a1, a2 \in assets' : a1.id = a2.id => a1 = a2
      /\ \A a1, a2 \in assets' :
           a1.active /\ a2.active /\ a1.id[2] = a2.id[2] => a1 = a2
      /\ p = "discard" => assets' = assets
  <2>1. CASE assets' = assets
    BY <2>1 DEF SceneInv, SceneTypes, AssetsSafe
  <2>2. CASE Placed
    BY <2>2, <1>0, SavedAssets
  <2> QED BY <2>1, <2>2
<1>5. \A k : k # Key(b) => /\ NoAssetAt(k) => NoAssetAt(k)'
                           /\ Fresh(k) => Fresh(k)'
  BY <1>0, <1>4 DEF Fresh, NoAssetAt
<1>6. Booked(b)
  BY <1>0, <1>2, NothingBooked
<1>7. p \in RejectPhases => NoAssetAt(Key(b))'
  BY <1>2, <1>3, <1>4 DEF Fresh, NoAssetAt
<1>8. \A a \in assets' : a.key \notin DOMAIN cleanup' /\ OnDisk(a.key)
  BY <1>0, <1>3, <1>4 DEF SceneInv, AssetsSafe, Fresh
<1>9. /\ leaked \subseteq leaked' /\ leaked' \subseteq Keys
      /\ DOMAIN cleanup' \subseteq Keys
  BY <1>0, <1>1 DEF SceneTypes
<1>10. /\ \A a \in assets : Accounted(a.key)'
       /\ \A k \in DOMAIN cleanup : Accounted(k)'
  BY <1>0, <1>4 DEF Accounted
<1>11. \A k \in objects' : k = Key(b) => Accounted(k)'
  <2>1. CASE Lost
    BY <2>1 DEF Accounted
  <2>2. CASE Placed
    <3>1. \E a \in assets' : a.key = Key(b)
      BY <2>2, <1>0, SavedAssets
    <3> QED BY <3>1 DEF Accounted
  <2>3. CASE p = "discard"
    BY <2>3, <1>1, <1>2 DEF Accounted, ObjectPhases
  <2> QED BY <2>1, <2>2, <2>3
<1> HIDE DEF Same, Lost, Placed
<1> QED BY <1>0, <1>2, <1>3, <1>4, <1>5, <1>6, <1>7, <1>8, <1>9, <1>10, <1>11, UploadObjectKeeps

(* An asset saved for a stopped run is taken back. *)
LEMMA RetractKeeps ==
  ASSUME SceneInv, NEW b \in Batches, Retract(b), faultsLeft' \in Nat
  PROVE  SceneInv'
<1>0. /\ UNCHANGED <<srun, request, row, reserved, objects, files, cleanup>>
      /\ batch[b].phase = "retract" /\ Published(b)
      /\ assets' = {a \in assets : a.id # AssetId(b)}
      /\ leaked' = leaked \cup {a.key : a \in {x \in assets :
                              x.id = AssetId(b) /\ x.key # Key(b)}}
      /\ batch[b].phase \in ScenePhases /\ batch[b].phase \in WorkPhases
      /\ batch[b].phase \notin ObjectPhases
  BY WorkIsPublished DEF Retract, In, ScenePhases, WorkPhases, ObjectPhases
<1>1. SceneTypes /\ batch[b] \in BatchRecords /\ Key(b)[1] = b
      /\ Key(b)[3] = batch[b].scene
  BY <1>0, KeyIsName, BatchTypes DEF SceneInv
<1>2. Moved(b, "discard") /\ batch'[b].phase = "discard" /\ Key(b)' = Key(b)
  <2> DEFINE new == [batch[b] EXCEPT !.ok = @ \ {batch[b].scene},
                                     !.phase = "discard"]
  <2>1. new \in BatchRecords
    BY <1>1 DEF BatchRecords, BatchPhases, WorkPhases
  <2>2. batch' = [batch EXCEPT ![b] = new]
    BY <1>1 DEF Retract
  <2>3. /\ new.delivery = batch[b].delivery /\ new.scene = batch[b].scene
        /\ new.todo = batch[b].todo /\ new.local = batch[b].local
        /\ new.phase = "discard" /\ new.limit = batch[b].limit
    BY <1>1 DEF BatchRecords
  <2>4. new.phase \in WorkPhases
    BY <2>3 DEF WorkPhases
  <2> HIDE DEF new
  <2>5. Moved(b, "discard")
    BY <1>1, <2>1, <2>2, <2>3, <2>4, UpdateMoves
  <2> QED BY <2>5, <2>3, <2>4 DEF Moved, Key
<1>3. /\ \A a \in assets' : a \in assets /\ a.key # Key(b)
      /\ NoAssetAt(Key(b))'
  <2>1. \A a \in assets : a.key = Key(b) => a.id = AssetId(b)
    BY <1>1 DEF SceneTypes, IsAsset, AssetId
  <2>2. \A a \in assets' : a.key # Key(b)
    BY <1>0, <2>1
  <2> QED BY <1>0, <1>2, <2>2 DEF NoAssetAt
<1>4. \A k : /\ NoAssetAt(k) => NoAssetAt(k)'
             /\ Fresh(k) => Fresh(k)'
  BY <1>0, <1>3 DEF Fresh, NoAssetAt
<1>5. Booked(b)
  BY <1>0, <1>2, NothingBooked
<1>6. /\ leaked \subseteq leaked' /\ leaked' \subseteq Keys
      /\ DOMAIN cleanup' \subseteq Keys
  BY <1>0, <1>1 DEF SceneTypes, IsAsset
<1>7. /\ \A a \in assets' : IsAsset(a)
      /\ \A a1, a2 \in assets' : a1.id = a2.id => a1 = a2
      /\ \A a1, a2 \in assets' :
           a1.active /\ a2.active /\ a1.id[2] = a2.id[2] => a1 = a2
      /\ \A a \in assets' : a.key \notin DOMAIN cleanup' /\ OnDisk(a.key)
  BY <1>0, <1>1, <1>3 DEF SceneInv, AssetsSafe, SceneTypes
<1>8. \A a \in assets : Accounted(a.key)'
  <2> SUFFICES ASSUME NEW a \in assets PROVE Accounted(a.key)'
    OBVIOUS
  <2>1. CASE a.id # AssetId(b)
    BY <2>1, <1>0 DEF Accounted
  <2>2. CASE a.id = AssetId(b) /\ a.key # Key(b)
    BY <2>2, <1>0 DEF Accounted
  <2>3. CASE a.key = Key(b)
    <3>1. a.key = Key(b)' /\ a.key[1] = b
      BY <2>3, <1>1, <1>2
    <3> QED BY <1>2, <3>1 DEF Accounted, ObjectPhases
  <2> QED BY <2>1, <2>2, <2>3
<1>9. \A k \in DOMAIN cleanup : Accounted(k)'
  BY <1>0 DEF Accounted
<1>10. "discard" \in WorkPhases \ FreshPhases
  BY DEF WorkPhases, FreshPhases, FilePhases
<1> QED BY <1>0, <1>2, <1>3, <1>4, <1>5, <1>6, <1>7, <1>8, <1>9, <1>10, UploadObjectKeeps

(* The durable record of a rejected upload. *)
LEMMA DiscardKeeps ==
  ASSUME SceneInv, NEW b \in Batches, Discard(b), faultsLeft' \in Nat
  PROVE  SceneInv'
<1>0. /\ UNCHANGED <<srun, request, row, reserved, assets, objects, files, leaked>>
      /\ batch[b].phase = "discard" /\ Published(b)
      /\ DOMAIN cleanup' = DOMAIN cleanup \cup {Key(b)}
      /\ batch[b].phase \in ScenePhases /\ batch[b].phase \in WorkPhases
      /\ batch[b].phase \in RejectPhases
  BY WorkIsPublished DEF Discard, In, ScenePhases, WorkPhases, RejectPhases
<1>1. SceneTypes /\ AtWork(b) /\ Key(b) \in Keys
  BY <1>0, KeyIsName DEF SceneInv, KeysAtWork
<1>2. "tidy" \in WorkPhases \ FreshPhases
  BY DEF WorkPhases, FreshPhases, FilePhases
<1>3. Moved(b, "tidy") /\ batch'[b].phase = "tidy" /\ Key(b)' = Key(b)
  <2>1. Moved(b, "tidy")
    BY <1>1, <1>2, PhasesAre, GoMoves DEF Discard
  <2> QED BY <1>2, <2>1 DEF Moved, Key
<1>4. NoAssetAt(Key(b)) /\ NoAssetAt(Key(b))' /\ \A a \in assets' : a.key # Key(b)
  BY <1>0, <1>1, <1>3 DEF AtWork, NoAssetAt
<1>5. \A k : /\ NoAssetAt(k)' = NoAssetAt(k)
             /\ k # Key(b) /\ Fresh(k) => Fresh(k)'
  BY <1>0 DEF Fresh, NoAssetAt
<1>6. Booked(b)
  BY <1>0, <1>3, NothingBooked
<1>7. /\ \A a \in assets' : IsAsset(a)
      /\ \A a1, a2 \in assets' : a1.id = a2.id => a1 = a2
      /\ \A a1, a2 \in assets' :
           a1.active /\ a2.active /\ a1.id[2] = a2.id[2] => a1 = a2
      /\ \A a \in assets' : a.key \notin DOMAIN cleanup' /\ OnDisk(a.key)
  BY <1>0, <1>1, <1>4 DEF SceneInv, AssetsSafe, SceneTypes, NoAssetAt
<1>8. /\ DOMAIN cleanup' \subseteq Keys /\ leaked' \subseteq Keys
  BY <1>0, <1>1 DEF SceneTypes
<1>9. /\ \A a \in assets : Accounted(a.key)'
      /\ \A k \in DOMAIN cleanup : Accounted(k)'
      /\ \A k \in objects' : k = Key(b) => Accounted(k)'
  BY <1>0 DEF Accounted
<1> QED BY <1>0, <1>2, <1>3, <1>4, <1>5, <1>6, <1>7, <1>8, <1>9, UploadObjectKeeps

(* A deletion takes away an object and a file no asset has, and perhaps    *)
(* the record of them.                                                     *)
LEMMA TidyUpKeeps ==
  ASSUME SceneInv, NEW b \in Batches, TidyUp(b) \/ TidyUpFails(b),
         faultsLeft' \in Nat
  PROVE  SceneInv'
<1>0. /\ UNCHANGED <<srun, request, row, reserved, assets, leaked>>
      /\ batch[b].phase = "tidy" /\ Published(b)
      /\ \/ /\ objects' = objects \ {Key(b)} /\ files' = files \ {Key(b)}
            /\ DOMAIN cleanup' = DOMAIN cleanup \ {Key(b)}
         \/ /\ DOMAIN cleanup' = DOMAIN cleanup
            /\ UNCHANGED <<objects, files>>
      /\ batch[b].phase \in ScenePhases /\ batch[b].phase \in WorkPhases
      /\ batch[b].phase \in RejectPhases /\ batch[b].phase \notin ObjectPhases
  BY WorkIsPublished DEF TidyUp, TidyUpFails, In, Forgotten, FailedAgain,
     ScenePhases, WorkPhases, RejectPhases, ObjectPhases
<1>1. SceneTypes /\ AtWork(b) /\ Key(b) \in Keys /\ Key(b)[1] = b
  BY <1>0, KeyIsName DEF SceneInv, KeysAtWork
<1>2. /\ "finish" \in WorkPhases \ FreshPhases /\ "finish" \notin RejectPhases
      /\ "finish" \notin ScenePhases
  BY PhasesAre, SubsetPhases
<1>3. Moved(b, "finish") /\ batch'[b].phase = "finish"
  BY <1>1, CancelledMoves DEF TidyUp, TidyUpFails, Moved
<1>4. NoAssetAt(Key(b)) /\ NoAssetAt(Key(b))' = NoAssetAt(Key(b)')
  BY <1>0, <1>1 DEF AtWork, NoAssetAt
<1>5. \A k : /\ NoAssetAt(k)' = NoAssetAt(k)
             /\ Fresh(k) => Fresh(k)'
  BY <1>0 DEF Fresh, NoAssetAt
<1>6. Booked(b)
  BY <1>0, <1>3, NothingBooked
<1>7. /\ \A a \in assets' : IsAsset(a)
      /\ \A a1, a2 \in assets' : a1.id = a2.id => a1 = a2
      /\ \A a1, a2 \in assets' :
           a1.active /\ a2.active /\ a1.id[2] = a2.id[2] => a1 = a2
      /\ \A a \in assets' : a.key \notin DOMAIN cleanup' /\ OnDisk(a.key)
                            /\ a.key # Key(b)
  BY <1>0, <1>1, <1>4 DEF SceneInv, AssetsSafe, SceneTypes, NoAssetAt
<1>8. /\ DOMAIN cleanup' \subseteq Keys /\ leaked' \subseteq Keys
      /\ objects' \subseteq objects /\ files' \subseteq files
      /\ \A k \in files : k[1] # b => k \in files'
      /\ \A k \in files : k # Key(b) => k \in files'
  BY <1>0, <1>1 DEF SceneTypes
<1>9. /\ \A a \in assets : Accounted(a.key)'
      /\ \A k \in DOMAIN cleanup : k \in objects' => Accounted(k)'
  BY <1>0 DEF Accounted
<1> QED BY <1>0, <1>2, <1>3, <1>5, <1>6, <1>7, <1>8, <1>9, UploadObjectKeeps
-----------------------------------------------------------------------------
(* The parent of a worker, the request, the clean-up and the user.         *)

(* Only the time limit of a batch changes, and files may be gone that it   *)
(* accounts for.                                                           *)
LEMMA LimitKeeps ==
  ASSUME SceneInv, NEW b \in Batches, NEW lim \in LimitRecords,
         batch' = [batch EXCEPT ![b].limit = lim], Published(b),
         batch[b].limit.step \in {"kill", "done"} =>
           /\ lim.step \in {"kill", "done"} /\ lim.of = batch[b].limit.of
           /\ lim.saved = batch[b].limit.saved,
         request' = request, srun' \in RunRecords,
         row' \in [Batches -> RowStates], reserved' \in [Batches -> Reservations],
         \A c \in Batches \ {b} : row'[c] = row[c] /\ reserved'[c] = reserved[c],
         row[b] \in {"none", "success", "revoked"} => row'[b] = row[b],
         row'[b] = "none" => row[b] = "none",
         reserved'[b] = "none" => reserved[b] = "none",
         reserved[b] \in Spent => reserved'[b] \in Spent,
         reserved'[b] = "consumed" => reserved[b] = "consumed",
         UNCHANGED <<assets, objects, cleanup, leaked>>, files' \subseteq files,
         \A k \in files : \/ k \in files'
                          \/ /\ k[1] = b /\ k[2] = lim.of /\ k \notin lim.saved
                             /\ lim.step \in {"kill", "done"},
         faultsLeft' \in Nat
  PROVE  SceneInv'
<1> USE DEF SceneInv
<1> DEFINE new == [batch[b] EXCEPT !.limit = lim]
<1>1. batch \in [Batches -> BatchRecords] /\ batch[b] \in BatchRecords
  BY BatchTypes
<1>2. /\ new \in BatchRecords /\ new.phase = batch[b].phase
      /\ new.delivery = batch[b].delivery /\ new.scene = batch[b].scene
      /\ new.todo = batch[b].todo /\ new.local = batch[b].local
      /\ new.limit = lim
  BY <1>1 DEF BatchRecords
<1>3. batch' = [batch EXCEPT ![b] = new]
  OBVIOUS
<1> HIDE DEF new
<1>4. /\ batch' \in [Batches -> BatchRecords] /\ batch'[b] = new
      /\ \A c \in Batches \ {b} : batch'[c] = batch[c]
  BY <1>1, <1>2, <1>3
<1>5. LimitKept(b) /\ \A c \in Batches : LimitKept(c)
  BY <1>2, <1>4 DEF LimitKept
<1>6. Booked(b)
  BY <1>2, <1>4 DEF Booked, UndoneRequests
<1>7. /\ UndoneRequests'
      /\ \A c \in Batches : Published(c) => Published(c)'
  BY <1>4, <1>6, BookedKeeps
<1>8. \A k : Fresh(k)' = Fresh(k) /\ NoAssetAt(k)' = NoAssetAt(k)
  BY FreshFrame
<1>9. AtWork(b) /\ Key(b)[1] = b /\ Key(b)' = Key(b)
  BY <1>2, <1>4 DEF KeysAtWork, Key
<1>10. \A k : k[1] \in Batches /\ OnDisk(k) => OnDisk(k)'
  <2> SUFFICES ASSUME NEW k, k[1] \in Batches, OnDisk(k) PROVE OnDisk(k)'
    OBVIOUS
  <2>1. CASE SavedTooLate(k)
    BY <1>5, <2>1, LateStays DEF OnDisk
  <2>2. CASE k \in files /\ k \notin files'
    BY <1>2, <1>4, <2>2 DEF OnDisk, SavedTooLate
  <2> QED BY <2>1, <2>2 DEF OnDisk
<1>11. AtWork(b)'
  <2> PICK k, d : k = Key(b) /\ d = batch[b].delivery
    OBVIOUS
  <2>1. /\ Fresh(k) => Fresh(k)'
        /\ NoAssetAt(k) => NoAssetAt(k)'
        /\ OnDisk(k) => OnDisk(k)'
    BY <1>8, <1>9, <1>10
  <2>2. /\ Fresh(Key(b)) => Fresh(Key(b))'
        /\ NoAssetAt(Key(b)) => NoAssetAt(Key(b))'
        /\ OnDisk(Key(b)) => OnDisk(Key(b))'
    <3>1. k = Key(b)'
      BY <1>9
    <3> QED BY <2>1, <3>1 DEF Fresh, NoAssetAt, OnDisk, SavedTooLate
  <2>3. /\ \A x \in batch[b].local : NoAssetAt(x)'
        /\ \A s \in batch[b].todo : Fresh(<<b, d, s>>)'
        /\ \A n \in 1 .. Deliveries, s \in Scenes : n > d => Fresh(<<b, n, s>>)'
    BY <1>8, <1>9 DEF AtWork
  <2>4. \A s \in batch'[b].todo : Fresh(<<b, d, s>>)'
    BY <2>3, <1>2, <1>4
  <2>5. /\ batch'[b].delivery = d /\ batch'[b].phase = batch[b].phase
        /\ batch'[b].scene = batch[b].scene /\ batch'[b].todo = batch[b].todo
        /\ batch'[b].local = batch[b].local /\ Published(b)'
    BY <1>2, <1>4, <1>7
  <2> QED BY <1>9, <2>2, <2>3, <2>4, <2>5, SubsetPhases DEF AtWork
<1>12. SceneTypes'
  BY <1>4 DEF SceneTypes, IsAsset
<1>13. KeysAtWork'
  BY <1>4, <1>7, <1>8, <1>11, OthersKeep
<1>14. AssetsSafe'
  <2>1. \A a \in assets : OnDisk(a.key)'
    BY <1>10 DEF AssetsSafe, SceneTypes, IsAsset, Keys
  <2> QED BY <1>5, <2>1, SafeFrame
<1>15. UploadsAccounted'
  <2>1. \A k \in objects' : k = Key(b) /\ batch[b].phase \in ObjectPhases => Accounted(k)'
    BY <1>2, <1>4, <1>9 DEF Accounted
  <2> QED BY <1>4, <2>1, UploadsFrame DEF Accounted
<1> QED BY <1>7, <1>12, <1>13, <1>14, <1>15

(* The hard limit: the claim is ended, the files are deleted, the worker   *)
(* is killed.                                                              *)
LEMMA ParentKeeps ==
  ASSUME SceneInv, NEW b \in Batches, faultsLeft' \in Nat,
         HardTimeLimit(b) \/ ReadSaved(b) \/ UnlinkRest(b) \/ KillWorker(b)
  PROVE  SceneInv'
<1>1. SceneTypes /\ AtWork(b) /\ batch[b] \in BatchRecords
      /\ batch[b].limit \in LimitRecords
  BY BatchTypes DEF SceneInv, KeysAtWork, BatchRecords
<1>2. batch[b].limit.step # "none" => Published(b)
  BY <1>1 DEF AtWork
<1>3. /\ srun \in RunRecords /\ row \in [Batches -> RowStates]
      /\ reserved \in [Batches -> Reservations]
  BY <1>1 DEF SceneTypes
<1>4. CASE HardTimeLimit(b)
  <2> DEFINE lim == [step |-> "read", of |-> batch[b].delivery, saved |-> {}]
  <2>1. /\ lim \in LimitRecords /\ batch' = [batch EXCEPT ![b].limit = lim]
        /\ batch[b].limit.step = "none" /\ Published(b)
        /\ UNCHANGED <<request, assets, objects, files, cleanup, leaked>>
    BY <1>1, <1>4, PhasesAre, WorkIsPublished
       DEF HardTimeLimit, LimitRecords, BatchRecords, Working
  <2> HIDE DEF lim
  <2>2. CASE row[b] = "running"
    <3>1. /\ row' = [row EXCEPT ![b] = "failed"]
          /\ reserved' = [reserved EXCEPT ![b] = QuotaFinalized(@)]
          /\ srun' = RunFailed
      BY <1>4, <2>2 DEF HardTimeLimit
    <3>2. /\ QuotaFinalized(reserved[b]) \in Reservations
          /\ QuotaFinalized(reserved[b]) = "none" => reserved[b] = "none"
          /\ reserved[b] \in Spent => QuotaFinalized(reserved[b]) \in Spent
          /\ QuotaFinalized(reserved[b]) # "consumed"
      BY <1>3 DEF QuotaFinalized, QuotaSettled, Reservations, Spent
    <3>3. srun' \in RunRecords
      BY <1>1, <3>1, RunMayFail
    <3>4. /\ row' \in [Batches -> RowStates] /\ row'[b] = "failed"
          /\ reserved' \in [Batches -> Reservations]
          /\ reserved'[b] = QuotaFinalized(reserved[b])
          /\ \A c \in Batches \ {b} : row'[c] = row[c] /\ reserved'[c] = reserved[c]
      BY <1>3, <3>1, <3>2 DEF RowStates
    <3> QED BY <2>1, <2>2, <3>2, <3>3, <3>4, LimitKeeps
  <2>3. CASE row[b] # "running"
    <3>1. UNCHANGED <<srun, row, reserved>>
      BY <1>4, <2>3 DEF HardTimeLimit
    <3> QED BY <1>3, <2>1, <3>1, LimitKeeps
  <2> QED BY <2>2, <2>3
<1>5. CASE ReadSaved(b)
  <2> DEFINE found == {k \in {a.key : a \in assets} : k[1] = b}
             lim == [batch[b].limit EXCEPT !.step = "unlink", !.saved = found]
  <2>1. found \in SUBSET Keys
    BY <1>1 DEF SceneTypes, IsAsset
  <2>2. batch' = [batch EXCEPT ![b].limit = lim]
    BY <1>5 DEF ReadSaved
  <2> HIDE DEF found
  <2>3. lim \in LimitRecords
    BY <1>1, <2>1 DEF LimitRecords
  <2>4. /\ batch[b].limit.step = "read" /\ Published(b)
        /\ UNCHANGED <<srun, request, row, reserved, assets, objects, files,
                       cleanup, leaked>>
    BY <1>2, <1>5 DEF ReadSaved
  <2> HIDE DEF lim
  <2> QED BY <1>3, <2>2, <2>3, <2>4, LimitKeeps
<1>6. CASE UnlinkRest(b)
  <2> DEFINE lim == [batch[b].limit EXCEPT !.step = "kill"]
  <2>1. batch' = [batch EXCEPT ![b].limit = lim]
    BY <1>6 DEF UnlinkRest
  <2>2. lim \in LimitRecords /\ lim.step = "kill" /\ lim.of = batch[b].limit.of
        /\ lim.saved = batch[b].limit.saved
    BY <1>1 DEF LimitRecords
  <2> HIDE DEF lim
  <2>3. /\ batch[b].limit.step = "unlink" /\ Published(b)
        /\ UNCHANGED <<srun, request, row, reserved, assets, objects, cleanup, leaked>>
        /\ files' = {k \in files : k[1] = b /\ k[2] = lim.of => k \in lim.saved}
    BY <1>2, <1>6, <2>2 DEF UnlinkRest
  <2> QED BY <1>3, <2>1, <2>2, <2>3, LimitKeeps
<1>7. CASE KillWorker(b)
  <2>1. UNCHANGED <<srun, request, row, reserved, assets, objects, files, cleanup>>
        /\ batch[b].limit.step = "kill" /\ Published(b)
    BY <1>2, <1>7 DEF KillWorker
  <2>2. CASE Working(b) /\ Dies(b, "killed")
    BY <2>1, <2>2, DiesKeeps
  <2>3. CASE batch' = [batch EXCEPT ![b].limit.step = "done"] /\ UNCHANGED leaked
    <3> DEFINE lim == [batch[b].limit EXCEPT !.step = "done"]
    <3>1. batch' = [batch EXCEPT ![b].limit = lim]
      BY <2>3
    <3>2. lim \in LimitRecords /\ lim.step = "done" /\ lim.of = batch[b].limit.of
          /\ lim.saved = batch[b].limit.saved
      BY <1>1 DEF LimitRecords
    <3> HIDE DEF lim
    <3> QED BY <1>3, <2>1, <2>3, <3>1, <3>2, LimitKeeps
  <2> QED BY <1>7, <2>2, <2>3 DEF KillWorker
<1> QED BY <1>4, <1>5, <1>6, <1>7

LEMMA CrashKeeps ==
  ASSUME SceneInv, NEW b \in Batches, Crash(b), faultsLeft' \in Nat
  PROVE  SceneInv'
BY DiesKeeps DEF Crash

(* A step that leaves the batches, the assets and the store alone, and     *)
(* recalls no message that was published.                                  *)
LEMMA StatusKeeps ==
  ASSUME SceneInv, UNCHANGED <<batch, assets, objects, files, cleanup, leaked>>,
         srun' \in RunRecords, request' \in [Batches -> RequestStates],
         row' \in [Batches -> RowStates], reserved' \in [Batches -> Reservations],
         faultsLeft' \in Nat, UndoneRequests',
         \A c \in Batches : Published(c) => Published(c)'
  PROVE  SceneInv'
<1> USE DEF SceneInv
<1>1. \A k : Fresh(k)' = Fresh(k) /\ NoAssetAt(k)' = NoAssetAt(k)
  BY DEF Fresh, NoAssetAt
<1>2. ASSUME NEW c \in Batches PROVE AtWork(c)'
  BY <1>1, AtWorkFrame DEF KeysAtWork
<1>3. SceneTypes'
  BY DEF SceneTypes, IsAsset
<1>4. AssetsSafe' /\ UploadsAccounted'
  BY DEF AssetsSafe, OnDisk, SavedTooLate, UploadsAccounted, Key
<1> QED BY <1>2, <1>3, <1>4 DEF KeysAtWork

(* The reconciler reopens the row of a delivery that is gone. *)
LEMMA ReopenKeeps ==
  ASSUME SceneInv, NEW b \in Batches, Reopen(b), faultsLeft' \in Nat
  PROVE  SceneInv'
<1>1. SceneTypes /\ UndoneRequests
  BY DEF SceneInv
<1>2. /\ QuotaCancelled(reserved[b]) \in Reservations
      /\ QuotaCancelled(reserved[b]) = "none" => reserved[b] = "none"
      /\ reserved[b] \in Spent => QuotaCancelled(reserved[b]) \in Spent
      /\ QuotaCancelled(reserved[b]) = "consumed" => reserved[b] = "consumed"
  BY <1>1 DEF SceneTypes, QuotaCancelled, Reservations, Spent
<1>3. /\ row' \in [Batches -> RowStates] /\ reserved' \in [Batches -> Reservations]
      /\ row[b] = "running" /\ row'[b] = "failed"
      /\ reserved'[b] = QuotaCancelled(reserved[b])
      /\ \A c \in Batches \ {b} : row'[c] = row[c] /\ reserved'[c] = reserved[c]
  BY <1>1, <1>2 DEF Reopen, SceneTypes, RowStates
<1>4. UNCHANGED <<srun, request, batch, assets, objects, files, cleanup, leaked>>
  BY DEF Reopen
<1>5. UndoneRequests'
  BY <1>1, <1>2, <1>3, <1>4 DEF UndoneRequests
<1>6. \A c \in Batches : Published(c) => Published(c)'
  BY <1>3, <1>4 DEF Published
<1>7. srun \in RunRecords /\ request \in [Batches -> RequestStates]
  BY <1>1 DEF SceneTypes
<1> QED BY <1>3, <1>4, <1>5, <1>6, <1>7, StatusKeeps

(* The request that dispatches a batch. *)
LEMMA SceneRequestKeeps ==
  ASSUME SceneInv, NEW b \in Batches, RequestStep(b) \/ RequestFails(b),
         faultsLeft' \in Nat
  PROVE  SceneInv'
<1>0. SceneTypes /\ UndoneRequests
  BY DEF SceneInv
<1>1. CASE ReserveImage(b)
  <2>0. /\ UNCHANGED <<srun, row, assets, objects, files, cleanup, leaked>>
        /\ request' = [request EXCEPT ![b] = "reserved"]
        /\ reserved' = [reserved EXCEPT ![b] = "reserved"]
        /\ request[b] = "new"
    BY <1>1 DEF ReserveImage, Ask
  <2> PICK s \in Scenes, active \in BOOLEAN :
         batch' = [batch EXCEPT ![b] =
                     [IdleBatch EXCEPT !.wanted = {s}, !.active = active]]
    BY <1>1 DEF ReserveImage
  <2> DEFINE new == [IdleBatch EXCEPT !.wanted = {s}, !.active = active]
  <2>2. /\ new \in BatchRecords /\ new.phase = "idle" /\ new.delivery = 0
        /\ new.todo = {} /\ new.local = {} /\ new.limit = NoLimit
    <3> DEFINE n1 == [IdleBatch EXCEPT !.wanted = {s}]
               n2 == [n1 EXCEPT !.active = active]
    <3>1. /\ IdleBatch \in BatchRecords /\ IdleBatch.phase = "idle"
          /\ IdleBatch.delivery = 0 /\ IdleBatch.todo = {}
          /\ IdleBatch.local = {} /\ IdleBatch.limit = NoLimit
      BY DEF IdleBatch, NoLimit, BatchRecords, BatchPhases, LimitRecords, Deliveries
    <3> HIDE DEF NoLimit
    <3>2. /\ n1 \in BatchRecords /\ n1.phase = "idle" /\ n1.delivery = 0
          /\ n1.todo = {} /\ n1.local = {} /\ n1.limit = NoLimit
      BY <3>1 DEF BatchRecords
    <3> HIDE DEF n1
    <3>3. /\ n2 \in BatchRecords /\ n2.phase = "idle" /\ n2.delivery = 0
          /\ n2.todo = {} /\ n2.local = {} /\ n2.limit = NoLimit
      BY <3>2 DEF BatchRecords
    <3> QED BY <3>3 DEF n1
  <2> HIDE DEF new
  <2>3. /\ batch' \in [Batches -> BatchRecords] /\ batch'[b] = new
        /\ \A c \in Batches \ {b} : batch'[c] = batch[c]
    BY <1>0, <2>2, BatchTypes DEF new
  <2>4. \A k : Fresh(k)' = Fresh(k) /\ NoAssetAt(k)' = NoAssetAt(k)
    BY <2>0, FreshFrame
  <2>5. AtWork(b) /\ batch[b].delivery = 0 /\ batch[b].phase = "idle"
        /\ batch[b].limit.step = "none"
    BY <2>0 DEF SceneInv, KeysAtWork, AtWork, Published
  <2>6. \A d \in 1 .. Deliveries, x \in Scenes : Fresh(<<b, d, x>>)'
    BY <2>4, <2>5 DEF AtWork
  <2>7. AtWork(b)'
    <3>1. /\ batch'[b].phase = "idle" /\ batch'[b].delivery = 0
          /\ batch'[b].todo = {} /\ batch'[b].local = {}
          /\ batch'[b].limit.step = "none"
      <4>1. /\ batch'[b].phase = "idle" /\ batch'[b].delivery = 0
            /\ batch'[b].todo = {} /\ batch'[b].local = {}
            /\ batch'[b].limit = NoLimit
        BY <2>2, <2>3
      <4>2. NoLimit.step = "none"
        BY DEF NoLimit
      <4> QED BY <4>1, <4>2
    <3>2. "idle" \notin WorkPhases /\ "idle" \notin ScenePhases
          /\ "idle" \notin FreshPhases /\ "idle" \notin FilePhases
          /\ "idle" \notin RejectPhases
      BY PhasesAre, SubsetPhases
    <3> QED BY <2>6, <3>1, <3>2 DEF AtWork
  <2>8. ASSUME NEW c \in Batches
        PROVE  Published(c) => Published(c)'
    BY <1>0, <2>0 DEF Published, SceneTypes
  <2>9. KeysAtWork'
    BY <2>0, <2>3, <2>4, <2>7, <2>8, OthersKeep DEF SceneInv
  <2>10. SceneTypes'
    BY <1>0, <2>0, <2>3 DEF SceneTypes, IsAsset, RequestStates, Reservations
  <2>11. AssetsSafe'
    <3>1. \A c \in Batches : LimitKept(c)
      BY <2>3, <2>5 DEF LimitKept
    <3> QED BY <1>0, <2>0, <3>1, SafeFrame DEF SceneInv, OnDisk
  <2>12. UndoneRequests'
    BY <1>0, <2>0, <2>3 DEF UndoneRequests, SceneTypes
  <2>13. UploadsAccounted'
    BY <1>0, <2>0, <2>3, <2>5, UploadsFrame DEF SceneInv, Accounted, ObjectPhases
  <2> QED BY <2>9, <2>10, <2>11, <2>12, <2>13 DEF SceneInv
<1>2. CASE \/ RecordImage(b) \/ PublishImage(b) \/ PromoteImage(b)
           \/ ReadRunAgain(b) \/ UndoImage(b) \/ RefundImage(b) \/ RequestFails(b)
  <2>1. /\ UNCHANGED <<srun, batch, assets, objects, files, cleanup, leaked>>
        /\ srun \in RunRecords
    BY <1>0, <1>2 DEF RecordImage, PublishImage, PromoteImage, ReadRunAgain,
       UndoImage, RefundImage, RequestFails, SceneTypes
  <2> PICK p \in RequestStates \ {"new", "reserved"} :
        request' = [request EXCEPT ![b] = p]
    BY <1>2 DEF RecordImage, PublishImage, PromoteImage, ReadRunAgain,
       UndoImage, RefundImage, RequestFails, Ask, RequestStates
  <2>2. PICK r \in RowStates, q \in Reservations :
          /\ row' = [row EXCEPT ![b] = r]
          /\ reserved' = [reserved EXCEPT ![b] = q]
          /\ request[b] # "new"
          /\ row[b] # "none" => r # "none"
          /\ q = "consumed" => reserved[b] = "consumed"
          /\ q = "none" => reserved[b] = "none"
          /\ p \in {"refund", "failed"} => r \in {"none", "success", "revoked"}
          /\ p \in {"failed", "abandoned"} => q \in Spent \/ reserved[b] = "none"
          /\ request[b] \in {"new", "reserved", "recorded"} \/ p \notin {"recorded"}
    <3>0. /\ row[b] \in RowStates /\ reserved[b] \in Reservations
          /\ request[b] \in RequestStates
          /\ row = [row EXCEPT ![b] = row[b]]
          /\ reserved = [reserved EXCEPT ![b] = reserved[b]]
          /\ request'[b] = p
      BY <1>0 DEF SceneTypes
    <3>1. CASE RecordImage(b)
      BY <3>0, <3>1 DEF RecordImage, Ask, RowStates, LiveRows
    <3>2. CASE PublishImage(b)
      BY <3>0, <3>2, <1>0 DEF PublishImage, Ask, SceneTypes
    <3>3. CASE PromoteImage(b)
      <4> DEFINE r == IF row[b] = "pending" THEN "queued" ELSE row[b]
      <4>1. r \in RowStates /\ row' = [row EXCEPT ![b] = r]
            /\ (row[b] # "none" => r # "none")
        BY <3>0, <3>3 DEF PromoteImage, RowStates, LiveRows
      <4> QED BY <3>0, <3>3, <4>1, <1>0 DEF PromoteImage, Ask, SceneTypes
    <3>4. CASE ReadRunAgain(b)
      BY <3>0, <3>4, <1>0 DEF ReadRunAgain, Ask, SceneTypes
    <3>5. CASE UndoImage(b)
      <4> DEFINE r == IF row[b] = "success" THEN row[b] ELSE "revoked"
      <4>1. r \in RowStates /\ row' = [row EXCEPT ![b] = r]
            /\ r \in {"success", "revoked"}
        BY <3>0, <3>5 DEF UndoImage, Revoked, RowStates, LiveRows
      <4> QED BY <3>0, <3>5, <4>1, <1>0 DEF UndoImage, Ask, SceneTypes
    <3>6. CASE RefundImage(b)
      <4> DEFINE q == QuotaCancelled(reserved[b])
      <4>1. /\ q \in Reservations
            /\ q \in Spent \/ reserved[b] = "none"
            /\ q = "none" => reserved[b] = "none"
            /\ q = "consumed" => reserved[b] = "consumed"
        BY <3>0 DEF QuotaCancelled, Spent, Reservations
      <4>2. reserved' = [reserved EXCEPT ![b] = q] /\ row' = row
            /\ request[b] \in {"refund", "unmarked"}
        BY <3>6 DEF RefundImage
      <4>3. q \in Reservations
        BY <4>1, <3>0 DEF QuotaCancelled
      <4>4. p = IF request[b] = "refund" THEN "failed" ELSE "abandoned"
        BY <1>0, <3>0, <3>6 DEF RefundImage, Ask, SceneTypes
      <4>5. request[b] = "refund" => row[b] \in {"none", "success", "revoked"}
        BY <1>0 DEF UndoneRequests
      <4> HIDE DEF q
      <4> QED BY <3>0, <4>1, <4>2, <4>3, <4>4, <4>5
    <3>7. CASE RequestFails(b)
      <4>1. /\ p = IF request[b] = "reserved" THEN "refund"
                   ELSE IF request[b] = "undo" THEN "unmarked" ELSE "undo"
            /\ row' = row /\ reserved' = reserved /\ request[b] # "new"
        BY <1>0, <3>0, <3>7 DEF RequestFails, Ask, SceneTypes
      <4>2. request[b] = "reserved" => row[b] = "none"
        BY <1>0 DEF UndoneRequests
      <4> QED BY <3>0, <4>1, <4>2
    <3> QED BY <1>2, <3>1, <3>2, <3>3, <3>4, <3>5, <3>6, <3>7
  <2>3. /\ request' \in [Batches -> RequestStates]
        /\ row' \in [Batches -> RowStates]
        /\ reserved' \in [Batches -> Reservations]
        /\ request'[b] = p /\ row'[b] = r /\ reserved'[b] = q
        /\ \A c \in Batches \ {b} : /\ request'[c] = request[c]
                                    /\ row'[c] = row[c]
                                    /\ reserved'[c] = reserved[c]
    BY <1>0, <2>2 DEF SceneTypes
  <2>4. UndoneRequests'
    BY <1>0, <2>1, <2>2, <2>3 DEF UndoneRequests
  <2>5. \A c \in Batches : Published(c) => Published(c)'
    BY <2>2, <2>3 DEF Published
  <2> QED BY <2>1, <2>3, <2>4, <2>5, StatusKeeps
<1> QED BY <1>1, <1>2 DEF RequestStep

(* The user stops, cancels, resumes, approves or deletes. *)
LEMMA UserKeeps ==
  ASSUME SceneInv, UserStep, faultsLeft' \in Nat
  PROVE  SceneInv'
<1>0. SceneTypes /\ UndoneRequests /\ srun \in RunRecords
  BY DEF SceneInv, SceneTypes
<1>1. UNCHANGED <<request, batch, assets, objects, files, cleanup, leaked>>
  BY DEF UserStep, StopRun, CancelRun, ResumeRun, ApproveAssets, DeleteProject
<1>2. srun' \in RunRecords
  <2>1. srun.stops < MaxStops => srun.stops + 1 \in 0 .. MaxStops
    BY <1>0, SceneAssumption DEF RunRecords
  <2>2. CASE StopRun
    BY <1>0, <2>1, <2>2 DEF StopRun, RunRecords, SceneStages
  <2>3. CASE CancelRun
    BY <1>0, <2>1, <2>3 DEF CancelRun, RunRecords
  <2>4. CASE DeleteProject
    BY <1>0, <2>1, <2>4 DEF DeleteProject, RunRecords
  <2>5. CASE ResumeRun \/ ApproveAssets
    BY <1>0, <2>5 DEF ResumeRun, ApproveAssets, RunRecords
  <2> QED BY <2>2, <2>3, <2>4, <2>5 DEF UserStep
<1>3. \/ row' = row /\ reserved' = reserved
      \/ RevokeLive
  BY DEF UserStep, StopRun, CancelRun, ResumeRun, ApproveAssets, DeleteProject
<1>4. \A b \in Batches :
        /\ QuotaFinalized(reserved[b]) \in Reservations
        /\ QuotaFinalized(reserved[b]) = "none" => reserved[b] = "none"
        /\ reserved[b] \in Spent => QuotaFinalized(reserved[b]) \in Spent
        /\ QuotaFinalized(reserved[b]) # "consumed"
  BY <1>0 DEF SceneTypes, QuotaFinalized, QuotaSettled, Reservations, Spent
<1>5. /\ row' \in [Batches -> RowStates] /\ reserved' \in [Batches -> Reservations]
      /\ \A b \in Batches :
           /\ row[b] \in {"none", "success", "revoked"} => row'[b] = row[b]
           /\ row'[b] = "none" => row[b] = "none"
           /\ reserved'[b] = "none" => reserved[b] = "none"
           /\ reserved[b] \in Spent => reserved'[b] \in Spent
           /\ reserved'[b] = "consumed" => reserved[b] = "consumed"
  BY <1>0, <1>3, <1>4 DEF RevokeLive, SceneTypes, RowStates, LiveRows
<1>6. UndoneRequests'
  BY <1>0, <1>1, <1>5 DEF UndoneRequests
<1>7. \A c \in Batches : Published(c) => Published(c)'
  BY <1>1, <1>5 DEF Published
<1>8. request' \in [Batches -> RequestStates]
  BY <1>0, <1>1 DEF SceneTypes
<1> QED BY <1>1, <1>2, <1>5, <1>6, <1>7, <1>8, StatusKeeps

(* The clean-up deletes what it has a record of, and no asset is there. *)
LEMMA RetryCleanupKeeps ==
  ASSUME SceneInv, NEW r \in DOMAIN cleanup, RetryCleanup(r) \/ CleanupFails(r),
         faultsLeft' \in Nat
  PROVE  SceneInv'
<1> USE DEF SceneInv
<1>0. /\ UNCHANGED <<srun, request, batch, row, reserved, assets, leaked>>
      /\ \/ /\ objects' = objects \ {r} /\ files' = files \ {r}
            /\ DOMAIN cleanup' = DOMAIN cleanup \ {r}
         \/ /\ DOMAIN cleanup' = DOMAIN cleanup
            /\ objects' \subseteq objects /\ UNCHANGED files
  BY DEF RetryCleanup, CleanupFails, Forgotten, FailedAgain
<1>1. \A k : /\ NoAssetAt(k)' = NoAssetAt(k)
             /\ Fresh(k) => Fresh(k)' /\ k # r
  BY <1>0 DEF Fresh, NoAssetAt
<1>2. ASSUME NEW c \in Batches PROVE AtWork(c)'
  <2>1. AtWork(c) /\ Published(c)' = Published(c) /\ batch'[c] = batch[c]
    BY <1>0 DEF KeysAtWork, Published
  <2>2. \A k \in files : Fresh(k) => k \in files'
    BY <1>0, <1>1
  <2> QED BY <1>1, <2>1, <2>2, AtWorkFrame
<1>3. SceneTypes'
  <2>1. objects' \cup files' \cup leaked' \subseteq Keys /\ DOMAIN cleanup' \subseteq Keys
    BY <1>0 DEF SceneTypes
  <2> QED BY <1>0, <2>1 DEF SceneTypes, IsAsset
<1>4. AssetsSafe'
  <2>1. \A a \in assets : a.key \in files => OnDisk(a.key)'
    BY <1>0 DEF AssetsSafe, OnDisk
  <2>2. \A c \in Batches : LimitKept(c)
    BY <1>0 DEF LimitKept
  <2> QED BY <1>0, <2>1, <2>2, SafeFrame
<1>5. UndoneRequests'
  BY <1>0 DEF UndoneRequests
<1>6. UploadsAccounted'
  BY <1>0 DEF UploadsAccounted, Key
<1> QED BY <1>2, <1>3, <1>4, <1>5, <1>6 DEF KeysAtWork

(* set_active: one asset of the scene is active now, and no other. *)
LEMMA SelectKeeps ==
  ASSUME SceneInv, NEW id \in Batches \X Scenes, SelectAsset(id),
         faultsLeft' \in Nat
  PROVE  SceneInv'
<1> USE DEF SceneInv
<1>0. /\ UNCHANGED <<srun, request, batch, row, reserved, objects, files, cleanup,
                 leaked>>
      /\ assets' = Activated(id)
  BY DEF SelectAsset
<1> DEFINE new(a) == IF a \in OfScene(id[2]) THEN [a EXCEPT !.active = (a.id = id)]
                     ELSE a
<1>1. \A a \in assets :
        /\ IsAsset(new(a)) /\ new(a).id = a.id /\ new(a).key = a.key
        /\ a \in OfScene(id[2]) /\ new(a).active => a.id = id
        /\ a \notin OfScene(id[2]) => new(a).active = a.active
  BY AssetUpdate DEF SceneTypes
<1>2. /\ \A a \in assets : new(a) \in assets'
      /\ \A x \in assets' : \E a \in assets : x = new(a)
  BY <1>0 DEF Activated
<1> HIDE DEF new
<1>3. /\ \A x \in assets' : IsAsset(x)
      /\ \A x \in assets' : \E a \in assets : a.key = x.key
      /\ \A a \in assets : \E x \in assets' : a.key = x.key
  BY <1>1, <1>2
<1>4. \A k : Fresh(k)' = Fresh(k) /\ NoAssetAt(k)' = NoAssetAt(k)
  BY <1>0, <1>3 DEF Fresh, NoAssetAt
<1>5. ASSUME NEW c \in Batches PROVE AtWork(c)'
  <2>1. AtWork(c) /\ Published(c)' = Published(c) /\ batch'[c] = batch[c]
    BY <1>0 DEF KeysAtWork, Published
  <2> QED BY <1>0, <1>4, <2>1, AtWorkFrame
<1>6. SceneTypes'
  <2>1. \A x \in assets' : IsAsset(x)'
    BY <1>3 DEF IsAsset
  <2> QED BY <1>0, <2>1 DEF SceneTypes
<1>7. AssetsSafe'
  <2>1. \A x \in assets' : OnDisk(x.key)' /\ x.key \notin DOMAIN cleanup'
    BY <1>0, <1>3 DEF AssetsSafe, OnDisk, SavedTooLate
  <2>2. ASSUME NEW x1 \in assets', NEW x2 \in assets', x1.id = x2.id
        PROVE  x1 = x2
    BY <1>1, <1>2, <2>2 DEF AssetsSafe
  <2>3. ASSUME NEW x1 \in assets', NEW x2 \in assets', x1.active, x2.active,
               x1.id[2] = x2.id[2]
        PROVE  x1 = x2
    <3> PICK a1 \in assets, a2 \in assets : x1 = new(a1) /\ x2 = new(a2)
      BY <1>2
    <3>1. a1.id = x1.id /\ a2.id = x2.id
      BY <1>1
    <3>2. CASE a1 \in OfScene(id[2])
      <4>1. a2 \in OfScene(id[2])
        BY <2>3, <3>1, <3>2 DEF OfScene
      <4>2. a1.id = id /\ a2.id = id
        BY <1>1, <2>3, <3>2, <4>1
      <4> QED BY <2>2, <3>1, <4>2
    <3>3. CASE a1 \notin OfScene(id[2])
      <4>1. a2 \notin OfScene(id[2])
        BY <2>3, <3>1, <3>3 DEF OfScene
      <4>2. a1.active /\ a2.active
        BY <1>1, <2>3, <3>3, <4>1
      <4> QED BY <2>3, <3>1, <4>2 DEF AssetsSafe
    <3> QED BY <3>2, <3>3
  <2> QED BY <2>1, <2>2, <2>3 DEF AssetsSafe
<1>8. UndoneRequests' /\ UploadsAccounted'
  <2>1. \A k \in objects : Accounted(k)'
    BY <1>0, <1>3 DEF UploadsAccounted, Accounted, ObjectPhases, Key
  <2>2. UploadsAccounted'
    BY <1>0, <2>1 DEF UploadsAccounted, Accounted, ObjectPhases
  <2> QED BY <1>0, <2>2 DEF UndoneRequests
<1> QED BY <1>5, <1>6, <1>7, <1>8 DEF KeysAtWork

-----------------------------------------------------------------------------
(* The invariant, and what follows from it. *)

LEMMA SceneInvStep ==
  ASSUME SceneInv, [SceneNext]_sceneVars
  PROVE  SceneInv'
<1>0. faultsLeft' \in Nat
  <2>1. faultsLeft \in Nat
    BY DEF SceneInv, SceneTypes
  <2> QED BY <2>1 DEF SceneNext, sceneVars
<1>1. ASSUME NEW b \in Batches, BatchStep(b) PROVE SceneInv'
  BY <1>0, <1>1, StartBatchKeeps, RefuseBatchKeeps, NextSceneKeeps, GenerateKeeps,
     AuthorizeKeeps, ProviderAnswersKeeps, SceneUploadKeeps, AfterUploadKeeps,
     SaveKeeps, SceneCheckpointKeeps, RecordCallKeeps, RetractKeeps, DiscardKeeps,
     TidyUpKeeps, FinalizeKeeps, EndKeeps DEF BatchStep
<1>2. ASSUME NEW b \in Batches, BatchFault(b) PROVE SceneInv'
  BY <1>0, <1>2, SceneRequestKeeps, ProviderFailsKeeps, AfterUploadKeeps, SaveKeeps,
     TidyUpKeeps, StatementFailsKeeps, ParentKeeps, CrashKeeps DEF BatchFault
<1>3. ASSUME NEW b \in Batches, RequestStep(b) \/ CleanStep(b) PROVE SceneInv'
  BY <1>0, <1>3, SceneRequestKeeps, ParentKeeps, ReopenKeeps DEF CleanStep
<1>4. CASE UNCHANGED sceneVars
  <2>1. /\ UNCHANGED <<batch, assets, objects, files, cleanup, leaked, request>>
        /\ UNCHANGED <<srun, row, reserved>>
    BY <1>4 DEF sceneVars
  <2>2. /\ SceneTypes /\ UndoneRequests'
        /\ \A c \in Batches : Published(c) => Published(c)'
    BY <2>1 DEF SceneInv, UndoneRequests, Published
  <2>3. /\ srun' \in RunRecords /\ request' \in [Batches -> RequestStates]
        /\ row' \in [Batches -> RowStates] /\ reserved' \in [Batches -> Reservations]
    BY <2>1, <2>2 DEF SceneTypes
  <2> QED BY <1>0, <2>1, <2>2, <2>3, StatusKeeps
<1>5. ASSUME SceneStep PROVE SceneInv'
  BY <1>0, <1>1, <1>3, <1>5, RetryCleanupKeeps, SelectKeeps, UserKeeps DEF SceneStep
<1>6. ASSUME SceneFault PROVE SceneInv'
  BY <1>0, <1>2, <1>6, RetryCleanupKeeps DEF SceneFault
<1> QED BY <1>4, <1>5, <1>6 DEF SceneNext

(* The invariant, of every behaviour. *)
LEMMA SceneInvariant == SceneSafe => []SceneInv
BY SceneInvInit, SceneInvStep, PTL DEF SceneSafe

(* The state of a batch, its request, row and assets is well-formed.       *)
THEOREM SceneTypeCorrect == SceneSafe => []SceneTypeOK
<1>1. ASSUME SceneInv PROVE SceneTypeOK
  <2>1. SceneTypes
    BY <1>1 DEF SceneInv
  <2>2. \A a \in assets : a.id \in Batches \X Scenes /\ a.key \in Keys
    BY <2>1, AssetNames DEF SceneTypes
  <2> QED BY <2>1, <2>2 DEF SceneTypes, SceneTypeOK, RunRecords, RequestStates,
             BatchRecords, LimitRecords, RowStates
<1> QED BY <1>1, SceneInvariant, PTL

(* However many batches, deliveries and selections overlap, a scene never  *)
(* has two active assets: save_asset and set_active switch the others off  *)
(* in the statement that switches one on.                                  *)
THEOREM NeverTwoActive == SceneSafe => []OneActiveAsset
<1>1. SceneInv => OneActiveAsset
  <2> SUFFICES ASSUME SceneInv, NEW s \in Scenes
               PROVE  Cardinality({a \in OfScene(s) : a.active}) <= 1
    BY DEF OneActiveAsset
  <2> DEFINE Active == {a \in OfScene(s) : a.active}
  <2>1. \A a1, a2 \in Active : a1 = a2
    BY DEF SceneInv, AssetsSafe, OfScene
  <2>2. CASE Active = {}
    BY <2>2, FS_EmptySet
  <2>3. CASE Active # {}
    <3> PICK a \in Active : TRUE
      BY <2>3
    <3>1. Active = {a}
      BY <2>1
    <3> QED BY <3>1, FS_Singleton
  <2> QED BY <2>2, <2>3
<1> QED BY <1>1, SceneInvariant, PTL

(* The store never holds an object that nobody knows, but for the uploads  *)
(* lost in the ways the model names: by a call or a statement that raised, *)
(* by a time limit or a dead worker, or to a second delivery.              *)
THEOREM NoUploadForgotten == SceneSafe => []UploadsAccounted
<1>1. SceneInv => UploadsAccounted
  BY DEF SceneInv
<1> QED BY <1>1, SceneInvariant, PTL

(* The file of an accepted asset is deleted neither by the batch that made *)
(* it, nor by another one, nor by the clean-up of rejected uploads, nor    *)
(* after the death of a worker; by the parent of a worker at its hard      *)
(* limit only if the asset was saved after the parent looked.              *)
THEOREM AcceptedFilesStay == SceneSafe => []AssetFilesStay
<1>1. SceneInv => AssetFilesStay
  BY DEF SceneInv, AssetsSafe, AssetFilesStay, OnDisk
<1> QED BY <1>1, SceneInvariant, PTL

(* A request that gave up has released its quota, unless a fast delivery   *)
(* had billed something to it, and the row it leaves is one no delivery    *)
(* may claim: UndoImage and RefundImage in this order.                     *)
THEOREM NothingLeftOfFailedRequest == SceneSafe => []FailedRequestLeavesNothing
<1>1. SceneInv => FailedRequestLeavesNothing
  BY DEF SceneInv, UndoneRequests, FailedRequestLeavesNothing, LiveRows, Spent
<1> QED BY <1>1, SceneInvariant, PTL

(* A late batch moves neither a cancelled run nor one whose assets were    *)
(* approved: only the user's steps do.                                     *)
THEOREM LateBatchHarmless == SceneSafe => LateBatchSparesRun
<1> DEFINE Left == srun.status = "cancelled" \/ srun.stage = "AUDIO_GENERATING"
           Spared == UserStep \/ srun' = srun
<1>1. [SceneNext]_sceneVars => [Left => Spared]_sceneVars
  <2> SUFFICES ASSUME SceneNext, Left, ~UserStep PROVE srun' = srun
    BY DEF sceneVars
  <2>1. RunFailed = srun
    BY DEF RunFailed, SafeFailureStages, SceneStages
  <2>2. ASSUME NEW b \in Batches, FailsClaimed(b) PROVE srun' = srun
    BY <2>1, <2>2 DEF FailsClaimed
  <2>3. ASSUME NEW b \in Batches, Finalize(b) PROVE srun' = srun
    BY <2>3 DEF Finalize, Moves, SafeFailureStages, SceneStages
  <2>4. ASSUME NEW b \in Batches, BatchStep(b) PROVE srun' = srun
    BY <2>1, <2>2, <2>3, <2>4 DEF BatchStep, StartBatch, RefuseBatch, NextScene,
       Generate, Authorize, ProviderAnswers, Upload, AfterUpload, Save, AfterSave,
       RecordCall, AfterRecord, Retract, Discard, TidyUp, LastCheckpoint, MarkRow,
       SettleBatch
  <2>5. ASSUME NEW b \in Batches, BatchFault(b) PROVE srun' = srun
    BY <2>1, <2>2, <2>5 DEF BatchFault, RequestFails, ProviderFails, Retries,
       DeletionFails, SaveUnanswered, TidyUpFails, StatementFails, SoftTimeLimit,
       HardTimeLimit, Crash
  <2>6. ASSUME NEW b \in Batches, RequestStep(b) \/ CleanStep(b) PROVE srun' = srun
    BY <2>6 DEF RequestStep, ReserveImage, RecordImage, PublishImage,
       PromoteImage, ReadRunAgain, UndoImage, RefundImage, CleanStep, ReadSaved,
       UnlinkRest, KillWorker, Reopen
  <2> QED BY <2>4, <2>5, <2>6 DEF SceneNext, SceneStep, SceneFault, RetryCleanup,
             CleanupFails, SelectAsset
<1> QED BY <1>1, PTL DEF SceneSafe, LateBatchSparesRun

-----------------------------------------------------------------------------
(* Uploads and library.                                                    *)

(* Types. *)

Intents ==
  [state : Counted \cup {"none", "completed", "reclaimed"}, reserved : 0 .. 2,
   live : BOOLEAN, token : Sweepers \cup {NobodySweeps}, retries : Nat]

Priors == UNION {[D -> Sweepable] : D \in SUBSET Uploads}

Sweeps ==
  [phase : SweepPhases, prior : Priors, key : Uploads \cup {NobodySweeps},
   died : BOOLEAN]

Claims ==
  [token : Keepers \cup {Nobody}, live : BOOLEAN, deleting : BOOLEAN]

Keepings ==
  [phase : {"idle", "next", "fence", "delete", "row"}, todo : SUBSET Uploads,
   key : Uploads \cup {Nobody}, died : BOOLEAN]

Plans == [rev : Nat, assets : SUBSET Uploads]

ApprovalPhases ==
  {"idle", "compile", "recheck", "original", "advance", "review", "undo",
   "inconsistent", "dispatch", "ended"}

Approvals ==
  [phase : ApprovalPhases, plan : Plans, before : Nat, from : RunStages]

RenderTasks ==
  [phase : {"none", "published", "load", "approval", "resolve", "materialize",
            "rendered", "failed", "ended"}, revision : Nat, plan : Plans]

Runs == [stage : RunStages, revision : Nat, by : Approvers \cup {Nobody}]

UploadTypes ==
  /\ intent \in [Uploads -> Intents]
  /\ upload \in [Uploads -> UploadPhases]
  /\ sweep \in [Sweepers -> Sweeps]
  /\ media \subseteq Uploads
  /\ blobs \subseteq Uploads

LibraryTypes ==
  /\ claim \in [Uploads -> Claims]
  /\ keeper \in [Keepers -> Keepings]
  /\ timeline \in Plans /\ timeline.rev > 0
  /\ editor \in [phase : {"idle", "save"}, plan : Plans]
  /\ run \in Runs
  /\ reviews \in Seq(Plans)
  /\ approver \in [Approvers -> Approvals]
  /\ render \in [Approvers -> RenderTasks]

-----------------------------------------------------------------------------
(* The uploads and their sweep. *)

State(u) == intent[u].state

(* The upload is over and its row is, or was, there. *)
Done(u) == State(u) = "completed" /\ upload[u] = "ended"

(* Its write may still land, and no clean-up of it has failed. *)
MayWrite(u) ==
  upload[u] \in {"reserved", "uploading", "adrift"} /\ intent[u].retries = 0

Requests ==
  \A u \in Uploads :
    /\ u \in media => Done(u)
    /\ upload[u] = "idle" => State(u) = "none"
    /\ upload[u] \in {"idle", "reserved", "release"} => u \notin blobs
    /\ upload[u] = "uploaded" /\ State(u) = "pending" => u \in blobs
    /\ upload[u] = "save" /\ State(u) = "uploaded" => u \in blobs
    /\ MayWrite(u) => State(u) \in CanMaterialize

(* What a sweep has claimed is not saved any more, and an object that may  *)
(* still appear is not taken for deleted.                                  *)
Sweeping ==
  \A s \in Sweepers :
    LET mine == sweep[s] IN
    /\ \A u \in DOMAIN mine.prior :
         /\ State(u) \notin {"none", "pending", "uploaded"}
         /\ MayWrite(u) => mine.prior[u] \in CanMaterialize
    /\ mine.phase \in {"delete", "record", "failure"} =>
         mine.key \in DOMAIN mine.prior
    /\ mine.phase = "delete" => mine.key \notin media
    /\ /\ mine.phase = "record" /\ mine.key \notin media
       /\ mine.prior[mine.key] \notin CanMaterialize
       /\ intent[mine.key].retries = 0
       => mine.key \notin blobs

(* ObjectsAreKnown without the requests. *)
ObjectsOwned ==
  \A u \in blobs \ media : State(u) \in Counted \/ intent[u].retries > 0

UploadInv == UploadTypes /\ Requests /\ Sweeping /\ ObjectsOwned

-----------------------------------------------------------------------------
(* Retention, the timeline and the approvals. *)

(* An object goes only after its row is marked; a row only after its       *)
(* object; and a sweep touches only uploads that are over.                 *)
Retention ==
  /\ \A a \in media : ~claim[a].deleting => a \in blobs
  /\ \A k \in Keepers :
       LET mine == keeper[k] IN
       /\ \A a \in mine.todo : Done(a)
       /\ mine.phase \in {"fence", "delete", "row"} =>
            mine.key \in Uploads /\ Done(mine.key)
       /\ mine.phase \in {"delete", "row"} =>
            claim[mine.key].deleting \/ mine.key \notin media
       /\ mine.phase = "row" => mine.key \notin blobs

(* What is referred to has a row and no claim. *)
Protected == Referenced \cup Approved \subseteq Visible

(* Every copy of the timeline that somebody works on. *)
Copies ==
  {timeline} \cup {approver[p].plan : p \in Approvers}
    \cup {render[p].plan : p \in Approvers} \cup {reviews[i] : i \in DOMAIN reviews}

(* A revision determines its assets. *)
Revisions ==
  /\ \A x \in Copies : x.rev <= timeline.rev
  /\ \A x, y \in Copies : x.rev = y.rev => x = y

Rendering ==
  \A p \in Approvers :
    /\ render[p].phase \in {"approval", "resolve", "materialize", "rendered"} =>
         render[p].plan.rev = render[p].revision
    /\ render[p].phase \in {"resolve", "materialize", "rendered"} =>
         \E i \in DOMAIN reviews : reviews[i] = render[p].plan

(* ApprovalIsRecorded, with the revision the approval has still to record. *)
Owed(p) ==
  /\ approver[p].phase \in {"review", "undo", "inconsistent"}
  /\ approver[p].plan.rev = run.revision

Reviewed ==
  run.stage = "RENDER_GENERATING" /\ run.by # Nobody =>
    Owed(run.by) \/ \E i \in DOMAIN reviews : reviews[i].rev = run.revision

LibraryInv ==
  LibraryTypes /\ Retention /\ Protected /\ Revisions /\ Rendering /\ Reviewed

-----------------------------------------------------------------------------
(* What a step of the uploads may do, as far as retention sees it. *)

UploadEffects ==
  /\ \A u \in Uploads : Done(u) => Done(u)'
  /\ media \subseteq media'
  /\ \A u \in media' \ media : u \in blobs' /\ ~Done(u)
  /\ media \cap blobs \subseteq blobs'
  /\ \A u \in blobs' \ blobs : ~Done(u)

UploadKeeps == UploadInv' /\ UploadEffects

(* The intent of one upload is rewritten: the others keep theirs. *)
LEMMA OneIntent ==
  ASSUME intent \in [Uploads -> Intents], NEW u \in Uploads, NEW r \in Intents,
         intent' = [intent EXCEPT ![u] = r]
  PROVE  /\ intent' \in [Uploads -> Intents]
         /\ intent'[u] = r
         /\ \A v \in Uploads : v # u => intent'[v] = intent[v]
OBVIOUS

(* A request moves to another phase: the others stay. *)
LEMMA OnePhase ==
  ASSUME upload \in [Uploads -> UploadPhases], NEW u \in Uploads,
         NEW p \in UploadPhases, At(u, p)
  PROVE  /\ upload' \in [Uploads -> UploadPhases]
         /\ upload'[u] = p
         /\ \A v \in Uploads : v # u => upload'[v] = upload[v]
BY DEF At

(* What an upload's intent may become. *)
LEMMA IntentFields ==
  ASSUME NEW i \in Intents
  PROVE  /\ i.state \in Counted \cup {"none", "completed", "reclaimed"}
         /\ i.reserved \in 0 .. 2
         /\ i.live \in BOOLEAN
         /\ i.token \in Sweepers \cup {NobodySweeps}
         /\ i.retries \in Nat
         /\ \A st \in Counted \cup {"none", "completed", "reclaimed"} :
              LET n == [i EXCEPT !.state = st]
              IN n \in Intents /\ n.state = st /\ n.retries = i.retries
         /\ \A l \in BOOLEAN :
              LET n == [i EXCEPT !.live = l]
              IN n \in Intents /\ n.state = i.state /\ n.retries = i.retries
         /\ \A b \in 0 .. 2 :
              LET n == [i EXCEPT !.reserved = b]
              IN n \in Intents /\ n.state = i.state /\ n.retries = i.retries
         /\ \A s \in Sweepers :
              LET n == [i EXCEPT !.token = s]
              IN n \in Intents /\ n.state = i.state /\ n.retries = i.retries
         /\ LET n == [i EXCEPT !.retries = @ + 1]
            IN n \in Intents /\ n.state = i.state /\ n.retries = i.retries + 1
BY DEF Intents

(* What has to be known of one upload whose request moves. *)
LEMMA RequestKeeps ==
  ASSUME UploadInv, NEW u \in Uploads, NEW r \in Intents, NEW p \in UploadPhases,
         upload[u] # "ended", p # "idle",
         intent' = [intent EXCEPT ![u] = r], At(u, p), UNCHANGED <<sweep, media>>,
         blobs' \in {blobs, blobs \cup {u}, blobs \ {u}},
         r.retries = intent[u].retries,
         r.state \in {"none", "pending", "uploaded"}
           => State(u) \in {"none", "pending", "uploaded"},
         u \in blobs' \ blobs => upload[u] \in {"uploading", "adrift"},
         u \in blobs' => r.state \in Counted \/ r.retries > 0,
         p \in {"reserved", "release"} => u \notin blobs',
         p = "uploaded" /\ r.state = "pending" => u \in blobs',
         p = "save" /\ r.state = "uploaded" => u \in blobs',
         p \in {"reserved", "uploading", "adrift"} /\ r.retries = 0 =>
           /\ r.state \in CanMaterialize
           /\ MayWrite(u) \/ State(u) = "none"
  PROVE  UploadKeeps
<1>1. /\ intent' \in [Uploads -> Intents]
      /\ intent'[u] = r
      /\ \A v \in Uploads : v # u => intent'[v] = intent[v]
  BY OneIntent DEF UploadInv, UploadTypes
<1>2. /\ upload' \in [Uploads -> UploadPhases]
      /\ upload'[u] = p
      /\ \A v \in Uploads : v # u => upload'[v] = upload[v]
  BY OnePhase DEF UploadInv, UploadTypes
<1>3. u \notin media BY DEF UploadInv, Requests, Done
<1>4. \A v \in Uploads : v # u => (v \in blobs' <=> v \in blobs)
  OBVIOUS
<1>5. UploadTypes' BY <1>1, <1>2 DEF UploadTypes, UploadInv
<1>6. Requests'
  BY <1>1, <1>2, <1>3, <1>4
  DEF Requests, UploadInv, UploadTypes, Done, State, MayWrite
<1>7. Sweeping'
  <2> SUFFICES ASSUME NEW s \in Sweepers
               PROVE  LET mine == sweep[s] IN
    /\ \A v \in DOMAIN mine.prior :
         /\ intent'[v].state \notin {"none", "pending", "uploaded"}
         /\ MayWrite(v)' => mine.prior[v] \in CanMaterialize
    /\ mine.phase \in {"delete", "record", "failure"} =>
         mine.key \in DOMAIN mine.prior
    /\ mine.phase = "delete" => mine.key \notin media
    /\ /\ mine.phase = "record" /\ mine.key \notin media
       /\ mine.prior[mine.key] \notin CanMaterialize
       /\ intent'[mine.key].retries = 0
       => mine.key \notin blobs'
    BY DEF Sweeping, State
  <2>1. DOMAIN sweep[s].prior \subseteq Uploads
    BY DEF UploadInv, UploadTypes, Sweeps, Priors
  <2>2. \A v \in DOMAIN sweep[s].prior :
          /\ State(v) \notin {"none", "pending", "uploaded"}
          /\ MayWrite(v) => sweep[s].prior[v] \in CanMaterialize
    BY DEF UploadInv, Sweeping
  <2>3. \A v \in DOMAIN sweep[s].prior :
          /\ intent'[v].state \notin {"none", "pending", "uploaded"}
          /\ MayWrite(v)' => MayWrite(v)
    BY <1>1, <1>2, <2>1, <2>2 DEF State, MayWrite
  <2>4. \A v \in Uploads : v \in blobs' \ blobs /\ intent'[v].retries = 0 => MayWrite(v)
    BY <1>1, <1>4 DEF MayWrite
  <2> QED
    BY <1>1, <1>4, <2>1, <2>2, <2>3, <2>4 DEF UploadInv, Sweeping
<1>8. ObjectsOwned'
  BY <1>1, <1>3, <1>4, <1>5 DEF ObjectsOwned, UploadInv, UploadTypes, State
<1>9. UploadEffects
  BY <1>1, <1>2, <1>3, <1>4 DEF UploadEffects, Done, State, UploadInv, UploadTypes
<1> QED BY <1>5, <1>6, <1>7, <1>8, <1>9 DEF UploadKeeps, UploadInv

(* A step of a request that leaves its intent alone. *)
LEMMA SameIntent ==
  ASSUME UploadInv, NEW u \in Uploads, UNCHANGED intent
  PROVE  intent[u] \in Intents /\ intent' = [intent EXCEPT ![u] = intent[u]]
BY DEF UploadInv, UploadTypes

(* The intent is created under the workspace's lock. *)
LEMMA CreateIntentKeeps ==
  ASSUME UploadInv, NEW u \in Uploads, CreateIntent(u)
  PROVE  UploadKeeps
<1> DEFINE i1 == [intent[u] EXCEPT !.state = "pending"]
           i2 == [i1 EXCEPT !.live = TRUE]
           i3 == [i2 EXCEPT !.reserved = Size(u)]
<1>0. Size(u) \in 0 .. 2 /\ intent[u] \in Intents
  BY DEF Size, UploadInv, UploadTypes
<1>1. i1 \in Intents /\ i1.state = "pending" /\ i1.retries = intent[u].retries
  BY <1>0, IntentFields DEF Counted, Sweepable
<1>2. i2 \in Intents /\ i2.state = "pending" /\ i2.retries = intent[u].retries
  <2> HIDE DEF i1
  <2> QED BY <1>1, IntentFields
<1>3. i3 \in Intents /\ i3.state = "pending" /\ i3.retries = intent[u].retries
  <2> HIDE DEF i2
  <2> QED BY <1>0, <1>2, IntentFields
<1>4. intent' = [intent EXCEPT ![u] = i3]
  BY DEF CreateIntent, UploadInv, UploadTypes, Intents
<1> HIDE DEF i1, i2, i3
<1>5. upload[u] = "idle" /\ At(u, "reserved") /\ UNCHANGED <<sweep, media, blobs>>
  BY DEF CreateIntent
<1>6. State(u) = "none" /\ u \notin blobs
  BY <1>5 DEF UploadInv, Requests
<1> QED
  BY <1>3, <1>4, <1>5, <1>6, RequestKeeps
  DEF UploadPhases, CanMaterialize

(* Each way an intent is rewritten leaves a well-formed one. *)
LEMMA ReleasedIntent ==
  ASSUME UploadInv, NEW u \in Uploads
  PROVE  \E r \in Intents : /\ Released(u) = [intent EXCEPT ![u] = r]
                            /\ r.state = "reclaimed"
                            /\ r.retries = intent[u].retries
<1> DEFINE i1 == [intent[u] EXCEPT !.state = "reclaimed"]
           i2 == [i1 EXCEPT !.reserved = 0]
<1>1. intent[u] \in Intents BY DEF UploadInv, UploadTypes
<1>2. i1 \in Intents /\ i1.state = "reclaimed" /\ i1.retries = intent[u].retries
  BY <1>1, IntentFields
<1>3. i2 \in Intents /\ i2.state = "reclaimed" /\ i2.retries = intent[u].retries
  <2>1. 0 \in 0 .. 2 OBVIOUS
  <2> HIDE DEF i1
  <2> QED BY <1>2, <2>1, IntentFields
<1>4. Released(u) = [intent EXCEPT ![u] = i2]
  BY DEF Released, UploadInv, UploadTypes, Intents
<1> QED BY <1>3, <1>4

(* One field of the intent's row. *)
LEMMA OneState ==
  ASSUME UploadInv, NEW u \in Uploads,
         NEW st \in Counted \cup {"none", "completed", "reclaimed"}
  PROVE  LET r == [intent[u] EXCEPT !.state = st]
         IN /\ r \in Intents /\ r.state = st /\ r.retries = intent[u].retries
            /\ [intent EXCEPT ![u].state = st] = [intent EXCEPT ![u] = r]
<1>1. intent[u] \in Intents
  BY DEF UploadInv, UploadTypes
<1> DEFINE r == [intent[u] EXCEPT !.state = st]
<1>2. r \in Intents
  BY <1>1 DEF Intents
<1>3. r.state = st /\ r.retries = intent[u].retries
  BY <1>1 DEF Intents
<1>4. [intent EXCEPT ![u].state = st] = [intent EXCEPT ![u] = r]
  OBVIOUS
<1> QED BY <1>2, <1>3, <1>4

(* The checkpoint before the upload. *)
LEMMA CheckpointKeeps ==
  ASSUME UploadInv, NEW u \in Uploads, Checkpoint(u)
  PROVE  UploadKeeps
<1>1. upload[u] = "reserved" /\ u \notin blobs /\ UNCHANGED <<sweep, media, blobs>>
  BY DEF UploadInv, Requests, Checkpoint
<1>2. CASE At(u, "uploading") /\ UNCHANGED intent
  <2>1. intent[u].retries = 0 => State(u) \in CanMaterialize /\ MayWrite(u)
    BY <1>1 DEF UploadInv, Requests, MayWrite
  <2>2. intent[u] \in Intents /\ intent' = [intent EXCEPT ![u] = intent[u]]
    BY <1>2, SameIntent
  <2> QED BY <1>1, <1>2, <2>1, <2>2, RequestKeeps DEF UploadPhases, State
<1>3. CASE At(u, "ended") /\ intent' = Released(u)
  <2>1. PICK r \in Intents : /\ Released(u) = [intent EXCEPT ![u] = r]
                             /\ r.state = "reclaimed"
                             /\ r.retries = intent[u].retries
    BY ReleasedIntent
  <2> QED BY <1>1, <1>3, <2>1, RequestKeeps DEF UploadPhases
<1> QED BY <1>2, <1>3 DEF Checkpoint

(* The write to the object store, which may land although it failed. *)
LEMMA PutKeeps ==
  ASSUME UploadInv, NEW u \in Uploads, Put(u)
  PROVE  UploadKeeps
<1>1. /\ upload[u] = "uploading" /\ UNCHANGED <<intent, sweep, media>>
      /\ blobs' \in {blobs, blobs \cup {u}}
      /\ \/ At(u, "uploaded") /\ u \in blobs'
         \/ At(u, "compensate") \/ At(u, "ended")
  BY DEF Put, MayLand
<1>2. intent[u].retries = 0 => State(u) \in CanMaterialize
  BY <1>1 DEF UploadInv, Requests, MayWrite
<1>3. intent[u] \in Intents /\ intent' = [intent EXCEPT ![u] = intent[u]]
  BY <1>1, SameIntent
<1>4. State(u) \in Counted \/ intent[u].retries > 0
  BY <1>2, <1>3 DEF Intents, CanMaterialize, Counted, Sweepable
<1> QED
  BY <1>1, <1>3, <1>4, RequestKeeps DEF UploadPhases, State

(* An object without a row is owned by its intent. *)
LEMMA OwnedObject ==
  ASSUME UploadInv, NEW u \in Uploads, upload[u] # "ended"
  PROVE  u \notin media /\ (u \in blobs => State(u) \in Counted \/ intent[u].retries > 0)
BY DEF UploadInv, ObjectsOwned, Requests, Done

(* The request finds its intent as it left it, or compensates. *)
LEMMA MarkUploadedKeeps ==
  ASSUME UploadInv, NEW u \in Uploads, MarkUploaded(u)
  PROVE  UploadKeeps
<1>1. upload[u] = "uploaded" /\ UNCHANGED <<sweep, media, blobs>>
  BY DEF MarkUploaded
<1>2. CASE State(u) = "pending"
  <2>1. At(u, "save") /\ intent' = [intent EXCEPT ![u].state = "uploaded"]
    BY <1>2 DEF MarkUploaded, State
  <2>2. u \in blobs BY <1>1, <1>2 DEF UploadInv, Requests
  <2> DEFINE r == [intent[u] EXCEPT !.state = "uploaded"]
  <2>3. /\ r \in Intents /\ r.state = "uploaded" /\ r.retries = intent[u].retries
        /\ intent' = [intent EXCEPT ![u] = r]
    BY <2>1, OneState DEF Counted, Sweepable
  <2> HIDE DEF r
  <2> QED
    BY <1>1, <1>2, <2>1, <2>2, <2>3, RequestKeeps DEF UploadPhases, Counted, Sweepable
<1>3. CASE State(u) # "pending"
  <2>1. At(u, "compensate") /\ UNCHANGED intent BY <1>3 DEF MarkUploaded, State
  <2>2. intent[u] \in Intents /\ intent' = [intent EXCEPT ![u] = intent[u]]
    BY <2>1, SameIntent
  <2> QED BY <1>1, <2>1, <2>2, OwnedObject, RequestKeeps DEF UploadPhases, State
<1> QED BY <1>2, <1>3

(* The row is inserted by whoever still owns the upload. *)
LEMMA SaveMediaKeeps ==
  ASSUME UploadInv, NEW u \in Uploads, SaveMedia(u)
  PROVE  UploadKeeps
<1>1. upload[u] = "save" /\ UNCHANGED <<sweep, blobs>>
  BY DEF SaveMedia
<1>2. CASE /\ OwnsUpload(u) /\ At(u, "ended")
           /\ intent' = [intent EXCEPT ![u].state = "completed"]
           /\ media' = media \cup {u}
  <2> DEFINE r == [intent[u] EXCEPT !.state = "completed"]
  <2>1. /\ r \in Intents /\ r.state = "completed" /\ r.retries = intent[u].retries
        /\ intent' = [intent EXCEPT ![u] = r]
    BY <1>2, OneState
  <2> HIDE DEF r
  <2>2. /\ intent' \in [Uploads -> Intents]
        /\ intent'[u] = r
        /\ \A v \in Uploads : v # u => intent'[v] = intent[v]
    BY <2>1, OneIntent DEF UploadInv, UploadTypes
  <2>3. /\ upload' \in [Uploads -> UploadPhases]
        /\ upload'[u] = "ended"
        /\ \A v \in Uploads : v # u => upload'[v] = upload[v]
    BY <1>2, OnePhase DEF UploadInv, UploadTypes, UploadPhases
  <2>4. State(u) = "uploaded" /\ u \in blobs /\ u \notin media
    BY <1>1, <1>2, OwnedObject DEF OwnsUpload, State, UploadInv, Requests
  <2>5. UploadTypes' BY <1>1, <1>2, <2>2, <2>3 DEF UploadInv, UploadTypes
  <2>6. Requests'
    BY <1>1, <1>2, <2>1, <2>2, <2>3, <2>4
    DEF UploadInv, UploadTypes, Requests, Done, State, MayWrite
  <2>7. Sweeping'
    <3>1. \A s \in Sweepers : u \notin DOMAIN sweep[s].prior
      BY <2>4 DEF UploadInv, Sweeping
    <3>2. \A s \in Sweepers : DOMAIN sweep[s].prior \subseteq Uploads
      BY DEF UploadInv, UploadTypes, Sweeps, Priors
    <3>3. \A s \in Sweepers : \A v \in DOMAIN sweep[s].prior :
            /\ intent'[v] = intent[v] /\ upload'[v] = upload[v]
            /\ (v \in media' <=> v \in media)
      BY <1>2, <2>2, <2>3, <3>1, <3>2
    <3> QED
      BY <1>1, <3>3 DEF UploadInv, Sweeping, State, MayWrite
  <2>8. ObjectsOwned'
    BY <1>1, <1>2, <2>2 DEF UploadInv, UploadTypes, ObjectsOwned, State
  <2>9. UploadEffects
    BY <1>1, <1>2, <2>1, <2>2, <2>3, <2>4 DEF UploadEffects, Done, State
  <2> QED BY <2>5, <2>6, <2>7, <2>8, <2>9 DEF UploadKeeps, UploadInv
<1>3. CASE (At(u, "compensate") \/ At(u, "ended")) /\ UNCHANGED <<intent, media>>
  <2>1. intent[u] \in Intents /\ intent' = [intent EXCEPT ![u] = intent[u]]
    BY <1>3, SameIntent
  <2> QED BY <1>1, <1>3, <2>1, OwnedObject, RequestKeeps DEF UploadPhases, State
<1> QED BY <1>2, <1>3 DEF SaveMedia

(* _compensate_upload: the object, then the intent. *)
LEMMA DeleteUploadKeeps ==
  ASSUME UploadInv, NEW u \in Uploads, DeleteUpload(u)
  PROVE  UploadKeeps
<1>1. /\ upload[u] = "compensate" /\ UNCHANGED <<intent, sweep, media>>
      /\ \/ At(u, "release") /\ blobs' = blobs \ {u}
         \/ At(u, "keep") /\ UNCHANGED blobs
  BY DEF DeleteUpload
<1>2. intent[u] \in Intents /\ intent' = [intent EXCEPT ![u] = intent[u]]
  BY <1>1, SameIntent
<1> QED BY <1>1, <1>2, OwnedObject, RequestKeeps DEF UploadPhases, State

(* What could not be deleted stays with the sweep. *)
LEMMA CompensateKeeps ==
  ASSUME UploadInv, NEW u \in Uploads, Compensate(u)
  PROVE  UploadKeeps
<1>1. At(u, "ended") /\ UNCHANGED <<sweep, media, blobs>>
  BY DEF Compensate
<1>2. CASE upload[u] = "release"
  <2>1. PICK r \in Intents : /\ Released(u) = [intent EXCEPT ![u] = r]
                             /\ r.state = "reclaimed"
                             /\ r.retries = intent[u].retries
    BY ReleasedIntent
  <2>2. u \notin blobs /\ intent' = Released(u)
    BY <1>2 DEF UploadInv, Requests, Compensate
  <2> QED BY <1>1, <1>2, <2>1, <2>2, RequestKeeps DEF UploadPhases
<1>3. CASE upload[u] = "keep"
  <2> DEFINE r == [intent[u] EXCEPT !.state = "cleanup_pending"]
  <2>1. /\ r \in Intents /\ r.state = "cleanup_pending"
        /\ r.retries = intent[u].retries
        /\ Kept(u) = [intent EXCEPT ![u] = r]
    BY OneState DEF Kept, Counted, Sweepable
  <2>2. intent' = Kept(u) BY <1>3 DEF Compensate
  <2> HIDE DEF r
  <2> QED
    BY <1>1, <1>3, <2>1, <2>2, RequestKeeps DEF UploadPhases, Counted, Sweepable
<1> QED BY <1>2, <1>3 DEF Compensate

(* The process of a request dies; its write may land afterwards. *)
LEMMA UploaderDiesKeeps ==
  ASSUME UploadInv, NEW u \in Uploads, UploaderDies(u)
  PROVE  UploadKeeps
<1>1. /\ upload[u] \notin {"idle", "adrift", "landed", "ended"}
      /\ At(u, IF upload[u] = "uploading" THEN "adrift" ELSE "ended")
      /\ UNCHANGED <<intent, sweep, media, blobs>>
  BY DEF UploaderDies
<1>2. intent[u] \in Intents /\ intent' = [intent EXCEPT ![u] = intent[u]]
  BY <1>1, SameIntent
<1>3. upload[u] = "uploading" /\ intent[u].retries = 0
        => State(u) \in CanMaterialize /\ MayWrite(u)
  BY DEF UploadInv, Requests, MayWrite
<1>4. CASE upload[u] = "uploading"
  BY <1>1, <1>2, <1>3, <1>4, OwnedObject, RequestKeeps DEF UploadPhases, State
<1>5. CASE upload[u] # "uploading"
  BY <1>1, <1>2, <1>5, OwnedObject, RequestKeeps DEF UploadPhases, State
<1> QED BY <1>4, <1>5

(* A write that was under way lands. *)
LEMMA LandLateKeeps ==
  ASSUME UploadInv, NEW u \in Uploads, LandLate(u)
  PROVE  UploadKeeps
<1>1. /\ upload[u] = "adrift" /\ At(u, "landed") /\ blobs' = blobs \cup {u}
      /\ UNCHANGED <<intent, sweep, media>>
  BY DEF LandLate
<1>2. intent[u] \in Intents /\ intent' = [intent EXCEPT ![u] = intent[u]]
  BY <1>1, SameIntent
<1>3. intent[u].retries = 0 => State(u) \in CanMaterialize
  BY <1>1 DEF UploadInv, Requests, MayWrite
<1>4. State(u) \in Counted \/ intent[u].retries > 0
  BY <1>2, <1>3 DEF Intents, CanMaterialize, Counted, Sweepable
<1> QED BY <1>1, <1>2, <1>4, RequestKeeps DEF UploadPhases, State

-----------------------------------------------------------------------------
(* The sweep.  Requests stay where they are, no row appears, and objects   *)
(* only go. *)

(* What has to be known when the sweep rewrites intents: the row of an     *)
(* upload that is over is not touched. *)
LEMMA SweepKeepsRequests ==
  ASSUME UploadInv, intent' \in [Uploads -> Intents], UNCHANGED <<upload, media>>,
         blobs' \subseteq blobs, media \cap blobs \subseteq blobs',
         \A u \in Uploads :
           \/ intent'[u].state = State(u) /\ intent'[u].retries = intent[u].retries
           \/ /\ State(u) \in Sweepable
              /\ intent'[u].state \notin {"none", "pending", "uploaded"}
              /\ intent'[u].retries = 0 => intent[u].retries = 0
              /\ MayWrite(u) /\ intent'[u].retries = 0
                   => intent'[u].state \in CanMaterialize,
         \A u \in Uploads :
           (upload[u] = "uploaded" /\ State(u) = "pending")
             \/ (upload[u] = "save" /\ State(u) = "uploaded") => u \in blobs'
  PROVE  Requests' /\ UploadEffects
<1>1. \A u \in Uploads : Done(u) => Done(u)'
  BY DEF Done, State, Sweepable
<1>2. UploadEffects BY <1>1 DEF UploadEffects
<1>3. Requests'
  <2> SUFFICES ASSUME NEW u \in Uploads
               PROVE  /\ u \in media => Done(u)'
                      /\ upload[u] = "idle" => intent'[u].state = "none"
                      /\ upload[u] \in {"idle", "reserved", "release"} => u \notin blobs'
                      /\ upload[u] = "uploaded" /\ intent'[u].state = "pending"
                           => u \in blobs'
                      /\ upload[u] = "save" /\ intent'[u].state = "uploaded"
                           => u \in blobs'
                      /\ MayWrite(u)' => intent'[u].state \in CanMaterialize
    BY DEF Requests, State
  <2>1. u \in media => Done(u)' BY <1>1 DEF UploadInv, Requests
  <2>2. /\ upload[u] = "idle" => State(u) = "none"
        /\ upload[u] \in {"idle", "reserved", "release"} => u \notin blobs
        /\ MayWrite(u) => State(u) \in CanMaterialize
    BY DEF UploadInv, Requests
  <2>3. MayWrite(u)' => intent'[u].state \in CanMaterialize
    BY <2>2 DEF MayWrite, State
  <2> QED BY <2>1, <2>2, <2>3 DEF State, Sweepable
<1> QED BY <1>2, <1>3

(* A lease runs out: nothing else changes. *)
LEMMA LeaseRunsOutKeeps ==
  ASSUME UploadInv, NEW u \in Uploads, LeaseRunsOut(u)
  PROVE  UploadKeeps
<1> DEFINE r == [intent[u] EXCEPT !.live = FALSE]
<1>1. /\ intent' = [intent EXCEPT ![u].live = FALSE]
      /\ UNCHANGED <<upload, sweep, media, blobs>>
  BY DEF LeaseRunsOut
<1>2. intent[u] \in Intents BY DEF UploadInv, UploadTypes
<1>3. r \in Intents /\ r.state = State(u) /\ r.retries = intent[u].retries
  BY <1>2, IntentFields DEF State
<1>4. intent' = [intent EXCEPT ![u] = r] BY <1>1
<1> HIDE DEF r
<1>5. /\ intent' \in [Uploads -> Intents]
      /\ intent'[u] = r
      /\ \A v \in Uploads : v # u => intent'[v] = intent[v]
  BY <1>3, <1>4, OneIntent DEF UploadInv, UploadTypes
<1>6. \A v \in Uploads : /\ intent'[v].state = State(v)
                         /\ intent'[v].retries = intent[v].retries
  BY <1>3, <1>5 DEF State
<1>7. UploadTypes' BY <1>1, <1>5 DEF UploadInv, UploadTypes
<1>8. \A v \in Uploads :
        (upload[v] = "uploaded" /\ State(v) = "pending")
          \/ (upload[v] = "save" /\ State(v) = "uploaded") => v \in blobs
  BY DEF UploadInv, Requests
<1>9. Requests' /\ UploadEffects
  BY <1>1, <1>5, <1>6, <1>8, SweepKeepsRequests
<1>10. Sweeping'
  <2>1. \A s \in Sweepers : DOMAIN sweep[s].prior \subseteq Uploads
    BY DEF UploadInv, UploadTypes, Sweeps, Priors
  <2>2. \A s \in Sweepers : \A v \in DOMAIN sweep[s].prior :
          /\ intent'[v].state = State(v) /\ intent'[v].retries = intent[v].retries
          /\ MayWrite(v)' <=> MayWrite(v)
    BY <1>1, <1>6, <2>1 DEF MayWrite
  <2> QED BY <1>1, <2>2 DEF UploadInv, Sweeping, State
<1>11. ObjectsOwned'
  BY <1>1, <1>6 DEF UploadInv, ObjectsOwned, State, UploadTypes
<1> QED BY <1>7, <1>9, <1>10, <1>11 DEF UploadKeeps, UploadInv

(* Every expired intent is claimed, and its former state remembered. *)
LEMMA ClaimExpiredKeeps ==
  ASSUME UploadInv, NEW s \in Sweepers, ClaimExpired(s)
  PROVE  UploadKeeps
<1> DEFINE taken(u) == [intent[u] EXCEPT !.state = "reclaiming", !.live = TRUE,
                                         !.token = s]
           before == [u \in Expired |-> intent[u].state]
           w1 == [sweep[s] EXCEPT !.phase = "next"]
           w == [w1 EXCEPT !.prior = before]
<1>1. /\ intent' = [u \in Uploads |-> IF u \in Expired THEN taken(u) ELSE intent[u]]
      /\ sweep' = [sweep EXCEPT ![s].phase = "next", ![s].prior = before]
      /\ UNCHANGED <<upload, media, blobs>>
  BY DEF ClaimExpired
<1>2. \A u \in Uploads : intent[u] \in Intents
  BY DEF UploadInv, UploadTypes
<1>3. \A u \in Uploads : /\ taken(u) \in Intents
                         /\ taken(u).state = "reclaiming"
                         /\ taken(u).retries = intent[u].retries
  <2> SUFFICES ASSUME NEW u \in Uploads
               PROVE  /\ taken(u) \in Intents
                      /\ taken(u).state = "reclaiming"
                      /\ taken(u).retries = intent[u].retries
    OBVIOUS
  <2> DEFINE i1 == [intent[u] EXCEPT !.state = "reclaiming"]
             i2 == [i1 EXCEPT !.live = TRUE]
             i3 == [i2 EXCEPT !.token = s]
  <2>1. i1 \in Intents /\ i1.state = "reclaiming" /\ i1.retries = intent[u].retries
    BY <1>2, IntentFields DEF Counted, Sweepable
  <2>2. i2 \in Intents /\ i2.state = "reclaiming" /\ i2.retries = intent[u].retries
    <3> HIDE DEF i1
    <3> QED BY <2>1, IntentFields
  <2>3. i3 \in Intents /\ i3.state = "reclaiming" /\ i3.retries = intent[u].retries
    <3> HIDE DEF i2
    <3> QED BY <2>2, IntentFields
  <2>4. taken(u) = i3 OBVIOUS
  <2> QED BY <2>3, <2>4
<1>4. Expired \subseteq Uploads /\ \A u \in Expired : State(u) \in Sweepable
  BY DEF Expired, State
<1> HIDE DEF taken
<1>5. intent' \in [Uploads -> Intents] BY <1>1, <1>2, <1>3
<1>6. \A u \in Uploads :
        /\ u \in Expired => intent'[u].state = "reclaiming"
        /\ u \notin Expired => intent'[u].state = State(u)
        /\ intent'[u].retries = intent[u].retries
  BY <1>1, <1>3 DEF State
<1>7. before \in Priors
  BY <1>4 DEF Priors, State
<1>8. sweep[s] \in Sweeps BY DEF UploadInv, UploadTypes
<1>9. w1 \in Sweeps
  BY <1>8 DEF Sweeps, SweepPhases
<1>10. w \in Sweeps /\ w.phase = "next" /\ w.prior = before
  BY <1>7, <1>8, <1>9 DEF Sweeps
<1>11. sweep' = [sweep EXCEPT ![s] = w]
  BY <1>1, <1>8 DEF UploadInv, UploadTypes, Sweeps
<1>12. DOMAIN before = Expired /\ \A u \in Expired : before[u] = State(u)
  BY DEF State
<1> HIDE DEF w, before
<1>13. /\ sweep' \in [Sweepers -> Sweeps] /\ sweep'[s] = w
       /\ \A z \in Sweepers : z # s => sweep'[z] = sweep[z]
  BY <1>10, <1>11 DEF UploadInv, UploadTypes
<1>14. UploadTypes' BY <1>1, <1>5, <1>13 DEF UploadInv, UploadTypes
<1>15. \A u \in Uploads :
         (upload[u] = "uploaded" /\ State(u) = "pending")
           \/ (upload[u] = "save" /\ State(u) = "uploaded") => u \in blobs
  BY DEF UploadInv, Requests
<1>16. Requests' /\ UploadEffects
  <2>1. \A u \in Uploads :
           \/ intent'[u].state = State(u) /\ intent'[u].retries = intent[u].retries
           \/ /\ State(u) \in Sweepable
              /\ intent'[u].state \notin {"none", "pending", "uploaded"}
              /\ intent'[u].retries = 0 => intent[u].retries = 0
              /\ MayWrite(u) /\ intent'[u].retries = 0
                   => intent'[u].state \in CanMaterialize
    BY <1>4, <1>6 DEF CanMaterialize
  <2> QED BY <1>1, <1>5, <1>15, <2>1, SweepKeepsRequests
<1>17. Sweeping'
  <2>1. \A u \in Uploads : MayWrite(u)' <=> MayWrite(u)
    BY <1>1, <1>6 DEF MayWrite
  <2>2. \A u \in Expired : MayWrite(u)' => before[u] \in CanMaterialize
    BY <1>4, <1>12, <2>1 DEF UploadInv, Requests
  <2>3. \A z \in Sweepers : DOMAIN sweep[z].prior \subseteq Uploads
    BY DEF UploadInv, UploadTypes, Sweeps, Priors
  <2>4. \A u \in Uploads : intent'[u].state \in {"none", "pending", "uploaded"}
                             => State(u) = intent'[u].state
    BY <1>6
  <2>5. \A u \in Expired : intent'[u].state \notin {"none", "pending", "uploaded"}
    BY <1>4, <1>6
  <2> SUFFICES ASSUME NEW z \in Sweepers
               PROVE  LET mine == sweep'[z] IN
    /\ \A u \in DOMAIN mine.prior :
         /\ intent'[u].state \notin {"none", "pending", "uploaded"}
         /\ MayWrite(u)' => mine.prior[u] \in CanMaterialize
    /\ mine.phase \in {"delete", "record", "failure"} =>
         mine.key \in DOMAIN mine.prior
    /\ mine.phase = "delete" => mine.key \notin media
    /\ /\ mine.phase = "record" /\ mine.key \notin media
       /\ mine.prior[mine.key] \notin CanMaterialize
       /\ intent'[mine.key].retries = 0
       => mine.key \notin blobs
    BY <1>1 DEF Sweeping, State
  <2>6. CASE z = s
    BY <1>10, <1>12, <1>13, <2>2, <2>5, <2>6
  <2>7. CASE z # s
    <3>1. sweep'[z] = sweep[z] BY <1>13, <2>7
    <3>2. \A u \in DOMAIN sweep[z].prior :
            /\ State(u) \notin {"none", "pending", "uploaded"}
            /\ MayWrite(u) => sweep[z].prior[u] \in CanMaterialize
      BY DEF UploadInv, Sweeping
    <3>3. \A u \in DOMAIN sweep[z].prior :
            /\ intent'[u].state \notin {"none", "pending", "uploaded"}
            /\ MayWrite(u)' => sweep[z].prior[u] \in CanMaterialize
            /\ intent'[u].retries = intent[u].retries
      BY <1>6, <2>1, <2>3, <2>4, <3>2
    <3> QED BY <3>1, <3>3 DEF UploadInv, Sweeping
  <2> QED BY <2>6, <2>7
<1>18. ObjectsOwned'
  BY <1>1, <1>6 DEF UploadInv, ObjectsOwned, State, UploadTypes, Counted, Sweepable
<1> QED BY <1>14, <1>16, <1>17, <1>18 DEF UploadKeeps, UploadInv

(* A sweep moves on without touching an intent; it may delete an object    *)
(* that no row names.                                                      *)
LEMMA SweepMoves ==
  ASSUME UploadInv, NEW s \in Sweepers, NEW w \in Sweeps,
         sweep' = [sweep EXCEPT ![s] = w], UNCHANGED <<intent, upload, media>>,
         blobs' \subseteq blobs, media \cap blobs \subseteq blobs',
         \A u \in blobs \ blobs' : State(u) \notin {"pending", "uploaded"},
         DOMAIN w.prior \subseteq DOMAIN sweep[s].prior,
         \A u \in DOMAIN w.prior : w.prior[u] = sweep[s].prior[u],
         w.phase \in {"delete", "record", "failure"} => w.key \in DOMAIN w.prior,
         w.phase = "delete" => w.key \notin media,
         w.phase = "record" => w.key \in media \/ w.key \notin blobs'
  PROVE  UploadKeeps
<1>1. UploadTypes' BY DEF UploadInv, UploadTypes
<1>2. \A u \in Uploads :
        (upload[u] = "uploaded" /\ State(u) = "pending")
          \/ (upload[u] = "save" /\ State(u) = "uploaded") => u \in blobs'
  BY DEF UploadInv, Requests
<1>3. Requests' /\ UploadEffects
  <2>1. \A u \in Uploads : /\ intent'[u].state = State(u)
                           /\ intent'[u].retries = intent[u].retries
    BY DEF State
  <2> QED BY <1>1, <1>2, <2>1, SweepKeepsRequests DEF UploadTypes
<1>4. Sweeping'
  <2>1. /\ sweep'[s] = w
        /\ \A z \in Sweepers : z # s => sweep'[z] = sweep[z]
    BY DEF UploadInv, UploadTypes
  <2> SUFFICES ASSUME NEW z \in Sweepers
               PROVE  LET mine == sweep'[z] IN
    /\ \A u \in DOMAIN mine.prior :
         /\ State(u) \notin {"none", "pending", "uploaded"}
         /\ MayWrite(u) => mine.prior[u] \in CanMaterialize
    /\ mine.phase \in {"delete", "record", "failure"} =>
         mine.key \in DOMAIN mine.prior
    /\ mine.phase = "delete" => mine.key \notin media
    /\ /\ mine.phase = "record" /\ mine.key \notin media
       /\ mine.prior[mine.key] \notin CanMaterialize
       /\ intent[mine.key].retries = 0
       => mine.key \notin blobs'
    BY DEF Sweeping, State, MayWrite
  <2>2. CASE z = s
    <3>1. \A u \in DOMAIN w.prior :
            /\ State(u) \notin {"none", "pending", "uploaded"}
            /\ MayWrite(u) => w.prior[u] \in CanMaterialize
      BY DEF UploadInv, Sweeping
    <3> QED BY <2>1, <2>2, <3>1
  <2>3. CASE z # s
    BY <2>1, <2>3 DEF UploadInv, Sweeping
  <2> QED BY <2>2, <2>3
<1>5. ObjectsOwned' BY DEF UploadInv, ObjectsOwned, State
<1> QED BY <1>1, <1>3, <1>4, <1>5 DEF UploadKeeps, UploadInv

(* The fields of a sweep. *)
LEMMA SweepFields ==
  ASSUME NEW w \in Sweeps
  PROVE  /\ w.phase \in SweepPhases /\ w.prior \in Priors
         /\ DOMAIN w.prior \subseteq Uploads
         /\ \A u \in DOMAIN w.prior : w.prior[u] \in Sweepable
         /\ \A p \in SweepPhases :
              LET n == [w EXCEPT !.phase = p]
              IN n \in Sweeps /\ n.phase = p /\ n.prior = w.prior /\ n.key = w.key
         /\ \A u \in Uploads \cup {NobodySweeps} :
              LET n == [w EXCEPT !.key = u]
              IN n \in Sweeps /\ n.phase = w.phase /\ n.prior = w.prior /\ n.key = u
         /\ \A q \in Priors :
              LET n == [w EXCEPT !.prior = q]
              IN n \in Sweeps /\ n.phase = w.phase /\ n.prior = q /\ n.key = w.key
BY DEF Sweeps, Priors

(* A sweep that is over. *)
LEMMA AtRest ==
  ASSUME NEW d \in BOOLEAN
  PROVE  LET n == [RestingSweep EXCEPT !.died = d]
         IN n \in Sweeps /\ n.phase = "idle" /\ DOMAIN n.prior = {}
<1>1. [u \in {} |-> "none"] \in Priors BY DEF Priors
<1>2. DOMAIN [u \in {} |-> "none"] = {} OBVIOUS
<1> QED BY <1>1, <1>2 DEF Sweeps, RestingSweep, SweepPhases

(* A sweep gives up, ends or dies. *)
LEMMA SweepRests ==
  ASSUME UploadInv, NEW s \in Sweepers, NEW d \in BOOLEAN,
         sweep' = [sweep EXCEPT ![s] = [RestingSweep EXCEPT !.died = d]],
         UNCHANGED <<intent, upload, media, blobs>>
  PROVE  UploadKeeps
<1> DEFINE w == [RestingSweep EXCEPT !.died = d]
<1>1. w \in Sweeps /\ w.phase = "idle" /\ DOMAIN w.prior = {} BY AtRest
<1>2. sweep' = [sweep EXCEPT ![s] = w] OBVIOUS
<1> HIDE DEF w
<1> QED BY <1>1, <1>2, SweepMoves

(* The look-up of the row decides whether the sweep records or deletes. *)
LEMMA LookUpKeeps ==
  ASSUME UploadInv, NEW s \in Sweepers, NEW u \in Uploads, LookUp(s, u)
  PROVE  UploadKeeps
<1> DEFINE p == IF u \in media THEN "record" ELSE "delete"
           w1 == [sweep[s] EXCEPT !.phase = p]
           w == [w1 EXCEPT !.key = u]
<1>1. sweep[s] \in Sweeps BY DEF UploadInv, UploadTypes
<1>2. p \in SweepPhases BY DEF SweepPhases
<1>3. w1 \in Sweeps /\ w1.phase = p /\ w1.prior = sweep[s].prior
  <2> HIDE DEF p
  <2> QED BY <1>1, <1>2, SweepFields
<1>4. w \in Sweeps /\ w.phase = p /\ w.prior = sweep[s].prior /\ w.key = u
  <2> HIDE DEF w1, p
  <2> QED BY <1>3, SweepFields
<1>5. sweep' = [sweep EXCEPT ![s] = w]
  BY <1>1 DEF LookUp, UploadInv, UploadTypes
<1>6. UNCHANGED <<intent, upload, media, blobs>> /\ u \in DOMAIN sweep[s].prior
  BY DEF LookUp
<1> HIDE DEF w
<1> QED BY <1>4, <1>5, <1>6, SweepMoves

(* The sweep deletes the object of an intent it holds and has seen no row of. *)
LEMMA DeleteExpiredKeeps ==
  ASSUME UploadInv, NEW s \in Sweepers, DeleteExpired(s)
  PROVE  UploadKeeps
<1>1. /\ sweep[s] \in Sweeps /\ sweep[s].phase = "delete"
      /\ UNCHANGED <<intent, upload, media>>
  BY DEF UploadInv, UploadTypes, DeleteExpired
<1>2. /\ sweep[s].key \in DOMAIN sweep[s].prior /\ sweep[s].key \notin media
      /\ State(sweep[s].key) \notin {"pending", "uploaded"}
  BY <1>1 DEF UploadInv, Sweeping
<1>3. CASE GoSweep(s, "record") /\ blobs' = blobs \ {sweep[s].key}
  <2> DEFINE w == [sweep[s] EXCEPT !.phase = "record"]
  <2>1. "record" \in SweepPhases BY DEF SweepPhases
  <2>2. /\ w \in Sweeps /\ w.phase = "record" /\ w.prior = sweep[s].prior
        /\ w.key = sweep[s].key
    BY <1>1, <2>1, SweepFields
  <2>3. sweep' = [sweep EXCEPT ![s] = w] BY <1>3 DEF GoSweep
  <2> HIDE DEF w
  <2> QED BY <1>1, <1>2, <1>3, <2>2, <2>3, SweepMoves
<1>4. CASE GoSweep(s, "failure") /\ UNCHANGED blobs
  <2> DEFINE w == [sweep[s] EXCEPT !.phase = "failure"]
  <2>1. "failure" \in SweepPhases BY DEF SweepPhases
  <2>2. /\ w \in Sweeps /\ w.phase = "failure" /\ w.prior = sweep[s].prior
        /\ w.key = sweep[s].key
    BY <1>1, <2>1, SweepFields
  <2>3. sweep' = [sweep EXCEPT ![s] = w] BY <1>4 DEF GoSweep
  <2> HIDE DEF w
  <2> QED BY <1>1, <1>2, <1>4, <2>2, <2>3, SweepMoves
<1> QED BY <1>3, <1>4 DEF DeleteExpired

(* The sweep records what became of the object it holds. *)
LEMMA RecordKeeps ==
  ASSUME UploadInv, NEW s \in Sweepers, NEW r \in Intents, Holds(s),
         sweep[s].phase \in {"record", "failure"}, Record(s, r),
         UNCHANGED <<upload, media, blobs>>,
         r.state \notin {"none", "pending", "uploaded"},
         r.retries = 0 => intent[sweep[s].key].retries = 0,
         MayWrite(sweep[s].key) /\ r.retries = 0 => r.state \in CanMaterialize,
         sweep[s].key \in blobs \ media => r.state \in Counted \/ r.retries > 0
  PROVE  UploadKeeps
<1>1. PICK k : k = sweep[s].key OBVIOUS
<1>2. /\ intent' = [intent EXCEPT ![k] = r]
      /\ sweep' = [sweep EXCEPT ![s].phase = "next", ![s].key = NobodySweeps,
           ![s].prior = [u \in DOMAIN sweep[s].prior \ {k} |-> sweep[s].prior[u]]]
  BY <1>1 DEF Record
<1>3. sweep[s] \in Sweeps BY DEF UploadInv, UploadTypes
<1>4. k \in DOMAIN sweep[s].prior BY <1>1 DEF UploadInv, Sweeping
<1>5. k \in Uploads /\ State(k) = "reclaiming"
  BY <1>1, <1>3, <1>4, SweepFields DEF Holds, State
<1> DEFINE q == [u \in DOMAIN sweep[s].prior \ {k} |-> sweep[s].prior[u]]
           w1 == [sweep[s] EXCEPT !.phase = "next"]
           w2 == [w1 EXCEPT !.key = NobodySweeps]
           w == [w2 EXCEPT !.prior = q]
<1>6. q \in Priors /\ DOMAIN q = DOMAIN sweep[s].prior \ {k}
  <2>1. /\ DOMAIN sweep[s].prior \subseteq Uploads
        /\ \A u \in DOMAIN sweep[s].prior : sweep[s].prior[u] \in Sweepable
    BY <1>3, SweepFields
  <2>2. q \in [DOMAIN sweep[s].prior \ {k} -> Sweepable] BY <2>1
  <2> QED BY <2>1, <2>2 DEF Priors
<1>7. w1 \in Sweeps /\ w1.phase = "next"
  BY <1>3, SweepFields DEF SweepPhases
<1>8. w2 \in Sweeps /\ w2.phase = "next"
  <2> HIDE DEF w1
  <2> QED BY <1>7, SweepFields
<1>9. w \in Sweeps /\ w.phase = "next" /\ w.prior = q
  <2> HIDE DEF w2, q
  <2> QED BY <1>6, <1>8, SweepFields
<1>10. sweep' = [sweep EXCEPT ![s] = w]
  BY <1>2, <1>3 DEF UploadInv, UploadTypes, Sweeps
<1> HIDE DEF w, q
<1>11. /\ sweep' \in [Sweepers -> Sweeps] /\ sweep'[s] = w
       /\ \A z \in Sweepers : z # s => sweep'[z] = sweep[z]
  BY <1>9, <1>10 DEF UploadInv, UploadTypes
<1>12. /\ intent' \in [Uploads -> Intents]
       /\ intent'[k] = r
       /\ \A v \in Uploads : v # k => intent'[v] = intent[v]
  BY <1>2, <1>5, OneIntent DEF UploadInv, UploadTypes
<1>13. UploadTypes' BY <1>11, <1>12 DEF UploadInv, UploadTypes
<1>14. \A u \in Uploads :
         (upload[u] = "uploaded" /\ State(u) = "pending")
           \/ (upload[u] = "save" /\ State(u) = "uploaded") => u \in blobs
  BY DEF UploadInv, Requests
<1>15. Requests' /\ UploadEffects
  <2>1. \A u \in Uploads :
           \/ intent'[u].state = State(u) /\ intent'[u].retries = intent[u].retries
           \/ /\ State(u) \in Sweepable
              /\ intent'[u].state \notin {"none", "pending", "uploaded"}
              /\ intent'[u].retries = 0 => intent[u].retries = 0
              /\ MayWrite(u) /\ intent'[u].retries = 0
                   => intent'[u].state \in CanMaterialize
    BY <1>1, <1>5, <1>12 DEF State, Sweepable
  <2> QED BY <1>12, <1>14, <2>1, SweepKeepsRequests
<1>16. Sweeping'
  <2>1. \A u \in Uploads : MayWrite(u)' => MayWrite(u)
    BY <1>1, <1>12 DEF MayWrite
  <2>2. \A u \in Uploads : intent'[u].state \in {"none", "pending", "uploaded"}
                             => State(u) = intent'[u].state
    BY <1>12 DEF State
  <2>3. \A u \in Uploads : intent'[u].retries = 0 => intent[u].retries = 0
    BY <1>1, <1>12
  <2> SUFFICES ASSUME NEW z \in Sweepers
               PROVE  LET mine == sweep'[z] IN
    /\ \A u \in DOMAIN mine.prior :
         /\ intent'[u].state \notin {"none", "pending", "uploaded"}
         /\ MayWrite(u)' => mine.prior[u] \in CanMaterialize
    /\ mine.phase \in {"delete", "record", "failure"} =>
         mine.key \in DOMAIN mine.prior
    /\ mine.phase = "delete" => mine.key \notin media
    /\ /\ mine.phase = "record" /\ mine.key \notin media
       /\ mine.prior[mine.key] \notin CanMaterialize
       /\ intent'[mine.key].retries = 0
       => mine.key \notin blobs
    BY DEF Sweeping, State
  <2>4. DOMAIN sweep[z].prior \subseteq Uploads
    BY SweepFields DEF UploadInv, UploadTypes
  <2>5. \A u \in DOMAIN sweep[z].prior :
          /\ State(u) \notin {"none", "pending", "uploaded"}
          /\ MayWrite(u) => sweep[z].prior[u] \in CanMaterialize
    BY DEF UploadInv, Sweeping
  <2>6. \A u \in DOMAIN sweep[z].prior :
          /\ intent'[u].state \notin {"none", "pending", "uploaded"}
          /\ MayWrite(u)' => sweep[z].prior[u] \in CanMaterialize
          /\ intent'[u].retries = 0 => intent[u].retries = 0
    BY <2>1, <2>2, <2>3, <2>4, <2>5
  <2>7. CASE z = s
    <3>1. \A u \in DOMAIN q : u \in DOMAIN sweep[s].prior /\ q[u] = sweep[s].prior[u]
      BY <1>6 DEF q
    <3> QED BY <1>9, <1>11, <2>6, <2>7, <3>1
  <2>8. CASE z # s
    <3>1. sweep'[z] = sweep[z] BY <1>11, <2>8
    <3> QED BY <2>6, <3>1 DEF UploadInv, Sweeping
  <2> QED BY <2>7, <2>8
<1>17. ObjectsOwned'
  BY <1>1, <1>12, <1>13 DEF UploadInv, ObjectsOwned, State, UploadTypes
<1> QED BY <1>13, <1>15, <1>16, <1>17 DEF UploadKeeps, UploadInv

(* A statement that misses its claim ends the sweep; one that hits it      *)
(* records what RecordKeeps asks for.                                      *)
LEMMA RecordDeletedKeeps ==
  ASSUME UploadInv, NEW s \in Sweepers, RecordDeleted(s)
  PROVE  UploadKeeps
<1>1. /\ sweep[s] \in Sweeps /\ sweep[s].phase = "record"
      /\ Record(s, AfterDeletion(s)) /\ UNCHANGED <<upload, media, blobs>>
  BY DEF UploadInv, UploadTypes, RecordDeleted
<1>2. CASE ~Holds(s)
  <2>1. /\ sweep' = [sweep EXCEPT ![s] = [RestingSweep EXCEPT !.died = sweep[s].died]]
        /\ UNCHANGED intent
    BY <1>1, <1>2 DEF Record, Abort
  <2>2. sweep[s].died \in BOOLEAN BY <1>1 DEF Sweeps
  <2> QED BY <1>1, <2>1, <2>2, SweepRests
<1>3. CASE Holds(s)
  <2>1. PICK k : k = sweep[s].key OBVIOUS
  <2>2. /\ k \in DOMAIN sweep[s].prior
        /\ MayWrite(k) => sweep[s].prior[k] \in CanMaterialize
        /\ (k \notin media /\ sweep[s].prior[k] \notin CanMaterialize
             /\ intent[k].retries = 0) => k \notin blobs
    BY <1>1, <2>1 DEF UploadInv, Sweeping
  <2>3. k \in Uploads /\ intent[k] \in Intents /\ State(k) = "reclaiming"
    BY <1>1, <1>3, <2>1, <2>2, SweepFields
    DEF Holds, State, UploadInv, UploadTypes
  <2>4. k \notin media BY <2>3 DEF UploadInv, Requests, Done
  <2>5. CASE sweep[s].prior[k] \in CanMaterialize
    <3> DEFINE n == IF sweep[s].prior[k] = "late_upload_watch" THEN 0
                    ELSE intent[k].reserved
               i1 == [intent[k] EXCEPT !.state = "late_upload_watch"]
               i2 == [i1 EXCEPT !.live = TRUE]
               i3 == [i2 EXCEPT !.reserved = n]
    <3>1. n \in 0 .. 2 BY <2>3 DEF Intents
    <3>2. i1 \in Intents /\ i1.state = "late_upload_watch"
          /\ i1.retries = intent[k].retries
      BY <2>3, IntentFields DEF Counted, Sweepable
    <3>3. i2 \in Intents /\ i2.state = "late_upload_watch"
          /\ i2.retries = intent[k].retries
      <4> HIDE DEF i1
      <4> QED BY <3>2, IntentFields
    <3>4. i3 \in Intents /\ i3.state = "late_upload_watch"
          /\ i3.retries = intent[k].retries
      <4> HIDE DEF i2, n
      <4> QED BY <3>1, <3>3, IntentFields
    <3>5. AfterDeletion(s) = i3
      BY <2>1, <2>3, <2>4, <2>5 DEF AfterDeletion, Intents
    <3> HIDE DEF i3
    <3> QED
      BY <1>1, <1>3, <2>1, <3>4, <3>5, RecordKeeps
      DEF CanMaterialize, Counted, Sweepable
  <2>6. CASE sweep[s].prior[k] \notin CanMaterialize
    <3> DEFINE r == [intent[k] EXCEPT !.state = "reclaimed"]
    <3>1. r \in Intents /\ r.state = "reclaimed" /\ r.retries = intent[k].retries
      BY <2>3, IntentFields
    <3>2. AfterDeletion(s) = r
      BY <2>1, <2>4, <2>6 DEF AfterDeletion
    <3> HIDE DEF r
    <3>3. k \in blobs => r.retries > 0
      BY <2>2, <2>3, <2>4, <2>6, <3>1 DEF Intents
    <3>4. ~MayWrite(k) BY <2>2, <2>6
    <3> QED BY <1>1, <1>3, <2>1, <3>1, <3>2, <3>3, <3>4, RecordKeeps
  <2> QED BY <2>5, <2>6
<1> QED BY <1>2, <1>3

(* The failure of a clean-up goes on record in the intent. *)
LEMMA RecordFailureKeeps ==
  ASSUME UploadInv, NEW s \in Sweepers, RecordFailure(s)
  PROVE  UploadKeeps
<1>1. /\ sweep[s] \in Sweeps /\ sweep[s].phase = "failure"
      /\ Record(s, AfterFailure(s)) /\ UNCHANGED <<upload, media, blobs>>
  BY DEF UploadInv, UploadTypes, RecordFailure
<1>2. CASE ~Holds(s)
  <2>1. /\ sweep' = [sweep EXCEPT ![s] = [RestingSweep EXCEPT !.died = sweep[s].died]]
        /\ UNCHANGED intent
    BY <1>1, <1>2 DEF Record, Abort
  <2>2. sweep[s].died \in BOOLEAN BY <1>1 DEF Sweeps
  <2> QED BY <1>1, <2>1, <2>2, SweepRests
<1>3. CASE Holds(s)
  <2>1. PICK k : k = sweep[s].key OBVIOUS
  <2>2. k \in DOMAIN sweep[s].prior
    BY <1>1, <2>1 DEF UploadInv, Sweeping
  <2>3. k \in Uploads /\ intent[k] \in Intents
    BY <1>1, <2>2, SweepFields DEF UploadInv, UploadTypes
  <2> DEFINE st == IF intent[k].retries + 1 >= CleanupLimit THEN "exhausted"
                   ELSE "cleanup_pending"
             i1 == [intent[k] EXCEPT !.retries = @ + 1]
             r == [i1 EXCEPT !.state = st]
  <2>4. st \in {"exhausted", "cleanup_pending"} OBVIOUS
  <2>5. i1 \in Intents /\ i1.retries = intent[k].retries + 1
    BY <2>3, IntentFields
  <2>6. r \in Intents /\ r.state = st /\ r.retries = intent[k].retries + 1
    <3>1. st \in Counted \cup {"none", "completed", "reclaimed"}
      BY <2>4 DEF Counted, Sweepable
    <3> HIDE DEF i1, st
    <3>2. r \in Intents BY <2>5, <3>1 DEF Intents
    <3>3. r.state = st /\ r.retries = i1.retries BY <2>5 DEF Intents
    <3> QED BY <2>5, <3>2, <3>3
  <2>7. r.retries > 0 BY <2>3, <2>6 DEF Intents
  <2>8. AfterFailure(s) = r BY <2>1, <2>3 DEF AfterFailure, Intents
  <2> HIDE DEF r, st
  <2> QED BY <1>1, <1>3, <2>1, <2>4, <2>6, <2>7, <2>8, RecordKeeps
<1> QED BY <1>2, <1>3

-----------------------------------------------------------------------------
(* A step of the uploads. *)

UploadActions ==
  \/ \E u \in Uploads :
       UploadStep(u) \/ UploaderDies(u) \/ LandLate(u) \/ LeaseRunsOut(u)
  \/ \E s \in Sweepers : SweepStep(s) \/ SweeperDies(s)

(* Every step of the requests, the sweep and the object store. *)
LEMMA UploadActionsKeep ==
  ASSUME UploadInv, UploadActions
  PROVE  UploadKeeps
<1>1. ASSUME NEW u \in Uploads, UploadStep(u) PROVE UploadKeeps
  BY <1>1, CreateIntentKeeps, CheckpointKeeps, PutKeeps, MarkUploadedKeeps,
     SaveMediaKeeps, DeleteUploadKeeps, CompensateKeeps
  DEF UploadStep
<1>2. ASSUME NEW u \in Uploads, UploaderDies(u) \/ LandLate(u) \/ LeaseRunsOut(u)
      PROVE UploadKeeps
  BY <1>2, UploaderDiesKeeps, LandLateKeeps, LeaseRunsOutKeeps
<1>3. ASSUME NEW s \in Sweepers, SweepEnds(s) \/ SweeperDies(s)
      PROVE UploadKeeps
  <2>1. sweep[s].died \in BOOLEAN BY DEF UploadInv, UploadTypes, Sweeps
  <2>2. CASE SweepEnds(s)
    BY <2>1, <2>2, SweepRests DEF SweepEnds, Abort
  <2>3. CASE SweeperDies(s)
    BY <2>3, SweepRests DEF SweeperDies
  <2> QED BY <1>3, <2>2, <2>3
<1>4. ASSUME NEW s \in Sweepers, SweepStep(s) PROVE UploadKeeps
  BY <1>3, <1>4, ClaimExpiredKeeps, LookUpKeeps, DeleteExpiredKeeps,
     RecordDeletedKeeps, RecordFailureKeeps
  DEF SweepStep
<1> QED BY <1>1, <1>2, <1>3, <1>4 DEF UploadActions

-----------------------------------------------------------------------------
(* What the uploads do leaves the library sound. *)

LEMMA UploadsSpareLibrary ==
  ASSUME UploadInv, LibraryInv, UploadActions, UNCHANGED libraryOnly
  PROVE  UploadInv' /\ LibraryInv'
<1>1. UploadInv' /\ UploadEffects BY UploadActionsKeep DEF UploadKeeps
<1>2. UNCHANGED <<claim, keeper, timeline, editor, run, reviews, approver, render>>
  BY DEF libraryOnly
<1>3. LibraryTypes' BY <1>2 DEF LibraryTypes, LibraryInv
<1>4. Retention'
  <2>1. \A a \in media' : ~claim[a].deleting => a \in blobs'
    BY <1>1 DEF UploadEffects, LibraryInv, Retention
  <2> SUFFICES ASSUME NEW k \in Keepers
               PROVE  LET mine == keeper[k] IN
                 /\ \A a \in mine.todo : Done(a)'
                 /\ mine.phase \in {"fence", "delete", "row"} =>
                      mine.key \in Uploads /\ Done(mine.key)'
                 /\ mine.phase \in {"delete", "row"} =>
                      claim[mine.key].deleting \/ mine.key \notin media'
                 /\ mine.phase = "row" => mine.key \notin blobs'
    BY <1>2, <2>1 DEF Retention, Done, State
  <2>2. keeper[k].todo \subseteq Uploads
    BY DEF LibraryInv, LibraryTypes, Keepings
  <2>3. \A a \in keeper[k].todo : Done(a)'
    BY <1>1, <2>2 DEF UploadEffects, LibraryInv, Retention
  <2>4. ASSUME keeper[k].phase \in {"fence", "delete", "row"}
        PROVE  /\ keeper[k].key \in Uploads /\ Done(keeper[k].key)
               /\ Done(keeper[k].key)'
               /\ keeper[k].key \in media' => keeper[k].key \in media
               /\ keeper[k].key \in blobs' => keeper[k].key \in blobs
    <3>1. keeper[k].key \in Uploads /\ Done(keeper[k].key)
      BY <2>4 DEF LibraryInv, Retention
    <3>2. PICK x : x = keeper[k].key OBVIOUS
    <3>3. Done(x)' BY <1>1, <3>1, <3>2 DEF UploadEffects
    <3>4. Done(keeper[k].key)' BY <1>2, <3>2, <3>3 DEF Done, State
    <3> QED BY <1>1, <3>1, <3>4 DEF UploadEffects
  <2>5. keeper[k].phase \in {"fence", "delete", "row"} =>
          keeper[k].key \in Uploads /\ intent'[keeper[k].key].state = "completed"
            /\ upload'[keeper[k].key] = "ended"
    BY <1>2, <2>4 DEF Done, State
  <2> QED BY <1>2, <2>3, <2>4, <2>5 DEF LibraryInv, Retention, Done, State
<1>5. Protected'
  BY <1>1, <1>2
  DEF UploadEffects, LibraryInv, Protected, Referenced, Approved, Visible, Claimed
<1>6. Revisions' /\ Rendering' /\ Reviewed'
  BY <1>2 DEF LibraryInv, Revisions, Copies, Rendering, Reviewed, Owed
<1> QED BY <1>1, <1>3, <1>4, <1>5, <1>6 DEF LibraryInv

(* A step that leaves the uploads alone keeps what is known of them. *)
LEMMA UploadInvFrame ==
  ASSUME UploadInv, UNCHANGED uploadVars
  PROVE  UploadInv'
<1>1. UNCHANGED <<intent, upload, sweep, media, blobs>> BY DEF uploadVars
<1>2. UploadTypes' BY <1>1 DEF UploadInv, UploadTypes
<1>3. Requests' BY <1>1 DEF UploadInv, Requests, Done, State, MayWrite
<1>4. Sweeping' BY <1>1 DEF UploadInv, Sweeping, State, MayWrite
<1>5. ObjectsOwned' BY <1>1 DEF UploadInv, ObjectsOwned, State
<1> QED BY <1>2, <1>3, <1>4, <1>5 DEF UploadInv

-----------------------------------------------------------------------------
(* The timeline and the approvals leave retention alone. *)

LEMMA RetentionFrame ==
  ASSUME Retention, UNCHANGED <<uploadVars, claim, keeper>>
  PROVE  Retention'
BY DEF Retention, uploadVars, Done, State

(* No new claim, and nothing new is referred to. *)
LEMMA ProtectedFrame ==
  ASSUME LibraryTypes, UploadTypes, Protected, media \subseteq media',
         \A a \in Uploads : claim[a] = NoClaim => claim'[a] = NoClaim,
         UNCHANGED <<timeline, reviews>>
  PROVE  Protected'
BY DEF Protected, Referenced, Approved, Visible, Claimed, UploadTypes

(* Copies of the timeline are handed on. *)
LEMMA RevisionsFrame ==
  ASSUME Revisions, UNCHANGED timeline, \A x \in Copies' : x \in Copies
  PROVE  Revisions'
<1>1. \A x \in Copies' : x.rev <= timeline.rev BY DEF Revisions
<1>2. \A x, y \in Copies' : x.rev = y.rev => x = y BY DEF Revisions
<1> QED BY <1>1, <1>2 DEF Revisions

(* A copy at the timeline's revision is the timeline. *)
LEMMA CopyIsTimeline ==
  ASSUME Revisions, NEW x \in Copies, x.rev = timeline.rev
  PROVE  x = timeline
<1>1. timeline \in Copies BY DEF Copies
<1> QED BY <1>1 DEF Revisions

(* A save that begins has read nothing yet. *)
LEMMA StartSaveKeeps ==
  ASSUME LibraryInv, NEW S \in SUBSET Uploads, StartSave(S)
  PROVE  LibraryInv'
<1>1. UNCHANGED <<uploadVars, claim, keeper, timeline, run, reviews, approver, render>>
  BY DEF StartSave
<1>2. LibraryTypes'
  BY <1>1 DEF StartSave, LibraryInv, LibraryTypes, Plans
<1>3. Retention' BY <1>1, RetentionFrame DEF LibraryInv
<1>4. Protected' /\ Revisions' /\ Rendering' /\ Reviewed'
  BY <1>1
  DEF LibraryInv, Protected, Referenced, Approved, Visible, Claimed, uploadVars,
      Revisions, Copies, Rendering, Reviewed, Owed
<1> QED BY <1>2, <1>3, <1>4 DEF LibraryInv

(* What is saved is visible, and has a revision of its own. *)
LEMMA SaveTimelineKeeps ==
  ASSUME LibraryInv, SaveTimeline
  PROVE  LibraryInv'
<1>1. UNCHANGED <<uploadVars, claim, keeper, run, reviews, approver, render>>
  BY DEF SaveTimeline
<1>2. NoPlan \in Plans BY DEF Plans, NoPlan
<1>3. editor'.phase = "idle" /\ editor' \in [phase : {"idle", "save"}, plan : Plans]
  BY <1>2 DEF SaveTimeline
<1>4. Retention' BY <1>1, RetentionFrame DEF LibraryInv
<1>5. CASE Savable(editor.plan)
  <2>1. timeline' = [rev |-> timeline.rev + 1, assets |-> editor.plan.assets]
    BY <1>5 DEF SaveTimeline
  <2>2. editor.plan \in Plans /\ timeline \in Plans /\ timeline.rev > 0
    BY DEF LibraryInv, LibraryTypes
  <2>3. timeline' \in Plans /\ timeline'.rev > 0 BY <2>1, <2>2 DEF Plans
  <2>4. LibraryTypes' BY <1>1, <1>3, <2>3 DEF LibraryInv, LibraryTypes
  <2>5. Protected'
    BY <1>1, <1>5, <2>1
    DEF LibraryInv, Protected, Referenced, Approved, Visible, Claimed, Savable,
        uploadVars
  <2>6. \A x \in Copies' : x = timeline' \/ x \in Copies
    BY <1>1 DEF Copies
  <2>7. \A x \in Copies : x.rev < timeline'.rev
    <3>1. \A x \in Copies : x \in Plans
      BY DEF Copies, LibraryInv, LibraryTypes, Approvals, RenderTasks
    <3> QED BY <2>1, <2>2, <3>1 DEF LibraryInv, Revisions, Plans
  <2>8. \A x \in Copies : x \in Plans
    BY DEF Copies, LibraryInv, LibraryTypes, Approvals, RenderTasks
  <2>9. \A x \in Copies' : x.rev <= timeline'.rev
    BY <2>3, <2>6, <2>7, <2>8 DEF Plans
  <2>10. \A x, y \in Copies' : x.rev = y.rev => x = y
    BY <2>3, <2>6, <2>7, <2>8 DEF Plans, LibraryInv, Revisions
  <2>11. Revisions' BY <2>9, <2>10 DEF Revisions
  <2>12. Rendering' /\ Reviewed' BY <1>1 DEF LibraryInv, Rendering, Reviewed, Owed
  <2> QED BY <1>4, <2>4, <2>5, <2>11, <2>12 DEF LibraryInv
<1>6. CASE ~Savable(editor.plan)
  <2>1. UNCHANGED timeline BY <1>6 DEF SaveTimeline
  <2>2. LibraryTypes' BY <1>1, <1>3, <2>1 DEF LibraryInv, LibraryTypes
  <2>3. Protected' /\ Revisions' /\ Rendering' /\ Reviewed'
    BY <1>1, <2>1
    DEF LibraryInv, Protected, Referenced, Approved, Visible, Claimed, uploadVars,
        Revisions, Copies, Rendering, Reviewed, Owed
  <2> QED BY <1>4, <2>2, <2>3 DEF LibraryInv
<1> QED BY <1>5, <1>6

-----------------------------------------------------------------------------
(* The approvals. *)

(* One approval is rewritten: the others stay. *)
LEMMA OneApproval ==
  ASSUME LibraryTypes, NEW p \in Approvers, NEW n \in Approvals,
         approver' = [approver EXCEPT ![p] = n]
  PROVE  /\ approver' \in [Approvers -> Approvals]
         /\ approver'[p] = n
         /\ \A o \in Approvers : o # p => approver'[o] = approver[o]
BY DEF LibraryTypes

(* An approval that only moves on. *)
LEMMA MovedOn ==
  ASSUME LibraryTypes, NEW p \in Approvers, NEW ph \in ApprovalPhases,
         ToApprover(p, ph)
  PROVE  /\ approver' \in [Approvers -> Approvals]
         /\ approver'[p].phase = ph /\ approver'[p].plan = approver[p].plan
         /\ \A o \in Approvers : o # p => approver'[o] = approver[o]
         /\ \A o \in Approvers : approver'[o].plan = approver[o].plan
<1> DEFINE n == [approver[p] EXCEPT !.phase = ph]
<1>1. approver[p] \in Approvals BY DEF LibraryTypes
<1>2. n \in Approvals /\ n.phase = ph /\ n.plan = approver[p].plan
  BY <1>1 DEF Approvals
<1>3. approver' = [approver EXCEPT ![p] = n] BY DEF ToApprover
<1> HIDE DEF n
<1> QED BY <1>2, <1>3, OneApproval

(* Everybody but an approval that advances the run moves it like this: no  *)
(* approval took it where it is.                                           *)
LEMMA MovedRun ==
  ASSUME LibraryTypes, NEW stage \in RunStages, MoveTo(stage)
  PROVE  run' \in Runs /\ run'.by = Nobody
BY DEF MoveTo, LibraryTypes, Runs

(* What an approval leaves as it was, if it neither reviews nor renders. *)
LEMMA ApprovalFrame ==
  ASSUME LibraryInv, UNCHANGED <<libraryBelow, reviews, render>>,
         approver' \in [Approvers -> Approvals], run' \in Runs,
         \A p \in Approvers : approver'[p].plan \in {approver[p].plan, timeline},
         Reviewed'
  PROVE  LibraryInv'
<1>1. UNCHANGED <<uploadVars, claim, keeper, timeline, editor, reviews, render>>
  BY DEF libraryBelow
<1>2. LibraryTypes' BY <1>1 DEF LibraryInv, LibraryTypes
<1>3. Retention' BY <1>1, RetentionFrame DEF LibraryInv
<1>4. Protected'
  BY <1>1
  DEF LibraryInv, Protected, Referenced, Approved, Visible, Claimed, uploadVars
<1>5. \A x \in Copies' : x \in Copies BY <1>1 DEF Copies
<1>6. Revisions' BY <1>1, <1>5, RevisionsFrame DEF LibraryInv
<1>7. Rendering' BY <1>1 DEF LibraryInv, Rendering
<1> QED BY <1>2, <1>3, <1>4, <1>6, <1>7 DEF LibraryInv

(* An approval that owes no review may go on; nobody's debt changes.       *)
LEMMA StillReviewed ==
  ASSUME LibraryInv, NEW p \in Approvers, ~Owed(p), UNCHANGED <<run, reviews>>,
         \A o \in Approvers : o # p => approver'[o] = approver[o]
  PROVE  Reviewed'
<1>1. run \in Runs BY DEF LibraryInv, LibraryTypes
<1> QED BY <1>1 DEF LibraryInv, Reviewed, Owed, Runs

(* An approval plans what the timeline says when it is loaded. *)
LEMMA LoadTimelineKeeps ==
  ASSUME LibraryInv, NEW p \in Approvers, LoadTimeline(p)
  PROVE  LibraryInv'
<1> DEFINE n1 == [approver[p] EXCEPT !.phase = "compile"]
           n == [n1 EXCEPT !.plan = timeline]
<1>1. /\ approver[p].phase = "idle" /\ run.stage = "TIMELINE_REVIEW"
      /\ approver' = [approver EXCEPT ![p].phase = "compile", ![p].plan = timeline]
      /\ UNCHANGED <<libraryBelow, run, reviews, render>>
  BY DEF LoadTimeline
<1>2. approver[p] \in Approvals /\ timeline \in Plans
  BY DEF LibraryInv, LibraryTypes
<1>3. n1 \in Approvals BY <1>2 DEF Approvals, ApprovalPhases
<1>4. n \in Approvals /\ n.plan = timeline
  BY <1>2, <1>3 DEF Approvals
<1>5. approver' = [approver EXCEPT ![p] = n]
  BY <1>1, <1>2 DEF Approvals, LibraryInv, LibraryTypes
<1> HIDE DEF n
<1>6. /\ approver' \in [Approvers -> Approvals] /\ approver'[p] = n
      /\ \A o \in Approvers : o # p => approver'[o] = approver[o]
  BY <1>4, <1>5, OneApproval DEF LibraryInv
<1>7. Reviewed' BY <1>1, <1>6, StillReviewed DEF Owed
<1> QED
  BY <1>1, <1>4, <1>6, <1>7, ApprovalFrame DEF LibraryInv, LibraryTypes

(* Compiling and comparing revisions change the approval alone. *)
LEMMA CompileKeeps ==
  ASSUME LibraryInv, NEW p \in Approvers, CompilePlan(p) \/ RecheckRevision(p)
  PROVE  LibraryInv'
<1>1. /\ approver[p].phase \in {"compile", "recheck"}
      /\ UNCHANGED <<libraryBelow, run, reviews, render>>
      /\ \E ph \in {"recheck", "original", "ended"} : ToApprover(p, ph)
  BY DEF CompilePlan, RecheckRevision
<1>2. PICK ph \in {"recheck", "original", "ended"} : ToApprover(p, ph)
  BY <1>1
<1>3. ph \in ApprovalPhases BY DEF ApprovalPhases
<1>4. /\ approver' \in [Approvers -> Approvals]
      /\ \A o \in Approvers : o # p => approver'[o] = approver[o]
      /\ \A o \in Approvers : approver'[o].plan = approver[o].plan
  BY <1>2, <1>3, MovedOn DEF LibraryInv
<1>5. Reviewed' BY <1>1, <1>4, StillReviewed DEF Owed
<1> QED BY <1>1, <1>4, <1>5, ApprovalFrame DEF LibraryInv, LibraryTypes

(* What a rollback would restore is read before the run is advanced. *)
LEMMA CaptureKeeps ==
  ASSUME LibraryInv, NEW p \in Approvers, CaptureOriginal(p)
  PROVE  LibraryInv'
<1> DEFINE n1 == [approver[p] EXCEPT !.phase = "advance"]
           n == [n1 EXCEPT !.before = run.revision]
<1>1. /\ approver[p].phase = "original"
      /\ approver' = [approver EXCEPT ![p].phase = "advance", ![p].before = run.revision]
      /\ UNCHANGED <<libraryBelow, run, reviews, render>>
  BY DEF CaptureOriginal
<1>2. approver[p] \in Approvals /\ run \in Runs /\ run.revision \in Nat
  BY DEF LibraryInv, LibraryTypes, Runs
<1>3. n1 \in Approvals /\ n1.plan = approver[p].plan
  BY <1>2 DEF Approvals, ApprovalPhases
<1>4. n \in Approvals /\ n.plan = approver[p].plan
  BY <1>2, <1>3 DEF Approvals
<1>5. approver' = [approver EXCEPT ![p] = n]
  BY <1>1, <1>2 DEF Approvals, LibraryInv, LibraryTypes
<1> HIDE DEF n
<1>6. /\ approver' \in [Approvers -> Approvals] /\ approver'[p] = n
      /\ \A o \in Approvers : o # p => approver'[o] = approver[o]
  BY <1>4, <1>5, OneApproval DEF LibraryInv
<1>7. Reviewed' BY <1>1, <1>6, StillReviewed DEF Owed
<1> QED
  BY <1>1, <1>4, <1>6, <1>7, ApprovalFrame DEF LibraryInv, LibraryTypes

(* The approver that advanced the run owes it the review. *)
LEMMA AdvanceRunKeeps ==
  ASSUME LibraryInv, NEW p \in Approvers, AdvanceRun(p)
  PROVE  LibraryInv'
<1>1. approver[p].phase = "advance" /\ UNCHANGED <<libraryBelow, reviews, render>>
  BY DEF AdvanceRun
<1>2. approver[p] \in Approvals BY DEF LibraryInv, LibraryTypes
<1>3. PICK ph \in {"review", "ended"} : ToApprover(p, ph) BY DEF AdvanceRun
<1>4. ph \in ApprovalPhases BY DEF ApprovalPhases
<1>5. /\ approver' \in [Approvers -> Approvals]
      /\ approver'[p].phase = ph /\ approver'[p].plan = approver[p].plan
      /\ \A o \in Approvers : o # p => approver'[o] = approver[o]
      /\ \A o \in Approvers : approver'[o].plan = approver[o].plan
  BY <1>3, <1>4, MovedOn DEF LibraryInv
<1>6. CASE run.stage = "TIMELINE_REVIEW"
  <2>1. /\ run' = [stage |-> "RENDER_GENERATING", revision |-> approver[p].plan.rev,
                   by |-> p]
        /\ ToApprover(p, "review")
    BY <1>6 DEF AdvanceRun
  <2>2. approver'[p].phase = "review"
    <3>1. "review" \in ApprovalPhases BY DEF ApprovalPhases
    <3> QED BY <2>1, <3>1, MovedOn DEF LibraryInv
  <2>3. run' \in Runs
    BY <1>2, <2>1 DEF Runs, RunStages, Approvals, Plans
  <2>4. Reviewed' BY <1>5, <2>1, <2>2 DEF Reviewed, Owed
  <2> QED BY <1>1, <1>5, <2>3, <2>4, ApprovalFrame
<1>7. CASE run.stage # "TIMELINE_REVIEW"
  <2>1. UNCHANGED run BY <1>7 DEF AdvanceRun
  <2>2. Reviewed' BY <1>1, <1>5, <2>1, StillReviewed DEF Owed
  <2> QED BY <1>1, <1>5, <2>1, <2>2, ApprovalFrame DEF LibraryInv, LibraryTypes
<1> QED BY <1>6, <1>7

(* A revision is approved only while the timeline still has it, and then   *)
(* it is the timeline: what it refers to is protected already.             *)
LEMMA RecordReviewKeeps ==
  ASSUME LibraryInv, NEW p \in Approvers, RecordReview(p)
  PROVE  LibraryInv'
<1>1. approver[p].phase = "review" /\ UNCHANGED <<libraryBelow, run, render>>
  BY DEF RecordReview
<1>2. UNCHANGED <<uploadVars, claim, keeper, timeline, editor, run, render>>
  BY <1>1 DEF libraryBelow
<1>3. approver[p] \in Approvals BY DEF LibraryInv, LibraryTypes
<1>4. CASE /\ Reviewable(approver[p].plan)
           /\ reviews' = Append(reviews, approver[p].plan)
           /\ ToApprover(p, "dispatch")
  <2>1. /\ approver' \in [Approvers -> Approvals]
        /\ \A o \in Approvers : o # p => approver'[o] = approver[o]
        /\ \A o \in Approvers : approver'[o].plan = approver[o].plan
    <3>1. "dispatch" \in ApprovalPhases BY DEF ApprovalPhases
    <3> QED BY <1>4, <3>1, MovedOn DEF LibraryInv
  <2>2. approver[p].plan \in Plans /\ reviews \in Seq(Plans)
    BY <1>3 DEF Approvals, LibraryInv, LibraryTypes
  <2>3. /\ reviews' \in Seq(Plans)
        /\ \A i \in DOMAIN reviews : i \in DOMAIN reviews' /\ reviews'[i] = reviews[i]
        /\ \E i \in DOMAIN reviews' : reviews'[i] = approver[p].plan
        /\ \A i \in DOMAIN reviews' :
             \/ reviews'[i] = approver[p].plan
             \/ i \in DOMAIN reviews /\ reviews'[i] = reviews[i]
    <3>1. /\ reviews' \in Seq(Plans) /\ Len(reviews') = Len(reviews) + 1
          /\ \A i \in 1 .. Len(reviews) : reviews'[i] = reviews[i]
          /\ reviews'[Len(reviews) + 1] = approver[p].plan
      BY <1>4, <2>2, AppendProperties
    <3>2. DOMAIN reviews = 1 .. Len(reviews) /\ DOMAIN reviews' = 1 .. Len(reviews')
          /\ Len(reviews) \in Nat
      BY <2>2, <3>1
    <3> QED BY <3>1, <3>2
  <2>4. approver[p].plan = timeline
    <3>1. approver[p].plan \in Copies BY DEF Copies
    <3>2. approver[p].plan.rev = timeline.rev BY <1>4 DEF Reviewable
    <3> QED BY <3>1, <3>2, CopyIsTimeline DEF LibraryInv
  <2>5. LibraryTypes' BY <1>2, <2>1, <2>3 DEF LibraryInv, LibraryTypes
  <2>6. Retention' BY <1>2, RetentionFrame DEF LibraryInv
  <2>7. Protected'
    <3>1. \A a \in Approved' : a \in Approved \/ a \in Referenced
      BY <2>3, <2>4 DEF Approved, Referenced
    <3>2. Referenced' = Referenced /\ Visible' = Visible
      BY <1>2 DEF Referenced, Visible, Claimed, uploadVars
    <3> QED BY <3>1, <3>2 DEF LibraryInv, Protected
  <2>8. \A x \in Copies' : x \in Copies
    BY <1>2, <2>1, <2>3 DEF Copies
  <2>9. Revisions' BY <1>2, <2>8, RevisionsFrame DEF LibraryInv
  <2>10. Rendering'
    <3>1. \A i \in DOMAIN reviews : i \in DOMAIN reviews' /\ reviews'[i] = reviews[i]
      BY <2>3
    <3> QED BY <1>2, <3>1 DEF LibraryInv, Rendering
  <2>11. Reviewed'
    <3>1. \A i \in DOMAIN reviews : i \in DOMAIN reviews' /\ reviews'[i] = reviews[i]
      BY <2>3
    <3>2. \E i \in DOMAIN reviews' : reviews'[i].rev = approver[p].plan.rev
      BY <2>3
    <3>3. run \in Runs BY DEF LibraryInv, LibraryTypes
    <3> QED BY <1>2, <2>1, <3>1, <3>2, <3>3 DEF LibraryInv, Reviewed, Owed, Runs
  <2> QED BY <2>5, <2>6, <2>7, <2>9, <2>10, <2>11 DEF LibraryInv
<1>5. CASE ToApprover(p, "undo") /\ UNCHANGED reviews
  <2>1. /\ approver' \in [Approvers -> Approvals]
        /\ approver'[p].phase = "undo"
        /\ \A o \in Approvers : o # p => approver'[o] = approver[o]
        /\ \A o \in Approvers : approver'[o].plan = approver[o].plan
    <3>1. "undo" \in ApprovalPhases BY DEF ApprovalPhases
    <3> QED BY <1>5, <3>1, MovedOn DEF LibraryInv
  <2>2. Reviewed'
    <3>1. run \in Runs BY DEF LibraryInv, LibraryTypes
    <3> QED BY <1>1, <1>2, <1>5, <2>1, <3>1 DEF Reviewed, LibraryInv, Owed, Runs
  <2> QED BY <1>1, <1>2, <1>5, <2>1, <2>2, ApprovalFrame DEF LibraryInv, LibraryTypes
<1> QED BY <1>4, <1>5 DEF RecordReview

(* A rollback that succeeds takes the stage back; the run of one that does *)
(* not is left to the approval that reported it.                           *)
LEMMA UndoAdvanceKeeps ==
  ASSUME LibraryInv, NEW p \in Approvers, UndoAdvance(p)
  PROVE  LibraryInv'
<1>1. approver[p].phase = "undo" /\ UNCHANGED <<libraryBelow, reviews, render>>
  BY DEF UndoAdvance
<1>2. approver[p] \in Approvals /\ run \in Runs BY DEF LibraryInv, LibraryTypes
<1>3. CASE /\ run' = [stage |-> "TIMELINE_REVIEW", revision |-> approver[p].before,
                      by |-> Nobody]
           /\ ToApprover(p, "ended")
  <2>1. "ended" \in ApprovalPhases BY DEF ApprovalPhases
  <2>2. /\ approver' \in [Approvers -> Approvals]
        /\ \A o \in Approvers : approver'[o].plan = approver[o].plan
    BY <1>3, <2>1, MovedOn DEF LibraryInv
  <2>3. run' \in Runs BY <1>2, <1>3 DEF Runs, RunStages, Approvals
  <2>4. Reviewed' BY <1>3 DEF Reviewed
  <2> QED BY <1>1, <2>2, <2>3, <2>4, ApprovalFrame
<1>4. CASE ToApprover(p, "inconsistent") /\ UNCHANGED run
  <2>1. "inconsistent" \in ApprovalPhases BY DEF ApprovalPhases
  <2>2. /\ approver' \in [Approvers -> Approvals]
        /\ approver'[p].phase = "inconsistent"
        /\ \A o \in Approvers : o # p => approver'[o] = approver[o]
        /\ \A o \in Approvers : approver'[o].plan = approver[o].plan
    BY <1>4, <2>1, MovedOn DEF LibraryInv
  <2>3. Reviewed'
    BY <1>1, <1>2, <1>4, <2>2 DEF Reviewed, LibraryInv, Owed, Runs
  <2> QED BY <1>1, <1>2, <1>4, <2>2, <2>3, ApprovalFrame
<1> QED BY <1>3, <1>4 DEF UndoAdvance

(* A request that only renders remembers the stage it was made in. *)
LEMMA AskRenderKeeps ==
  ASSUME LibraryInv, NEW p \in Approvers, AskRender(p)
  PROVE  LibraryInv'
<1> DEFINE n1 == [approver[p] EXCEPT !.phase = "dispatch"]
           n == [n1 EXCEPT !.from = run.stage]
<1>1. /\ approver[p].phase = "idle"
      /\ approver' = [approver EXCEPT ![p].phase = "dispatch", ![p].from = run.stage]
      /\ UNCHANGED <<libraryBelow, run, reviews, render>>
  BY DEF AskRender
<1>2. approver[p] \in Approvals /\ run \in Runs /\ run.stage \in RunStages
  BY DEF LibraryInv, LibraryTypes, Runs
<1>3. n1 \in Approvals /\ n1.plan = approver[p].plan
  BY <1>2 DEF Approvals, ApprovalPhases
<1>4. n \in Approvals /\ n.plan = approver[p].plan
  BY <1>2, <1>3 DEF Approvals
<1>5. approver' = [approver EXCEPT ![p] = n]
  BY <1>1, <1>2 DEF Approvals, LibraryInv, LibraryTypes
<1> HIDE DEF n
<1>6. /\ approver' \in [Approvers -> Approvals] /\ approver'[p] = n
      /\ \A o \in Approvers : o # p => approver'[o] = approver[o]
  BY <1>4, <1>5, OneApproval DEF LibraryInv
<1>7. Reviewed' BY <1>1, <1>6, StillReviewed DEF Owed
<1> QED
  BY <1>1, <1>2, <1>4, <1>6, <1>7, ApprovalFrame DEF LibraryInv, LibraryTypes

(* What a user's move, a dispatch or a render does to the run. *)
LEMMA MovedIsReviewed ==
  ASSUME LibraryInv, UNCHANGED reviews,
         run' = run \/ \E stage \in RunStages : MoveTo(stage),
         \A p \in Approvers : Owed(p) => approver'[p] = approver[p]
  PROVE  run' \in Runs /\ Reviewed'
<1>1. run \in Runs BY DEF LibraryInv, LibraryTypes
<1>2. CASE run' = run
  BY <1>1, <1>2 DEF LibraryInv, Reviewed, Owed, Runs
<1>3. CASE \E stage \in RunStages : MoveTo(stage)
  BY <1>3, MovedRun DEF LibraryInv, Reviewed
<1> QED BY <1>2, <1>3

(* The render changes, and the run may move: what is rendered is a copy of *)
(* the timeline.                                                           *)
LEMMA RenderFrame ==
  ASSUME LibraryInv, UNCHANGED <<libraryBelow, reviews>>,
         run' = run \/ \E stage \in RunStages : MoveTo(stage),
         approver' \in [Approvers -> Approvals],
         \A o \in Approvers : approver'[o].plan = approver[o].plan,
         \A o \in Approvers : Owed(o) => approver'[o] = approver[o],
         render' \in [Approvers -> RenderTasks],
         \A o \in Approvers : render'[o].plan \in {render[o].plan, timeline},
         Rendering'
  PROVE  LibraryInv'
<1>1. UNCHANGED <<uploadVars, claim, keeper, timeline, editor, reviews>>
  BY DEF libraryBelow
<1>2. run' \in Runs /\ Reviewed' BY <1>1, MovedIsReviewed
<1>3. LibraryTypes' BY <1>1, <1>2 DEF LibraryInv, LibraryTypes
<1>4. Retention' BY <1>1, RetentionFrame DEF LibraryInv
<1>5. Protected'
  BY <1>1
  DEF LibraryInv, Protected, Referenced, Approved, Visible, Claimed, uploadVars
<1>6. \A x \in Copies' : x \in Copies BY <1>1 DEF Copies
<1>7. Revisions' BY <1>1, <1>6, RevisionsFrame DEF LibraryInv
<1> QED BY <1>2, <1>3, <1>4, <1>5, <1>7 DEF LibraryInv

(* One render is rewritten, and keeps to what is approved.                 *)
LEMMA OneRender ==
  ASSUME LibraryInv, UNCHANGED <<reviews>>, NEW p \in Approvers, NEW n \in RenderTasks,
         render' = [render EXCEPT ![p] = n],
         n.phase \in {"approval", "resolve", "materialize", "rendered"} =>
           n.plan.rev = n.revision,
         n.phase \in {"resolve", "materialize", "rendered"} =>
           \E i \in DOMAIN reviews : reviews[i] = n.plan
  PROVE  /\ render' \in [Approvers -> RenderTasks] /\ render'[p] = n
         /\ \A o \in Approvers : o # p => render'[o] = render[o]
         /\ Rendering'
<1>1. render \in [Approvers -> RenderTasks] BY DEF LibraryInv, LibraryTypes
<1>2. /\ render' \in [Approvers -> RenderTasks] /\ render'[p] = n
      /\ \A o \in Approvers : o # p => render'[o] = render[o]
  BY <1>1
<1>3. Rendering' BY <1>2 DEF LibraryInv, Rendering
<1> QED BY <1>2, <1>3

(* The run is taken to its render or back, and the render is published or  *)
(* not.                                                                    *)
LEMMA DispatchRenderKeeps ==
  ASSUME LibraryInv, NEW p \in Approvers, DispatchRender(p)
  PROVE  LibraryInv'
<1>1. /\ approver[p].phase = "dispatch" /\ ToApprover(p, "ended")
      /\ UNCHANGED <<libraryBelow, reviews>>
  BY DEF DispatchRender
<1>2. "ended" \in ApprovalPhases BY DEF ApprovalPhases
<1>3. /\ approver' \in [Approvers -> Approvals]
      /\ \A o \in Approvers : o # p => approver'[o] = approver[o]
      /\ \A o \in Approvers : approver'[o].plan = approver[o].plan
  BY <1>1, <1>2, MovedOn DEF LibraryInv
<1>4. \A o \in Approvers : Owed(o) => approver'[o] = approver[o]
  BY <1>1, <1>3 DEF Owed
<1>5. run' = run \/ \E stage \in RunStages : MoveTo(stage)
  <2>1. approver[p].from \in RunStages /\ "RENDER_GENERATING" \in RunStages
    BY DEF LibraryInv, LibraryTypes, Approvals, RunStages
  <2> QED BY <2>1 DEF DispatchRender, TakeToRender
<1>6. /\ render' \in [Approvers -> RenderTasks] /\ Rendering'
      /\ \A o \in Approvers : render'[o].plan = render[o].plan
  <2>1. render \in [Approvers -> RenderTasks] BY DEF LibraryInv, LibraryTypes
  <2>2. CASE UNCHANGED render
    BY <1>1, <2>1, <2>2 DEF LibraryInv, Rendering
  <2>3. CASE Publish(p)
    <3> DEFINE n == [render[p] EXCEPT !.phase = "published"]
    <3>1. n \in RenderTasks /\ n.phase = "published" /\ n.plan = render[p].plan
      BY <2>1 DEF RenderTasks
    <3>2. render' = [render EXCEPT ![p] = n] BY <2>3 DEF Publish
    <3> HIDE DEF n
    <3> QED BY <1>1, <2>1, <3>1, <3>2, OneRender
  <2> QED BY <2>2, <2>3 DEF DispatchRender
<1> QED BY <1>1, <1>3, <1>4, <1>5, <1>6, RenderFrame

(* A restart, a step back or a stop moves the run alone. *)
LEMMA UserMovesKeep ==
  ASSUME LibraryInv, UserMoves
  PROVE  LibraryInv' /\ UNCHANGED libraryBelow
<1>1. /\ \E stage \in RunStages : MoveTo(stage)
      /\ UNCHANGED <<libraryBelow, reviews, approver, render>>
  <2>1. CASE \E stage \in UserStages : RestartRun(stage)
    BY <2>1, LibraryAssumption DEF RestartRun
  <2>2. CASE GoBack
    BY <2>2, LibraryAssumption DEF GoBack
  <2>3. CASE StopRender
    <3>1. StageBeforeGenerating[run.stage] \in RunStages
      BY <2>3 DEF StopRender, StageBeforeGenerating, RunStages
    <3> QED BY <2>3, <3>1 DEF StopRender
  <2> QED BY <2>1, <2>2, <2>3 DEF UserMoves
<1>2. /\ approver' \in [Approvers -> Approvals]
      /\ render' \in [Approvers -> RenderTasks] /\ Rendering'
  BY <1>1 DEF LibraryInv, LibraryTypes, Rendering
<1> QED BY <1>1, <1>2, RenderFrame

-----------------------------------------------------------------------------
(* The render worker. *)

(* The revision the approval names is the one that is rendered. *)
LEMMA RenderStepKeeps ==
  ASSUME LibraryInv, NEW p \in Approvers, RenderStep(p)
  PROVE  LibraryInv' /\ UNCHANGED libraryBelow
<1> DEFINE mine == render[p]
<1>1. /\ render \in [Approvers -> RenderTasks] /\ mine \in RenderTasks
      /\ timeline \in Plans /\ run \in Runs /\ run.revision \in Nat
      /\ approver \in [Approvers -> Approvals]
  BY DEF LibraryInv, LibraryTypes, Runs
<1>2. UNCHANGED <<libraryBelow, reviews, approver>>
  BY DEF RenderStep, ReadApprovedRevision, LoadForRender, CheckApproval,
         ResolveAssets, Materialize, EndRender
<1>3. run' = run \/ \E stage \in RunStages : MoveTo(stage)
  BY DEF RenderStep, ReadApprovedRevision, LoadForRender, CheckApproval,
         ResolveAssets, Materialize, EndRender, SuccessStage, RunStages
<1>4. SUFFICES \E n \in RenderTasks :
                 /\ render' = [render EXCEPT ![p] = n]
                 /\ n.plan \in {mine.plan, timeline}
                 /\ n.phase \in {"approval", "resolve", "materialize", "rendered"} =>
                      n.plan.rev = n.revision
                 /\ n.phase \in {"resolve", "materialize", "rendered"} =>
                      \E i \in DOMAIN reviews : reviews[i] = n.plan
  <2>1. PICK n \in RenderTasks :
          /\ render' = [render EXCEPT ![p] = n]
          /\ n.plan \in {mine.plan, timeline}
          /\ n.phase \in {"approval", "resolve", "materialize", "rendered"} =>
               n.plan.rev = n.revision
          /\ n.phase \in {"resolve", "materialize", "rendered"} =>
               \E i \in DOMAIN reviews : reviews[i] = n.plan
    BY <1>4
  <2>2. /\ render' \in [Approvers -> RenderTasks] /\ render'[p] = n
        /\ \A o \in Approvers : o # p => render'[o] = render[o]
        /\ Rendering'
    BY <1>2, <2>1, OneRender
  <2>3. \A o \in Approvers : render'[o].plan \in {render[o].plan, timeline}
    BY <2>1, <2>2
  <2> QED BY <1>1, <1>2, <1>3, <2>2, <2>3, RenderFrame
<1>5. CASE ReadApprovedRevision(p)
  <2> DEFINE n1 == [mine EXCEPT !.phase = "load"]
             n == [n1 EXCEPT !.revision = run.revision]
  <2>1. n1 \in RenderTasks /\ n1.phase = "load" /\ n1.plan = mine.plan
    BY <1>1 DEF RenderTasks
  <2>2. n \in RenderTasks /\ n.phase = "load" /\ n.plan = mine.plan
    BY <1>1, <2>1 DEF RenderTasks
  <2>3. render' = [render EXCEPT ![p] = n]
    BY <1>1, <1>5 DEF ReadApprovedRevision, RenderTasks
  <2> QED BY <2>2, <2>3
<1>6. CASE LoadForRender(p)
  <2> DEFINE to == IF LoadedAsApproved(p) THEN "approval" ELSE "failed"
             n1 == [mine EXCEPT !.plan = timeline]
             n == [n1 EXCEPT !.phase = to]
  <2>1. /\ n1 \in RenderTasks /\ n1.plan = timeline
        /\ n1.revision = mine.revision
    BY <1>1 DEF RenderTasks
  <2>2. /\ n \in RenderTasks /\ n.plan = timeline /\ n.revision = mine.revision
        /\ n.phase \in {"approval", "failed"}
        /\ n.phase = "approval" => timeline.rev = mine.revision
    BY <2>1 DEF RenderTasks, LoadedAsApproved
  <2>3. render' = [render EXCEPT ![p] = n]
    BY <1>1, <1>6 DEF LoadForRender, RenderTasks
  <2> QED BY <2>2, <2>3
<1>7. CASE CheckApproval(p) \/ ResolveAssets(p) \/ Materialize(p) \/ EndRender(p)
  <2>1. PICK ph \in {"resolve", "materialize", "rendered", "failed", "ended"} :
          /\ render' = [render EXCEPT ![p].phase = ph]
          /\ mine.phase \in {"approval", "resolve", "materialize", "rendered", "failed"}
          /\ ph \in {"materialize", "rendered"} =>
               mine.phase \in {"resolve", "materialize", "rendered"}
          /\ ph = "resolve" => /\ mine.phase = "approval" /\ reviews # <<>>
                               /\ Last(reviews).rev = mine.revision
    BY <1>7 DEF CheckApproval, ResolveAssets, Materialize, EndRender, ToRender
  <2> DEFINE n == [mine EXCEPT !.phase = ph]
  <2>2. /\ n \in RenderTasks /\ n.phase = ph /\ n.plan = mine.plan
        /\ n.revision = mine.revision
    BY <1>1, <2>1 DEF RenderTasks
  <2>3. render' = [render EXCEPT ![p] = n] BY <2>1
  <2> HIDE DEF n
  <2>4. ph \in {"resolve", "materialize", "rendered"} => mine.plan.rev = mine.revision
    BY <2>1 DEF LibraryInv, Rendering
  <2>5. ASSUME ph = "resolve"
        PROVE  \E i \in DOMAIN reviews : reviews[i] = mine.plan
    <3>1. reviews \in Seq(Plans) BY DEF LibraryInv, LibraryTypes
    <3>2. Len(reviews) \in DOMAIN reviews /\ Last(reviews) = reviews[Len(reviews)]
      BY <2>1, <2>5, <3>1 DEF Last
    <3>3. reviews[Len(reviews)] \in Copies /\ mine.plan \in Copies
      BY <3>2 DEF Copies
    <3>4. reviews[Len(reviews)].rev = mine.plan.rev
      BY <2>1, <2>4, <2>5, <3>2
    <3> QED BY <3>2, <3>3, <3>4 DEF LibraryInv, Revisions
  <2>6. ph \in {"materialize", "rendered"} =>
          \E i \in DOMAIN reviews : reviews[i] = mine.plan
    BY <2>1 DEF LibraryInv, Rendering
  <2>7. n.phase \in {"approval", "resolve", "materialize", "rendered"} =>
          n.plan.rev = n.revision
    BY <2>1, <2>2, <2>4
  <2>8. n.phase \in {"resolve", "materialize", "rendered"} =>
          \E i \in DOMAIN reviews : reviews[i] = n.plan
    BY <2>2, <2>5, <2>6
  <2> QED BY <2>2, <2>3, <2>7, <2>8
<1> QED BY <1>5, <1>6, <1>7 DEF RenderStep

-----------------------------------------------------------------------------
(* Retention. *)

(* The fields of a sweep of retention. *)
LEMMA KeeperFields ==
  ASSUME NEW m \in Keepings
  PROVE  /\ m.todo \in SUBSET Uploads /\ m.died \in BOOLEAN
         /\ \A p \in {"idle", "next", "fence", "delete", "row"} :
              LET n == [m EXCEPT !.phase = p]
              IN n \in Keepings /\ n.phase = p /\ n.todo = m.todo /\ n.key = m.key
         /\ \A a \in Uploads \cup {Nobody} :
              LET n == [m EXCEPT !.key = a]
              IN n \in Keepings /\ n.phase = m.phase /\ n.todo = m.todo /\ n.key = a
         /\ \A t \in SUBSET Uploads :
              LET n == [m EXCEPT !.todo = t]
              IN n \in Keepings /\ n.phase = m.phase /\ n.todo = t /\ n.key = m.key
BY DEF Keepings

(* One sweep moves and claims stay marked: the others are not disturbed.   *)
LEMMA RetentionMoves ==
  ASSUME UploadInv, LibraryInv, NEW k \in Keepers, NEW n \in Keepings,
         keeper' = [keeper EXCEPT ![k] = n], UNCHANGED <<intent, upload>>,
         media' \subseteq media, blobs' \subseteq blobs,
         \A a \in media' : ~claim'[a].deleting => a \in blobs',
         \A a \in Uploads : claim[a].deleting =>
           claim'[a].deleting \/ a \notin media',
         \A a \in n.todo : Done(a),
         n.phase \in {"fence", "delete", "row"} => n.key \in Uploads /\ Done(n.key),
         n.phase \in {"delete", "row"} =>
           claim'[n.key].deleting \/ n.key \notin media',
         n.phase = "row" => n.key \notin blobs'
  PROVE  Retention' /\ keeper' \in [Keepers -> Keepings]
<1>1. /\ keeper' \in [Keepers -> Keepings] /\ keeper'[k] = n
      /\ \A o \in Keepers : o # k => keeper'[o] = keeper[o]
  BY DEF LibraryInv, LibraryTypes
<1> SUFFICES ASSUME NEW o \in Keepers
             PROVE  LET mine == keeper'[o] IN
               /\ \A a \in mine.todo : Done(a)
               /\ mine.phase \in {"fence", "delete", "row"} =>
                    mine.key \in Uploads /\ Done(mine.key)
               /\ mine.phase \in {"delete", "row"} =>
                    claim'[mine.key].deleting \/ mine.key \notin media'
               /\ mine.phase = "row" => mine.key \notin blobs'
  BY <1>1 DEF Retention, Done, State
<1>2. CASE o = k BY <1>1, <1>2
<1>3. CASE o # k
  <2>1. keeper'[o] = keeper[o] BY <1>1, <1>3
  <2> QED BY <2>1 DEF LibraryInv, Retention
<1> QED BY <1>2, <1>3

(* A sweep of retention that leaves rows and claims as they are. *)
LEMMA KeeperFrame ==
  ASSUME UploadInv, LibraryInv, Retention', keeper' \in [Keepers -> Keepings],
         UNCHANGED <<media, claim, timeline, editor, run, reviews, approver, render>>
  PROVE  LibraryInv'
<1>1. LibraryTypes' BY DEF LibraryInv, LibraryTypes
<1>2. Protected' /\ Revisions' /\ Rendering' /\ Reviewed'
  BY DEF LibraryInv, Protected, Referenced, Approved, Visible, Claimed,
         Revisions, Copies, Rendering, Reviewed, Owed
<1> QED BY <1>1, <1>2 DEF LibraryInv

(* A sweep of retention that claims, marks or drops what nobody refers to. *)
LEMMA ClaimFrame ==
  ASSUME UploadInv, LibraryInv, Retention', keeper' \in [Keepers -> Keepings],
         claim' \in [Uploads -> Claims], Protected',
         UNCHANGED <<timeline, editor, run, reviews, approver, render>>
  PROVE  LibraryInv'
<1>1. LibraryTypes' BY DEF LibraryInv, LibraryTypes
<1>2. Revisions' /\ Rendering' /\ Reviewed'
  BY DEF LibraryInv, Revisions, Copies, Rendering, Reviewed, Owed
<1> QED BY <1>1, <1>2 DEF LibraryInv

(* One claim is rewritten, of an asset nothing refers to: what is referred *)
(* to stays visible. *)
LEMMA ClaimElsewhere ==
  ASSUME UploadInv, LibraryInv, NEW a \in Uploads, NEW c \in Claims,
         claim' = [claim EXCEPT ![a] = c], c = NoClaim \/ Unprotected(a),
         \A b \in media : b # a => b \in media',
         a \in media' \/ Unprotected(a), UNCHANGED <<timeline, reviews>>
  PROVE  claim' \in [Uploads -> Claims] /\ Protected'
<1>1. /\ claim' \in [Uploads -> Claims] /\ claim'[a] = c
      /\ \A b \in Uploads : b # a => claim'[b] = claim[b]
  BY DEF LibraryInv, LibraryTypes
<1>2. Referenced' = Referenced /\ Approved' = Approved
  BY DEF Referenced, Approved
<1>3. ASSUME NEW b \in Referenced \cup Approved PROVE b \in Visible'
  <2>1. b \in media /\ b \notin Claimed BY <1>3 DEF LibraryInv, Protected, Visible
  <2>2. b \in Uploads BY <2>1 DEF UploadInv, UploadTypes
  <2>3. claim[b] = NoClaim BY <2>1, <2>2 DEF Claimed
  <2>4. b = a => c = NoClaim /\ a \in media' BY <1>3 DEF Unprotected
  <2> QED BY <1>1, <2>1, <2>2, <2>3, <2>4 DEF Visible, Claimed
<1> QED BY <1>1, <1>2, <1>3 DEF Protected

(* Nothing that is marked for deletion is referred to. *)
LEMMA MarkedIsUnprotected ==
  ASSUME LibraryInv, NEW a \in Uploads, claim[a].deleting
  PROVE  Unprotected(a)
<1>1. a \in Claimed BY DEF Claimed, NoClaim
<1> QED BY <1>1 DEF Unprotected, LibraryInv, Protected, Visible

(* A sweep of retention stops, ends or dies. *)
LEMMA KeeperRests ==
  ASSUME UploadInv, LibraryInv, NEW k \in Keepers, NEW d \in BOOLEAN,
         keeper' = [keeper EXCEPT ![k] = [RestingKeeper EXCEPT !.died = d]],
         UNCHANGED <<uploadVars, claim, timeline, editor, run, reviews, approver, render>>
  PROVE  LibraryInv'
<1> DEFINE n == [RestingKeeper EXCEPT !.died = d]
<1>1. n \in Keepings /\ n.phase = "idle" /\ n.todo = {}
  BY DEF Keepings, RestingKeeper
<1>2. keeper' = [keeper EXCEPT ![k] = n] OBVIOUS
<1> HIDE DEF n
<1>3. UNCHANGED <<intent, upload, media, blobs>> BY DEF uploadVars
<1>4. Retention' /\ keeper' \in [Keepers -> Keepings]
  BY <1>1, <1>2, <1>3, RetentionMoves DEF LibraryInv, Retention
<1> QED BY <1>3, <1>4, KeeperFrame

(* A retention pass lists what nothing refers to. *)
LEMMA StartKeepingKeeps ==
  ASSUME UploadInv, LibraryInv, NEW k \in Keepers, StartKeeping(k)
  PROVE  LibraryInv'
<1> DEFINE n1 == [keeper[k] EXCEPT !.phase = "next"]
           n == [n1 EXCEPT !.todo = Expendable]
<1>1. keeper[k] \in Keepings BY DEF LibraryInv, LibraryTypes
<1>2. Expendable \subseteq media /\ Expendable \in SUBSET Uploads
  BY DEF Expendable, UploadInv, UploadTypes
<1>3. n1 \in Keepings /\ n1.phase = "next" BY <1>1 DEF Keepings
<1>4. n \in Keepings /\ n.phase = "next" /\ n.todo = Expendable
  <2> HIDE DEF n1
  <2> QED BY <1>2, <1>3 DEF Keepings
<1>5. keeper' = [keeper EXCEPT ![k] = n]
  BY <1>1 DEF StartKeeping, LibraryInv, LibraryTypes, Keepings
<1> HIDE DEF n
<1>6. UNCHANGED <<intent, upload, media, blobs, claim, timeline, editor, run,
                  reviews, approver, render>>
  BY DEF StartKeeping, uploadVars
<1>7. \A a \in Expendable : Done(a) BY <1>2 DEF UploadInv, Requests, UploadTypes
<1>8. Retention' /\ keeper' \in [Keepers -> Keepings]
  BY <1>4, <1>5, <1>6, <1>7, RetentionMoves DEF LibraryInv, Retention
<1> QED BY <1>6, <1>8, KeeperFrame

(* claim_retained_asset looks again at what is listed. *)
LEMMA ClaimAssetKeeps ==
  ASSUME UploadInv, LibraryInv, NEW k \in Keepers, NEW a \in Uploads, ClaimAsset(k, a)
  PROVE  LibraryInv'
<1> DEFINE rest == keeper[k].todo \ {a}
<1>1. keeper[k] \in Keepings /\ claim[a] \in Claims
  BY DEF LibraryInv, LibraryTypes
<1>2. /\ keeper[k].phase = "next" /\ a \in keeper[k].todo
      /\ UNCHANGED <<intent, upload, media, blobs, timeline, editor, run, reviews,
                     approver, render>>
  BY DEF ClaimAsset, uploadVars
<1>3. Done(a) /\ \A b \in rest : Done(b)
  BY <1>2 DEF LibraryInv, Retention
<1>4. rest \in SUBSET Uploads BY <1>1, KeeperFields
<1>5. CASE /\ Unprotected(a)
           /\ claim' = [claim EXCEPT ![a].token = k, ![a].live = TRUE]
           /\ keeper' = [keeper EXCEPT ![k].phase = "fence", ![k].key = a,
                                       ![k].todo = @ \ {a}]
  <2> DEFINE c1 == [claim[a] EXCEPT !.token = k]
             c == [c1 EXCEPT !.live = TRUE]
             n1 == [keeper[k] EXCEPT !.phase = "fence"]
             n2 == [n1 EXCEPT !.key = a]
             n == [n2 EXCEPT !.todo = rest]
  <2>1. c1 \in Claims /\ c1.deleting = claim[a].deleting BY <1>1 DEF Claims
  <2>2. c \in Claims /\ c.deleting = claim[a].deleting BY <1>1, <2>1 DEF Claims
  <2>3. n1 \in Keepings /\ n1.phase = "fence" BY <1>1 DEF Keepings
  <2>4. n2 \in Keepings /\ n2.phase = "fence" /\ n2.key = a
    <3> HIDE DEF n1
    <3> QED BY <2>3 DEF Keepings
  <2>5. n \in Keepings /\ n.phase = "fence" /\ n.key = a /\ n.todo = rest
    <3> HIDE DEF n2, rest
    <3> QED BY <1>4, <2>4 DEF Keepings
  <2>6. claim' = [claim EXCEPT ![a] = c]
    BY <1>1, <1>5 DEF LibraryInv, LibraryTypes, Claims
  <2>7. keeper' = [keeper EXCEPT ![k] = n]
    BY <1>1, <1>5 DEF LibraryInv, LibraryTypes, Keepings
  <2> HIDE DEF c, n
  <2>8. claim' \in [Uploads -> Claims] /\ Protected'
    BY <1>2, <1>5, <2>2, <2>6, ClaimElsewhere
  <2>9. \A b \in Uploads : claim'[b].deleting = claim[b].deleting
    BY <2>2, <2>6 DEF LibraryInv, LibraryTypes
  <2>10. Retention' /\ keeper' \in [Keepers -> Keepings]
    <3>1. \A b \in media : ~claim'[b].deleting => b \in blobs
      BY <2>9 DEF LibraryInv, Retention, UploadInv, UploadTypes
    <3> QED BY <1>2, <1>3, <2>5, <2>7, <2>9, <3>1, RetentionMoves
  <2> QED BY <1>2, <2>8, <2>10, ClaimFrame
<1>6. CASE keeper' = [keeper EXCEPT ![k].todo = @ \ {a}] /\ UNCHANGED claim
  <2> DEFINE n == [keeper[k] EXCEPT !.todo = rest]
  <2>1. n \in Keepings /\ n.phase = "next" /\ n.todo = rest
    <3> HIDE DEF rest
    <3> QED BY <1>1, <1>2, <1>4 DEF Keepings
  <2>2. keeper' = [keeper EXCEPT ![k] = n]
    BY <1>1, <1>6 DEF LibraryInv, LibraryTypes, Keepings
  <2> HIDE DEF n
  <2>3. Retention' /\ keeper' \in [Keepers -> Keepings]
    BY <1>2, <1>3, <1>6, <2>1, <2>2, RetentionMoves DEF LibraryInv, Retention
  <2> QED BY <1>2, <1>6, <2>3, KeeperFrame
<1> QED BY <1>5, <1>6 DEF ClaimAsset

(* A sweep turns to its next asset. *)
LEMMA NextAssetIs ==
  ASSUME LibraryInv, NEW k \in Keepers, NextAsset(k)
  PROVE  \E n \in Keepings : /\ n.phase = "next" /\ n.todo = keeper[k].todo
                             /\ keeper' = [keeper EXCEPT ![k] = n]
<1> DEFINE n1 == [keeper[k] EXCEPT !.phase = "next"]
           n == [n1 EXCEPT !.key = Nobody]
<1>1. keeper[k] \in Keepings BY DEF LibraryInv, LibraryTypes
<1>2. n1 \in Keepings /\ n1.phase = "next" /\ n1.todo = keeper[k].todo
  BY <1>1 DEF Keepings
<1>3. n \in Keepings /\ n.phase = "next" /\ n.todo = keeper[k].todo
  <2> HIDE DEF n1
  <2> QED BY <1>2 DEF Keepings
<1>4. keeper' = [keeper EXCEPT ![k] = n]
  BY <1>1 DEF NextAsset, LibraryInv, LibraryTypes, Keepings
<1> HIDE DEF n
<1> QED BY <1>3, <1>4

(* The row is marked before the object goes. *)
LEMMA FenceDeletionKeeps ==
  ASSUME UploadInv, LibraryInv, NEW k \in Keepers, FenceDeletion(k)
  PROVE  LibraryInv'
<1>1. PICK a : a = keeper[k].key OBVIOUS
<1>2. /\ keeper[k].phase = "fence"
      /\ UNCHANGED <<intent, upload, media, blobs, timeline, editor, run, reviews,
                     approver, render>>
  BY DEF FenceDeletion, uploadVars
<1>3. a \in Uploads /\ Done(a) /\ \A b \in keeper[k].todo : Done(b)
  BY <1>1, <1>2 DEF LibraryInv, Retention
<1>4. keeper[k] \in Keepings /\ claim[a] \in Claims
  BY <1>3 DEF LibraryInv, LibraryTypes
<1>5. CASE /\ Unprotected(a)
           /\ claim' = [claim EXCEPT ![a].deleting = TRUE]
           /\ ToKeeper(k, "delete")
  <2> DEFINE c == [claim[a] EXCEPT !.deleting = TRUE]
             n == [keeper[k] EXCEPT !.phase = "delete"]
  <2>1. c \in Claims /\ c.deleting BY <1>4 DEF Claims
  <2>2. claim' = [claim EXCEPT ![a] = c] BY <1>5
  <2>3. /\ n \in Keepings /\ n.phase = "delete" /\ n.key = a
        /\ n.todo = keeper[k].todo
    BY <1>1, <1>4 DEF Keepings
  <2>4. keeper' = [keeper EXCEPT ![k] = n] BY <1>5 DEF ToKeeper
  <2> HIDE DEF c, n
  <2>5. claim' \in [Uploads -> Claims] /\ Protected'
    BY <1>2, <1>3, <1>5, <2>1, <2>2, ClaimElsewhere
  <2>6. \A b \in Uploads : /\ claim[b].deleting => claim'[b].deleting
                           /\ b = a => claim'[b].deleting
    BY <1>3, <2>1, <2>2 DEF LibraryInv, LibraryTypes
  <2>7. Retention' /\ keeper' \in [Keepers -> Keepings]
    <3>1. \A b \in media : ~claim'[b].deleting => b \in blobs
      BY <2>6 DEF LibraryInv, Retention, UploadInv, UploadTypes
    <3> QED BY <1>2, <1>3, <2>3, <2>4, <2>6, <3>1, RetentionMoves
  <2> QED BY <1>2, <2>5, <2>7, ClaimFrame
<1>6. CASE /\ claim' = IF Keeps(k) /\ ~claim[a].deleting
                       THEN [claim EXCEPT ![a] = NoClaim] ELSE claim
           /\ NextAsset(k)
  <2>1. PICK n \in Keepings : /\ n.phase = "next" /\ n.todo = keeper[k].todo
                              /\ keeper' = [keeper EXCEPT ![k] = n]
    BY <1>6, NextAssetIs
  <2>2. NoClaim \in Claims /\ ~NoClaim.deleting BY DEF NoClaim, Claims
  <2>3. CASE Keeps(k) /\ ~claim[a].deleting
    <3>1. claim' = [claim EXCEPT ![a] = NoClaim] BY <1>6, <2>3
    <3>2. claim' \in [Uploads -> Claims] /\ Protected'
      <4>1. a \in media \/ Unprotected(a)
        BY DEF Unprotected, LibraryInv, Protected, Visible
      <4> QED BY <1>2, <1>3, <2>2, <3>1, <4>1, ClaimElsewhere
    <3>3. \A b \in Uploads : claim[b].deleting => claim'[b].deleting
      BY <1>3, <2>3, <3>1 DEF LibraryInv, LibraryTypes
    <3>4. \A b \in media : ~claim'[b].deleting => b \in blobs
      <4>1. \A b \in Uploads : b # a => claim'[b] = claim[b]
        BY <3>1 DEF LibraryInv, LibraryTypes
      <4> QED BY <2>3, <4>1 DEF LibraryInv, Retention, UploadInv, UploadTypes
    <3>5. Retention' /\ keeper' \in [Keepers -> Keepings]
      BY <1>2, <1>3, <2>1, <3>3, <3>4, RetentionMoves
    <3> QED BY <1>2, <3>2, <3>5, ClaimFrame
  <2>4. CASE ~(Keeps(k) /\ ~claim[a].deleting)
    <3>1. UNCHANGED claim BY <1>6, <2>4
    <3>2. Retention' /\ keeper' \in [Keepers -> Keepings]
      BY <1>2, <1>3, <2>1, <3>1, RetentionMoves DEF LibraryInv, Retention
    <3> QED BY <1>2, <3>1, <3>2, KeeperFrame
  <2> QED BY <2>3, <2>4
<1> QED BY <1>1, <1>5, <1>6 DEF FenceDeletion

(* An object or a row goes that belongs to an upload that is over: the     *)
(* uploads and their sweep are not disturbed. *)
LEMMA UploadsSpared ==
  ASSUME UploadInv, NEW a \in Uploads, Done(a), UNCHANGED <<intent, upload, sweep>>,
         media' \in {media, media \ {a}}, blobs' \in {blobs, blobs \ {a}},
         a \in media' \/ a \notin blobs'
  PROVE  UploadInv'
<1>1. UploadTypes' BY DEF UploadInv, UploadTypes
<1>2. Requests'
  BY DEF UploadInv, Requests, Done, State, MayWrite
<1>3. Sweeping'
  <2> SUFFICES ASSUME NEW s \in Sweepers
               PROVE  LET mine == sweep[s] IN
    /\ \A u \in DOMAIN mine.prior :
         /\ State(u) \notin {"none", "pending", "uploaded"}
         /\ MayWrite(u) => mine.prior[u] \in CanMaterialize
    /\ mine.phase \in {"delete", "record", "failure"} =>
         mine.key \in DOMAIN mine.prior
    /\ mine.phase = "delete" => mine.key \notin media'
    /\ /\ mine.phase = "record" /\ mine.key \notin media'
       /\ mine.prior[mine.key] \notin CanMaterialize
       /\ intent[mine.key].retries = 0
       => mine.key \notin blobs'
    BY DEF Sweeping, State, MayWrite
  <2>1. sweep[s].key \notin media' => sweep[s].key \notin media \/ sweep[s].key \notin blobs'
    OBVIOUS
  <2>2. blobs' \subseteq blobs /\ media' \subseteq media OBVIOUS
  <2> QED BY <2>1, <2>2 DEF UploadInv, Sweeping
<1>4. ObjectsOwned'
  <2>1. \A u \in blobs' \ media' : u \in blobs \ media OBVIOUS
  <2> QED BY <2>1 DEF UploadInv, ObjectsOwned, State
<1> QED BY <1>1, <1>2, <1>3, <1>4 DEF UploadInv

(* The object of a marked row goes. *)
LEMMA DeleteObjectKeeps ==
  ASSUME UploadInv, LibraryInv, NEW k \in Keepers, DeleteObject(k)
  PROVE  UploadInv' /\ LibraryInv'
<1>1. PICK a : a = keeper[k].key OBVIOUS
<1>2. /\ keeper[k].phase = "delete"
      /\ UNCHANGED <<intent, upload, sweep, media, claim, timeline, editor, run,
                     reviews, approver, render>>
  BY DEF DeleteObject
<1>3. /\ a \in Uploads /\ Done(a) /\ \A b \in keeper[k].todo : Done(b)
      /\ claim[a].deleting \/ a \notin media
  BY <1>1, <1>2 DEF LibraryInv, Retention
<1>4. keeper[k] \in Keepings BY DEF LibraryInv, LibraryTypes
<1>5. CASE ToKeeper(k, "row") /\ blobs' = blobs \ {a}
  <2> DEFINE n == [keeper[k] EXCEPT !.phase = "row"]
  <2>1. n \in Keepings /\ n.phase = "row" /\ n.key = a /\ n.todo = keeper[k].todo
    BY <1>1, <1>4 DEF Keepings
  <2>2. keeper' = [keeper EXCEPT ![k] = n] BY <1>5 DEF ToKeeper
  <2> HIDE DEF n
  <2>3. \A b \in media : ~claim[b].deleting => b \in blobs'
    BY <1>3, <1>5 DEF LibraryInv, Retention
  <2>4. Retention' /\ keeper' \in [Keepers -> Keepings]
    BY <1>2, <1>3, <1>5, <2>1, <2>2, <2>3, RetentionMoves
  <2>5. LibraryInv' BY <1>2, <2>4, KeeperFrame
  <2>6. UploadInv' BY <1>2, <1>3, <1>5, UploadsSpared
  <2> QED BY <2>5, <2>6
<1>6. CASE StopsKeeping(k) /\ UNCHANGED blobs
  <2>1. keeper[k].died \in BOOLEAN BY <1>4 DEF Keepings
  <2>2. LibraryInv'
    BY <1>2, <1>6, <2>1, KeeperRests DEF StopsKeeping, uploadVars
  <2>3. UploadInv' BY <1>2, <1>6, UploadInvFrame DEF uploadVars
  <2> QED BY <2>2, <2>3
<1> QED BY <1>1, <1>5, <1>6 DEF DeleteObject

(* The row follows its object. *)
LEMMA DropRowKeeps ==
  ASSUME UploadInv, LibraryInv, NEW k \in Keepers, DropRow(k)
  PROVE  UploadInv' /\ LibraryInv'
<1>1. PICK a : a = keeper[k].key OBVIOUS
<1>2. /\ keeper[k].phase = "row" /\ NextAsset(k)
      /\ UNCHANGED <<intent, upload, sweep, blobs, timeline, editor, run, reviews,
                     approver, render>>
  BY DEF DropRow
<1>3. /\ a \in Uploads /\ Done(a) /\ a \notin blobs
      /\ \A b \in keeper[k].todo : Done(b)
  BY <1>1, <1>2 DEF LibraryInv, Retention
<1>4. PICK n \in Keepings : /\ n.phase = "next" /\ n.todo = keeper[k].todo
                            /\ keeper' = [keeper EXCEPT ![k] = n]
  BY <1>2, NextAssetIs
<1>5. CASE /\ claim[a].deleting
           /\ media' = media \ {a} /\ claim' = [claim EXCEPT ![a] = NoClaim]
  <2>1. NoClaim \in Claims BY DEF NoClaim, Claims
  <2>2. Unprotected(a) BY <1>3, <1>5, MarkedIsUnprotected
  <2>3. claim' \in [Uploads -> Claims] /\ Protected'
    BY <1>2, <1>3, <1>5, <2>1, <2>2, ClaimElsewhere
  <2>4. \A b \in Uploads : b # a => claim'[b] = claim[b]
    BY <1>5 DEF LibraryInv, LibraryTypes
  <2>5. \A b \in media' : ~claim'[b].deleting => b \in blobs
    BY <1>5, <2>4 DEF LibraryInv, Retention, UploadInv, UploadTypes
  <2>6. \A b \in Uploads : claim[b].deleting => claim'[b].deleting \/ b \notin media'
    BY <1>5, <2>4
  <2>7. Retention' /\ keeper' \in [Keepers -> Keepings]
    BY <1>2, <1>3, <1>4, <1>5, <2>5, <2>6, RetentionMoves
  <2>8. LibraryInv' BY <1>2, <2>3, <2>7, ClaimFrame
  <2>9. UploadInv' BY <1>2, <1>3, <1>5, UploadsSpared
  <2> QED BY <2>8, <2>9
<1>6. CASE UNCHANGED <<media, claim>>
  <2>1. Retention' /\ keeper' \in [Keepers -> Keepings]
    BY <1>2, <1>3, <1>4, <1>6, RetentionMoves DEF LibraryInv, Retention
  <2>2. LibraryInv' BY <1>2, <1>6, <2>1, KeeperFrame
  <2>3. UploadInv' BY <1>2, <1>6, UploadInvFrame DEF uploadVars
  <2> QED BY <2>2, <2>3
<1> QED BY <1>1, <1>5, <1>6 DEF DropRow

(* A claim's lease runs out; a marked row stays marked. *)
LEMMA ClaimRunsOutKeeps ==
  ASSUME UploadInv, LibraryInv, NEW a \in Uploads, ClaimRunsOut(a)
  PROVE  LibraryInv'
<1> DEFINE c == [claim[a] EXCEPT !.live = FALSE]
<1>1. claim[a] \in Claims /\ claim[a].live /\ UNCHANGED <<uploadVars, keeper,
        timeline, editor, run, reviews, approver, render>>
  BY DEF LibraryInv, LibraryTypes, ClaimRunsOut
<1>2. c \in Claims /\ c.deleting = claim[a].deleting BY <1>1 DEF Claims
<1>3. claim' = [claim EXCEPT ![a] = c] BY DEF ClaimRunsOut
<1> HIDE DEF c
<1>4. UNCHANGED <<intent, upload, media, blobs>> BY <1>1 DEF uploadVars
<1>5. Unprotected(a) BY <1>1
  DEF Unprotected, LibraryInv, Protected, Visible, Claimed, NoClaim
<1>6. claim' \in [Uploads -> Claims] /\ Protected'
  BY <1>1, <1>2, <1>3, <1>4, <1>5, ClaimElsewhere
<1>7. \A b \in Uploads : claim'[b].deleting = claim[b].deleting
  BY <1>2, <1>3 DEF LibraryInv, LibraryTypes
<1>8. Retention'
  BY <1>1, <1>4, <1>7
  DEF LibraryInv, Retention, UploadInv, UploadTypes, Done, State
<1>9. keeper' \in [Keepers -> Keepings] BY <1>1 DEF LibraryInv, LibraryTypes
<1> QED BY <1>1, <1>6, <1>8, <1>9, ClaimFrame

(* Every step of a retention pass, its death included. *)
LEMMA KeeperActionsKeep ==
  ASSUME UploadInv, LibraryInv, NEW k \in Keepers, KeeperStep(k) \/ KeeperDies(k)
  PROVE  UploadInv' /\ LibraryInv'
<1>1. keeper[k].died \in BOOLEAN BY DEF LibraryInv, LibraryTypes, Keepings
<1>2. CASE KeepingEnds(k)
  BY <1>1, <1>2, KeeperRests, UploadInvFrame DEF KeepingEnds, StopsKeeping
<1>3. CASE KeeperDies(k)
  BY <1>3, KeeperRests, UploadInvFrame DEF KeeperDies
<1>4. CASE StartKeeping(k)
  BY <1>4, StartKeepingKeeps, UploadInvFrame DEF StartKeeping
<1>5. CASE \E a \in Uploads : ClaimAsset(k, a)
  BY <1>5, ClaimAssetKeeps, UploadInvFrame DEF ClaimAsset
<1>6. CASE FenceDeletion(k)
  BY <1>6, FenceDeletionKeeps, UploadInvFrame DEF FenceDeletion
<1>7. CASE DeleteObject(k) \/ DropRow(k)
  BY <1>7, DeleteObjectKeeps, DropRowKeeps
<1> QED BY <1>2, <1>3, <1>4, <1>5, <1>6, <1>7 DEF KeeperStep

(* Every step of an approval; it writes nothing of the uploads. *)
LEMMA ApproverStepKeeps ==
  ASSUME LibraryInv, NEW p \in Approvers, ApproverStep(p)
  PROVE  LibraryInv' /\ UNCHANGED uploadVars
<1>1. LibraryInv'
  BY LoadTimelineKeeps, CompileKeeps, CaptureKeeps, AdvanceRunKeeps,
     RecordReviewKeeps, UndoAdvanceKeeps, AskRenderKeeps, DispatchRenderKeeps
  DEF ApproverStep
<1>2. UNCHANGED libraryBelow
  BY DEF ApproverStep, LoadTimeline, CompilePlan, RecheckRevision, CaptureOriginal,
         AdvanceRun, RecordReview, UndoAdvance, AskRender, DispatchRender
<1> QED BY <1>1, <1>2 DEF libraryBelow

-----------------------------------------------------------------------------
(* The invariant. *)

LEMMA LibraryStep ==
  ASSUME UploadInv, LibraryInv, [LibraryNext]_libraryVars
  PROVE  UploadInv' /\ LibraryInv'
<1>1. CASE UploadSide
  BY <1>1, UploadsSpareLibrary DEF UploadSide, UploadActions
<1>2. CASE \E S \in SUBSET Uploads : StartSave(S)
  BY <1>2, StartSaveKeeps, UploadInvFrame DEF StartSave
<1>3. CASE SaveTimeline
  BY <1>3, SaveTimelineKeeps, UploadInvFrame DEF SaveTimeline
<1>4. CASE \E k \in Keepers : KeeperStep(k) \/ KeeperDies(k)
  BY <1>4, KeeperActionsKeep
<1>5. CASE \E a \in Uploads : ClaimRunsOut(a)
  BY <1>5, ClaimRunsOutKeeps, UploadInvFrame DEF ClaimRunsOut
<1>6. CASE \E p \in Approvers : ApproverStep(p)
  BY <1>6, ApproverStepKeeps, UploadInvFrame
<1>7. CASE UserMoves
  BY <1>7, UserMovesKeep, UploadInvFrame DEF libraryBelow
<1>8. CASE \E p \in Approvers : RenderStep(p)
  BY <1>8, RenderStepKeeps, UploadInvFrame DEF libraryBelow
<1>9. CASE UNCHANGED libraryVars
  <2>1. UNCHANGED <<uploadVars, claim, keeper, timeline, editor, run, reviews,
                    approver, render>>
    BY <1>9 DEF libraryVars, libraryOnly
  <2>2. UNCHANGED media BY <2>1 DEF uploadVars
  <2>3. Retention' BY <2>1, RetentionFrame DEF LibraryInv
  <2>4. keeper' \in [Keepers -> Keepings] BY <2>1 DEF LibraryInv, LibraryTypes
  <2> QED BY <2>1, <2>2, <2>3, <2>4, UploadInvFrame, KeeperFrame
<1> QED BY <1>1, <1>2, <1>3, <1>4, <1>5, <1>6, <1>7, <1>8, <1>9 DEF LibraryNext

(* Both invariants hold before anything has been uploaded or saved. *)
LEMMA LibraryStart ==
  ASSUME LibraryInit
  PROVE  UploadInv /\ LibraryInv
<1>1. Stored \subseteq Uploads BY LibraryAssumption
<1>2. RestingSweep \in Sweeps
  <2>1. [u \in {} |-> "none"] \in Priors BY DEF Priors
  <2> QED BY <2>1 DEF RestingSweep, Sweeps, SweepPhases
<1>3. UploadTypes
  BY <1>1, <1>2
  DEF LibraryInit, UploadTypes, Intents, UploadPhases, Counted, Sweepable
<1>4. Requests
  BY <1>1 DEF LibraryInit, Requests, Done, State, MayWrite
<1>5. Sweeping BY DEF LibraryInit, Sweeping, RestingSweep
<1>6. ObjectsOwned BY DEF LibraryInit, ObjectsOwned
<1>7. NoPlan \in Plans /\ NoClaim \in Claims /\ RestingKeeper \in Keepings
  BY DEF NoPlan, Plans, NoClaim, Claims, RestingKeeper, Keepings
<1>8. LibraryTypes
  <2>1. /\ [phase |-> "idle", plan |-> NoPlan, before |-> 0, from |-> "TIMELINE_REVIEW"]
             \in Approvals
        /\ NoRender \in RenderTasks
        /\ [stage |-> "TIMELINE_REVIEW", revision |-> 0, by |-> Nobody] \in Runs
    BY <1>7 DEF Approvals, ApprovalPhases, NoRender, RenderTasks, Runs, RunStages
  <2> QED BY <1>1, <1>7, <2>1 DEF LibraryInit, LibraryTypes, Plans
<1>9. Retention
  BY <1>1 DEF LibraryInit, Retention, RestingKeeper
<1>10. Approved = {} /\ DOMAIN reviews = {}
  BY DEF LibraryInit, Approved
<1>11. Protected
  BY <1>1, <1>10 DEF LibraryInit, Protected, Referenced, Visible, Claimed
<1>12. \A x \in Copies : x \in {timeline, NoPlan}
  BY <1>10 DEF LibraryInit, Copies, NoRender
<1>13. timeline.rev = 1 /\ NoPlan.rev = 0 BY DEF LibraryInit, NoPlan
<1>14. Revisions BY <1>12, <1>13 DEF Revisions
<1>15. Rendering /\ Reviewed BY DEF LibraryInit, Rendering, Reviewed, NoRender
<1> QED
  BY <1>3, <1>4, <1>5, <1>6, <1>8, <1>9, <1>11, <1>14, <1>15
  DEF UploadInv, LibraryInv

(* Both invariants, of every behaviour. *)
LEMMA LibraryInvariant == LibrarySafe => [](UploadInv /\ LibraryInv)
BY LibraryStart, LibraryStep, PTL DEF LibrarySafe

-----------------------------------------------------------------------------
(* What it is for. *)

(* Whatever uploads, sweeps, saves and approvals do at the same time, what *)
(* the timeline or an approval refers to keeps its row and its object      *)
(* (save_timeline, create_review, claim_retained_asset and                 *)
(* finalize_retained_asset under the workspace's lock).                    *)
THEOREM ReferencedStays == LibrarySafe => []ReferencedAssetsStay
<1>1. ASSUME UploadInv, LibraryInv PROVE ReferencedAssetsStay
  <2>1. Visible \subseteq blobs
    BY <1>1
    DEF LibraryInv, Retention, Visible, Claimed, NoClaim, UploadInv, UploadTypes
  <2> QED BY <1>1, <2>1 DEF LibraryInv, Protected, ReferencedAssetsStay
<1> QED BY <1>1, LibraryInvariant, PTL

(* An asset a user can see has its object: neither sweep deletes what a    *)
(* slow request goes on to save, nor touches an object before its row is   *)
(* marked.                                                                 *)
THEOREM VisibleHasObject == LibrarySafe => []AssetHasObject
<1>1. ASSUME UploadInv, LibraryInv PROVE AssetHasObject
  BY <1>1
  DEF LibraryInv, Retention, AssetHasObject, Visible, Claimed, NoClaim,
      UploadInv, UploadTypes
<1> QED BY <1>1, LibraryInvariant, PTL

(* Whoever takes a run to its render, a restart that asks nobody included, *)
(* what is rendered of the timeline was approved and can be materialized;  *)
(* and a run that an approval took there was reviewed, unless the approval *)
(* has not finished or has reported an inconsistency                       *)
(* (render_saved_timeline, approve_and_advance).                           *)
THEOREM OnlyApprovedRenders == LibrarySafe => []RendersAreApproved
<1>1. ASSUME UploadInv, LibraryInv PROVE RendersAreApproved
  <2>1. ApprovalIsRecorded
    <3>1. run \in Runs BY <1>1 DEF LibraryInv, LibraryTypes
    <3> QED BY <1>1, <3>1 DEF LibraryInv, Reviewed, Owed, ApprovalIsRecorded, Runs
  <2>2. RenderedIsApproved
    <3> SUFFICES ASSUME NEW p \in Approvers,
                        render[p].phase \in {"resolve", "materialize", "rendered"}
                 PROVE  /\ render[p].plan.assets \subseteq blobs
                        /\ \E i \in DOMAIN reviews : reviews[i] = render[p].plan
      BY DEF RenderedIsApproved
    <3>1. PICK i \in DOMAIN reviews : reviews[i] = render[p].plan
      BY <1>1 DEF LibraryInv, Rendering
    <3>2. render[p].plan.assets \subseteq Approved BY <3>1 DEF Approved
    <3>3. Approved \subseteq blobs
      BY <1>1
      DEF LibraryInv, Protected, Retention, Visible, Claimed, NoClaim, UploadInv,
          UploadTypes
    <3> QED BY <3>1, <3>2, <3>3
  <2> QED BY <2>1, <2>2 DEF RendersAreApproved
<1> QED BY <1>1, LibraryInvariant, PTL

(* No object of an upload is lost: it has a row, its request is at it, the *)
(* sweep comes back to it, or a failure of its clean-up was counted        *)
(* (postgres_upload_intent_storage.py, media_upload_reconciliation.py).    *)
THEOREM NoObjectLost ==
  /\ UploadSafe => []ObjectsAreKnown
  /\ LibrarySafe => []ObjectsAreKnown
<1>1. ASSUME UploadInv PROVE ObjectsAreKnown
  BY <1>1 DEF UploadInv, UploadTypes, ObjectsOwned, ObjectsAreKnown, Known, State,
              Intents
<1>2. ASSUME UploadInit PROVE UploadInv
  <2>1. [u \in {} |-> "none"] \in Priors BY DEF Priors
  <2>2. RestingSweep \in Sweeps BY <2>1 DEF RestingSweep, Sweeps, SweepPhases
  <2> QED
    BY <1>2, <2>2
    DEF UploadInit, UploadInv, UploadTypes, Requests, Sweeping, ObjectsOwned,
        Intents, UploadPhases, Counted, Sweepable, State, MayWrite, RestingSweep
<1>3. ASSUME UploadInv, [UploadNext]_uploadVars PROVE UploadInv'
  BY <1>3, UploadActionsKeep, UploadInvFrame DEF UploadNext, UploadActions, UploadKeeps
<1> QED BY <1>1, <1>2, <1>3, LibraryInvariant, PTL DEF UploadSafe

-----------------------------------------------------------------------------
(***************************************************************************)
(* The storage budget of a workspace, for every value of the constants:    *)
(* what its rows occupy stays within the limits, although uploads are      *)
(* admitted on what is reserved and saved much later.                      *)
(*                                                                         *)
(* What is reserved is not what the argument rests on: the sweep gives up  *)
(* reservations, and a clean-up that fails late counts them again.  An     *)
(* upload that may still be saved is pending or uploaded; its bytes are    *)
(* promised to it, and from there they go to its row.                      *)
(***************************************************************************)

Admitted(u) == State(u) \in {"pending", "uploaded"}
Promised == media \cup {u \in Uploads : Admitted(u)}
Begun == {u \in Uploads : upload[u] # "idle"}

BudgetInv ==
  /\ IsFiniteSet(Begun)
  /\ \A u \in Uploads : Admitted(u) => intent[u].reserved = Size(u)
  /\ Within(Bytes(Promised), MaxBytes)
  /\ Within(Cardinality(Promised), MaxAssets)

(* No request begins, and nothing new is admitted.                         *)
NothingBegins ==
  /\ \A u \in Uploads :
       /\ upload'[u] # "idle" => upload[u] # "idle"
       /\ Admitted(u)' => Admitted(u) /\ intent'[u].reserved = intent[u].reserved
  /\ media' \subseteq Promised

(* What may be saved has begun, and there are finitely many.               *)
LEMMA PromisedIsFinite ==
  ASSUME UploadInv, BudgetInv
  PROVE  /\ Promised \subseteq Begun /\ IsFiniteSet(Promised)
         /\ IsFiniteSet(Promised \cap Big)
<1>1. Promised \subseteq Begun
  BY DEF UploadInv, UploadTypes, Requests, Done, Promised, Admitted, Begun
<1>2. IsFiniteSet(Promised)
  BY <1>1, FS_Subset DEF BudgetInv
<1>3. IsFiniteSet(Promised \cap Big)
  BY <1>2, FS_Subset
<1> QED BY <1>1, <1>2, <1>3

(* A subset of a finite set has no more bytes.                             *)
LEMMA FewerBytes ==
  ASSUME NEW S, NEW T, IsFiniteSet(S), T \subseteq S
  PROVE  /\ Bytes(T) \in Nat /\ Bytes(S) \in Nat /\ Bytes(T) <= Bytes(S)
         /\ Cardinality(T) \in Nat /\ Cardinality(S) \in Nat
         /\ Cardinality(T) <= Cardinality(S)
<1>1. /\ IsFiniteSet(T) /\ Cardinality(T) <= Cardinality(S)
      /\ IsFiniteSet(S \cap Big)
  BY FS_Subset
<1>2. IsFiniteSet(T \cap Big) /\ Cardinality(T \cap Big) <= Cardinality(S \cap Big)
  BY <1>1, FS_Subset
<1>3. /\ Cardinality(S) \in Nat /\ Cardinality(T) \in Nat
      /\ Cardinality(S \cap Big) \in Nat /\ Cardinality(T \cap Big) \in Nat
  BY <1>1, <1>2, FS_CardinalityType
<1> QED BY <1>1, <1>2, <1>3 DEF Bytes

(* As long as nothing begins the budget stays kept.                        *)
LEMMA BudgetStays ==
  ASSUME UploadInv, BudgetInv, NothingBegins
  PROVE  BudgetInv'
<1>1. Begun' \subseteq Begun /\ Promised' \subseteq Promised
  BY DEF NothingBegins, Begun, Promised
<1>2. IsFiniteSet(Begun')
  BY <1>1, FS_Subset DEF BudgetInv
<1>3. \A u \in Uploads : Admitted(u)' => intent'[u].reserved = Size(u)
  BY DEF NothingBegins, BudgetInv
<1>4. /\ Bytes(Promised') \in Nat /\ Bytes(Promised) \in Nat
      /\ Bytes(Promised') <= Bytes(Promised)
      /\ Cardinality(Promised') \in Nat /\ Cardinality(Promised) \in Nat
      /\ Cardinality(Promised') <= Cardinality(Promised)
  BY <1>1, PromisedIsFinite, FewerBytes
<1>5. Within(Bytes(Promised'), MaxBytes) /\ Within(Cardinality(Promised'), MaxAssets)
  BY <1>4, UploadAssumption DEF BudgetInv, Within
<1> QED BY <1>2, <1>3, <1>5 DEF BudgetInv, Bytes

(* An upload is admitted if its bytes fit next to what is stored and       *)
(* reserved, and all that may be saved is.                                 *)
LEMMA AdmittedFits ==
  ASSUME UploadInv, BudgetInv, NEW u \in Uploads, CreateIntent(u)
  PROVE  BudgetInv'
<1> DEFINE Slots == {v \in Reserving : intent[v].reserved > 0}
           Seconds == {v \in Reserving : intent[v].reserved = 2}
           Pending == {v \in Uploads : Admitted(v)}
<1>1. /\ intent \in [Uploads -> Intents] /\ State(u) = "none" /\ media' = media
      /\ media \subseteq Uploads /\ \A v \in media : Done(v)
  BY DEF CreateIntent, UploadInv, UploadTypes, Requests
<1>2. /\ State(u)' = "pending" /\ intent'[u].reserved = Size(u)
      /\ \A v \in Uploads \ {u} : intent'[v] = intent[v]
  BY <1>1 DEF CreateIntent, State, Intents
<1>3. Begun' = Begun \cup {u} /\ Promised' = Promised \cup {u} /\ u \notin Promised
  <2>1. /\ upload[u] = "idle" /\ upload'[u] = "reserved"
        /\ \A v \in Uploads \ {u} : upload'[v] = upload[v]
    BY OnePhase DEF CreateIntent, UploadInv, UploadTypes, UploadPhases
  <2>2. /\ Admitted(u)' /\ ~Admitted(u) /\ u \notin media
        /\ \A v \in Uploads \ {u} : Admitted(v)' = Admitted(v)
    BY <1>1, <1>2 DEF Admitted, State, Done
  <2> QED BY <1>1, <2>1, <2>2 DEF Begun, Promised
<1>4. IsFiniteSet(Begun')
  BY <1>3, FS_AddElement DEF BudgetInv
<1>5. \A v \in Uploads : Admitted(v)' => intent'[v].reserved = Size(v)
  BY <1>2 DEF BudgetInv, Admitted, State
<1>6. /\ Slots \subseteq Begun /\ Seconds \subseteq Begun /\ media \subseteq Begun
      /\ Pending \subseteq Slots /\ Pending \cap Big \subseteq Seconds
  <2>1. \A v \in Uploads : State(v) \in Counted => upload[v] # "idle"
    BY DEF Counted, Sweepable, UploadInv, Requests
  <2>2. \A v \in Uploads : Admitted(v) => v \in Reserving /\ intent[v].reserved = Size(v)
    BY DEF BudgetInv, Admitted, State, Reserving, Counted, Sweepable
  <2> QED BY <1>1, <2>1, <2>2 DEF Reserving, Begun, State, Size, Done
<1>7. /\ IsFiniteSet(Slots) /\ IsFiniteSet(Seconds) /\ IsFiniteSet(media)
      /\ IsFiniteSet(media \cap Big) /\ IsFiniteSet(Pending)
      /\ IsFiniteSet(Pending \cap Big)
  BY <1>6, FS_Subset DEF BudgetInv
<1>8. /\ Cardinality(Promised) <= Cardinality(media) + Cardinality(Slots)
      /\ Cardinality(Promised \cap Big)
           <= Cardinality(media \cap Big) + Cardinality(Seconds)
  <2>1. Promised = media \cup Pending
    BY DEF Promised
  <2>2. Promised \cap Big = (media \cap Big) \cup (Pending \cap Big)
    BY <2>1
  <2>3. /\ Cardinality(Pending) <= Cardinality(Slots)
        /\ Cardinality(Pending \cap Big) <= Cardinality(Seconds)
    BY <1>6, <1>7, FS_Subset
  <2>4. /\ Cardinality(Promised) =
             Cardinality(media) + Cardinality(Pending) - Cardinality(media \cap Pending)
        /\ Cardinality(Promised \cap Big) =
             Cardinality(media \cap Big) + Cardinality(Pending \cap Big)
               - Cardinality((media \cap Big) \cap (Pending \cap Big))
    BY <1>7, <2>1, <2>2, FS_Union
  <2>5. /\ IsFiniteSet(media \cap Pending)
        /\ IsFiniteSet((media \cap Big) \cap (Pending \cap Big))
    BY <1>7, FS_Subset
  <2>6. /\ Cardinality(media) \in Nat /\ Cardinality(Pending) \in Nat
        /\ Cardinality(media \cap Pending) \in Nat /\ Cardinality(Slots) \in Nat
        /\ Cardinality(media \cap Big) \in Nat /\ Cardinality(Pending \cap Big) \in Nat
        /\ Cardinality((media \cap Big) \cap (Pending \cap Big)) \in Nat
        /\ Cardinality(Seconds) \in Nat
    BY <1>7, <2>5, FS_CardinalityType
  <2> HIDE DEF Slots, Seconds, Pending
  <2> QED BY <2>3, <2>4, <2>6
<1>9. /\ Cardinality(Promised') = Cardinality(Promised) + 1
      /\ Cardinality(Promised' \cap Big)
           = Cardinality(Promised \cap Big) + (IF u \in Big THEN 1 ELSE 0)
  <2>1. /\ IsFiniteSet(Promised) /\ IsFiniteSet(Promised \cap Big)
    BY PromisedIsFinite
  <2>2. Cardinality(Promised') = Cardinality(Promised) + 1
    BY <1>3, <2>1, FS_AddElement
  <2>3. CASE u \in Big
    <3>1. /\ Promised' \cap Big = (Promised \cap Big) \cup {u}
          /\ u \notin Promised \cap Big
      BY <1>3, <2>3
    <3> QED BY <2>1, <2>2, <2>3, <3>1, FS_AddElement
  <2>4. CASE u \notin Big
    <3>1. Promised' \cap Big = Promised \cap Big
      BY <1>3, <2>4
    <3>2. Cardinality(Promised \cap Big) \in Nat
      BY <2>1, FS_CardinalityType
    <3> QED BY <2>2, <2>4, <3>1, <3>2
  <2> QED BY <2>3, <2>4
<1>10. /\ Cardinality(Promised) \in Nat /\ Cardinality(Promised \cap Big) \in Nat
       /\ Cardinality(media) \in Nat /\ Cardinality(media \cap Big) \in Nat
       /\ Cardinality(Slots) \in Nat /\ Cardinality(Seconds) \in Nat
  BY <1>7, PromisedIsFinite, FS_CardinalityType
<1>11. /\ Within(Bytes(media) + (Cardinality(Slots) + Cardinality(Seconds)) + Size(u),
                 MaxBytes)
       /\ Within(Cardinality(media) + Cardinality(Slots) + 1, MaxAssets)
  BY DEF CreateIntent, Fits, ReservedBytes, ReservedSlots
<1> HIDE DEF Slots, Seconds, Pending
<1>12. Within(Bytes(Promised'), MaxBytes) /\ Within(Cardinality(Promised'), MaxAssets)
  BY <1>8, <1>9, <1>10, <1>11, UploadAssumption DEF Within, Bytes, Size
<1> QED BY <1>4, <1>5, <1>12 DEF BudgetInv, Bytes

-----------------------------------------------------------------------------
(* Every other step. *)

(* A request that has begun moves on, and its intent is not admitted       *)
(* again; its bytes are handed to its row at most.                         *)
LEMMA RequestMoves ==
  ASSUME UploadInv, NEW u \in Uploads, upload[u] # "idle",
         NEW p \in UploadPhases, At(u, p),
         NEW r \in Intents, intent' = [intent EXCEPT ![u] = r],
         r.state \in {"pending", "uploaded"} =>
           Admitted(u) /\ r.reserved = intent[u].reserved,
         media' \subseteq Promised
  PROVE  NothingBegins
<1>1. /\ intent'[u] = r
      /\ \A v \in Uploads : v # u => intent'[v] = intent[v]
  BY OneIntent DEF UploadInv, UploadTypes
<1>2. \A v \in Uploads : v # u => upload'[v] = upload[v]
  BY OnePhase DEF UploadInv, UploadTypes
<1> QED BY <1>1, <1>2 DEF NothingBegins, Admitted, State

(* A request moves on and leaves its intent alone. *)
LEMMA PhaseMoves ==
  ASSUME UploadInv, NEW u \in Uploads, upload[u] # "idle",
         NEW p \in UploadPhases, At(u, p), UNCHANGED <<intent, media>>
  PROVE  NothingBegins
<1>1. intent[u] \in Intents /\ intent' = [intent EXCEPT ![u] = intent[u]]
  BY SameIntent
<1> QED BY <1>1, RequestMoves DEF Promised, Admitted, State

(* A request that is compensated is not admitted any more. *)
LEMMA GivesUp ==
  ASSUME UploadInv, NEW u \in Uploads, upload[u] # "idle",
         NEW p \in UploadPhases, At(u, p),
         intent' = Released(u) \/ intent' = Kept(u), UNCHANGED media
  PROVE  NothingBegins
<1>1. CASE intent' = Released(u)
  <2>1. PICK r \in Intents : /\ intent' = [intent EXCEPT ![u] = r]
                             /\ r.state = "reclaimed"
    BY <1>1, ReleasedIntent
  <2> QED BY <2>1, RequestMoves DEF Promised
<1>2. CASE intent' = Kept(u)
  <2> DEFINE r == [intent[u] EXCEPT !.state = "cleanup_pending"]
  <2>1. /\ r \in Intents /\ r.state = "cleanup_pending"
        /\ intent' = [intent EXCEPT ![u] = r]
    BY <1>2, OneState DEF Kept, Counted, Sweepable
  <2> HIDE DEF r
  <2> QED BY <2>1, RequestMoves DEF Promised
<1> QED BY <1>1, <1>2

(* No step of a request but its first admits it. *)
LEMMA RequestBegins ==
  ASSUME UploadInv, NEW u \in Uploads,
         \/ Checkpoint(u) \/ Put(u) \/ MarkUploaded(u) \/ SaveMedia(u)
         \/ DeleteUpload(u) \/ Compensate(u) \/ UploaderDies(u) \/ LandLate(u)
  PROVE  NothingBegins
<1>1. CASE Checkpoint(u)
  BY <1>1, PhaseMoves, GivesUp DEF Checkpoint, UploadPhases
<1>2. CASE Put(u)
  BY <1>2, PhaseMoves DEF Put, UploadPhases
<1>3. CASE MarkUploaded(u)
  <2>1. CASE UNCHANGED intent
    BY <1>3, <2>1, PhaseMoves DEF MarkUploaded, UploadPhases
  <2>2. CASE /\ State(u) = "pending" /\ At(u, "save")
             /\ intent' = [intent EXCEPT ![u].state = "uploaded"]
    <3> DEFINE r == [intent[u] EXCEPT !.state = "uploaded"]
    <3>1. r \in Intents /\ intent' = [intent EXCEPT ![u] = r]
      BY <2>2, OneState DEF Counted, Sweepable
    <3>2. r.reserved = intent[u].reserved
      BY DEF UploadInv, UploadTypes, Intents
    <3> HIDE DEF r
    <3> QED
      BY <1>3, <2>2, <3>1, <3>2, RequestMoves
      DEF MarkUploaded, UploadPhases, Admitted, Promised
  <2> QED BY <1>3, <2>1, <2>2 DEF MarkUploaded, State
<1>4. CASE SaveMedia(u)
  <2>1. CASE UNCHANGED <<intent, media>>
    BY <1>4, <2>1, PhaseMoves DEF SaveMedia, UploadPhases
  <2>2. CASE /\ OwnsUpload(u) /\ At(u, "ended") /\ media' = media \cup {u}
             /\ intent' = [intent EXCEPT ![u].state = "completed"]
    <3>1. PICK r \in Intents : /\ intent' = [intent EXCEPT ![u] = r]
                               /\ r.state = "completed"
      BY <2>2, OneState
    <3> QED
      BY <1>4, <2>2, <3>1, RequestMoves
      DEF SaveMedia, OwnsUpload, UploadPhases, Admitted, State, Promised
  <2> QED BY <1>4, <2>1, <2>2 DEF SaveMedia
<1>5. CASE DeleteUpload(u)
  BY <1>5, PhaseMoves DEF DeleteUpload, UploadPhases
<1>6. CASE Compensate(u)
  BY <1>6, GivesUp DEF Compensate, UploadPhases
<1>7. CASE UploaderDies(u) \/ LandLate(u)
  BY <1>7, PhaseMoves DEF UploaderDies, LandLate, UploadPhases
<1> QED BY <1>1, <1>2, <1>3, <1>4, <1>5, <1>6, <1>7

(* Other intents stay, and the one that is rewritten is not admitted.      *)
LEMMA IntentsMove ==
  ASSUME UploadInv, UNCHANGED <<upload, media>>,
         \A v \in Uploads :
           intent'[v] = intent[v] \/ intent'[v].state \notin {"pending", "uploaded"}
  PROVE  NothingBegins
BY DEF NothingBegins, Admitted, State, Promised

(* A statement of the sweep rewrites the intent it holds. *)
LEMMA RecordBegins ==
  ASSUME UploadInv, NEW s \in Sweepers, sweep[s].phase \in {"record", "failure"},
         NEW r, Record(s, r), r.state \notin {"pending", "uploaded"},
         UNCHANGED <<upload, media>>
  PROVE  NothingBegins
<1>1. \A v \in Uploads : intent'[v] = intent[v] \/ intent'[v] = r
  BY DEF Record, UploadInv, UploadTypes
<1> QED BY <1>1, IntentsMove

(* What a record of the sweep leaves is not admitted. *)
LEMMA RecordedState ==
  ASSUME UploadInv, NEW s \in Sweepers, sweep[s].phase \in {"record", "failure"}
  PROVE  /\ AfterDeletion(s).state \notin {"pending", "uploaded"}
         /\ AfterFailure(s).state \notin {"pending", "uploaded"}
<1>1. PICK k : k = sweep[s].key OBVIOUS
<1>2. sweep[s] \in Sweeps /\ k \in DOMAIN sweep[s].prior
  BY <1>1 DEF UploadInv, UploadTypes, Sweeping
<1>3. k \in Uploads /\ intent[k] \in Intents
  BY <1>2, SweepFields DEF UploadInv, UploadTypes
<1>4. AfterFailure(s).state \in {"exhausted", "cleanup_pending"}
  BY <1>1, <1>3 DEF AfterFailure, Intents
<1>5. AfterDeletion(s).state \in {"completed", "late_upload_watch", "reclaimed"}
  <2>1. CASE k \in media
    BY <1>1, <1>3, <2>1 DEF AfterDeletion, Intents
  <2>2. CASE k \notin media /\ sweep[s].prior[k] \in CanMaterialize
    BY <1>1, <1>3, <2>2 DEF AfterDeletion, Intents
  <2>3. CASE k \notin media /\ sweep[s].prior[k] \notin CanMaterialize
    BY <1>1, <1>3, <2>3 DEF AfterDeletion, Intents
  <2> QED BY <2>1, <2>2, <2>3
<1> QED BY <1>4, <1>5

(* The intents a sweep claims are not admitted any more. *)
LEMMA ClaimBegins ==
  ASSUME UploadInv, NEW s \in Sweepers, ClaimExpired(s)
  PROVE  NothingBegins
<1> DEFINE taken(u) == [intent[u] EXCEPT !.state = "reclaiming", !.live = TRUE,
                                         !.token = s]
           before == [u \in Expired |-> intent[u].state]
<1>1. /\ intent' = [u \in Uploads |-> IF u \in Expired THEN taken(u) ELSE intent[u]]
      /\ sweep' = [sweep EXCEPT ![s].phase = "next", ![s].prior = before]
      /\ UNCHANGED <<upload, media, blobs>>
  BY DEF ClaimExpired
<1>2. \A u \in Uploads : taken(u).state = "reclaiming"
  BY DEF UploadInv, UploadTypes, Intents
<1> HIDE DEF taken, before
<1>3. \A u \in Uploads : intent'[u] = taken(u) \/ intent'[u] = intent[u]
  BY <1>1
<1> QED BY <1>1, <1>2, <1>3, IntentsMove

(* The sweep admits nothing. *)
LEMMA SweepBegins ==
  ASSUME UploadInv, NEW s \in Sweepers, SweepStep(s) \/ SweeperDies(s)
  PROVE  NothingBegins
<1>1. CASE UNCHANGED <<intent, upload, media>>
  BY <1>1, IntentsMove
<1>2. CASE ClaimExpired(s)
  BY <1>2, ClaimBegins
<1>3. CASE RecordDeleted(s)
  BY <1>3, RecordBegins, RecordedState DEF RecordDeleted
<1>4. CASE RecordFailure(s)
  BY <1>4, RecordBegins, RecordedState DEF RecordFailure
<1>5. CASE (\E u \in Uploads : LookUp(s, u)) \/ DeleteExpired(s) \/ SweepEnds(s)
           \/ SweeperDies(s)
  BY <1>1, <1>5 DEF LookUp, DeleteExpired, SweepEnds, SweeperDies
<1> QED BY <1>2, <1>3, <1>4, <1>5 DEF SweepStep

(* A lease runs out and the intent keeps its state. *)
LEMMA LeaseBegins ==
  ASSUME UploadInv, NEW u \in Uploads, LeaseRunsOut(u)
  PROVE  NothingBegins
<1>1. intent \in [Uploads -> Intents] /\ UNCHANGED <<upload, media>>
  BY DEF UploadInv, UploadTypes, LeaseRunsOut
<1>2. \A v \in Uploads : /\ intent'[v].state = intent[v].state
                         /\ intent'[v].reserved = intent[v].reserved
  BY <1>1 DEF LeaseRunsOut, Intents
<1> QED BY <1>1, <1>2 DEF NothingBegins, Admitted, State, Promised

-----------------------------------------------------------------------------
(* The budget. *)

(* Whatever the uploads do, what is promised still fits. *)
LEMMA UploadsKeepBudget ==
  ASSUME UploadInv, BudgetInv, UploadActions
  PROVE  BudgetInv'
<1>1. CASE \E u \in Uploads : CreateIntent(u)
  BY <1>1, AdmittedFits
<1>2. CASE NothingBegins
  BY <1>2, BudgetStays
<1> QED
  BY <1>1, <1>2, RequestBegins, LeaseBegins, SweepBegins
  DEF UploadActions, UploadStep

(* No other step of the library stores anything. *)
LEMMA LibraryKeepsBudget ==
  ASSUME UploadInv, BudgetInv, [LibraryNext]_libraryVars
  PROVE  BudgetInv'
<1>1. CASE UploadSide
  BY <1>1, UploadsKeepBudget DEF UploadSide, UploadActions
<1>2. CASE UNCHANGED <<intent, upload>> /\ media' \subseteq media
  <2>1. NothingBegins
    BY <1>2 DEF NothingBegins, Admitted, State, Promised
  <2> QED BY <2>1, BudgetStays
<1>3. CASE \E k \in Keepers : KeeperStep(k) \/ KeeperDies(k)
  <2>1. PICK k \in Keepers : KeeperStep(k) \/ KeeperDies(k) BY <1>3
  <2>2. CASE DropRow(k)
    BY <1>2, <2>2 DEF DropRow
  <2>3. CASE DeleteObject(k)
    BY <1>2, <2>3 DEF DeleteObject
  <2>4. CASE FenceDeletion(k)
    BY <1>2, <2>4 DEF FenceDeletion, uploadVars
  <2>5. CASE KeepingEnds(k) \/ KeeperDies(k)
    BY <1>2, <2>5 DEF KeepingEnds, KeeperDies, uploadVars
  <2>6. CASE StartKeeping(k)
    BY <1>2, <2>6 DEF StartKeeping, uploadVars
  <2>7. CASE \E a \in Uploads : ClaimAsset(k, a)
    BY <1>2, <2>7 DEF ClaimAsset, uploadVars
  <2> QED BY <2>1, <2>2, <2>3, <2>4, <2>5, <2>6, <2>7 DEF KeeperStep
<1>4. CASE \E p \in Approvers : ApproverStep(p)
  <2>1. UNCHANGED libraryBelow
    BY <1>4
    DEF ApproverStep, LoadTimeline, CompilePlan, RecheckRevision, CaptureOriginal,
        AdvanceRun, RecordReview, UndoAdvance, AskRender, DispatchRender
  <2> QED BY <1>2, <2>1 DEF libraryBelow, uploadVars
<1>5. CASE UserMoves \/ \E p \in Approvers : RenderStep(p)
  <2>1. UNCHANGED libraryBelow
    BY <1>5 DEF RenderStep, ReadApprovedRevision, LoadForRender, CheckApproval,
                ResolveAssets, Materialize, EndRender, UserMoves, RestartRun, GoBack,
                StopRender
  <2> QED BY <1>2, <2>1 DEF libraryBelow, uploadVars
<1>6. CASE \/ \E S \in SUBSET Uploads : StartSave(S)
           \/ SaveTimeline
           \/ \E a \in Uploads : ClaimRunsOut(a)
           \/ UNCHANGED libraryVars
  BY <1>2, <1>6 DEF StartSave, SaveTimeline, ClaimRunsOut, libraryVars, uploadVars
<1> QED BY <1>1, <1>3, <1>4, <1>5, <1>6 DEF LibraryNext

(* Before the first upload only what is stored counts. *)
LEMMA BudgetAtFirst ==
  ASSUME IsFiniteSet(media), \A u \in Uploads : ~Admitted(u),
         \A u \in Uploads : upload[u] # "idle" => u \in media,
         Within(Bytes(media), MaxBytes), Within(Cardinality(media), MaxAssets)
  PROVE  BudgetInv
<1>1. Begun \subseteq media /\ Promised = media
  BY DEF Begun, Promised
<1>2. IsFiniteSet(Begun) BY <1>1, FS_Subset
<1> QED BY <1>1, <1>2 DEF BudgetInv

(* What is stored is part of what is promised. *)
LEMMA BudgetHolds ==
  ASSUME UploadInv, BudgetInv
  PROVE  BudgetKept
<1>1. /\ Bytes(media) \in Nat /\ Bytes(Promised) \in Nat
      /\ Bytes(media) <= Bytes(Promised)
      /\ Cardinality(media) \in Nat /\ Cardinality(Promised) \in Nat
      /\ Cardinality(media) <= Cardinality(Promised)
  <2>1. media \subseteq Promised BY DEF Promised
  <2> QED BY <2>1, PromisedIsFinite, FewerBytes
<1> QED BY <1>1, UploadAssumption DEF BudgetInv, BudgetKept, Within

(* However many uploads are admitted at once, however late they are saved  *)
(* and whatever the sweeps give up or count again, the rows of a workspace *)
(* stay within its limits, if what is stored at the start does             *)
(* (storage_policy.ensure_budget under the workspace's lock).              *)
THEOREM StorageWithinBudget ==
  ASSUME IsFiniteSet(Stored), Within(Bytes(Stored), MaxBytes),
         Within(Cardinality(Stored), MaxAssets)
  PROVE  LibrarySafe => []BudgetKept
<1>1. ASSUME LibraryInit PROVE BudgetInv
  <2>1. /\ media = Stored /\ \A u \in Uploads : ~Admitted(u)
        /\ \A u \in Uploads : upload[u] # "idle" => u \in media
    BY <1>1 DEF LibraryInit, Admitted, State
  <2> QED BY <2>1, BudgetAtFirst
<1>2. ASSUME UploadInv, BudgetInv, [LibraryNext]_libraryVars PROVE BudgetInv'
  BY <1>2, LibraryKeepsBudget
<1>3. ASSUME UploadInv, BudgetInv PROVE BudgetKept
  BY <1>3, BudgetHolds
<1> QED BY <1>1, <1>2, <1>3, LibraryInvariant, PTL DEF LibrarySafe
=============================================================================

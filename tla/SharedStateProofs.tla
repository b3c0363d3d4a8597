------------------------- MODULE SharedStateProofs -------------------------
(***************************************************************************)
(* What holds of the parts of the studio that share no state with a        *)
(* pipeline: the hosts' GPU and temporary disk space, the row of a run and *)
(* of a task, and the doubles of the stores of rows, artifacts and upload  *)
(* intents; for any executions, uploads, users, tokens and bounds.         *)
(***************************************************************************)
EXTENDS WorkerHost, RunRows, TaskTracking, ArtifactStores, UploadTwins, SumTheorems

-----------------------------------------------------------------------------
(* The GPU. *)

(* The token that says nobody has the lock is no execution's.              *)
GpuConstants == Free \notin Executions

(* Who works and has the lock has had it all the time since acquisition.   *)
LockKept ==
  /\ gpu \in [Executions -> [phase : {"idle", "working", "ended", "raised", "dead"},
                acquired : BOOLEAN, lost : BOOLEAN, unsure : BOOLEAN, gap : BOOLEAN]]
  /\ \A e \in Executions : gpu[e].phase = "working" /\ lock = e => ~gpu[e].gap
  /\ \A e \in Executions : gpu[e].phase = "idle" => ~gpu[e].gap
  /\ NormalEndHeldTheGpu

(* At the start nobody has used the GPU.                                   *)
LEMMA HostInitKeeps == HostInit => LockKept
BY DEF HostInit, LockKept, AtRest, NormalEndHeldTheGpu

(* No step of the lock ends an execution in peace that was without the GPU *)
(* for a while: release() asks whose token is in Redis.                    *)
LEMMA GpuStepKeeps ==
  ASSUME GpuConstants, LockKept, GpuStep
  PROVE LockKept'
<1> USE DEF LockKept, NormalEndHeldTheGpu, GpuConstants, Becomes, InPhase
<1>1. CASE LockExpires BY <1>1 DEF LockExpires
<1>2. ASSUME NEW e \in Executions, Acquire(e) PROVE LockKept' BY <1>2 DEF Acquire
<1>3. ASSUME NEW e \in Executions, AcquireFails(e) PROVE LockKept' BY <1>3 DEF AcquireFails
<1>4. ASSUME NEW e \in Executions, Renew(e) PROVE LockKept'
  <2>1. CASE e \in Wrapped
    <3>1. (e \in Wrapped) = TRUE BY <2>1
    <3>2. lock' = lock
          /\ gpu' = [gpu EXCEPT ![e] = [gpu[e] EXCEPT !.lost = TRUE, !.acquired = TRUE]]
      BY <1>4, <3>1 DEF Renew
    <3> QED BY <3>2
  <2>2. CASE e \notin Wrapped
    <3>1. (e \in Wrapped) = FALSE BY <2>2
    <3>2. lock' = lock
          /\ gpu' = [gpu EXCEPT ![e] = [gpu[e] EXCEPT !.lost = TRUE, !.acquired = FALSE]]
      BY <1>4, <3>1 DEF Renew
    <3> QED BY <3>2
  <2> QED BY <2>1, <2>2
<1>5. ASSUME NEW e \in Executions, ReleaseLost(e) PROVE LockKept' BY <1>5 DEF ReleaseLost
<1>6. ASSUME NEW e \in Executions, WorkerIsKilled(e) PROVE LockKept'
  BY <1>6 DEF WorkerIsKilled
<1>7. ASSUME NEW e \in Executions, NEW failed \in BOOLEAN, Release(e, failed) PROVE LockKept'
  BY <1>7 DEF Release, DeletesOwnToken
<1>8. ASSUME NEW e \in Executions, NEW failed \in BOOLEAN, ReleaseUnheard(e, failed)
      PROVE LockKept'
  BY <1>8 DEF ReleaseUnheard, DeletesOwnToken
<1> QED BY <1>1, <1>2, <1>3, <1>4, <1>5, <1>6, <1>7, <1>8 DEF GpuStep

-----------------------------------------------------------------------------
(* The temporary disk space. *)

(* Files and limits are numbers, processes have hosts, and the disk has    *)
(* room for the watermark.                                                 *)
StagingConstants ==
  /\ IsFiniteSet(Staged) /\ MaxBytes \in [Staged -> Nat]
  /\ Disk \in Int /\ Watermark \in Int /\ Watermark <= Disk

InProgress == {u \in Staged : stage[u].phase \in {"leased", "staging"}}
Used == [u \in Staged |-> stage[u].used]
Owed == [u \in Staged |-> MaxBytes[u] - stage[u].used]
Owes == [u \in Staged |-> IF u \in InProgress THEN Owed[u] ELSE 0]
NobodyOutlived == \A u \in Staged : ~stage[u].outlived
RoomLeft == Disk - SumFunctionOnSet(Used, Staged) - SumFunctionOnSet(Owes, Staged) >= Watermark

StagingType ==
  stage \in [Staged ->
    [phase : {"off", "leased", "refused", "staging", "leaving", "leaked", "done", "dead"},
     lease : BOOLEAN, aged : BOOLEAN, outlived : BOOLEAN, used : Nat]]
LeasesStand ==
  \A u \in Staged :
    /\ stage[u].used <= MaxBytes[u]
    /\ stage[u].outlived => stage[u].aged
    /\ stage[u].phase = "off" =>
         ~stage[u].lease /\ ~stage[u].aged /\ ~stage[u].outlived /\ stage[u].used = 0
    /\ u \in InProgress /\ ~stage[u].outlived => stage[u].lease /\ ~stage[u].aged

(* An upload in progress has a lease that every host counts, unless it     *)
(* outlived its lease; and together they fit the disk.                     *)
SpaceKept == StagingType /\ LeasesStand /\ (NobodyOutlived => RoomLeft)

(* The sums are numbers.                                                   *)
LEMMA StagedSums ==
  ASSUME StagingConstants, StagingType
  PROVE /\ Summable(Used, Staged) /\ Summable(Owes, Staged) /\ Summable(Owed, Staged)
        /\ SumFunctionOnSet(Used, Staged) \in Int /\ SumFunctionOnSet(Owes, Staged) \in Int
<1>1. IsFiniteSet(Staged) BY DEF StagingConstants
<1>2. \A u \in Staged : Used[u] \in Int /\ Owed[u] \in Int /\ Owes[u] \in Int
  BY DEF StagingConstants, StagingType, Used, Owed, Owes
<1>3. Summable(Used, Staged) /\ Summable(Owes, Staged) /\ Summable(Owed, Staged)
  BY <1>1, <1>2 DEF Summable
<1> QED BY <1>3, SumType

(* What is owed may be summed over all uploads.                            *)
LEMMA OwedSum ==
  ASSUME StagingConstants, StagingType
  PROVE SumFunctionOnSet(Owed, InProgress) = SumFunctionOnSet(Owes, Staged)
<1>1. Summable(Owed, Staged) BY StagedSums
<1>2. InProgress \in SUBSET Staged BY DEF InProgress
<1>3. SumFunctionOnSet(Owed, InProgress)
        = SumFunctionOnSet([x \in Staged |-> IF x \in InProgress THEN Owed[x] ELSE 0], Staged)
  BY <1>1, <1>2, SumFilter
<1> QED BY <1>3 DEF Owes

(* So the property is what the invariant says of the sums.                 *)
LEMMA SpaceKeptSuffices ==
  ASSUME StagingConstants, SpaceKept
  PROVE StagingLeavesTheWatermark
<1>1. SumFunctionOnSet(Owed, InProgress) = SumFunctionOnSet(Owes, Staged)
  BY OwedSum DEF SpaceKept
<1>2. NobodyOutlived =>
        Disk - SumFunctionOnSet(Used, Staged) - SumFunctionOnSet(Owed, InProgress) >= Watermark
  BY <1>1 DEF SpaceKept, RoomLeft
<1> QED BY <1>2 DEF StagingLeavesTheWatermark, NobodyOutlived, FreeBytes, Used, Owed, InProgress

(* At the start the disk is empty.                                         *)
LEMMA StagingInitKeeps ==
  ASSUME StagingConstants, HostInit
  PROVE SpaceKept
<1>1. StagingType /\ LeasesStand
  BY DEF HostInit, NotStaged, StagingType, LeasesStand, InProgress, StagingConstants
<1>2. \A u \in Staged : Used[u] = 0 /\ Owes[u] = 0
  BY DEF HostInit, NotStaged, Used, Owes, InProgress
<1>3. SumFunctionOnSet(Used, Staged) = 0 /\ SumFunctionOnSet(Owes, Staged) = 0
  BY <1>2, SumZero DEF StagingConstants
<1> QED BY <1>1, <1>3 DEF SpaceKept, RoomLeft, StagingConstants

(* What one upload does moves the two sums by what it itself uses and      *)
(* owes.                                                                   *)
LEMMA OneUploadMoves ==
  ASSUME StagingConstants, StagingType, StagingType', NEW u \in Staged,
         \A v \in Staged \ {u} :
           stage'[v].used = stage[v].used /\ stage'[v].phase = stage[v].phase
  PROVE /\ SumFunctionOnSet(Used', Staged)
             = SumFunctionOnSet(Used, Staged) - Used[u] + Used'[u]
        /\ SumFunctionOnSet(Owes', Staged)
             = SumFunctionOnSet(Owes, Staged) - Owes[u] + Owes'[u]
<1>1. Summable(Used, Staged) /\ Summable(Owes, Staged) BY StagedSums
<1>2. Used'[u] \in Int /\ Owes'[u] \in Int
  BY DEF StagingConstants, StagingType, Used, Owes, Owed
<1>3. \A v \in Staged \ {u} : Used[v] = Used'[v] BY DEF Used
<1>4. \A v \in Staged \ {u} : Owes[v] = Owes'[v] BY DEF Owes, Owed, InProgress
<1> QED BY <1>1, <1>2, <1>3, <1>4, SumChange

(* A request finds at most what is promised to others: what the uploads in *)
(* progress owe is not more than the leases its host counts.               *)
LEMMA CountedCovers ==
  ASSUME StagingConstants, StagingType, LeasesStand, NobodyOutlived, NEW host
  PROVE /\ ReservedOn(host) \in Int
        /\ SumFunctionOnSet(Owes, Staged) <= ReservedOn(host)
<1> DEFINE kept == [x \in Staged |-> IF x \in Counted(host) THEN MaxBytes[x] ELSE 0]
<1>1. Summable(MaxBytes, Staged) BY DEF StagingConstants, Summable
<1>2. Counted(host) \in SUBSET Staged BY DEF Counted
<1>3. ReservedOn(host) = SumFunctionOnSet(kept, Staged)
  BY <1>1, <1>2, SumFilter DEF ReservedOn
<1>4. InProgress \subseteq Counted(host)
  BY DEF InProgress, Counted, OwnerIsLive, LeasesStand, NobodyOutlived
<1>5. \A x \in Staged : Owes[x] <= kept[x]
  BY <1>4 DEF Owes, Owed, StagingType, StagingConstants
<1>6. Summable(kept, Staged) BY DEF Summable, StagingConstants
<1>7. Summable(Owes, Staged) BY StagedSums
<1>8. SumFunctionOnSet(kept, Staged) \in Int BY <1>6, SumType
<1> HIDE DEF kept
<1>9. SumFunctionOnSet(Owes, Staged) <= SumFunctionOnSet(kept, Staged)
  BY <1>5, <1>6, <1>7, SumMonotone
<1> QED BY <1>3, <1>8, <1>9

(* A step of one upload that leaves the leases in order keeps all of it     *)
(* when what the upload uses and what it owes together do not grow.        *)
LEMMA OneUploadKeeps ==
  ASSUME StagingConstants, SpaceKept, NEW u \in Staged, StagingType', LeasesStand',
         NobodyOutlived' => NobodyOutlived,
         \A v \in Staged \ {u} :
           stage'[v].used = stage[v].used /\ stage'[v].phase = stage[v].phase,
         Used'[u] + Owes'[u] <= Used[u] + Owes[u]
  PROVE SpaceKept'
<1>1. /\ SumFunctionOnSet(Used', Staged)
           = SumFunctionOnSet(Used, Staged) - Used[u] + Used'[u]
      /\ SumFunctionOnSet(Owes', Staged)
           = SumFunctionOnSet(Owes, Staged) - Owes[u] + Owes'[u]
  BY OneUploadMoves DEF SpaceKept
<1>2. SumFunctionOnSet(Used, Staged) \in Int /\ SumFunctionOnSet(Owes, Staged) \in Int
  BY StagedSums DEF SpaceKept
<1>3. Used[u] \in Int /\ Owes[u] \in Int /\ Used'[u] \in Int /\ Owes'[u] \in Int
  BY DEF StagingConstants, SpaceKept, StagingType, Used, Owes, Owed
<1>4. ASSUME RoomLeft PROVE RoomLeft'
  <2>1. Disk - SumFunctionOnSet(Used, Staged) - SumFunctionOnSet(Owes, Staged) >= Watermark
    BY <1>4 DEF RoomLeft
  <2>2. Disk - SumFunctionOnSet(Used', Staged) - SumFunctionOnSet(Owes', Staged) >= Watermark
    BY <1>1, <1>2, <1>3, <2>1 DEF StagingConstants
  <2> QED BY <2>2 DEF RoomLeft
<1> QED BY <1>4 DEF SpaceKept

(* A request that fits takes no more than what is left, one that does not  *)
(* takes nothing; the leases it removes are nobody's at work.              *)
LEMMA TakeLeaseKeeps ==
  ASSUME StagingConstants, SpaceKept, NEW u \in Staged, TakeLease(u)
  PROVE SpaceKept'
<1> DEFINE host == HostOf[Process[u]]
           fits == FreeBytes - ReservedOn(host) - MaxBytes[u] >= Watermark
<1>1. stage[u].phase = "off" /\ StagingType /\ LeasesStand BY DEF TakeLease, SpaceKept
<1>2. stage' = [v \in Staged |->
           IF v = u THEN [NotStaged EXCEPT !.phase = IF fits THEN "leased" ELSE "refused",
                                           !.lease = fits]
           ELSE [stage[v] EXCEPT !.lease = v \in Counted(host)]]
  BY DEF TakeLease
<1>3. fits \in BOOLEAN /\ \A v \in Staged : (v \in Counted(host)) \in BOOLEAN OBVIOUS
<1> HIDE DEF fits
<1>4. \A v \in Staged \ {u} : /\ stage'[v].used = stage[v].used
                              /\ stage'[v].phase = stage[v].phase
                              /\ stage'[v].aged = stage[v].aged
                              /\ stage'[v].outlived = stage[v].outlived
                              /\ stage'[v].lease = (v \in Counted(host))
  BY <1>1, <1>2 DEF StagingType
<1>5. /\ stage'[u].phase = IF fits THEN "leased" ELSE "refused"
      /\ stage'[u].lease = fits /\ ~stage'[u].aged /\ ~stage'[u].outlived
      /\ stage'[u].used = 0
  BY <1>2 DEF NotStaged
<1>6. StagingType'
  BY <1>1, <1>2, <1>3 DEF StagingType, NotStaged
<1>7. LeasesStand'
  <2>1. ASSUME NEW v \in Staged, v # u
        PROVE /\ stage'[v].used <= MaxBytes[v]
              /\ stage'[v].outlived => stage'[v].aged
              /\ stage'[v].phase = "off" =>
                   ~stage'[v].lease /\ ~stage'[v].aged /\ ~stage'[v].outlived /\ stage'[v].used = 0
              /\ v \in InProgress' /\ ~stage'[v].outlived => stage'[v].lease /\ ~stage'[v].aged
    <3>1. stage[v].phase = "off" => v \notin Counted(host)
      BY <1>1 DEF LeasesStand, Counted, NotStaged
    <3>4. v \in InProgress /\ ~stage[v].outlived => v \in Counted(host)
      BY <1>1 DEF LeasesStand, Counted, OwnerIsLive, InProgress
    <3> QED BY <1>1, <1>4, <2>1, <3>1, <3>4 DEF LeasesStand, InProgress
  <2>2. 0 <= MaxBytes[u] BY DEF StagingConstants
  <2>3. /\ stage'[u].used <= MaxBytes[u]
        /\ stage'[u].outlived => stage'[u].aged
        /\ stage'[u].phase = "off" =>
             ~stage'[u].lease /\ ~stage'[u].aged /\ ~stage'[u].outlived /\ stage'[u].used = 0
        /\ u \in InProgress' /\ ~stage'[u].outlived => stage'[u].lease /\ ~stage'[u].aged
    BY <1>5, <2>2 DEF InProgress
  <2> QED BY <2>1, <2>3 DEF LeasesStand
<1>8. NobodyOutlived' => NobodyOutlived
  BY <1>1, <1>4 DEF NobodyOutlived, LeasesStand, NotStaged
<1>9. Used[u] = 0 /\ Owes[u] = 0 /\ Used'[u] = 0
  BY <1>1, <1>5 DEF Used, Owes, InProgress, LeasesStand, NotStaged
<1>10. CASE ~fits
  <2>1. Owes'[u] = 0 BY <1>5, <1>10 DEF Owes, InProgress
  <2> QED BY <1>4, <1>6, <1>7, <1>8, <1>9, <2>1, OneUploadKeeps
<1>11. CASE fits
  <2>1. Owes'[u] = MaxBytes[u]
    BY <1>5, <1>11 DEF Owes, Owed, InProgress, StagingConstants
  <2>2. /\ SumFunctionOnSet(Used', Staged)
             = SumFunctionOnSet(Used, Staged) - Used[u] + Used'[u]
        /\ SumFunctionOnSet(Owes', Staged)
             = SumFunctionOnSet(Owes, Staged) - Owes[u] + Owes'[u]
    BY <1>1, <1>4, <1>6, OneUploadMoves
  <2>3. SumFunctionOnSet(Used, Staged) \in Int /\ SumFunctionOnSet(Owes, Staged) \in Int
    BY <1>1, StagedSums
  <2>4. ASSUME NobodyOutlived' PROVE RoomLeft'
    <3>1. ReservedOn(host) \in Int /\ SumFunctionOnSet(Owes, Staged) <= ReservedOn(host)
      BY <1>1, <1>8, <2>4, CountedCovers
    <3>2. FreeBytes - ReservedOn(host) - MaxBytes[u] >= Watermark BY <1>11 DEF fits
    <3>3. FreeBytes = Disk - SumFunctionOnSet(Used, Staged) BY DEF FreeBytes, Used
    <3>4. MaxBytes[u] \in Int /\ Disk \in Int /\ Watermark \in Int BY DEF StagingConstants
    <3> HIDE DEF host
    <3>5. Disk - SumFunctionOnSet(Used', Staged) - SumFunctionOnSet(Owes', Staged) >= Watermark
      BY <1>9, <2>1, <2>2, <2>3, <3>1, <3>2, <3>3, <3>4
    <3> QED BY <3>5 DEF RoomLeft
  <2> QED BY <1>6, <1>7, <2>4 DEF SpaceKept
<1> QED BY <1>10, <1>11

(* The other steps of an upload only give bytes back, or write what was    *)
(* owed.                                                                   *)
LEMMA UploadStepKeeps ==
  ASSUME StagingConstants, SpaceKept, NEW u \in Staged,
         \/ MakeStagingDirectory(u) \/ WriteChunk(u) \/ RemoveStaged(u)
         \/ GiveLeaseBack(u) \/ LeaseAges(u)
  PROVE SpaceKept'
<1>1. StagingType /\ LeasesStand BY DEF SpaceKept
<1>2. PICK r : stage' = [stage EXCEPT ![u] = r]
  BY DEF MakeStagingDirectory, WriteChunk, RemoveStaged, GiveLeaseBack, LeaseAges, Puts
<1>3. \A v \in Staged \ {u} : stage'[v] = stage[v] BY <1>1, <1>2 DEF StagingType
<1>4. MaxBytes[u] \in Nat /\ stage[u].used \in Nat /\ stage[u].used <= MaxBytes[u]
  BY <1>1 DEF StagingConstants, StagingType, LeasesStand
<1> DEFINE Keeps ==
             /\ StagingType' /\ LeasesStand'
             /\ (NobodyOutlived' => NobodyOutlived)
             /\ Used'[u] + Owes'[u] <= Used[u] + Owes[u]
<1>5. CASE MakeStagingDirectory(u)
  <2>1. PICK p \in {"staging", "leaked"} : stage' = [stage EXCEPT ![u].phase = p]
    BY <1>5 DEF MakeStagingDirectory, Puts
  <2>2. StagingType' BY <1>1, <2>1 DEF StagingType
  <2>3. stage[u].phase = "leased" BY <1>5 DEF MakeStagingDirectory
  <2>4. Keeps
    BY <1>1, <1>3, <1>4, <2>1, <2>2, <2>3
    DEF StagingType, LeasesStand, NobodyOutlived, Used, Owes, Owed, InProgress
  <2> QED BY <2>4, <1>3, OneUploadKeeps
<1>6. CASE WriteChunk(u)
  <2>1. stage' = [stage EXCEPT ![u].used = @ + 1] BY <1>6 DEF WriteChunk, Puts
  <2>2. StagingType' BY <1>1, <2>1 DEF StagingType
  <2>3. stage[u].phase = "staging" /\ stage[u].used < MaxBytes[u] BY <1>6 DEF WriteChunk
  <2>4. Keeps
    BY <1>1, <1>3, <1>4, <2>1, <2>2, <2>3
    DEF StagingType, LeasesStand, NobodyOutlived, Used, Owes, Owed, InProgress
  <2> QED BY <2>4, <1>3, OneUploadKeeps
<1>7. CASE RemoveStaged(u)
  <2>1. stage' = [stage EXCEPT ![u].phase = "leaving", ![u].used = 0]
    BY <1>1, <1>7 DEF RemoveStaged, Puts, StagingType
  <2>2. StagingType' BY <1>1, <2>1 DEF StagingType
  <2>3. stage[u].phase = "staging" BY <1>7 DEF RemoveStaged
  <2>4. Keeps
    BY <1>1, <1>3, <1>4, <2>1, <2>2, <2>3
    DEF StagingType, LeasesStand, NobodyOutlived, Used, Owes, Owed, InProgress
  <2> QED BY <2>4, <1>3, OneUploadKeeps
<1>8. CASE GiveLeaseBack(u)
  <2>1. stage' = [stage EXCEPT ![u].phase = "done", ![u].lease = FALSE]
    BY <1>1, <1>8 DEF GiveLeaseBack, Puts, StagingType
  <2>2. StagingType' BY <1>1, <2>1 DEF StagingType
  <2>3. stage[u].phase = "leaving" BY <1>8 DEF GiveLeaseBack
  <2>4. Keeps
    BY <1>1, <1>3, <1>4, <2>1, <2>2, <2>3
    DEF StagingType, LeasesStand, NobodyOutlived, Used, Owes, Owed, InProgress
  <2> QED BY <2>4, <1>3, OneUploadKeeps
<1>9. CASE LeaseAges(u)
  <2>1. stage[u].lease /\ ~stage[u].aged BY <1>9 DEF LeaseAges
  <2>2. CASE stage[u].phase # "dead"
    <3>1. (stage[u].phase # "dead") = TRUE BY <2>2
    <3>2. stage' = [stage EXCEPT ![u] = [stage[u] EXCEPT !.aged = TRUE, !.outlived = TRUE]]
      BY <1>9, <3>1 DEF LeaseAges, Puts
    <3>3. StagingType' BY <1>1, <3>2 DEF StagingType
    <3>4. Keeps
      BY <1>1, <1>3, <1>4, <2>1, <3>2, <3>3
      DEF StagingType, LeasesStand, NobodyOutlived, Used, Owes, Owed, InProgress
    <3> QED BY <3>4, <1>3, OneUploadKeeps
  <2>3. CASE stage[u].phase = "dead"
    <3>1. (stage[u].phase # "dead") = FALSE BY <2>3
    <3>2. stage' = [stage EXCEPT ![u] = [stage[u] EXCEPT !.aged = TRUE, !.outlived = FALSE]]
      BY <1>9, <3>1 DEF LeaseAges, Puts
    <3>3. StagingType' BY <1>1, <3>2 DEF StagingType
    <3>4. Keeps
      BY <1>1, <1>3, <1>4, <2>1, <2>3, <3>2, <3>3
      DEF StagingType, LeasesStand, NobodyOutlived, Used, Owes, Owed, InProgress
    <3> QED BY <3>4, <1>3, OneUploadKeeps
  <2> QED BY <2>2, <2>3
<1> QED BY <1>5, <1>6, <1>7, <1>8, <1>9

(* A process that dies leaves its files, and owes nothing any more.        *)
LEMMA ProcessDiesKeeps ==
  ASSUME StagingConstants, SpaceKept, NEW p, ProcessDies(p)
  PROVE SpaceKept'
<1>1. StagingType /\ LeasesStand BY DEF SpaceKept
<1>2. stage' = [u \in Staged |->
        IF Serves(p, u) THEN [stage[u] EXCEPT !.phase = "dead"] ELSE stage[u]]
  BY DEF ProcessDies
<1>3. StagingType' BY <1>1, <1>2 DEF StagingType
<1>4. \A u \in Staged :
        /\ stage'[u].used = stage[u].used /\ stage'[u].lease = stage[u].lease
        /\ stage'[u].aged = stage[u].aged /\ stage'[u].outlived = stage[u].outlived
        /\ \/ stage'[u].phase = stage[u].phase
           \/ stage'[u].phase = "dead" /\ stage[u].phase # "off"
  <2> TAKE u \in Staged
  <2>1. CASE Serves(p, u)
    <3>1. stage'[u] = [stage[u] EXCEPT !.phase = "dead"] BY <1>2, <2>1
    <3>2. stage[u].phase # "off" BY <2>1 DEF Serves
    <3> QED BY <3>1, <3>2, <1>1 DEF StagingType
  <2>2. CASE ~Serves(p, u)
    <3>1. stage'[u] = stage[u] BY <1>2, <2>2
    <3> QED BY <3>1
  <2> QED BY <2>1, <2>2
<1>5. LeasesStand' BY <1>1, <1>4 DEF LeasesStand, InProgress
<1>6. Used' = Used BY <1>4 DEF Used
<1>7. \A u \in Staged : Owes'[u] <= Owes[u]
  BY <1>1, <1>4 DEF Owes, Owed, InProgress, StagingType, StagingConstants, LeasesStand
<1>8. Summable(Owes, Staged) /\ SumFunctionOnSet(Used, Staged) \in Int
      /\ SumFunctionOnSet(Owes, Staged) \in Int
  BY <1>1, StagedSums
<1>9. Summable(Owes', Staged)
  BY <1>3 DEF StagingConstants, StagingType, Owes, Owed, Summable
<1>10. SumFunctionOnSet(Owes', Staged) \in Int BY <1>9, SumType
<1>11. SumFunctionOnSet(Owes', Staged) <= SumFunctionOnSet(Owes, Staged)
  BY <1>7, <1>8, <1>9, SumMonotone
<1>12. NobodyOutlived' => NobodyOutlived BY <1>4 DEF NobodyOutlived
<1>13. ASSUME RoomLeft PROVE RoomLeft'
  <2>1. Disk - SumFunctionOnSet(Used, Staged) - SumFunctionOnSet(Owes, Staged) >= Watermark
    BY <1>13 DEF RoomLeft
  <2>2. Disk - SumFunctionOnSet(Used', Staged) - SumFunctionOnSet(Owes', Staged) >= Watermark
    BY <1>6, <1>8, <1>10, <1>11, <2>1 DEF StagingConstants
  <2> QED BY <2>2 DEF RoomLeft
<1> QED BY <1>3, <1>5, <1>12, <1>13 DEF SpaceKept

(* So every step leaves the watermark.                                     *)
LEMMA StagingStepKeeps ==
  ASSUME StagingConstants, SpaceKept, StagingStep
  PROVE SpaceKept'
BY TakeLeaseKeeps, UploadStepKeeps, ProcessDiesKeeps DEF StagingStep

-----------------------------------------------------------------------------
(* The row of a run. *)

Columns == {"home", "stage", "status", "restart", "finished", "defaults", "version"}
Defaults == [{"llm", "tts"} -> Models \cup {"none"}]
RowShape(r) ==
  DOMAIN r = Columns /\ r.home = Home /\ r.version \in Nat /\ r.defaults \in Defaults

(* The versions acted on are behind the row, which is created once.        *)
RowKept ==
  /\ row # Gone => /\ RowShape(row) /\ row.defaults = acked.defaults
                   /\ \A a \in acked.versions : a[2] < row.version
  /\ DOMAIN acked = {"defaults", "versions"} /\ acked.defaults \in Defaults
  /\ \A a \in acked.versions : a[2] \in Nat
  /\ DOMAIN call = Users /\ \A u \in Users : call[u].version \in Nat
  /\ DecisionsHold

(* What a service leaves when it writes, or when it misses.                *)
LEMMA UpdatedShape ==
  ASSUME NEW r, RowShape(r), NEW changes
  PROVE /\ RowShape(Updated(r, changes))
        /\ Updated(r, changes).defaults = r.defaults
        /\ Updated(r, changes).version = r.version + 1
BY DEF RowShape, Updated, Columns

(* At the start there is no row and nothing was told to anybody.           *)
LEMMA RowsInitKeeps == ASSUME RowsInit PROVE RowKept
<1>1. NoDefaults \in Defaults BY DEF NoDefaults, Defaults
<1> QED BY <1>1 DEF RowsInit, RowKept, Nobody, DecisionsHold

(* A write that leaves the defaults alone and acts on no version.          *)
LEMMA BlindWriteKeeps ==
  ASSUME RowKept, row # Gone, call' = call, acked' = acked, NEW changes,
         row' = row \/ row' = Updated(row, changes)
  PROVE RowKept'
<1>1. RowShape(row) BY DEF RowKept
<1>2. RowShape(Updated(row, changes))
      /\ Updated(row, changes).defaults = row.defaults
      /\ Updated(row, changes).version = row.version + 1
  BY <1>1, UpdatedShape
<1>3. RowShape(row') /\ row'.defaults = row.defaults
      /\ (row'.version = row.version \/ row'.version = row.version + 1)
  BY <1>1, <1>2
<1>4. \A a \in acked.versions : a[2] < row'.version
  BY <1>1, <1>3 DEF RowKept, RowShape
<1> QED BY <1>3, <1>4 DEF RowKept, DecisionsHold

(* A decision is written only while the row still has the version it was   *)
(* taken from.                                                             *)
LEMMA WriteKeeps ==
  ASSUME RowKept, NEW u \in Users, Write(u)
  PROVE RowKept'
<1> DEFINE v == call[u].version
           done == UpdateRun(row, Home, call[u].changes, v)
<1>1. /\ row' = done.row
      /\ acked' = IF done.answer = "done"
                  THEN [acked EXCEPT !.versions = @ \cup {<<u, v>>}] ELSE acked
      /\ call' = [call EXCEPT ![u] = Nobody]
  BY DEF Write
<1>2. DOMAIN call' = Users /\ \A w \in Users : call'[w].version \in Nat
  BY <1>1 DEF RowKept, Nobody
<1>3. CASE Matches(row, Home, v)
  <2>1. done = Answers("done", Updated(row, call[u].changes)) BY <1>3 DEF UpdateRun
  <2>2. done.answer = "done" /\ done.row = Updated(row, call[u].changes)
    BY <2>1 DEF Answers
  <2>3. row # Gone /\ v \in Nat /\ row.version = v BY <1>3 DEF Matches, RowKept
  <2>4. RowShape(row) BY <2>3 DEF RowKept
  <2>5. RowShape(row') /\ row'.defaults = row.defaults /\ row'.version = v + 1
    BY <1>1, <2>2, <2>3, <2>4, UpdatedShape
  <2>6. /\ DOMAIN acked' = {"defaults", "versions"} /\ acked'.defaults = acked.defaults
        /\ acked'.versions = acked.versions \cup {<<u, v>>}
    BY <1>1, <2>2 DEF RowKept
  <2>7. \A a \in acked.versions : a[2] \in Nat /\ a[2] < v BY <2>3 DEF RowKept
  <2>8. \A a \in acked'.versions : a[2] \in Nat /\ a[2] < v + 1
    BY <2>3, <2>6, <2>7
  <2>9. ASSUME NEW a \in acked'.versions, NEW b \in acked'.versions, a[2] = b[2]
        PROVE a = b \/ "deleted" \in {a[1], b[1]}
    <3>1. CASE a \in acked.versions /\ b \in acked.versions
      BY <2>9, <3>1 DEF RowKept, DecisionsHold
    <3>2. CASE a \in acked.versions /\ b = <<u, v>> BY <2>3, <2>7, <2>9, <3>2
    <3>3. CASE a = <<u, v>> /\ b \in acked.versions BY <2>3, <2>7, <2>9, <3>3
    <3> QED BY <2>6, <3>1, <3>2, <3>3
  <2> QED BY <1>2, <2>3, <2>5, <2>6, <2>8, <2>9 DEF RowKept, DecisionsHold
<1>4. CASE ~Matches(row, Home, v)
  <2>1. done.answer # "done" /\ done.row = row
    BY <1>4 DEF UpdateRun, Missed, Answers
  <2>2. row' = row /\ acked' = acked BY <1>1, <2>1
  <2> QED BY <1>2, <2>2 DEF RowKept, DecisionsHold
<1> QED BY <1>3, <1>4

(* A default that is set is merged into what is there when it is written.  *)
LEMMA SetDefaultKeeps ==
  ASSUME RowKept, NEW key \in DOMAIN NoDefaults, NEW model \in Models, SetDefault(key, model)
  PROVE RowKept'
<1> DEFINE new == [k \in {key} |-> model]
<1>1. row # Gone BY DEF SetDefault
<1>2. key \in {"llm", "tts"} BY DEF NoDefaults
<1>3. RowShape(row) /\ row.defaults = acked.defaults BY <1>1 DEF RowKept
<1>4. CASE row.home = Home
  <2>1. MergeDefaults(row, Home, new) = WithDefaults(row, new) BY <1>1, <1>4 DEF MergeDefaults
  <2>2. /\ row' = [row EXCEPT !.defaults = Merged(@, new), !.version = @ + 1]
        /\ acked' = [acked EXCEPT !.defaults[key] = model] /\ call' = call
    BY <2>1 DEF SetDefault, WithDefaults, Answers
  <2>3. Merged(row.defaults, new) = [row.defaults EXCEPT ![key] = model]
    BY <1>2, <1>3 DEF Merged, RowShape, Defaults
  <2>4. Merged(row.defaults, new) \in Defaults BY <1>2, <1>3, <2>3 DEF RowShape, Defaults
  <2>5. /\ RowShape(row') /\ row'.defaults = Merged(row.defaults, new)
        /\ row'.version = row.version + 1
    BY <1>3, <2>2, <2>4 DEF RowShape, Columns
  <2>6. /\ DOMAIN acked' = {"defaults", "versions"} /\ acked'.versions = acked.versions
        /\ acked'.defaults = [acked.defaults EXCEPT ![key] = model]
    BY <2>2 DEF RowKept
  <2>7. row'.defaults = acked'.defaults /\ acked'.defaults \in Defaults
    BY <1>3, <2>3, <2>4, <2>5, <2>6
  <2>8. \A a \in acked.versions : a[2] < row'.version
    BY <1>1, <1>3, <2>5 DEF RowKept, RowShape
  <2> QED BY <2>2, <2>5, <2>6, <2>7, <2>8 DEF RowKept, DecisionsHold
<1> QED BY <1>3, <1>4 DEF RowShape

(* The row goes with the version it had.                                   *)
LEMMA DeleteKeeps ==
  ASSUME RowKept, Delete
  PROVE RowKept'
<1>1. row # Gone /\ RowShape(row) BY DEF Delete, RowKept
<1>2. CASE row.home = Home
  <2>1. row' = Gone /\ call' = call
        /\ acked' = [acked EXCEPT !.versions = @ \cup {<<"deleted", row.version>>}]
    BY <1>1, <1>2 DEF Delete, DeleteRow, Answers
  <2>2. /\ DOMAIN acked' = {"defaults", "versions"} /\ acked'.defaults = acked.defaults
        /\ acked'.versions = acked.versions \cup {<<"deleted", row.version>>}
    BY <2>1 DEF RowKept
  <2>3. \A a, b \in acked'.versions : a[2] = b[2] => a = b \/ "deleted" \in {a[1], b[1]}
    BY <2>2 DEF RowKept, DecisionsHold
  <2>4. \A a \in acked'.versions : a[2] \in Nat BY <1>1, <2>2 DEF RowKept, RowShape
  <2> QED BY <2>1, <2>2, <2>3, <2>4 DEF RowKept, DecisionsHold
<1> QED BY <1>1, <1>2 DEF RowShape

(* So every step keeps the defaults and the decisions.                     *)
LEMMA RowsStepKeeps ==
  ASSUME RowKept, RowsNext
  PROVE RowKept'
<1>1. CASE Create
  <2>1. /\ row = Gone /\ acked.versions = {} /\ acked.defaults = NoDefaults
        /\ call' = call /\ acked' = acked /\ row' \in {NewRow, row}
    BY <1>1 DEF Create, CreateRun
  <2>2. RowShape(NewRow) /\ NewRow.defaults = NoDefaults
    BY DEF RowShape, NewRow, Columns, Defaults, NoDefaults
  <2> QED BY <2>1, <2>2 DEF RowKept, DecisionsHold
<1>2. CASE Cancel
  <2>1. row' = row \/ row' = Updated(row, [status |-> "cancelled"])
    BY <1>2 DEF Cancel, UpdateRun, Missed, Answers
  <2> QED BY <1>2, <2>1, BlindWriteKeeps DEF Cancel
<1>3. CASE GoBackOnce
  <2>1. row' = row \/ row' = Updated(row, [stage |-> StageBack[row.stage]])
    BY <1>3 DEF GoBackOnce, ConditionalUpdate, Missed, Answers
  <2> QED BY <1>3, <2>1, BlindWriteKeeps DEF GoBackOnce
<1>4. CASE TaskMovesOn
  <2>1. row' = row \/ row' = Updated(row, [stage |-> "SCRIPT_REVIEW", status |-> "paused"])
    BY <1>4 DEF TaskMovesOn, ConditionalUpdate, Missed, Answers
  <2> QED BY <1>4, <2>1, BlindWriteKeeps DEF TaskMovesOn
<1>5. ASSUME NEW u \in Users, NEW op \in Versioned, NEW target \in Targets, Decide(u, op, target)
      PROVE RowKept'
  <2>1. row # Gone /\ row' = row /\ acked' = acked
        /\ call' = [call EXCEPT ![u] = [op |-> op, changes |-> Changes(op, row, target),
                                        version |-> row.version]]
    BY <1>5 DEF Decide
  <2>2. row.version \in Nat BY <2>1 DEF RowKept, RowShape
  <2>3. DOMAIN call' = Users /\ \A w \in Users : call'[w].version \in Nat
    BY <2>1, <2>2 DEF RowKept
  <2> QED BY <2>1, <2>3 DEF RowKept, DecisionsHold
<1> QED BY <1>1, <1>2, <1>3, <1>4, <1>5, WriteKeeps, SetDefaultKeeps, DeleteKeeps DEF RowsNext

(* The double answers as Postgres does whatever row it has.                *)
LEMMA RunDoublesAgree == RunTwinsAgree
<1>1. CreateRun(Gone, project) = MemoryCreateRun(Gone, project)
  BY DEF CreateRun, MemoryCreateRun
<1>2. \A home : DeleteRow(row, home) = MemoryDeleteRow(row, home)
  BY DEF DeleteRow, MemoryDeleteRow
<1>3. \A home, changes : \A version \in -1 .. LastVersion :
        UpdateRun(row, home, changes, version) = MemoryUpdateRun(row, home, changes, version)
  BY DEF UpdateRun, MemoryUpdateRun, Matches, Missed
<1>4. \A home, changes, stages, rejected :
        ConditionalUpdate(row, home, changes, stages, rejected)
          = MemoryConditionalUpdate(row, home, changes, stages, rejected)
  BY DEF ConditionalUpdate, MemoryConditionalUpdate, Missed
<1>5. \A home, new : MergeDefaults(row, home, new) = MemoryMergeDefaults(row, home, new)
  BY DEF MergeDefaults, MemoryMergeDefaults
<1> QED BY <1>1, <1>2, <1>3, <1>4, <1>5 DEF RunTwinsAgree

-----------------------------------------------------------------------------
(* The row of a task. *)

TaskColumns ==
  {"status", "attempt", "token", "code", "message", "created", "started", "finished", "gen"}

(* A running row has its clock, and a claimed cleanup remembers the marker *)
(* it came from and has one too.                                           *)
RowFound(r) ==
  /\ DOMAIN r = TaskColumns
  /\ r.status = "running" => r.started # None
  /\ r.status = "failed" /\ r.code = "cleanup_claimed" => r.finished # None /\ r.message \in Markers
TaskFound(s) == DOMAIN s = {"row", "newer", "epoch", "dirty", "run"} /\ RowFound(s.row)
TrackingKept == TaskFound(tracked)

(* Such a row is in a listing once its clock has run.                      *)
LEMMA TrackingKeptSuffices ==
  ASSUME TrackingKept
  PROVE UnfinishedIsFound
<1> DEFINE r == tracked.row
           old == [r EXCEPT !.created = "old", !.started = IF @ = None THEN @ ELSE "old",
                            !.finished = IF @ = None THEN @ ELSE "old"]
<1>1. RowFound(r) BY DEF TrackingKept, TaskFound
<1>2. /\ old.status = r.status /\ old.code = r.code /\ old.created = "old"
      /\ r.started # None => old.started = "old"
      /\ r.finished # None => old.finished = "old"
  BY <1>1 DEF RowFound, TaskColumns
<1>3. /\ r.status = "pending" => StalePending(old)
      /\ r.status = "running" => Stuck(old)
      /\ r.status = "failed" /\ r.code \in Markers \cup {"cleanup_claimed"} =>
           /\ ReconciliationPending(old)
           /\ r.code = "cleanup_claimed" => r.message \in Markers
  BY <1>1, <1>2 DEF RowFound, StalePending, Stuck, ReconciliationPending
<1> QED BY <1>3 DEF UnfinishedIsFound

(* A statement that touches the row leaves the row it says, or nothing.    *)
LEMMA WhenFound ==
  ASSUME NEW s, TaskFound(s), NEW guard, NEW r, guard => RowFound(r)
  PROVE TaskFound(When(guard, s, r).s)
BY DEF When, Sets, Misses, Does, TaskFound

(* So does one that sets columns of the row.                               *)
LEMMA SetsFound ==
  ASSUME NEW s, TaskFound(s), NEW r, RowFound(r)
  PROVE TaskFound(Sets(s, r).s)
BY DEF Sets, Does, TaskFound

(* The row of a new task, and what the upsert and the end of a task make   *)
(* of one.                                                                 *)
LEMMA CreatedFound ==
  ASSUME NEW s, TaskFound(s), NEW status \in {"pending", "queued", "running"}, NEW token, NEW gen
  PROVE TaskFound(CreateTask("postgres", s, status, token, gen).s)
<1> DEFINE new == [NoTask EXCEPT !.status = status, !.attempt = 1, !.token = token, !.gen = gen,
                            !.created = "fresh",
                            !.started = IF status = "running" THEN "fresh" ELSE None]
           up == Upserted("postgres", s.row, status, token, gen)
           guard == s.row.status \notin {"success", "running"} /\ s.row.code \notin Untouchable
<1>1. RowFound(new) BY DEF NoTask, RowFound, TaskColumns, None
<1>2. RowFound(s.row) BY DEF TaskFound
<1>3. /\ DOMAIN up = TaskColumns /\ up.status = status
      /\ status = "running" => up.started = "fresh"
  BY <1>2 DEF Upserted, RowFound, TaskColumns
<1>4. RowFound(up) BY <1>3 DEF RowFound, None
<1> HIDE DEF new, up
<1>5. TaskFound(Sets(s, new).s) BY <1>1, SetsFound
<1>6. TaskFound(When(guard, s, up).s) BY <1>4, WhenFound
<1> QED BY <1>5, <1>6 DEF CreateTask, new, up

(* A row with new clocks is still one that is found.                       *)
LEMMA StampedFound ==
  ASSUME NEW r, RowFound(r), NEW status, NEW code, NEW message, code # "cleanup_claimed"
  PROVE RowFound(Stamped(r, status, code, message))
BY DEF RowFound, Stamped, Timed, TaskColumns, None

(* So is a row that ended.                                                 *)
LEMMA EndedFound ==
  ASSUME NEW r, RowFound(r), NEW status, NEW code, code # "cleanup_claimed"
  PROVE RowFound(Ended(r, status, code))
<1>1. RowFound(Stamped(r, status, code, code)) BY StampedFound
<1> QED BY <1>1 DEF Ended, RowFound, TaskColumns

(* The statements of dispatch.                                             *)
LEMMA DispatchFound ==
  ASSUME TrackingKept,
         \/ RecordTransition \/ RecordPending \/ PromoteToQueued \/ RecordQueued \/ RecordStart
  PROVE TrackingKept'
<1>1. TaskFound(tracked) /\ RowFound(tracked.row) BY DEF TrackingKept, TaskFound
<1>2. CASE RecordTransition
  <2>1. PICK g \in {0} \cup Generations :
          tracked' = TransitionAndCreate("postgres", tracked, g).s
    BY <1>2 DEF RecordTransition, Goes
  <2> DEFINE moved == [tracked EXCEPT !.run.stage = Generating]
             made == CreateTask("postgres", moved, "pending", None, g)
  <2>2. TaskFound(moved) BY <1>1 DEF TaskFound
  <2>3. TaskFound(made.s) BY <2>2, CreatedFound
  <2> HIDE DEF made
  <2>4. tracked' = tracked \/ tracked' = made.s
    BY <2>1 DEF TransitionAndCreate, Misses, Does, made
  <2> QED BY <1>1, <2>3, <2>4 DEF TrackingKept
<1>3. CASE RecordPending
  <2>1. PICK g \in Generations :
          tracked' = CreateTask("postgres", tracked, "pending", None, g).s
    BY <1>3 DEF RecordPending, Goes
  <2> QED BY <1>1, <2>1, CreatedFound DEF TrackingKept
<1>4. CASE PromoteToQueued
  <2>1. tracked' = Promote(tracked).s BY <1>4 DEF PromoteToQueued, Goes
  <2>2. RowFound([tracked.row EXCEPT !.status = "queued"])
    BY <1>1 DEF RowFound, TaskColumns
  <2>3. TaskFound(Promote(tracked).s) BY <1>1, <2>2, WhenFound DEF Promote
  <2> QED BY <2>1, <2>3 DEF TrackingKept
<1>5. CASE RecordQueued
  <2>1. tracked' = CreateTask("postgres", tracked, "queued", None, 0).s
    BY <1>5 DEF RecordQueued, Goes
  <2> QED BY <1>1, <2>1, CreatedFound DEF TrackingKept
<1>6. CASE RecordStart
  <2>1. PICK c \in Claims :
          \/ tracked' = CreateTask("postgres", tracked, "running", c, 0).s
          \/ tracked' = ClaimRunning(tracked, tracked.row.token, c).s
    BY <1>6 DEF RecordStart, Goes
  <2>2. TaskFound(CreateTask("postgres", tracked, "running", c, 0).s) BY <1>1, CreatedFound
  <2>3. RowFound([tracked.row EXCEPT !.status = "running", !.token = c, !.started = "fresh",
                                     !.finished = None, !.code = None, !.message = None])
    BY <1>1 DEF RowFound, TaskColumns, None
  <2>4. TaskFound(ClaimRunning(tracked, tracked.row.token, c).s)
    BY <1>1, <2>3, WhenFound DEF ClaimRunning
  <2> QED BY <2>1, <2>2, <2>4 DEF TrackingKept
<1> QED BY <1>2, <1>3, <1>4, <1>5, <1>6

(* The statements that end a task.                                         *)
LEMMA EndFound ==
  ASSUME TrackingKept, EndClaimed \/ Mark
  PROVE TrackingKept'
<1>1. TaskFound(tracked) /\ RowFound(tracked.row) BY DEF TrackingKept, TaskFound
<1>2. CASE EndClaimed
  <2>1. PICK c \in Claims :
          \/ tracked' = FinishIfClaimed(tracked, c, "success", None).s
          \/ tracked' = FinishIfClaimed(tracked, c, "failed", "error").s
          \/ tracked' = FinishIfClaimed(tracked, c, "rejected", "rejected").s
          \/ tracked' = FinishClaimedRun(tracked, c).s
          \/ tracked' = FailClaimed(tracked, c).s
    BY <1>2 DEF EndClaimed, Goes
  <2>2. ASSUME NEW status, NEW code \in {None, "error", "rejected"}
        PROVE TaskFound(FinishIfClaimed(tracked, c, status, code).s)
    <3>1. code # "cleanup_claimed" BY DEF None
    <3>2. RowFound(Ended(tracked.row, status, code)) BY <1>1, <3>1, EndedFound
    <3> QED BY <1>1, <3>2, WhenFound DEF FinishIfClaimed
  <2>3. TaskFound(FinishClaimedRun(tracked, c).s)
    <3>1. RowFound(Ended(tracked.row, "success", None)) BY <1>1, EndedFound DEF None
    <3>2. \A st : TaskFound([tracked EXCEPT !.row = Ended(@, "success", None), !.run.stage = st])
      BY <1>1, <3>1 DEF TaskFound
    <3> QED BY <1>1, <3>2 DEF FinishClaimedRun, Misses, Does
  <2>4. TaskFound(FailClaimed(tracked, c).s)
    <3>1. RowFound(Ended(tracked.row, "failed", "error")) BY <1>1, EndedFound
    <3>2. TaskFound(RunFails(tracked)) BY <1>1 DEF RunFails, TaskFound
    <3>3. TaskFound(Sets(RunFails(tracked), Ended(tracked.row, "failed", "error")).s)
      BY <3>1, <3>2, SetsFound
    <3> QED BY <1>1, <3>3 DEF FailClaimed, Misses, Does
  <2> QED BY <2>1, <2>2, <2>3, <2>4 DEF TrackingKept
<1>3. CASE Mark
  <2>1. PICK status \in {"running", "success", "failed", "revoked", "rejected"} :
          tracked' = UpdateStatus("postgres", tracked, status,
                            CASE status = "failed" -> "error" [] status = "rejected" -> "rejected"
                              [] OTHER -> None).s
    BY <1>3 DEF Mark, Goes
  <2> DEFINE code == CASE status = "failed" -> "error" [] status = "rejected" -> "rejected"
                              [] OTHER -> None
  <2>2. code # "cleanup_claimed" BY DEF None
  <2> HIDE DEF code
  <2>3. RowFound(Stamped(tracked.row, status, code, code)) BY <1>1, <2>2, StampedFound
  <2>4. TaskFound(UpdateStatus("postgres", tracked, status, code).s)
    BY <1>1, <2>3, WhenFound DEF UpdateStatus
  <2> QED BY <2>1, <2>4 DEF TrackingKept, code
<1> QED BY <1>2, <1>3

(* The passes: what they list and mark, and how they hold a cleanup.       *)
LEMMA PassFound ==
  ASSUME TrackingKept, MarkListed \/ CleanListed \/ RollbackRun
  PROVE TrackingKept'
<1>1. TaskFound(tracked) /\ RowFound(tracked.row) BY DEF TrackingKept, TaskFound
<1>2. CASE MarkListed
  <2>1. \/ tracked' = UpdateIf(tracked, "pending", "failed", "pending_cleanup").s
        \/ tracked' = UpdateIf(tracked, "running", "failed", "stuck_cleanup").s
        \/ tracked' = UpdateIfActive(tracked, "recovery_cleanup").s
    BY <1>2 DEF MarkListed, Goes
  <2>2. ASSUME NEW found, NEW status, NEW code \in {"pending_cleanup", "stuck_cleanup"}
        PROVE TaskFound(UpdateIf(tracked, found, status, code).s)
    <3>1. RowFound(Stamped(tracked.row, status, code, code)) BY <1>1, StampedFound
    <3> QED BY <1>1, <3>1, WhenFound DEF UpdateIf
  <2>3. TaskFound(UpdateIfActive(tracked, "recovery_cleanup").s)
    <3>1. RowFound(Ended(tracked.row, "failed", "recovery_cleanup")) BY <1>1, EndedFound
    <3> QED BY <1>1, <3>1, WhenFound DEF UpdateIfActive, Ended
  <2> QED BY <2>1, <2>2, <2>3 DEF TrackingKept
<1>3. CASE CleanListed
  <2>1. PICK l \in Leases :
          \/ tracked' = ClaimReconciliation(tracked, l).s
          \/ tracked' = FinishReconciliation(tracked, l).s
          \/ tracked' = ReleaseReconciliation(tracked, l).s
    BY <1>3 DEF CleanListed, Goes
  <2>2. TaskFound(ClaimReconciliation(tracked, l).s)
    <3> DEFINE guard == /\ tracked.row.status = "failed"
                        /\ \/ tracked.row.code \in Markers
                           \/ tracked.row.code = "cleanup_claimed" /\ tracked.row.finished = "old"
               r == [tracked.row EXCEPT
                      !.message = IF tracked.row.code = "cleanup_claimed" THEN @ ELSE tracked.row.code,
                      !.code = "cleanup_claimed", !.token = l, !.finished = "fresh"]
    <3>1. guard => RowFound(r) BY <1>1 DEF RowFound, TaskColumns, None
    <3> HIDE DEF guard, r
    <3>2. TaskFound(When(guard, tracked, r).s) BY <1>1, <3>1, WhenFound
    <3> QED BY <3>2 DEF ClaimReconciliation, guard, r
  <2>3. TaskFound(FinishReconciliation(tracked, l).s)
    <3>1. RowFound([tracked.row EXCEPT !.code = "rollback", !.message = "rollback", !.token = None])
      BY <1>1 DEF RowFound, TaskColumns
    <3> QED BY <1>1, <3>1, WhenFound DEF FinishReconciliation
  <2>4. TaskFound(ReleaseReconciliation(tracked, l).s)
    <3> DEFINE guard == Leased(tracked, l) /\ tracked.row.message \in Markers
               r == [tracked.row EXCEPT !.code = tracked.row.message, !.message = "retry",
                                        !.token = None]
    <3>1. guard => RowFound(r) BY <1>1 DEF RowFound, TaskColumns, Markers
    <3> HIDE DEF guard, r
    <3>2. TaskFound(When(guard, tracked, r).s) BY <1>1, <3>1, WhenFound
    <3> QED BY <3>2 DEF ReleaseReconciliation, guard, r
  <2> QED BY <2>1, <2>2, <2>3, <2>4 DEF TrackingKept
<1>4. CASE RollbackRun
  <2>1. tracked' = RollbackIfOwner(tracked).s BY <1>4 DEF RollbackRun, Goes
  <2>2. TaskFound(RunFails(tracked)) BY <1>1 DEF RunFails, TaskFound
  <2> QED BY <1>1, <2>1, <2>2 DEF RollbackIfOwner, Does, Misses, TrackingKept
<1> QED BY <1>2, <1>3, <1>4

(* Generations of the broker, and the passing of time.                     *)
LEMMA EpochFound ==
  ASSUME TrackingKept, ObserveEpoch \/ CleanGeneration \/ TimePasses \/ ReadListing
  PROVE TrackingKept'
<1>1. TaskFound(tracked) /\ RowFound(tracked.row) BY DEF TrackingKept, TaskFound
<1>2. CASE ObserveEpoch
  <2>1. PICK g, active :
          tracked' = SetEpoch(tracked, g, tracked.epoch, active).s
    BY <1>2 DEF ObserveEpoch, Goes
  <2>2. \A n : TaskFound([tracked EXCEPT !.epoch = g, !.row.gen = n])
    BY <1>1 DEF TaskFound, RowFound, TaskColumns
  <2>3. \A n : TaskFound([tracked EXCEPT !.epoch = g, !.dirty = n])
    BY <1>1 DEF TaskFound
  <2> QED BY <1>1, <2>1, <2>2, <2>3 DEF SetEpoch, Does, Misses, TrackingKept
<1>3. CASE CleanGeneration
  <2>1. PICK g \in Generations : tracked' = CompleteCleanup("postgres", tracked, g).s
    BY <1>3 DEF CleanGeneration, Goes
  <2>2. TaskFound([tracked EXCEPT !.dirty = @ \ {g}]) BY <1>1 DEF TaskFound
  <2> QED BY <1>1, <2>1, <2>2 DEF CompleteCleanup, Does, Misses, TrackingKept
<1>4. CASE TimePasses
  <2> DEFINE Older(age) == IF age = "fresh" THEN "old" ELSE age
  <2>1. tracked' = [tracked EXCEPT !.row.created = Older(@), !.row.started = Older(@),
                                   !.row.finished = Older(@)]
    BY <1>4 DEF TimePasses
  <2>2. DOMAIN tracked' = DOMAIN tracked BY <2>1
  <2>3. /\ DOMAIN tracked'.row = TaskColumns /\ tracked'.row.status = tracked.row.status
        /\ tracked'.row.code = tracked.row.code /\ tracked'.row.message = tracked.row.message
        /\ tracked'.row.started = Older(tracked.row.started)
        /\ tracked'.row.finished = Older(tracked.row.finished)
    BY <1>1, <2>1 DEF TaskFound, RowFound, TaskColumns
  <2>4. RowFound(tracked'.row) BY <1>1, <2>3 DEF RowFound, None
  <2> QED BY <1>1, <2>2, <2>4 DEF TrackingKept, TaskFound
<1>5. CASE ReadListing BY <1>1, <1>5 DEF ReadListing, TrackingKept
<1> QED BY <1>2, <1>3, <1>4, <1>5

(* So every step leaves the row where a listing finds it.                  *)
LEMMA TrackingStepKeeps == ASSUME TrackingKept, TrackingNext PROVE TrackingKept'
BY DispatchFound, EndFound, PassFound, EpochFound DEF TrackingNext

(* At the start there is no row.                                           *)
LEMMA TrackingInitKeeps == ASSUME TrackingInit PROVE TrackingKept
BY DEF TrackingInit, TrackingKept, TaskFound, RowFound, TaskColumns, NoTask, None

(* The double's statements leave what those of Postgres leave, but for the *)
(* attempts TrackingTwinsAgree excepts.                                    *)
LEMMA TrackingDoublesAgree == TrackingTwinsAgree
<1>1. \A s, token, gen : \A status \in {"pending", "running"} :
        CreateTask("postgres", s, status, token, gen) = CreateTask("memory", s, status, token, gen)
  <2> TAKE s, token, gen
  <2> TAKE status \in {"pending", "running"}
  <2>1. status # "queued" OBVIOUS
  <2>2. Upserted("postgres", s.row, status, token, gen) = Upserted("memory", s.row, status, token, gen)
    BY <2>1, Zenon DEF Upserted
  <2> QED BY <2>2 DEF CreateTask
<1>2. tracked.row.status \in {None, "failed"} =>
        CreateTask("postgres", tracked, "queued", None, 0)
          = CreateTask("memory", tracked, "queued", None, 0)
  BY DEF CreateTask, Upserted, None
<1>3. \A g : tracked.row.status = None =>
        TransitionAndCreate("postgres", tracked, g) = TransitionAndCreate("memory", tracked, g)
  BY <1>1 DEF TransitionAndCreate
<1>4. \A g : CompleteCleanup("postgres", tracked, g).s = CompleteCleanup("memory", tracked, g).s
  BY DEF CompleteCleanup, Does, Misses
<1>5. tracked.row.status # "running" =>
        UpdateStatus("postgres", tracked, "running", None)
          = UpdateStatus("memory", tracked, "running", None)
  BY DEF UpdateStatus
<1> QED BY <1>1, <1>2, <1>3, <1>4, <1>5 DEF TrackingTwinsAgree, SameAnswer

-----------------------------------------------------------------------------
(* The stores of artifacts. *)

OnePerKey(rows) == \A a, b \in rows : a.key = b.key => a = b

(* The double has nothing Postgres has not, and knows every key it ever    *)
(* saw; what was answered last is the same unless a key was used again.    *)
StoresKept ==
  /\ shelf \subseteq table /\ shelf \subseteq known
  /\ OnePerKey(table) /\ OnePerKey(known)
  /\ \A a \in table : Keyed(known, a.key) # {}
  /\ \A a \in saving : DOMAIN a = {"key", "kind", "sec", "at"}
  /\ Reborn = {} => answered[1] = answered[2]

(* So the stores agree.                                                    *)
LEMMA StoresKeptSuffices ==
  ASSUME StoresKept
  PROVE StoresAgree
<1> SUFFICES ASSUME Reborn = {}
             PROVE /\ answered[1] = answered[2] /\ Reads(table) = Reads(shelf)
                   /\ \A a \in known : Keyed(shelf, a.key) # {} => GetById(table, a)
  BY DEF StoresAgree
<1>1. table = shelf BY DEF Reborn, StoresKept
<1>2. \A a \in known : Keyed(shelf, a.key) # {} => a \in table
  BY <1>1 DEF Keyed, StoresKept, OnePerKey
<1> QED BY <1>1, <1>2 DEF StoresKept, GetById

(* At the start both are empty.                                            *)
LEMMA StoresInitKeeps == ASSUME StoresInit PROVE StoresKept
BY DEF StoresInit, StoresKept, OnePerKey, Keyed

(* Without a key that is used again both stores know the row of a key.     *)
LEMMA SameRow ==
  ASSUME StoresKept, Reborn = {}, NEW key, Keyed(table, key) # {}
  PROVE Keyed(table, key) = Keyed(known, key)
BY DEF StoresKept, Reborn, Keyed, OnePerKey

(* The first look-up answers for both, or finds nothing in either.         *)
LEMMA BeginSaveKeeps ==
  ASSUME StoresKept, NEW key, NEW sec, BeginSave(key, sec)
  PROVE StoresKept'
<1> DEFINE a == Artifact(key, sec, begun + 1)
<1>1. DOMAIN a = {"key", "kind", "sec", "at"} /\ a.key = key BY DEF Artifact
<1>2. CASE Keyed(table, key) = {}
  <2>1. saving' = saving \cup {a} /\ UNCHANGED <<table, shelf, known, answered>>
    BY <1>2 DEF BeginSave
  <2> HIDE DEF a
  <2>2. Reborn' = Reborn BY <2>1 DEF Reborn
  <2> QED BY <1>1, <2>1, <2>2 DEF StoresKept, Keyed, OnePerKey
<1>3. CASE Keyed(table, key) # {}
  <2>1. /\ answered' = <<Keyed(table, key), DoubleAnswers(a)>>
        /\ DoubleSaves(a) /\ UNCHANGED <<table, saving>>
    BY <1>3 DEF BeginSave
  <2> HIDE DEF a
  <2>2. Keyed(known, key) # {} BY <1>3 DEF StoresKept, Keyed
  <2>3. /\ answered' = <<Keyed(table, key), Keyed(known, key)>>
        /\ UNCHANGED <<shelf, known>>
    BY <1>1, <2>1, <2>2 DEF DoubleAnswers, DoubleSaves
  <2>4. Reborn' = Reborn BY <2>1, <2>3 DEF Reborn
  <2>5. Reborn' = {} => answered'[1] = answered'[2]
    BY <1>3, <2>3, <2>4, SameRow
  <2> QED BY <2>1, <2>3, <2>5 DEF StoresKept, Keyed, OnePerKey
<1> QED BY <1>2, <1>3

(* The insert leaves the same row in both, or finds that of the key.       *)
LEMMA InsertKeeps ==
  ASSUME StoresKept, NEW a \in saving, Insert(a)
  PROVE StoresKept'
<1>1. PICK n : n = 1 + Max({b.at : b \in table \cup known} \cup {0}) OBVIOUS
<1>2. PICK new : new = [a EXCEPT !.at = n] OBVIOUS
<1>3. /\ saving' = saving \ {a} /\ table' = InsertUnlessKnown(new)
      /\ answered' = <<Keyed(table', a.key), DoubleAnswers(new)>> /\ DoubleSaves(new)
  BY <1>1, <1>2 DEF Insert
<1>4. new.key = a.key /\ DOMAIN new = {"key", "kind", "sec", "at"}
  BY <1>2 DEF StoresKept
<1>5. CASE Keyed(table, a.key) # {}
  <2>1. Keyed(known, a.key) # {} BY <1>5 DEF StoresKept, Keyed
  <2>2. /\ UNCHANGED <<table, shelf, known>>
        /\ answered' = <<Keyed(table, a.key), Keyed(known, a.key)>>
    BY <1>3, <1>4, <1>5, <2>1 DEF InsertUnlessKnown, DoubleSaves, DoubleAnswers
  <2>3. Reborn' = Reborn BY <2>2 DEF Reborn
  <2>4. Reborn' = {} => answered'[1] = answered'[2] BY <1>5, <2>2, <2>3, SameRow
  <2> QED BY <1>3, <2>2, <2>4 DEF StoresKept, Keyed, OnePerKey
<1>6. CASE Keyed(table, a.key) = {} /\ Keyed(known, a.key) = {}
  <2>1. /\ table' = table \cup {new} /\ shelf' = shelf \cup {new} /\ known' = known \cup {new}
    BY <1>3, <1>4, <1>6 DEF InsertUnlessKnown, DoubleSaves
  <2>2. Keyed(table', a.key) = {new} BY <1>4, <1>6, <2>1 DEF Keyed
  <2>3. answered' = <<{new}, {new}>> BY <1>3, <1>4, <1>6, <2>2 DEF DoubleAnswers
  <2>4. OnePerKey(table') /\ OnePerKey(known')
    BY <1>4, <1>6, <2>1 DEF OnePerKey, Keyed, StoresKept
  <2>5. \A b \in table' : Keyed(known', b.key) # {}
    BY <1>4, <2>1 DEF Keyed, StoresKept
  <2>6. shelf' \subseteq table' /\ shelf' \subseteq known' BY <2>1 DEF StoresKept
  <2>7. \A b \in saving' : DOMAIN b = {"key", "kind", "sec", "at"} BY <1>3 DEF StoresKept
  <2>8. answered'[1] = answered'[2] BY <2>3
  <2> QED BY <2>4, <2>5, <2>6, <2>7, <2>8 DEF StoresKept
<1>7. CASE Keyed(table, a.key) = {} /\ Keyed(known, a.key) # {}
  <2>1. table' = table \cup {new} /\ UNCHANGED <<shelf, known>>
    BY <1>3, <1>4, <1>7 DEF InsertUnlessKnown, DoubleSaves
  <2>2. new \notin shelf BY <1>4, <1>7 DEF Keyed, StoresKept
  <2>3. new \in Reborn' BY <2>1, <2>2 DEF Reborn
  <2>4. OnePerKey(table') BY <1>4, <1>7, <2>1 DEF OnePerKey, Keyed, StoresKept
  <2>5. \A b \in table' : Keyed(known', b.key) # {}
    BY <1>4, <1>7, <2>1 DEF Keyed, StoresKept
  <2> QED BY <1>3, <2>1, <2>3, <2>4, <2>5 DEF StoresKept
<1> QED BY <1>5, <1>6, <1>7

(* So every step keeps the stores alike.                                   *)
LEMMA StoresStepKeeps ==
  ASSUME StoresKept, StoresNext
  PROVE StoresKept'
<1>1. ASSUME NEW sec \in Paragraphs, DeleteSection(sec) PROVE StoresKept'
  <2>1. /\ table' = {a \in table : a.sec # sec} /\ shelf' = {a \in shelf : a.sec # sec}
        /\ answered' = <<{}, {}>> /\ UNCHANGED <<known, saving>>
    BY <1>1 DEF DeleteSection, WithoutSection
  <2> QED BY <2>1 DEF StoresKept, OnePerKey, Keyed
<1> QED BY <1>1, BeginSaveKeeps, InsertKeeps DEF StoresNext

-----------------------------------------------------------------------------
(* The stores of upload intents. *)

(* Sizes are numbers, of finitely many uploads.                            *)
IntentConstants == IsFiniteSet(Uploads) /\ \A u \in Uploads : Bytes[u] \in Nat

Active == Open \cup {"exhausted"}
IntentColumns == {"state", "reserved", "live", "token", "retries"}

(* Rows of the two stores agree but for the bytes of a settled intent.     *)
Pairs(i, j) ==
  /\ DOMAIN i = IntentColumns /\ DOMAIN j = IntentColumns
  /\ i.state = j.state /\ i.live = j.live /\ i.token = j.token /\ i.retries = j.retries
  /\ i.state \in Active \cup {"none", "reclaimed", "completed"}
  /\ i.reserved \in Nat /\ j.reserved \in Nat
  /\ i.state \in Active => i.reserved = j.reserved

TwinsKept ==
  ~late =>
    /\ replies["postgres"] = replies["memory"] /\ media["postgres"] = media["memory"]
    /\ \A t \in Stores : DOMAIN intents[t] = Uploads
    /\ \A u \in Uploads : Pairs(intents["postgres"][u], intents["memory"][u])

(* At the start both stores are empty.                                     *)
LEMMA TwinsInitKeeps == TwinsInit => TwinsKept
BY DEF TwinsInit, TwinsKept, Stores, Missing, Pairs, Active, Open, IntentColumns

(* New uploads are admitted by the same occupancy.                         *)
LEMMA SameOccupancy ==
  ASSUME IntentConstants, TwinsKept, ~late
  PROVE StorageUsage("postgres") = StorageUsage("memory")
<1> DEFINE A(t) == {u \in Uploads : intents[t][u].state \in Open \cup {"exhausted"}}
           F(t) == [u \in Uploads |-> intents[t][u].reserved]
           O(t) == {u \in A(t) : intents[t][u].reserved > 0}
<1>1. A("postgres") = A("memory") BY DEF TwinsKept, Pairs
<1>2. \A u \in A("postgres") : intents["postgres"][u].reserved = intents["memory"][u].reserved
  BY DEF TwinsKept, Pairs, Active
<1>3. \A u \in Uploads : intents["postgres"][u].reserved \in Nat BY DEF TwinsKept, Pairs
<1>4. O("postgres") = O("memory") BY <1>1, <1>2
<1>5. IsFiniteSet(A("postgres")) BY FS_Subset DEF IntentConstants
<1>6. Summable(F("postgres"), A("postgres")) BY <1>3, <1>5 DEF Summable
<1>7. \A u \in A("postgres") : F("postgres")[u] = F("memory")[u] BY <1>2
<1>8. media["postgres"] = media["memory"] BY DEF TwinsKept
<1> HIDE DEF A, F, O
<1>9. SumFunctionOnSet(F("postgres"), A("postgres")) = SumFunctionOnSet(F("memory"), A("postgres"))
  BY <1>6, <1>7, SumCongruence
<1>10. \A t : StorageUsage(t) =
         [storedBytes |-> SumFunctionOnSet(Bytes, media[t]), storedAssets |-> Cardinality(media[t]),
          reservedBytes |-> SumFunctionOnSet(F(t), A(t)), slotOwners |-> Cardinality(O(t))]
  BY DEF StorageUsage, A, F, O
<1> QED BY <1>1, <1>4, <1>8, <1>9, <1>10

(* So each statement answers the same and leaves the same rows.            *)
LEMMA TwinsKeptSuffices ==
  ASSUME IntentConstants, TwinsKept
  PROVE UploadTwinsAgree
<1> SUFFICES ASSUME ~late
             PROVE /\ replies["postgres"] = replies["memory"]
                   /\ StorageUsage("postgres") = StorageUsage("memory")
                   /\ GetAsset("postgres") = GetAsset("memory")
                   /\ \A u \in Uploads :
                        /\ AssetExistsForKey("postgres", u) = AssetExistsForKey("memory", u)
                        /\ [intents["postgres"][u] EXCEPT !.reserved = 0]
                             = [intents["memory"][u] EXCEPT !.reserved = 0]
  BY DEF UploadTwinsAgree
<1>1. media["postgres"] = media["memory"] /\ replies["postgres"] = replies["memory"]
  BY DEF TwinsKept
<1>2. ASSUME NEW u \in Uploads
      PROVE [intents["postgres"][u] EXCEPT !.reserved = 0]
              = [intents["memory"][u] EXCEPT !.reserved = 0]
  <2>1. Pairs(intents["postgres"][u], intents["memory"][u]) BY DEF TwinsKept
  <2>2. \A i, j : Pairs(i, j) => [i EXCEPT !.reserved = 0] = [j EXCEPT !.reserved = 0]
    BY DEF Pairs, IntentColumns
  <2> QED BY <2>1, <2>2
<1> QED BY <1>1, <1>2, SameOccupancy DEF GetAsset, AssetExistsForKey

(* A statement that leaves matching rows of an upload in both stores, and  *)
(* the same answers, keeps them alike.                                     *)
LEMMA OneChanges ==
  ASSUME TwinsKept, ~late, NEW u \in Uploads, NEW i, NEW j, Pairs(i, j),
         intents'["postgres"] = [intents["postgres"] EXCEPT ![u] = i],
         intents'["memory"] = [intents["memory"] EXCEPT ![u] = j],
         replies'["postgres"] = replies'["memory"], media'["postgres"] = media'["memory"]
  PROVE TwinsKept'
<1>1. \A t \in Stores : DOMAIN intents'[t] = Uploads BY DEF TwinsKept, Stores
<1>2. \A v \in Uploads : Pairs(intents'["postgres"][v], intents'["memory"][v])
  BY DEF TwinsKept, Stores
<1> QED BY <1>1, <1>2 DEF TwinsKept

(* What the upload's own statements do to a pair of rows.                  *)
LEMMA UploaderKeeps ==
  ASSUME IntentConstants, TwinsKept, ~late, NEW u \in Uploads,
         \/ MarkUploaded(u) \/ SaveUploaded(u) \/ LeaseRunsOut(u)
         \/ \E token : Complete(u, token)
         \/ \E flag \in BOOLEAN : Compensate(u, flag)
         \/ \E token : RecordReclaimed(u, token) \/ RecordCleanupFailure(u, token)
         \/ \E token : \E flag \in BOOLEAN : WatchForLateUpload(u, token, flag)
  PROVE TwinsKept'
<1> DEFINE p == intents["postgres"][u]
           m == intents["memory"][u]
<1>1. Pairs(p, m) BY DEF TwinsKept
<1>2. media["postgres"] = media["memory"] /\ replies["postgres"] = replies["memory"]
  BY DEF TwinsKept
<1>3. ASSUME MarkUploaded(u) PROVE TwinsKept'
  <2> DEFINE i == IF p.state = "pending" THEN [p EXCEPT !.state = "uploaded"] ELSE p
             j == IF m.state = "pending" THEN [m EXCEPT !.state = "uploaded"] ELSE m
  <2>1. /\ intents'["postgres"] = [intents["postgres"] EXCEPT ![u] = i]
        /\ intents'["memory"] = [intents["memory"] EXCEPT ![u] = j]
        /\ replies'["postgres"] = IF p.state = "pending" THEN "done" ELSE "refused"
        /\ replies'["memory"] = IF m.state = "pending" THEN "done" ELSE "refused"
    BY <1>3 DEF MarkUploaded, Both, Finds, Stores
  <2>2. media'["postgres"] = media'["memory"]
    BY <1>2, <1>3 DEF MarkUploaded, Elsewhere
  <2>3. Pairs(i, j) BY <1>1 DEF Pairs, IntentColumns, Active, Open
  <2>4. replies'["postgres"] = replies'["memory"] BY <1>1, <2>1 DEF Pairs
  <2> HIDE DEF i, j
  <2> QED BY <2>1, <2>2, <2>3, <2>4, OneChanges
<1>4. ASSUME SaveUploaded(u) PROVE TwinsKept'
  <2> DEFINE i == IF p.state = "uploaded" THEN [p EXCEPT !.state = "completed"] ELSE p
             j == IF m.state = "uploaded" THEN [m EXCEPT !.state = "completed"] ELSE m
  <2>1. /\ intents'["postgres"] = [intents["postgres"] EXCEPT ![u] = i]
        /\ intents'["memory"] = [intents["memory"] EXCEPT ![u] = j]
        /\ replies'["postgres"] = IF p.state = "uploaded" THEN "done" ELSE "refused"
        /\ replies'["memory"] = IF m.state = "uploaded" THEN "done" ELSE "refused"
    BY <1>4 DEF SaveUploaded, Both, Finds, Stores
  <2>2. media'["postgres"] = media'["memory"]
    BY <1>2, <1>4, <2>1, <1>1 DEF SaveUploaded, Stores, Pairs
  <2>3. Pairs(i, j) BY <1>1 DEF Pairs, IntentColumns, Active, Open
  <2>4. replies'["postgres"] = replies'["memory"] BY <1>1, <2>1 DEF Pairs
  <2> HIDE DEF i, j
  <2> QED BY <2>1, <2>2, <2>3, <2>4, OneChanges
<1>5. ASSUME NEW token, Complete(u, token) PROVE TwinsKept'
  <2> DEFINE i == IF (IF token = 0 THEN p.state = "uploaded" ELSE ClaimedBy(p, token)) THEN [p EXCEPT !.state = "completed"] ELSE p
             j == IF (IF token = 0 THEN m.state = "uploaded" ELSE ClaimedBy(m, token)) THEN [m EXCEPT !.state = "completed"] ELSE m
  <2>1. /\ intents'["postgres"] = [intents["postgres"] EXCEPT ![u] = i]
        /\ intents'["memory"] = [intents["memory"] EXCEPT ![u] = j]
        /\ replies'["postgres"] = IF (IF token = 0 THEN p.state = "uploaded" ELSE ClaimedBy(p, token)) THEN "done" ELSE "refused"
        /\ replies'["memory"] = IF (IF token = 0 THEN m.state = "uploaded" ELSE ClaimedBy(m, token)) THEN "done" ELSE "refused"
    BY <1>5 DEF Complete, Both, Finds, Stores
  <2>2. media'["postgres"] = media'["memory"]
    BY <1>2, <1>5 DEF Complete, Elsewhere
  <2>3. Pairs(i, j) BY <1>1 DEF Pairs, IntentColumns, Active, Open, ClaimedBy
  <2>4. replies'["postgres"] = replies'["memory"] BY <1>1, <2>1 DEF Pairs, ClaimedBy
  <2> HIDE DEF i, j
  <2> QED BY <2>1, <2>2, <2>3, <2>4, OneChanges
<1>6. ASSUME NEW token, RecordReclaimed(u, token) PROVE TwinsKept'
  <2> DEFINE i == IF ClaimedBy(p, token) THEN Reclaimed("postgres", p) ELSE p
             j == IF ClaimedBy(m, token) THEN Reclaimed("memory", m) ELSE m
  <2>1. /\ intents'["postgres"] = [intents["postgres"] EXCEPT ![u] = i]
        /\ intents'["memory"] = [intents["memory"] EXCEPT ![u] = j]
        /\ replies'["postgres"] = IF ClaimedBy(p, token) THEN "done" ELSE "refused"
        /\ replies'["memory"] = IF ClaimedBy(m, token) THEN "done" ELSE "refused"
    BY <1>6 DEF RecordReclaimed, Both, Finds, Stores
  <2>2. media'["postgres"] = media'["memory"]
    BY <1>2, <1>6 DEF RecordReclaimed, Elsewhere
  <2>3. Pairs(i, j) BY <1>1 DEF Pairs, IntentColumns, Active, Open, ClaimedBy, Reclaimed
  <2>4. replies'["postgres"] = replies'["memory"] BY <1>1, <2>1 DEF Pairs, ClaimedBy
  <2> HIDE DEF i, j
  <2> QED BY <2>1, <2>2, <2>3, <2>4, OneChanges
<1>7. ASSUME NEW token, RecordCleanupFailure(u, token) PROVE TwinsKept'
  <2> DEFINE i == IF ClaimedBy(p, token) THEN CleanupFailed(p) ELSE p
             j == IF ClaimedBy(m, token) THEN CleanupFailed(m) ELSE m
  <2>1. /\ intents'["postgres"] = [intents["postgres"] EXCEPT ![u] = i]
        /\ intents'["memory"] = [intents["memory"] EXCEPT ![u] = j]
        /\ replies'["postgres"] = IF ClaimedBy(p, token) THEN "done" ELSE "refused"
        /\ replies'["memory"] = IF ClaimedBy(m, token) THEN "done" ELSE "refused"
    BY <1>7 DEF RecordCleanupFailure, Both, Finds, Stores
  <2>2. media'["postgres"] = media'["memory"]
    BY <1>2, <1>7 DEF RecordCleanupFailure, Elsewhere
  <2>3. Pairs(i, j) BY <1>1 DEF Pairs, IntentColumns, Active, Open, ClaimedBy, CleanupFailed
  <2>4. replies'["postgres"] = replies'["memory"] BY <1>1, <2>1 DEF Pairs, ClaimedBy
  <2> HIDE DEF i, j
  <2> QED BY <2>1, <2>2, <2>3, <2>4, OneChanges
<1>8. ASSUME NEW token, NEW flag \in BOOLEAN, WatchForLateUpload(u, token, flag) PROVE TwinsKept'
  <2> DEFINE i == IF ClaimedBy(p, token) THEN Watched(p, flag) ELSE p
             j == IF ClaimedBy(m, token) THEN Watched(m, flag) ELSE m
  <2>1. /\ intents'["postgres"] = [intents["postgres"] EXCEPT ![u] = i]
        /\ intents'["memory"] = [intents["memory"] EXCEPT ![u] = j]
        /\ replies'["postgres"] = IF ClaimedBy(p, token) THEN "done" ELSE "refused"
        /\ replies'["memory"] = IF ClaimedBy(m, token) THEN "done" ELSE "refused"
    BY <1>8 DEF WatchForLateUpload, Both, Finds, Stores
  <2>2. media'["postgres"] = media'["memory"]
    BY <1>2, <1>8 DEF WatchForLateUpload, Elsewhere
  <2>3. Pairs(i, j) BY <1>1 DEF Pairs, IntentColumns, Active, Open, ClaimedBy, Watched
  <2>4. replies'["postgres"] = replies'["memory"] BY <1>1, <2>1 DEF Pairs, ClaimedBy
  <2> HIDE DEF i, j
  <2> QED BY <2>1, <2>2, <2>3, <2>4, OneChanges
<1>9. ASSUME NEW flag \in BOOLEAN, Compensate(u, flag) PROVE TwinsKept'
  <2> DEFINE i == Compensated("postgres", p, flag)
             j == Compensated("memory", m, flag)
  <2>1. /\ intents'["postgres"] = [intents["postgres"] EXCEPT ![u] = i]
        /\ intents'["memory"] = [intents["memory"] EXCEPT ![u] = j]
        /\ replies'["postgres"] = replies'["memory"] /\ p.state # "none"
    BY <1>9 DEF Compensate, Both, Finds, Stores
  <2>2. media'["postgres"] = media'["memory"] BY <1>2, <1>9 DEF Compensate
  <2>3. CASE late' BY <2>3 DEF TwinsKept
  <2>4. CASE ~late'
    <3>1. ~(flag /\ p.state \in {"reclaimed", "completed"}) BY <1>9, <2>4 DEF Compensate
    <3>2. Pairs(i, j)
      BY <1>1, <2>1, <3>1 DEF Pairs, IntentColumns, Active, Open, Compensated
    <3> HIDE DEF i, j
    <3> QED BY <2>1, <2>2, <3>2, OneChanges
  <2> QED BY <2>3, <2>4
<1>10. ASSUME LeaseRunsOut(u) PROVE TwinsKept'
  <2> DEFINE i == [p EXCEPT !.live = FALSE]
             j == [m EXCEPT !.live = FALSE]
  <2>1. /\ intents'["postgres"] = [intents["postgres"] EXCEPT ![u] = i]
        /\ intents'["memory"] = [intents["memory"] EXCEPT ![u] = j]
        /\ replies' = replies /\ media' = media
    BY <1>10 DEF LeaseRunsOut, Stores
  <2>2. Pairs(i, j) BY <1>1 DEF Pairs, IntentColumns, Active
  <2> HIDE DEF i, j
  <2> QED BY <1>2, <2>1, <2>2, OneChanges
<1> QED BY <1>3, <1>4, <1>5, <1>6, <1>7, <1>8, <1>9, <1>10

(* Both stores admit an upload or refuse it.                               *)
LEMMA CreateKeeps ==
  ASSUME IntentConstants, TwinsKept, ~late, NEW u \in Uploads, CreateUploadIntent(u)
  PROVE TwinsKept'
<1> DEFINE fits(t) == StorageUsage(t).storedBytes + StorageUsage(t).reservedBytes + Bytes[u]
                        <= MaxStored
           new == [Missing EXCEPT !.state = "pending", !.reserved = Bytes[u], !.live = TRUE]
<1>1. /\ intents' = [t \in Stores |-> IF fits(t) THEN [intents[t] EXCEPT ![u] = new] ELSE intents[t]]
      /\ replies' = [t \in Stores |-> IF fits(t) THEN "done" ELSE "budget"]
      /\ media' = media
  BY DEF CreateUploadIntent, Elsewhere
<1>2. Pairs(new, new)
  BY DEF IntentConstants, Missing, Pairs, IntentColumns, Active, Open
<1>3. fits("postgres") = fits("memory") BY SameOccupancy
<1> HIDE DEF fits, new
<1>4. media'["postgres"] = media'["memory"] BY <1>1 DEF TwinsKept
<1>5. replies'["postgres"] = replies'["memory"] BY <1>1, <1>3 DEF Stores
<1>6. CASE fits("postgres")
  <2>1. /\ intents'["postgres"] = [intents["postgres"] EXCEPT ![u] = new]
        /\ intents'["memory"] = [intents["memory"] EXCEPT ![u] = new]
    BY <1>1, <1>3, <1>6 DEF Stores
  <2> QED BY <1>2, <1>4, <1>5, <2>1, OneChanges
<1>7. CASE ~fits("postgres")
  <2>1. intents'["postgres"] = intents["postgres"] /\ intents'["memory"] = intents["memory"]
    BY <1>1, <1>3, <1>7 DEF Stores
  <2> QED BY <1>4, <1>5, <2>1 DEF TwinsKept, Stores
<1> QED BY <1>6, <1>7

(* A sweep claims the same rows of both stores, with the same tokens.      *)
LEMMA ClaimKeeps ==
  ASSUME TwinsKept, ~late, ClaimExpired
  PROVE TwinsKept'
<1> DEFINE expired(t) == {u \in Uploads : intents[t][u].state \in Open /\ ~intents[t][u].live}
           batch(t) == {u \in expired(t) : Cardinality({v \in expired(t) : v < u}) < BatchSize}
           token(t, u) == tokens + Cardinality({v \in batch(t) : v <= u})
<1>1. /\ intents' = [t \in Stores |-> [u \in Uploads |->
           IF u \in batch(t)
           THEN [intents[t][u] EXCEPT !.state = "reclaiming", !.live = TRUE, !.token = token(t, u)]
           ELSE intents[t][u]]]
      /\ replies' = [t \in Stores |-> [u \in batch(t) |-> intents[t][u].state]]
      /\ media' = media
  BY DEF ClaimExpired
<1>2. \A u \in Uploads : Pairs(intents["postgres"][u], intents["memory"][u])
  BY DEF TwinsKept
<1>3. expired("postgres") = expired("memory") BY <1>2 DEF Pairs
<1>4. batch("postgres") = batch("memory") BY <1>3
<1>5. \A u : token("postgres", u) = token("memory", u) BY <1>4
<1>6. \A u \in batch("postgres") : u \in Uploads /\ intents["postgres"][u].state \in Open
  OBVIOUS
<1> HIDE DEF expired, batch, token
<1>7. replies'["postgres"] = replies'["memory"]
  <2>1. \A u \in batch("postgres") : intents["postgres"][u].state = intents["memory"][u].state
    BY <1>2, <1>6 DEF Pairs
  <2>2. [u \in batch("postgres") |-> intents["postgres"][u].state]
          = [u \in batch("memory") |-> intents["memory"][u].state]
    BY <1>4, <2>1
  <2>3. /\ replies'["postgres"] = [u \in batch("postgres") |-> intents["postgres"][u].state]
        /\ replies'["memory"] = [u \in batch("memory") |-> intents["memory"][u].state]
    BY <1>1 DEF Stores
  <2> QED BY <2>2, <2>3
<1>8. \A t \in Stores : DOMAIN intents'[t] = Uploads BY <1>1
<1>9. ASSUME NEW u \in Uploads PROVE Pairs(intents'["postgres"][u], intents'["memory"][u])
  <2> DEFINE Claimed(t) == [intents[t][u] EXCEPT !.state = "reclaiming", !.live = TRUE,
                                                 !.token = token(t, u)]
  <2>1. \A t \in Stores : intents'[t][u] = IF u \in batch(t) THEN Claimed(t) ELSE intents[t][u]
    BY <1>1
  <2>2. Pairs(intents["postgres"][u], intents["memory"][u]) BY <1>2
  <2>3. CASE u \in batch("postgres")
    <3>1. Pairs(Claimed("postgres"), Claimed("memory"))
      BY <1>5, <1>6, <2>2, <2>3 DEF Pairs, IntentColumns, Active, Open
    <3> HIDE DEF Claimed
    <3>2. intents'["postgres"][u] = Claimed("postgres") /\ intents'["memory"][u] = Claimed("memory")
      BY <1>4, <2>1, <2>3 DEF Stores
    <3> QED BY <3>1, <3>2
  <2>4. CASE u \notin batch("postgres")
    <3>1. \A t \in Stores : intents'[t][u] = intents[t][u] BY <1>4, <2>1, <2>4 DEF Stores
    <3> QED BY <2>2, <3>1 DEF Stores
  <2> QED BY <2>3, <2>4
<1>10. media'["postgres"] = media'["memory"] BY <1>1 DEF TwinsKept
<1> QED BY <1>7, <1>8, <1>9, <1>10 DEF TwinsKept

(* Media rows go from both.                                                *)
LEMMA RetentionKeeps ==
  ASSUME TwinsKept, ~late, NEW u \in Uploads,
         \/ ClaimRetained(u)
         \/ \E token : ReleaseRetained(u, token) \/ FinalizeRetained(u, token)
  PROVE TwinsKept'
<1>1. replies' = replies /\ intents' = intents /\ late' = late
  BY DEF ClaimRetained, ReleaseRetained, FinalizeRetained
<1>2. media' = media \/ media' = [t \in Stores |-> media[t] \ {u}]
  BY DEF ClaimRetained, ReleaseRetained, FinalizeRetained
<1> QED BY <1>1, <1>2 DEF TwinsKept, Stores

(* So every step keeps the stores of intents alike.                        *)
LEMMA TwinsStepKeeps ==
  ASSUME IntentConstants, TwinsKept, TwinsNext
  PROVE TwinsKept'
<1>1. ~late BY DEF TwinsNext
<1>2. ClaimExpired \/ \E u \in Uploads :
        \/ CreateUploadIntent(u) \/ MarkUploaded(u) \/ SaveUploaded(u) \/ LeaseRunsOut(u)
        \/ ClaimRetained(u)
        \/ \E token : Complete(u, token)
        \/ \E flag \in BOOLEAN : Compensate(u, flag)
        \/ \E token : RecordReclaimed(u, token) \/ RecordCleanupFailure(u, token)
        \/ \E token : ReleaseRetained(u, token) \/ FinalizeRetained(u, token)
        \/ \E token : \E flag \in BOOLEAN : WatchForLateUpload(u, token, flag)
  BY DEF TwinsNext
<1>3. CASE ClaimExpired BY <1>1, <1>3, ClaimKeeps
<1>4. ASSUME NEW u \in Uploads, CreateUploadIntent(u) PROVE TwinsKept' BY <1>1, <1>4, CreateKeeps
<1>5. ASSUME NEW u \in Uploads,
             \/ ClaimRetained(u)
             \/ \E token : ReleaseRetained(u, token) \/ FinalizeRetained(u, token)
      PROVE TwinsKept'
  BY <1>1, <1>5, RetentionKeeps
<1>6. ASSUME NEW u \in Uploads,
             \/ MarkUploaded(u) \/ SaveUploaded(u) \/ LeaseRunsOut(u)
             \/ \E token : Complete(u, token)
             \/ \E flag \in BOOLEAN : Compensate(u, flag)
             \/ \E token : RecordReclaimed(u, token) \/ RecordCleanupFailure(u, token)
             \/ \E token : \E flag \in BOOLEAN : WatchForLateUpload(u, token, flag)
      PROVE TwinsKept'
  BY <1>1, <1>6, UploaderKeeps
<1> QED BY <1>2, <1>3, <1>4, <1>5, <1>6

-----------------------------------------------------------------------------
(* What follows for every behaviour of each of the parts. *)

(* An execution that ends in peace had the GPU from its acquisition to its *)
(* end, for any executions and any times at which the lock expires.        *)
THEOREM NormalEndsHeldTheGpu ==
  GpuConstants => (HostInit /\ [][GpuStep]_hostVars => []NormalEndHeldTheGpu)
<1> SUFFICES ASSUME GpuConstants PROVE HostInit /\ [][GpuStep]_hostVars => []NormalEndHeldTheGpu OBVIOUS
<1>1. HostInit => LockKept BY HostInitKeeps
<1>2. LockKept /\ [GpuStep]_hostVars => LockKept'
  <2> SUFFICES ASSUME LockKept, [GpuStep]_hostVars PROVE LockKept' OBVIOUS
  <2>1. CASE UNCHANGED hostVars BY <2>1 DEF hostVars, LockKept, NormalEndHeldTheGpu
  <2> QED BY <2>1, GpuStepKeeps
<1>3. LockKept => NormalEndHeldTheGpu BY Zenon DEF LockKept
<1> QED BY <1>1, <1>2, <1>3, PTL

(* Uploads that stage their bytes under a lease leave the watermark of the *)
(* disk free, for any uploads, processes, hosts and sizes.                 *)
THEOREM StagingKeepsTheWatermark ==
  StagingConstants => (HostInit /\ [][StagingStep]_hostVars => []StagingLeavesTheWatermark)
<1> SUFFICES ASSUME StagingConstants PROVE HostInit /\ [][StagingStep]_hostVars => []StagingLeavesTheWatermark OBVIOUS
<1>1. HostInit => SpaceKept BY StagingInitKeeps
<1>2. SpaceKept /\ [StagingStep]_hostVars => SpaceKept'
  <2> SUFFICES ASSUME SpaceKept, [StagingStep]_hostVars PROVE SpaceKept' OBVIOUS
  <2>1. CASE UNCHANGED hostVars BY <2>1 DEF hostVars, SpaceKept, StagingType, LeasesStand, NobodyOutlived, RoomLeft, Used, Owes, Owed, InProgress
  <2> QED BY <2>1, StagingStepKeeps
<1>3. SpaceKept => StagingLeavesTheWatermark BY SpaceKeptSuffices
<1> QED BY <1>1, <1>2, <1>3, PTL

(* The default models a run has are those written last, and of the         *)
(* decisions taken from one version of its row at most one is carried out, *)
(* for any users, targets and versions.                                    *)
THEOREM DecisionsStand == RowsInit /\ [][RowsNext]_rowVars => []DecisionsHold
<1>1. RowsInit => RowKept BY RowsInitKeeps
<1>2. RowKept /\ [RowsNext]_rowVars => RowKept'
  <2> SUFFICES ASSUME RowKept, [RowsNext]_rowVars PROVE RowKept' OBVIOUS
  <2>1. CASE UNCHANGED rowVars BY <2>1 DEF rowVars, RowKept, DecisionsHold
  <2> QED BY <2>1, RowsStepKeeps
<1>3. RowKept => DecisionsHold BY DEF RowKept
<1> QED BY <1>1, <1>2, <1>3, PTL

(* Every row of a task that somebody must still end is found by one of the *)
(* listings once its clock has run, for any claims, leases and attempts.   *)
THEOREM UnfinishedRowsAreFound ==
  TrackingInit /\ [][TrackingNext]_trackingVars => []UnfinishedIsFound
<1>1. TrackingInit => TrackingKept BY TrackingInitKeeps
<1>2. TrackingKept /\ [TrackingNext]_trackingVars => TrackingKept'
  <2> SUFFICES ASSUME TrackingKept, [TrackingNext]_trackingVars PROVE TrackingKept' OBVIOUS
  <2>1. CASE UNCHANGED trackingVars BY <2>1 DEF trackingVars, TrackingKept
  <2> QED BY <2>1, TrackingStepKeeps
<1>3. TrackingKept => UnfinishedIsFound BY TrackingKeptSuffices
<1> QED BY <1>1, <1>2, <1>3, PTL

(* The in-memory stores of artifacts answer the saves, look-ups and        *)
(* listings of ArtifactStores as Postgres does, the order of sections      *)
(* aside, for any keys, sections and overlapping deliveries.               *)
THEOREM ArtifactStoresAgree == StoresInit /\ [][StoresNext]_storesVars => []StoresAgree
<1>1. StoresInit => StoresKept BY StoresInitKeeps
<1>2. StoresKept /\ [StoresNext]_storesVars => StoresKept'
  <2> SUFFICES ASSUME StoresKept, [StoresNext]_storesVars PROVE StoresKept' OBVIOUS
  <2>1. CASE UNCHANGED storesVars BY <2>1 DEF storesVars, StoresKept, OnePerKey, Keyed, Reborn
  <2> QED BY <2>1, StoresStepKeeps
<1>3. StoresKept => StoresAgree BY StoresKeptSuffices
<1> QED BY <1>1, <1>2, <1>3, PTL

(* The in-memory store of upload intents answers the statements of         *)
(* UploadTwins and admits every upload as Postgres does, for any uploads,  *)
(* sizes and limits.                                                       *)
THEOREM UploadStoresAgree ==
  IntentConstants => (TwinsInit /\ [][TwinsNext]_intentVars => []UploadTwinsAgree)
<1> SUFFICES ASSUME IntentConstants PROVE TwinsInit /\ [][TwinsNext]_intentVars => []UploadTwinsAgree OBVIOUS
<1>1. TwinsInit => TwinsKept BY TwinsInitKeeps
<1>2. TwinsKept /\ [TwinsNext]_intentVars => TwinsKept'
  <2> SUFFICES ASSUME TwinsKept, [TwinsNext]_intentVars PROVE TwinsKept' OBVIOUS
  <2>1. CASE UNCHANGED intentVars BY <2>1 DEF intentVars, TwinsKept
  <2> QED BY <2>1, TwinsStepKeeps
<1>3. TwinsKept => UploadTwinsAgree BY TwinsKeptSuffices
<1> QED BY <1>1, <1>2, <1>3, PTL
=============================================================================

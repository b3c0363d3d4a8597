----------------------------- MODULE WorkerHost -----------------------------
(***************************************************************************)
(* What the processes on the hosts share outside the database: the lock of *)
(* the GPU in Redis (gpu_lock.py, and GpuLockContext of task_runner.py),   *)
(* and the leases on temporary disk space that uploads take before they    *)
(* stage a file (temp_byte_lease.py).                                      *)
(*                                                                         *)
(* Time: a lock or a lease runs out at any moment.  Renewal comes at half  *)
(* of the timeout, but it runs on the event loop of the worker, which a    *)
(* provider may block for longer.                                          *)
(***************************************************************************)
EXTENDS Integers, FiniteSets, Functions

CONSTANTS
  Executions,  \* of tasks whose model needs the GPU
  Wrapped,     \* those that run under gpu_lock_context, not GpuLockContext
  Staged,      \* uploads that stage a file
  MaxBytes,    \* upload -> the bytes it may write
  Process,     \* upload -> the process that serves it
  HostOf,      \* process -> its host; hosts share the temporary directory
  Disk,        \* bytes of the disk
  Watermark    \* MEDIA_TEMP_DISK_LOW_WATERMARK_BYTES

VARIABLES
  lock,   \* the token in gpu:lock
  gpu,    \* execution -> where it is, and what it knows of its lock
  stage   \* upload -> its lease, its bytes and where it is

hostVars == <<lock, gpu, stage>>

Free == "free"
AtRest == [phase |-> "idle", acquired |-> FALSE, lost |-> FALSE, unsure |-> FALSE, gap |-> FALSE]
NotStaged == [phase |-> "off", lease |-> FALSE, aged |-> FALSE, outlived |-> FALSE, used |-> 0]
HostInit ==
  /\ lock = Free
  /\ gpu = [e \in Executions |-> AtRest]
  /\ stage = [u \in Staged |-> NotStaged]

-----------------------------------------------------------------------------
(* The lock.  acquired is what release() goes by, lost is lock_lost; gap   *)
(* remembers that somebody else could have had the GPU meanwhile.          *)

Becomes(e, changes) == gpu' = [gpu EXCEPT ![e] = changes]
InPhase(e, phase) == [gpu[e] EXCEPT !.phase = phase]

\* SET NX EX, again and again.
Acquire(e) ==
  /\ gpu[e].phase = "idle" /\ lock = Free
  /\ lock' = e
  /\ Becomes(e, [InPhase(e, "working") EXCEPT !.acquired = TRUE])
  /\ UNCHANGED stage

\* max_wait is over, or Redis fails: perhaps after the token was set.
AcquireFails(e) ==
  /\ gpu[e].phase = "idle"
  /\ lock' \in {lock, IF lock = Free THEN e ELSE lock}
  /\ Becomes(e, InPhase(e, "raised"))
  /\ UNCHANGED stage

LockExpires ==
  /\ lock # Free /\ lock' = Free
  /\ gpu' = [e \in Executions |-> IF e = lock /\ gpu[e].phase = "working"
                                  THEN [gpu[e] EXCEPT !.gap = TRUE] ELSE gpu[e]]
  /\ UNCHANGED stage

\* A renewal that finds another token, or fails, gives the lock up: the task's
\* helper will not release it, the context manager will.
Renew(e) ==
  /\ gpu[e].phase = "working" /\ gpu[e].acquired /\ ~gpu[e].lost
  /\ \E error \in BOOLEAN :
       /\ error \/ lock # e
       /\ Becomes(e, [gpu[e] EXCEPT !.lost = TRUE, !.acquired = e \in Wrapped])
  /\ UNCHANGED <<lock, stage>>

\* Mutant: DEL without looking at the token.
DeletesAnyToken(e) == lock # Free

\* RELEASE_LOCK_SCRIPT answers that it deleted the key.
DeletesOwnToken(e) == lock = e

\* release(), and the end of gpu_lock_context: an error of Redis is logged by
\* the one and raised by the other.
Release(e, bodyFailed) ==
  LET released == DeletesOwnToken(e)
      lost == gpu[e].lost \/ ~released
  IN  /\ gpu[e].phase = "working" /\ gpu[e].acquired
      /\ lock' = IF released THEN Free ELSE lock
      /\ Becomes(e, [InPhase(e, IF lost \/ bodyFailed THEN "raised" ELSE "ended")
                       EXCEPT !.acquired = FALSE])
      /\ UNCHANGED stage
ReleaseUnheard(e, bodyFailed) ==
  /\ gpu[e].phase = "working" /\ gpu[e].acquired
  /\ lock' \in {lock, IF DeletesOwnToken(e) THEN Free ELSE lock}
  /\ Becomes(e, [InPhase(e, IF e \in Wrapped \/ gpu[e].lost \/ bodyFailed THEN "raised" ELSE "ended")
                   EXCEPT !.acquired = FALSE, !.unsure = TRUE])
  /\ UNCHANGED stage
ReleaseLost(e) ==
  /\ gpu[e].phase = "working" /\ ~gpu[e].acquired
  /\ Becomes(e, InPhase(e, "raised"))
  /\ UNCHANGED <<lock, stage>>

WorkerIsKilled(e) ==
  /\ gpu[e].phase = "working"
  /\ Becomes(e, InPhase(e, "dead"))
  /\ UNCHANGED <<lock, stage>>

GpuStep ==
  \/ LockExpires
  \/ \E e \in Executions :
       \/ Acquire(e) \/ AcquireFails(e) \/ Renew(e) \/ ReleaseLost(e) \/ WorkerIsKilled(e)
       \/ \E failed \in BOOLEAN : Release(e, failed) \/ ReleaseUnheard(e, failed)

-----------------------------------------------------------------------------
(* The leases. *)

FreeBytes == Disk - SumFunctionOnSet([u \in Staged |-> stage[u].used], Staged)

\* _owner_is_live: the process on the same host, the clock for another host.
OwnerIsLive(u, host) ==
  IF HostOf[Process[u]] = host THEN stage[u].phase # "dead" ELSE ~stage[u].aged
Counted(host) == {u \in Staged : stage[u].lease /\ OwnerIsLive(u, host)}
ReservedOn(host) == SumFunctionOnSet(MaxBytes, Counted(host))

\* Under the lock of the directory; leases that count no more are removed,
\* whether the upload is accepted or not.
TakeLease(u) ==
  LET host == HostOf[Process[u]]
      fits == FreeBytes - ReservedOn(host) - MaxBytes[u] >= Watermark
  IN  /\ stage[u].phase = "off"
      /\ stage' = [v \in Staged |->
           IF v = u THEN [NotStaged EXCEPT !.phase = IF fits THEN "leased" ELSE "refused",
                                           !.lease = fits]
           ELSE [stage[v] EXCEPT !.lease = v \in Counted(host)]]
      /\ UNCHANGED <<lock, gpu>>

Puts(u, row) == stage' = [stage EXCEPT ![u] = row] /\ UNCHANGED <<lock, gpu>>

\* Without the directory the upload ends and nobody gives the lease back.
MakeStagingDirectory(u) ==
  /\ stage[u].phase = "leased"
  /\ \E phase \in {"staging", "leaked"} : Puts(u, [stage[u] EXCEPT !.phase = phase])
WriteChunk(u) ==
  /\ stage[u].phase = "staging" /\ stage[u].used < MaxBytes[u]
  /\ Puts(u, [stage[u] EXCEPT !.used = @ + 1])
RemoveStaged(u) ==
  /\ stage[u].phase = "staging"
  /\ Puts(u, [stage[u] EXCEPT !.phase = "leaving", !.used = 0])
GiveLeaseBack(u) ==
  /\ stage[u].phase = "leaving"
  /\ Puts(u, [stage[u] EXCEPT !.phase = "done", !.lease = FALSE])

\* 900 seconds.
LeaseAges(u) ==
  /\ stage[u].lease /\ ~stage[u].aged
  /\ Puts(u, [stage[u] EXCEPT !.aged = TRUE, !.outlived = stage[u].phase # "dead"])

\* Its uploads leave their files and leases behind.
Serves(p, u) ==
  Process[u] = p /\ stage[u].phase \in {"leased", "staging", "leaving", "leaked"}
ProcessDies(p) ==
  /\ \E u \in Staged : Serves(p, u)
  /\ stage' = [u \in Staged |->
       IF Serves(p, u) THEN [stage[u] EXCEPT !.phase = "dead"] ELSE stage[u]]
  /\ UNCHANGED <<lock, gpu>>

StagingStep ==
  \/ \E u \in Staged :
       TakeLease(u) \/ MakeStagingDirectory(u) \/ WriteChunk(u) \/ RemoveStaged(u)
         \/ GiveLeaseBack(u) \/ LeaseAges(u)
  \/ \E p \in DOMAIN HostOf : ProcessDies(p)

-----------------------------------------------------------------------------
(* An execution that ends without an error had the GPU to itself from its  *)
(* acquisition to its end, however late its renewals were and whoever took *)
(* the lock over (release, "Raises RuntimeError if lock was lost").        *)
(* Excepted is an error of Redis in release() itself, which is only        *)
(* logged.                                                                 *)
NormalEndHeldTheGpu ==
  \A e \in Executions : gpu[e].phase = "ended" /\ ~gpu[e].unsure => ~gpu[e].gap

(* What the uploads in progress may still write leaves the watermark free, *)
(* whichever processes die, as long as no lease outlives the 900 seconds   *)
(* it has on other hosts.                                                  *)
StagingLeavesTheWatermark ==
  LET owed == SumFunctionOnSet([u \in Staged |-> MaxBytes[u] - stage[u].used],
                               {u \in Staged : stage[u].phase \in {"leased", "staging"}})
  IN  (\A u \in Staged : ~stage[u].outlived) => FreeBytes - owed >= Watermark
=============================================================================

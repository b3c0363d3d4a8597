------------------------------ MODULE StudioProofs ------------------------------
(***************************************************************************)
(* Proofs about the parts together: what was proved of a part for every    *)
(* value of its constants holds of the studio, whatever the other parts    *)
(* do, since they share no state.                                          *)
(***************************************************************************)
EXTENDS MCStudio, TLAPS

(* The ledger's instance is one its theorems are about.                    *)
LEMMA StudioConstants == Ledger!SoundConstants
<1>1. Ledger!IsFiniteSet(Speakers) /\ Ledger!IsFiniteSet({1, 2})
  <2>1. Ledger!IsFiniteSet({}) BY Ledger!FS_EmptySet
  <2>2. \A S, x : Ledger!IsFiniteSet(S) => Ledger!IsFiniteSet(S \cup {x})
    BY Ledger!FS_AddElement
  <2>3. ASSUME NEW S, NEW a, NEW b, S = ({} \cup {a}) \cup {b} PROVE Ledger!IsFiniteSet(S)
    BY <2>1, <2>2, <2>3
  <2>4. {"speech", "images"} = ({} \cup {"speech"}) \cup {"images"}
        /\ {1, 2} = ({} \cup {1}) \cup {2}
    OBVIOUS
  <2>5. Ledger!IsFiniteSet({1, 2}) /\ Ledger!IsFiniteSet({"speech", "images"}) BY <2>3, <2>4
  <2>6. Speakers = {"speech", "images"} \cup {"render"} BY DEF Speakers
  <2> QED BY <2>2, <2>5, <2>6
<1>2. Ledger!Nobody \notin Speakers BY DEF Ledger!Nobody, Speakers
<1>3. ASSUME NEW o \in Speakers
      PROVE /\ MCEstimate[o] \in Nat /\ MCEstimate[o] \in Nat \ {0}
            /\ [p \in Speakers |-> 1][o] \in Nat
            /\ Ledger!Bucket(MCOperation[o]) \in Ledger!Buckets
  BY DEF MCEstimate, MCOperation, Speakers, Ledger!Bucket, Ledger!Buckets, Ledger!Shared
<1>4. \A op \in {"image_gen"} : Ledger!Bucket(op) \in Ledger!Buckets
  BY DEF Ledger!Bucket, Ledger!Buckets, Ledger!Shared
<1>5. Ledger!Workspaces \subseteq {"w1", "w2"} BY DEF Ledger!Workspaces, MCHome
<1>6. \A w \in Ledger!Workspaces : [v \in {"w1", "w2"} |-> 2][w] \in Nat BY <1>5
<1> QED BY <1>1, <1>2, <1>3, <1>4, <1>6 DEF Ledger!SoundConstants

(* So are the hosts' and the intents'.                                     *)
LEMMA SharedConstants ==
  Shared!GpuConstants /\ Shared!StagingConstants /\ Shared!IntentConstants
<1>1. \A S, x : Shared!IsFiniteSet(S) => Shared!IsFiniteSet(S \cup {x})
  BY Shared!FS_AddElement
<1>2. Shared!IsFiniteSet({}) BY Shared!FS_EmptySet
<1>3. {"u1", "u2", "u3"} = (({} \cup {"u1"}) \cup {"u2"}) \cup {"u3"}
      /\ {1, 2} = ({} \cup {1}) \cup {2}
  OBVIOUS
<1>4. Shared!IsFiniteSet({"u1", "u2", "u3"}) /\ Shared!IsFiniteSet({1, 2})
  <2>1. ASSUME NEW S, NEW a, NEW b, S = ({} \cup {a}) \cup {b}
        PROVE Shared!IsFiniteSet(S)
    BY <1>1, <1>2, <2>1
  <2>2. ASSUME NEW S, NEW a, NEW b, NEW c, S = (({} \cup {a}) \cup {b}) \cup {c}
        PROVE Shared!IsFiniteSet(S)
    BY <1>1, <2>1, <2>2
  <2> QED BY <1>3, <2>1, <2>2
<1>5. [u1 |-> 2, u2 |-> 1, u3 |-> 1] \in [{"u1", "u2", "u3"} -> Nat] OBVIOUS
<1>6. \A u \in {1, 2} : <<1, 2>>[u] \in Nat OBVIOUS
<1>7. Shared!Free \notin {"a", "b", "c"} BY DEF Shared!Free
<1> QED
  BY <1>4, <1>5, <1>6, <1>7
     DEF Shared!GpuConstants, Shared!StagingConstants, Shared!IntentConstants

-----------------------------------------------------------------------------
(* The part that is at work keeps its invariant, and the others stand.     *)
PartsKept ==
  /\ part \in LedgerParts => Ledger!LedgerInv
  /\ part = "narration" => Narration!DeletionInv
  /\ part = "storyboard" => Storyboard!DeletionInv
  /\ part = "dispatch" => Dispatching!DeletionInv
  /\ part = "retention" => Deletion!DeletionInv
  /\ part = "rows" => Shared!TrackingKept
  /\ part = "gpu" => Shared!LockKept
  /\ part = "bytes" => Shared!SpaceKept
  /\ part = "stores" => Shared!StoresKept
  /\ part = "row" => Shared!RowKept
  /\ part = "intents" => Shared!TwinsKept

(* Every part starts in order.                                             *)
LEMMA StudioInitKeeps == StudioInit => PartsKept
BY Narration!DeletionStartsKept, Storyboard!DeletionStartsKept, Dispatching!DeletionStartsKept,
   Deletion!DeletionStartsKept, StudioConstants, SharedConstants, Ledger!LedgerInitKeeps, Shared!TrackingInitKeeps,
   Shared!HostInitKeeps, Shared!StagingInitKeeps, Shared!StoresInitKeeps, Shared!RowsInitKeeps,
   Shared!TwinsInitKeeps
   DEF StudioInit, PartsKept, ProjectInit, LedgerParts, ProjectParts, SharedParts

(* The ledger's part of the studio takes steps of the ledger.              *)
LEMMA LedgerPart == LedgerWorks => Ledger!LedgerNext
BY DEF LedgerWorks, Ledger!LedgerNext, Ledger!LedgerStep, Speakers

(* A step of the studio that is the ledger's keeps the ledger.             *)
LEMMA LedgerPartKept ==
  ASSUME Ledger!LedgerInv, LedgerWorks \/ UNCHANGED ledgerVars
  PROVE Ledger!LedgerInv'
<1>1. CASE UNCHANGED ledgerVars
  BY <1>1 DEF ledgerVars, Ledger!LedgerInv, Ledger!TypeOK, Ledger!RowsSound,
       Ledger!FutureIsFree, Ledger!CountersSound, Ledger!MoneySound, Ledger!Fits,
       Ledger!PastCovered, Ledger!EventsSound
<1>2. CASE LedgerWorks
  <2>1. Ledger!LedgerInv' \/ UNCHANGED ledgerVars
    BY <1>2, LedgerPart, StudioConstants, Ledger!LedgerStepKeeps
       DEF ledgerVars, Ledger!ledgerVars
  <2> QED BY <1>1, <2>1
<1> QED BY <1>1, <1>2

(* A step of the part that has a project keeps the project.                *)
LEMMA NarrationPartKept ==
  ASSUME Narration!DeletionInv, (part = "narration" /\ ProjectWorks) \/ UNCHANGED projectVars
  PROVE Narration!DeletionInv'
BY Narration!DeletionStepKeeps
   DEF ProjectWorks, projectVars, Narration!DeletionNext, Narration!deletionVars,
       Narration!artifactVars, Narration!deletionOnly

(* The same with two tasks.                                                *)
LEMMA StoryboardPartKept ==
  ASSUME Storyboard!DeletionInv, (part = "storyboard" /\ ProjectWorks) \/ UNCHANGED projectVars
  PROVE Storyboard!DeletionInv'
BY Storyboard!DeletionStepKeeps
   DEF ProjectWorks, projectVars, Storyboard!DeletionNext, Storyboard!deletionVars,
       Storyboard!artifactVars, Storyboard!deletionOnly

(* The same with requests under way.                                       *)
LEMMA DispatchPartKept ==
  ASSUME Dispatching!DeletionInv, (part = "dispatch" /\ ProjectWorks) \/ UNCHANGED projectVars
  PROVE Dispatching!DeletionInv'
BY Dispatching!DeletionStepKeeps
   DEF ProjectWorks, projectVars, Dispatching!DeletionNext, Dispatching!ArtifactStep,
       Dispatching!deletionVars, Dispatching!artifactVars, Dispatching!deletionOnly

(* The same with retention passes.                                         *)
LEMMA RetentionPartKept ==
  ASSUME Deletion!DeletionInv, (part = "retention" /\ ProjectWorks) \/ UNCHANGED projectVars
  PROVE Deletion!DeletionInv'
BY Deletion!DeletionStepKeeps
   DEF ProjectWorks, projectVars, Deletion!DeletionNext, Deletion!ArtifactStep,
       Deletion!ProjectStep, Deletion!deletionVars, Deletion!artifactVars, Deletion!deletionOnly

(* A step of a task's row keeps the row.                                   *)
LEMMA TrackingPartKept ==
  ASSUME Shared!TrackingKept, Shared!TrackingNext \/ UNCHANGED trackingVars
  PROVE Shared!TrackingKept'
BY Shared!TrackingStepKeeps DEF trackingVars, Shared!TrackingKept, Shared!TaskFound

(* Steps of the hosts keep the GPU and the disk.                           *)
LEMMA GpuPartKept ==
  ASSUME Shared!LockKept, Shared!GpuStep \/ UNCHANGED hostVars
  PROVE Shared!LockKept'
BY SharedConstants, Shared!GpuStepKeeps DEF hostVars, Shared!LockKept, Shared!NormalEndHeldTheGpu

(* The same of the temporary directory.                                    *)
LEMMA BytesPartKept ==
  ASSUME Shared!SpaceKept, Shared!StagingStep \/ UNCHANGED hostVars
  PROVE Shared!SpaceKept'
<1>1. CASE UNCHANGED hostVars
  BY <1>1 DEF hostVars, Shared!SpaceKept, Shared!StagingType, Shared!LeasesStand,
       Shared!NobodyOutlived, Shared!RoomLeft, Shared!Used, Shared!Owes, Shared!Owed,
       Shared!InProgress
<1>2. CASE Shared!StagingStep BY <1>2, SharedConstants, Shared!StagingStepKeeps
<1> QED BY <1>1, <1>2

(* The stores of artifacts stay alike.                                     *)
LEMMA StoresPartKept ==
  ASSUME Shared!StoresKept, Shared!StoresNext \/ UNCHANGED storesVars
  PROVE Shared!StoresKept'
BY Shared!StoresStepKeeps DEF storesVars, Shared!StoresKept, Shared!OnePerKey, Shared!Keyed,
   Shared!Reborn

(* The row of a run keeps the decisions.                                   *)
LEMMA RowPartKept ==
  ASSUME Shared!RowKept, Shared!RowsNext \/ UNCHANGED rowVars
  PROVE Shared!RowKept'
BY Shared!RowsStepKeeps DEF rowVars, Shared!RowKept, Shared!DecisionsHold

(* The stores of upload intents stay alike.                                *)
LEMMA IntentsPartKept ==
  ASSUME Shared!TwinsKept, Shared!TwinsNext \/ UNCHANGED intentVars
  PROVE Shared!TwinsKept'
BY SharedConstants, Shared!TwinsStepKeeps DEF intentVars, Shared!TwinsKept

(* So the parts stay in order, whichever works.                            *)
LEMMA StudioStepKeeps == PartsKept /\ [StudioNext]_studioVars => PartsKept'
<1> SUFFICES ASSUME PartsKept, [StudioNext]_studioVars PROVE PartsKept' OBVIOUS
<1>1. part' = part BY DEF StudioNext, studioVars
<1>2. LedgerWorks \/ UNCHANGED ledgerVars BY DEF StudioNext, studioVars
<1>3. (part \in ProjectParts /\ ProjectWorks) \/ UNCHANGED projectVars
  BY DEF StudioNext, studioVars, ProjectWorks, ProjectParts
<1>4. /\ part = "narration" => Narration!DeletionInv'
      /\ part = "storyboard" => Storyboard!DeletionInv'
      /\ part = "dispatch" => Dispatching!DeletionInv'
      /\ part = "retention" => Deletion!DeletionInv'
  BY <1>3, NarrationPartKept, StoryboardPartKept, DispatchPartKept, RetentionPartKept DEF PartsKept
<1>5. part = "rows" => Shared!TrackingNext \/ UNCHANGED trackingVars
  BY DEF StudioNext, studioVars
<1>6. /\ part = "gpu" => Shared!GpuStep \/ UNCHANGED hostVars
      /\ part = "bytes" => Shared!StagingStep \/ UNCHANGED hostVars
      /\ part = "stores" => Shared!StoresNext \/ UNCHANGED storesVars
      /\ part = "row" => Shared!RowsNext \/ UNCHANGED rowVars
      /\ part = "intents" => Shared!TwinsNext \/ UNCHANGED intentVars
  BY DEF StudioNext, SharedWorks, studioVars, sharedVars
<1> QED
  BY <1>1, <1>2, <1>4, <1>5, <1>6, LedgerPartKept, TrackingPartKept, GpuPartKept, BytesPartKept,
     StoresPartKept, RowPartKept, IntentsPartKept DEF PartsKept

(* So they are in order in every state of the studio.                      *)
LEMMA StudioInOrder == StudioSpec => []PartsKept
BY StudioInitKeeps, StudioStepKeeps, PTL DEF StudioSpec

(* The budgets, the charges and the counters are kept in the studio.       *)
THEOREM StudioLedger == StudioSpec => []LedgerKept
<1>1. PartsKept => LedgerKept
  BY StudioConstants, Ledger!InvIsMoneyKept, Ledger!InvIsChargesKept, Ledger!InvIsUnitsKept
     DEF LedgerKept, PartsKept
<1> QED BY <1>1, StudioInOrder, PTL

(* Every double that tests run on agrees with Postgres in the studio: the  *)
(* ledger's, those of the rows of tasks and runs, and those of artifacts   *)
(* and upload intents, in what their modules compare.                      *)
THEOREM StudioDoubles == StudioSpec => []DoublesAgree
<1>1. PartsKept => DoublesAgree
  BY StudioConstants, SharedConstants, Ledger!InvIsTwinsAgree, Shared!TrackingDoublesAgree,
     Shared!StoresKeptSuffices, Shared!RunDoublesAgree, Shared!TwinsKeptSuffices
     DEF DoublesAgree, PartsKept
<1> QED BY <1>1, StudioInOrder, PTL

(* The GPU, the disk, the row of a run and the rows of tasks are kept as   *)
(* users, workers and passes rely on them.                                 *)
THEOREM StudioShares == StudioSpec => []SharedThingsAreKept
<1>1. PartsKept => SharedThingsAreKept
  BY SharedConstants, Shared!SpaceKeptSuffices, Shared!TrackingKeptSuffices
     DEF SharedThingsAreKept, PartsKept, Shared!LockKept, Shared!RowKept
<1> QED BY <1>1, StudioInOrder, PTL

(* A deletion leaves no file but those of workers that were at work when   *)
(* it collected the tasks, and no published file without a row.            *)
THEOREM StudioDeletion == StudioSpec => []DeletionLeavesNothing
<1>1. PartsKept => DeletionLeavesNothing
  BY Narration!DeletionInvIsClean, Storyboard!DeletionInvIsClean,
     Dispatching!DeletionInvIsClean, Deletion!DeletionInvIsClean
     DEF DeletionLeavesNothing, PartsKept
<1> QED BY <1>1, StudioInOrder, PTL

=============================================================================

------------------------------ MODULE MCStudio ------------------------------
(***************************************************************************)
(* The parts of the studio that share no state, on small instances: one of *)
(* them runs in each behaviour.  Parts with theorems are instances of the  *)
(* modules that prove them, which StudioProofs cites.                      *)
(***************************************************************************)
EXTENDS PipelineProperties, TLC

VARIABLES
  part,
  tracked, listed,                                              \* the rows of a task
  books, month, granted, loose, stray,                          \* the ledger
  pRun, pTask, files, rows, request, sweeper,                   \* artifacts
  project, deleter, creator, underway, resumed,                 \* deletion
  lock, gpu, stage,                                             \* the hosts
  table, shelf, known, saving, begun, answered,                 \* artifact stores
  row, home, call, acked,                                       \* the row of a run
  intents, media, fences, tokens, replies, late                 \* upload intents

ledgerVars == <<books, month, granted, loose, stray>>
projectVars == <<pRun, pTask, files, rows, request, sweeper, project, deleter, creator,
                 underway, resumed>>
trackingVars == <<tracked, listed>>
hostVars == <<lock, gpu, stage>>
storesVars == <<table, shelf, known, saving, begun, answered>>
rowVars == <<row, home, call, acked>>
intentVars == <<intents, media, fences, tokens, replies, late>>
sharedVars == <<hostVars, storesVars, rowVars, intentVars>>
studioVars == <<part, vars, trackingVars, ledgerVars, projectVars, sharedVars>>

-----------------------------------------------------------------------------
(* The ledger: two kinds of speech share a workspace and a bucket, images  *)
(* take two units of another workspace, events of speech share a key.      *)
Speakers == {"speech", "images", "render"}
MCHome == [o \in Speakers |-> IF o = "images" THEN "w2" ELSE "w1"]
MCOperation ==
  [o \in Speakers |-> CASE o = "images" -> "image_gen" [] o = "speech" -> "tts" [] OTHER -> "render"]
MCEstimate == [o \in Speakers |-> IF o = "images" THEN 2 ELSE 1]
Ledger ==
  INSTANCE UsageLedgerProofs WITH
    Owners <- Speakers, Home <- MCHome, Operation <- MCOperation, Estimate <- MCEstimate,
    Units <- MCEstimate, CallCost <- [o \in Speakers |-> 1], Attempts <- {1, 2},
    Key <- [o \in Speakers |-> [a \in {1, 2} |-> IF o = "images" THEN a ELSE 1]],
    MonthlyCost <- [w \in {"w1", "w2"} |-> 2], GlobalCost <- 2,
    MonthlyCount <- [b \in {"llm", "image_gen", "tts_requests"} |->
                       IF b = "tts_requests" THEN 1 ELSE 2],
    LastMonth <- 2, MaxUnowned <- 1, UnownedOperations <- {"image_gen"}

LedgerParts == {"speech", "images", "calls"}
LedgerWorks ==
  \/ part = "speech" /\ Ledger!LedgerStep({"speech", "render"}, {})
  \/ part = "images" /\ Ledger!LedgerStep({"images", "render"}, {})
  \/ part = "calls" /\ Ledger!LedgerStep({"images"}, {"image_gen"})

-----------------------------------------------------------------------------
(* The stages of a run under every user action: PipelineProperties with    *)
(* the constants of studio.cfg.                                            *)
PipelineSymmetry == Permutations(Tasks)

-----------------------------------------------------------------------------
(* Artifacts and deletion: two paragraphs and two deliveries, two tasks, a *)
(* run that is deleted, with retention or with requests under way.         *)
Narration ==
  INSTANCE ProjectDeletionProofs WITH
    run <- pRun, task <- pTask, Runs <- {"r1"}, Sections <- {"s1", "s2"}, Tasks <- {"t1"},
    Kinds <- {"audio", "video"}, FirstStages <- {"AUDIO_GENERATING", "RENDER_GENERATING"},
    MaxDeliveries <- 2, MaxRetries <- 1, StorageFaults <- TRUE
Storyboard ==
  INSTANCE ProjectDeletionProofs WITH
    run <- pRun, task <- pTask, Runs <- {"r1"}, Sections <- {"s1"}, Tasks <- {"t1", "t2"},
    Kinds <- {"audio", "subtitles"}, FirstStages <- {"AUDIO_GENERATING"},
    MaxDeliveries <- 1, MaxRetries <- 1, StorageFaults <- FALSE
Dispatching ==
  INSTANCE ProjectDeletionProofs WITH
    run <- pRun, task <- pTask, Runs <- {"r1"}, Sections <- {"s1"}, Tasks <- {"t1"},
    Kinds <- {"audio"}, FirstStages <- {"AUDIO_GENERATING"},
    MaxDeliveries <- 1, MaxRetries <- 1, StorageFaults <- FALSE
Deletion ==
  INSTANCE ProjectDeletionProofs WITH
    run <- pRun, task <- pTask, Runs <- {"r1"}, Sections <- {"s1"}, Tasks <- {"t1"},
    Kinds <- {"audio"}, FirstStages <- {"AUDIO_GENERATING"},
    MaxDeliveries <- 1, MaxRetries <- 1, StorageFaults <- TRUE

ProjectInit ==
  \/ part = "narration" /\ Narration!DeletionInit
  \/ part = "storyboard" /\ Storyboard!DeletionInit
  \/ part = "dispatch" /\ Dispatching!DeletionInit
  \/ part = "retention" /\ Deletion!DeletionInit

ProjectWorks ==
  \/ part = "narration" /\ Narration!ArtifactStep
  \/ part = "storyboard" /\ Storyboard!ArtifactStep
  \/ part = "dispatch" /\ (Dispatching!DispatchStep \/ Dispatching!ProjectStep)
  \/ part = "retention" /\ (Deletion!RetainedStep \/ Deletion!DeleterStep \/ Deletion!Advance \/ Deletion!ResumeRun)

-----------------------------------------------------------------------------
(* Executions and uploads of two hosts, of which one execution runs under  *)
(* the context manager and one upload writes two bytes; the stores and the *)
(* doubles of artifacts, of the row of a run and of upload intents; the    *)
(* row of one task, a worker, a pass and two generations.                  *)
Shared ==
  INSTANCE SharedStateProofs WITH
    Executions <- {"a", "b", "c"}, Wrapped <- {"b"},
    Staged <- {"u1", "u2", "u3"}, MaxBytes <- [u1 |-> 2, u2 |-> 1, u3 |-> 1],
    Process <- [u1 |-> "p1", u2 |-> "p1", u3 |-> "p2"], HostOf <- [p1 |-> "h1", p2 |-> "h2"],
    Disk <- 4, Watermark <- 1,
    Narrations <- {"n1", "n2"}, Films <- {"f1"}, Paragraphs <- {"s1"}, MaxSaves <- 4,
    project <- home, Users <- {"u1", "u2"}, Models <- {"m1"},
    FirstStage <- "SCRIPT_GENERATING", Targets <- {"SCRIPT_REVIEW", "SCRIPT_GENERATING"},
    LastVersion <- 2,
    Uploads <- {1, 2}, Bytes <- <<1, 2>>, MaxStored <- 3, MaxRetries <- 2,
    BatchSize <- 1, LastToken <- 2,
    Claims <- {"worker"}, Leases <- {"pass"}, LastGeneration <- 2, MaxAttempt <- 2

SharedParts == {"gpu", "bytes", "stores", "row", "intents"}
SharedWorks ==
  \/ part = "gpu" /\ Shared!GpuStep /\ UNCHANGED <<storesVars, rowVars, intentVars>>
  \/ part = "bytes" /\ Shared!StagingStep /\ UNCHANGED <<storesVars, rowVars, intentVars>>
  \/ part = "stores" /\ Shared!StoresNext /\ UNCHANGED <<hostVars, rowVars, intentVars>>
  \/ part = "row" /\ Shared!RowsNext /\ UNCHANGED <<hostVars, storesVars, intentVars>>
  \/ part = "intents" /\ Shared!TwinsNext /\ UNCHANGED <<hostVars, storesVars, rowVars>>

-----------------------------------------------------------------------------
Absent == "absent"
NoPipeline ==
  /\ run = Absent /\ task = Absent /\ quota = Absent /\ broker = Absent /\ revoked = Absent
  /\ disp = Absent /\ wk = Absent /\ rec = Absent /\ stop = Absent
NoTracking == tracked = Absent /\ listed = Absent
NoLedger ==
  books = Absent /\ month = Absent /\ granted = Absent /\ loose = Absent /\ stray = Absent
NoProject ==
  /\ pRun = Absent /\ pTask = Absent /\ files = Absent /\ rows = Absent /\ request = Absent
  /\ sweeper = Absent /\ project = Absent /\ deleter = Absent /\ creator = Absent
  /\ underway = Absent /\ resumed = Absent

NoHost == lock = Absent /\ gpu = Absent /\ stage = Absent
NoStores ==
  /\ table = Absent /\ shelf = Absent /\ known = Absent /\ saving = Absent
  /\ begun = Absent /\ answered = Absent
NoRunRow == row = Absent /\ home = Absent /\ call = Absent /\ acked = Absent
NoIntents ==
  /\ intents = Absent /\ media = Absent /\ fences = Absent /\ tokens = Absent
  /\ replies = Absent /\ late = Absent

ProjectParts == {"narration", "storyboard", "dispatch", "retention"}
StudioInit ==
  /\ part \in LedgerParts \cup ProjectParts \cup SharedParts \cup {"stages", "rows"}
  /\ IF part = "stages" THEN Init ELSE NoPipeline
  /\ IF part = "rows" THEN Shared!TrackingInit ELSE NoTracking
  /\ IF part \in LedgerParts THEN Ledger!LedgerInit ELSE NoLedger
  /\ IF part \in ProjectParts THEN ProjectInit ELSE NoProject
  /\ IF part \in {"gpu", "bytes"} THEN Shared!HostInit ELSE NoHost
  /\ IF part = "stores" THEN Shared!StoresInit ELSE NoStores
  /\ IF part = "row" THEN Shared!RowsInit ELSE NoRunRow
  /\ IF part = "intents" THEN Shared!TwinsInit ELSE NoIntents

StudioNext ==
  /\ UNCHANGED part
  /\ \/ LedgerWorks /\ UNCHANGED <<vars, trackingVars, projectVars, sharedVars>>
     \/ part = "stages" /\ Next /\ UNCHANGED <<trackingVars, ledgerVars, projectVars, sharedVars>>
     \/ part = "rows" /\ Shared!TrackingNext
        /\ UNCHANGED <<vars, ledgerVars, projectVars, sharedVars>>
     \/ ProjectWorks /\ UNCHANGED <<vars, trackingVars, ledgerVars, sharedVars>>
     \/ SharedWorks /\ UNCHANGED <<vars, trackingVars, ledgerVars, projectVars>>

StudioSpec == StudioInit /\ [][StudioNext]_studioVars

-----------------------------------------------------------------------------
\* The promises of the ledger's statements together (MoneyKept, ChargesKept
\* and UnitsKept of UsageLedger).
LedgerKept == part \in LedgerParts => Ledger!MoneyKept /\ Ledger!ChargesKept /\ Ledger!UnitsKept

\* The doubles the tests run on answer as Postgres does, as far as their modules
\* compare them: neither the order of sections nor the listings of assets under a
\* deletion claim (TwinsAgree of UsageLedger, TrackingTwinsAgree of
\* TaskTracking, StoresAgree of ArtifactStores, RunTwinsAgree of RunRows,
\* UploadTwinsAgree of UploadTwins).
DoublesAgree ==
  /\ part \in LedgerParts => Ledger!TwinsAgree
  /\ part = "rows" => Shared!TrackingTwinsAgree
  /\ part = "stores" => Shared!StoresAgree
  /\ part = "row" => Shared!RunTwinsAgree
  /\ part = "intents" => Shared!UploadTwinsAgree

\* What users, workers and passes rely on while others are at work holds: the
\* GPU and the disk of the hosts (NormalEndHeldTheGpu and
\* StagingLeavesTheWatermark of WorkerHost), the row of a run (DecisionsHold of
\* RunRows), and that every row somebody must still end is found by a listing
\* (UnfinishedIsFound of TaskTracking).
SharedThingsAreKept ==
  /\ part = "gpu" => Shared!NormalEndHeldTheGpu
  /\ part = "bytes" => Shared!StagingLeavesTheWatermark
  /\ part = "row" => Shared!DecisionsHold
  /\ part = "rows" => Shared!UnfinishedIsFound

\* What readmission does to a bucket that speech and rendering share
\* (SharedBucketKept of UsageLedger).
BucketKept == part \in LedgerParts => Ledger!SharedBucketKept

\* What a deletion leaves behind (DeletionIsClean of ProjectDeletion).
DeletionLeavesNothing ==
  CASE part = "narration" -> Narration!DeletionIsClean
    [] part = "storyboard" -> Storyboard!DeletionIsClean
    [] part = "dispatch" -> Dispatching!DeletionIsClean
    [] part = "retention" -> Deletion!DeletionIsClean
    [] OTHER -> TRUE
=============================================================================

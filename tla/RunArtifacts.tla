---------------------------- MODULE RunArtifacts ----------------------------
(***************************************************************************)
(* The artifacts of the runs: the audio, subtitle and video files the      *)
(* workers write below the artifact root and the rows of creator_artifacts *)
(* that refer to them; the storyboard requests that dispatch one task per  *)
(* paragraph; the retention passes that take expired rows and their files  *)
(* away.  Storage is the local backend, where the key of an artifact is    *)
(* the path the worker wrote.                                              *)
(***************************************************************************)
EXTENDS Integers, FiniteSets, FiniteSetsExt

CONSTANTS
  Runs, Sections, Tasks,
  Kinds,         \* bound: kinds of the tasks dispatched before
  FirstStages,   \* bound: stages of the storyboard a run is first seen in
  MaxDeliveries, \* bound: deliveries of one task's message
  MaxRetries,    \* max_retries of retry_failed_deletions
  StorageFaults  \* whether deleting an object may fail

VARIABLES
  run,     \* Run -> its row, status and stage
  task,    \* Task -> its row, message, worker and reservation
  files,   \* files below the artifact root, with who wrote them
  rows,    \* creator_artifacts
  request, \* a storyboard request in progress
  sweeper  \* the pass of retry_failed_deletions

artifactVars == <<run, task, files, rows, request, sweeper>>

Nothing == "nothing"
All == "all"
Worked == {"AUDIO_GENERATING", "SUBTITLE_GENERATING"}
StoryboardStages ==
  Worked \cup {"VISUAL_ASSET_REVIEW", "RENDER_GENERATING", "FINAL_REVIEW"}
Active == {"pending", "queued", "running"}

AllowedStages(kind) ==
  CASE kind \in {"paragraph_audio", "paragraph_subtitles", "subtitles"} -> Worked
    [] kind = "audio" -> {"VISUAL_ASSET_REVIEW", "AUDIO_GENERATING"}
    [] kind = "video" -> {"RENDER_GENERATING"}
SuccessStage(kind) ==
  CASE kind = "audio" -> "SUBTITLE_GENERATING" [] kind = "subtitles" -> "RENDER_GENERATING"
    [] kind = "video" -> "FINAL_REVIEW" [] OTHER -> Nothing
Medium(kind) ==
  CASE kind \in {"paragraph_audio", "audio"} -> "audio"
    [] kind \in {"paragraph_subtitles", "subtitles"} -> "subtitle" [] OTHER -> "video"

(* Audio is written to a directory of the task, subtitles and the video to *)
(* a path of the run, which the next generation writes again.              *)
Path(kind, t, sec) ==
  [run |-> task[t].run, medium |-> Medium(kind), sec |-> sec,
   dir |-> IF Medium(kind) = "audio" THEN t ELSE Nothing]
Target(t) == Path(task[t].kind, t, task[t].sec)
Stored(path) == \E f \in files : f.path = path
Written(paths, t) ==
  {f \in files : f.path \notin paths}
    \cup {[path |-> p, by |-> <<t, task[t].delivery>>] : p \in paths}
Directory(t) == {f \in files : f.path.dir = t}

Idle == [phase |-> "idle", kind |-> Nothing, run |-> Nothing, todo |-> {}, bulk |-> FALSE,
         task |-> Nothing]
Unused(r) ==
  [kind |-> Nothing, run |-> r, sec |-> All, row |-> "none", message |-> FALSE,
   phase |-> "off", delivery |-> 0, quota |-> "none"]
NoRun == [row |-> FALSE, status |-> "none", stage |-> "IDEA_READY"]
ArtifactsInit ==
  /\ run \in [Runs -> {NoRun} \cup [row : {TRUE}, status : {"running"}, stage : FirstStages]]
  /\ \E some \in SUBSET Tasks :
       task \in [Tasks -> {Unused(r) : r \in Runs} \cup
                  [kind : Kinds, run : Runs, sec : {All}, row : {"queued"}, message : {TRUE},
                   phase : {"off"}, delivery : {0}, quota : {"held"}]]
       /\ \A t \in Tasks : task[t].row = "queued" <=> t \in some /\ run[task[t].run].row
  /\ files = {} /\ rows = {}
  /\ request = Idle
  /\ sweeper = [phase |-> "idle", row |-> Nothing, tried |-> {}]

Refuses(r) == ~run[r].row \/ run[r].status = "cancelled"
HasRow(medium, r, sec) == \E a \in rows : a.medium = medium /\ a.run = r /\ a.sec = sec

Narrated(r, sec) == HasRow("audio", r, sec)
Captioned(r, sec) == HasRow("subtitle", r, sec)
Latest(medium, r, sec) ==
  CHOOSE a \in rows : /\ a.medium = medium /\ a.run = r /\ a.sec = sec
                      /\ \A b \in rows : (b.medium = medium /\ b.run = r /\ b.sec = sec) => b.id <= a.id

(* The four storyboard endpoints: one paragraph or every paragraph that    *)
(* lacks the artifact.                                                     *)
RequestParagraphs(r, kind, bulk) ==
  LET ready == IF kind = "paragraph_audio" THEN Sections
               ELSE {s \in Sections : Narrated(r, s)}
  IN  /\ request = Idle
      /\ ~Refuses(r) /\ run[r].stage \in StoryboardStages
      /\ \E todo \in IF bulk THEN {{s \in ready : ~HasRow(Medium(kind), r, s)}}
                     ELSE {{s} : s \in ready} :
           /\ todo # {}
           /\ request' = [Idle EXCEPT !.phase = "reserve", !.kind = kind, !.run = r,
                                      !.todo = todo, !.bulk = bulk]
      /\ UNCHANGED <<run, task, files, rows, sweeper>>

NextParagraph == IF request.todo = {} THEN Idle
                 ELSE [request EXCEPT !.phase = "reserve", !.task = Nothing]
ToRequest(phase) == request' = [request EXCEPT !.phase = phase]
Asked == task[request.task]

\* reserve_owned_quota; without budget the whole request ends with 429.
ReserveParagraph ==
  /\ request.phase = "reserve"
  /\ \/ request' = Idle /\ UNCHANGED task
     \/ \E s \in request.todo, t \in Tasks :
          /\ task[t].row = "none" /\ task[t].quota = "none"
          /\ task' = [task EXCEPT ![t] = [Unused(request.run) EXCEPT
                        !.kind = request.kind, !.sec = s, !.quota = "held"]]
          /\ request' = [request EXCEPT !.phase = "precheck", !.task = t, !.todo = @ \ {s}]
  /\ UNCHANGED <<run, files, rows, sweeper>>

Withdrawn(t) == [t EXCEPT !.quota = "cancelled"]
Revoked(t) == [t EXCEPT !.row = IF @ \in Active THEN "revoked" ELSE @]

\* A read of the run that fails counts as a cancellation.
PrecheckParagraph ==
  /\ request.phase = "precheck"
  /\ \/ ~Refuses(request.run) /\ ToRequest("record") /\ UNCHANGED task
     \/ /\ request' = IF request.bulk THEN NextParagraph ELSE Idle
        /\ task' = [task EXCEPT ![request.task] = Withdrawn(@)]
  /\ UNCHANGED <<run, files, rows, sweeper>>

RecordPending ==
  /\ request.phase = "record"
  /\ \/ /\ run[request.run].row /\ ToRequest("publish")
        /\ task' = [task EXCEPT ![request.task].row = "pending"]
     \/ /\ request' = IF request.bulk THEN NextParagraph ELSE Idle
        /\ task' = [task EXCEPT ![request.task] = Withdrawn(@)]
  /\ UNCHANGED <<run, files, rows, sweeper>>

\* The message may be out although the publication failed or was fenced by a
\* new broker generation; the statement that revokes the row may fail too.
PublishParagraph ==
  /\ request.phase = "publish"
  /\ \/ /\ ToRequest("postcheck")
        /\ task' = [task EXCEPT ![request.task].message = TRUE,
                                ![request.task].row = IF @ = "pending" THEN "queued" ELSE @]
     \/ /\ request' = IF request.bulk THEN NextParagraph ELSE Idle
        /\ \E out \in BOOLEAN, marked \in BOOLEAN :
             task' = [task EXCEPT ![request.task] =
               [Withdrawn(IF marked THEN Revoked(@) ELSE @) EXCEPT !.message = out]]
  /\ UNCHANGED <<run, files, rows, sweeper>>

PostcheckParagraph ==
  /\ request.phase = "postcheck"
  /\ \/ ~Refuses(request.run) /\ UNCHANGED task
        /\ request' = IF request.bulk THEN NextParagraph ELSE Idle
     \/ /\ request' = Idle
        /\ task' = [task EXCEPT ![request.task] = Withdrawn(Revoked(@))]
  /\ UNCHANGED <<run, files, rows, sweeper>>

RequestStep ==
  \/ \E r \in Runs, bulk \in BOOLEAN, kind \in {"paragraph_audio", "paragraph_subtitles"} :
       RequestParagraphs(r, kind, bulk)
  \/ ReserveParagraph \/ PrecheckParagraph \/ RecordPending
  \/ PublishParagraph \/ PostcheckParagraph

(* The workers. *)
To(t, phase) == task' = [task EXCEPT ![t].phase = phase]
Ends(t, row) == task' = [task EXCEPT ![t].phase = "off", ![t].row = row]
Unchanged == UNCHANGED <<run, rows, request, sweeper>>

\* A delivery claims a row nobody works on, and is rejected outside the
\* stages the task allows.
Start(t) ==
  LET r == run[task[t].run]
  IN  /\ task[t].message /\ task[t].phase = "off" /\ task[t].delivery < MaxDeliveries
      /\ task[t].row \in Active \cup {"failed"}
      /\ IF Refuses(task[t].run) \/ r.stage \notin AllowedStages(task[t].kind)
         THEN task' = [task EXCEPT ![t].row = "rejected", ![t].delivery = @ + 1,
                                   ![t].quota = "cancelled"]
         ELSE task' = [task EXCEPT ![t].row = "running", ![t].delivery = @ + 1,
                                   ![t].phase = "making"]
      /\ UNCHANGED files /\ Unchanged

Works(t, kind) == task[t].phase = "making" /\ task[t].quota = "held" /\ task[t].kind = kind
Audible(t) ==
  /\ Narrated(task[t].run, task[t].sec)
  /\ Stored(Latest("audio", task[t].run, task[t].sec).path)

(* The provider of each task answers: the file is there.  A full narration *)
(* may be made section by section first; subtitles are made of the latest  *)
(* audio, whose file must be there.                                        *)
Made(t) == files' = Written({Target(t)}, t) /\ To(t, "made") /\ Unchanged
MakeParagraph(t) == Works(t, "paragraph_audio") /\ Made(t)
MakeNarration(t) == Works(t, "audio") /\ Made(t)
MakeSections(t) ==
  /\ Works(t, "audio") /\ To(t, "sections") /\ Unchanged
  /\ files' = Written({Path("audio", t, s) : s \in Sections}, t)
MakeSubtitles(t) == Works(t, "subtitles") /\ Audible(t) /\ Made(t)
MakeParagraphSubtitles(t) == Works(t, "paragraph_subtitles") /\ Audible(t) /\ Made(t)
MakeVideo(t) == Works(t, "video") /\ Made(t)

(* Rows, one per idempotency key; sections have no storage key.            *)
Row(t, sec, keyed) ==
  [id |-> 1 + Max({a.id : a \in rows} \cup sweeper.tried \cup {0}), run |-> task[t].run,
   medium |-> Medium(task[t].kind), sec |-> sec, path |-> Path(task[t].kind, t, sec),
   keyed |-> keyed, idem |-> <<t, sec>>, by |-> <<t, task[t].delivery>>,
   expired |-> FALSE, wanted |-> FALSE, tries |-> 0]
Inserted(row) == IF \E a \in rows : a.idem = row.idem THEN rows ELSE rows \cup {row}

\* The rows of the sections are written before the narration is complete.
SaveSection(t) ==
  /\ task[t].phase = "sections" /\ run[task[t].run].row
  /\ \E s \in Sections :
       /\ ~\E a \in rows : a.idem = <<t, s>>
       /\ rows' = Inserted(Row(t, s, FALSE))
  /\ UNCHANGED <<run, task, files, request, sweeper>>

Concatenate(t) ==
  /\ task[t].phase = "sections"
  /\ \A s \in Sections : \E a \in rows : a.idem = <<t, s>>
  /\ Made(t)

\* Anything but a provider's error falls back to a single pass.
FallBack(t) == task[t].phase = "sections" /\ To(t, "making") /\ UNCHANGED files /\ Unchanged

(* An attempt that fails takes the audio files it wrote away, whatever     *)
(* rows refer to them; subtitles and video stay half written.              *)
Attempted(t, kinds) == task[t].phase \in {"making", "sections"} /\ task[t].kind \in kinds
NarrationFails(t) ==
  Attempted(t, {"audio"}) /\ files' = files \ Directory(t) /\ Ends(t, "failed") /\ Unchanged
ParagraphFails(t) ==
  /\ Attempted(t, {"paragraph_audio"}) /\ files' = {f \in files : f.path # Target(t)}
  /\ Ends(t, "failed") /\ Unchanged
CaptionsOrVideoFail(t) ==
  /\ Attempted(t, {"paragraph_subtitles", "subtitles", "video"}) /\ UNCHANGED files
  /\ Ends(t, "failed") /\ Unchanged

\* store_artifact_file and the INSERT, which needs the run's row.
Saved(t, kinds) ==
  /\ task[t].phase = "made" /\ task[t].kind \in kinds
  /\ IF Stored(Target(t)) /\ run[task[t].run].row
     THEN rows' = Inserted(Row(t, task[t].sec, TRUE)) /\ To(t, "saved")
     ELSE rows' = rows /\ Ends(t, "failed")
  /\ UNCHANGED <<run, files, request, sweeper>>
SaveAudio(t) == Saved(t, {"audio", "paragraph_audio"})
SaveSubtitles(t) == Saved(t, {"subtitles", "paragraph_subtitles"})
SaveVideo(t) == Saved(t, {"video"})

\* The row ends if it is still running; a full artifact advances the run.
Finish(t) ==
  LET k == task[t].kind
      r == task[t].run
  IN  /\ task[t].phase = "saved"
      /\ task' = [task EXCEPT ![t].phase = "off",
                              ![t].row = IF @ = "running" THEN "completed" ELSE @]
      /\ run' = IF SuccessStage(k) # Nothing /\ ~Refuses(r) /\ run[r].stage \in AllowedStages(k)
                   /\ task[t].row = "running"
                THEN [run EXCEPT ![r].stage = SuccessStage(k)] ELSE run
      /\ UNCHANGED <<files, rows, request, sweeper>>

WorkerDies(t) == task[t].phase # "off" /\ To(t, "off") /\ UNCHANGED files /\ Unchanged

WorkerStep(t) ==
  \/ Start(t) \/ MakeParagraph(t) \/ MakeNarration(t) \/ MakeSections(t) \/ MakeSubtitles(t)
  \/ MakeParagraphSubtitles(t) \/ MakeVideo(t) \/ SaveSection(t) \/ Concatenate(t)
  \/ FallBack(t) \/ NarrationFails(t) \/ ParagraphFails(t) \/ CaptionsOrVideoFail(t)
  \/ SaveAudio(t) \/ SaveSubtitles(t) \/ SaveVideo(t) \/ Finish(t) \/ WorkerDies(t)

(* Retention.  ARTIFACT_RETENTION_DAYS pass only for tasks that have ended, *)
(* and by then their message has been delivered for the last time.          *)
Expire ==
  /\ \E a \in rows :
       /\ ~a.expired /\ task[a.idem[1]].row \notin Active
       /\ task[a.idem[1]].phase = "off"
       /\ rows' = (rows \ {a}) \cup {[a EXCEPT !.expired = TRUE]}
       /\ task' = [task EXCEPT ![a.idem[1]].message = FALSE]
  /\ UNCHANGED <<run, files, request, sweeper>>

SweepExpired ==
  /\ \E a \in rows : a.expired /\ ~a.wanted
  /\ rows' = {[a EXCEPT !.wanted = @ \/ a.expired] : a \in rows}
  /\ UNCHANGED <<run, task, files, request, sweeper>>

Requested(a) == a.wanted \/ a.tries > 0
Retryable == {a \in rows : Requested(a) /\ a.tries < MaxRetries /\ a.keyed
                           /\ a.id \notin sweeper.tried}
\* Counted up to the bound that ends the retries.
FailedOnce(a) == [a EXCEPT !.tries = Min({@ + 1, MaxRetries})]
Locked(ids) == sweeper.phase # "idle" /\ sweeper.row \in ids

\* One row per transaction, locked while its object is deleted.
PickRow ==
  /\ sweeper.phase = "idle" /\ Retryable # {}
  /\ LET a == CHOOSE a \in Retryable : \A b \in Retryable : a.id <= b.id
     IN  sweeper' = [phase |-> "object", row |-> a.id, tried |-> sweeper.tried \cup {a.id}]
  /\ UNCHANGED <<run, task, files, rows, request>>

Picked == CHOOSE a \in rows : a.id = sweeper.row
SweepObject ==
  /\ sweeper.phase = "object"
  /\ \/ /\ files' = {f \in files : f.path # Picked.path}
        /\ sweeper' = [sweeper EXCEPT !.phase = "row"] /\ UNCHANGED rows
     \/ /\ StorageFaults
        /\ rows' = (rows \ {Picked}) \cup {FailedOnce(Picked)}
        /\ sweeper' = [sweeper EXCEPT !.phase = "idle", !.row = Nothing] /\ UNCHANGED files
  /\ UNCHANGED <<run, task, request>>

SweepRow ==
  /\ sweeper.phase = "row" /\ rows' = rows \ {Picked}
  /\ sweeper' = [sweeper EXCEPT !.phase = "idle", !.row = Nothing]
  /\ UNCHANGED <<run, task, files, request>>

\* The pass ends, or its worker dies and the transaction is rolled back.
PassEnds ==
  /\ sweeper.tried # {} /\ sweeper' = [phase |-> "idle", row |-> Nothing, tried |-> {}]
  /\ UNCHANGED <<run, task, files, rows, request>>

RetentionStep == Expire \/ SweepExpired \/ PickRow \/ SweepObject \/ SweepRow \/ PassEnds

(* What get_storyboard shows of a paragraph that has an active image or not. *)
Shown(r, s, image) ==
  LET busy == \E t \in Tasks : task[t].run = r /\ task[t].row \in Active
      audio == Narrated(r, s)
      subtitles == Captioned(r, s)
      works(stage) == run[r].stage = stage \/ (busy /\ run[r].stage \in StoryboardStages)
  IN  CASE image /\ audio /\ subtitles -> "ready"
        [] run[r].stage = "VISUAL_ASSET_GENERATING" /\ ~image -> "generating_image"
        [] works("AUDIO_GENERATING") /\ image /\ ~audio -> "generating_audio"
        [] works("SUBTITLE_GENERATING") /\ audio /\ ~subtitles -> "generating_subtitles"
        [] OTHER -> "idle"
=============================================================================

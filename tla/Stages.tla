------------------------------- MODULE Stages -------------------------------
(***************************************************************************)
(* The stage machine of a pipeline run, and what each kind of run-level    *)
(* task does to it: the tables of creator_domain/models/stage.py, the      *)
(* dispatch arguments of the API's trigger routes and the                  *)
(* TaskRunnerConfig of each Celery task.                                   *)
(***************************************************************************)

RunStages ==
  {"IDEA_READY", "SCRIPT_GENERATING", "SCRIPT_REVIEW",
   "VISUAL_PLAN_SETUP", "VISUAL_PLAN_GENERATING", "VISUAL_PLAN_REVIEW",
   "VISUAL_ASSET_GENERATING", "VISUAL_ASSET_REVIEW",
   "AUDIO_GENERATING", "SUBTITLE_GENERATING", "TIMELINE_REVIEW",
   "RENDER_GENERATING", "FINAL_REVIEW", "PUBLISHED", "FAILED"}

RunStatuses ==
  {"pending", "running", "paused", "failed", "cancelled", "completed"}

GeneratingStages ==
  {"SCRIPT_GENERATING", "VISUAL_PLAN_GENERATING", "VISUAL_ASSET_GENERATING",
   "AUDIO_GENERATING", "SUBTITLE_GENERATING", "RENDER_GENERATING"}

ReviewStages ==
  {"SCRIPT_REVIEW", "VISUAL_PLAN_REVIEW", "VISUAL_ASSET_REVIEW",
   "TIMELINE_REVIEW", "FINAL_REVIEW"}

Transitions ==
  [IDEA_READY              |-> {"SCRIPT_GENERATING"},
   SCRIPT_GENERATING       |-> {"SCRIPT_REVIEW", "FAILED"},
   SCRIPT_REVIEW           |-> {"VISUAL_PLAN_SETUP", "SCRIPT_GENERATING"},
   VISUAL_PLAN_SETUP       |-> {"VISUAL_PLAN_GENERATING"},
   VISUAL_PLAN_GENERATING  |-> {"VISUAL_PLAN_REVIEW", "FAILED"},
   VISUAL_PLAN_REVIEW      |-> {"VISUAL_ASSET_GENERATING",
                                "VISUAL_PLAN_GENERATING"},
   VISUAL_ASSET_GENERATING |-> {"VISUAL_ASSET_REVIEW", "FAILED"},
   VISUAL_ASSET_REVIEW     |-> {"AUDIO_GENERATING",
                                "VISUAL_ASSET_GENERATING"},
   AUDIO_GENERATING        |-> {"SUBTITLE_GENERATING", "FAILED"},
   SUBTITLE_GENERATING     |-> {"RENDER_GENERATING", "FAILED"},
   TIMELINE_REVIEW         |-> {"RENDER_GENERATING"},
   RENDER_GENERATING       |-> {"FINAL_REVIEW", "FAILED"},
   FINAL_REVIEW            |-> {"PUBLISHED", "RENDER_GENERATING"},
   PUBLISHED               |-> {},
   FAILED                  |-> GeneratingStages]

CanTransition(current, target) == target \in Transitions[current]

StageBeforeGenerating ==
  [SCRIPT_GENERATING       |-> "IDEA_READY",
   VISUAL_PLAN_GENERATING  |-> "VISUAL_PLAN_SETUP",
   VISUAL_ASSET_GENERATING |-> "VISUAL_PLAN_REVIEW",
   AUDIO_GENERATING        |-> "VISUAL_ASSET_REVIEW",
   SUBTITLE_GENERATING     |-> "VISUAL_ASSET_REVIEW",
   RENDER_GENERATING       |-> "VISUAL_ASSET_REVIEW"]

StageBack ==
  [SCRIPT_REVIEW       |-> "IDEA_READY",
   VISUAL_PLAN_SETUP   |-> "SCRIPT_REVIEW",
   VISUAL_PLAN_REVIEW  |-> "VISUAL_PLAN_SETUP",
   VISUAL_ASSET_REVIEW |-> "VISUAL_PLAN_REVIEW",
   FINAL_REVIEW        |-> "VISUAL_ASSET_REVIEW"]

(***************************************************************************)
(* The approvals a user can give without dispatching a task.               *)
(***************************************************************************)
ApprovedStage ==
  [SCRIPT_REVIEW       |-> "VISUAL_PLAN_SETUP",
   VISUAL_PLAN_REVIEW  |-> "VISUAL_ASSET_GENERATING",
   VISUAL_ASSET_REVIEW |-> "AUDIO_GENERATING"]

-----------------------------------------------------------------------------
(* The run-level task kinds. *)

(* The stages a trigger route accepts, also the expected set of its CAS:   *)
(* those of TRIGGER_POLICY, except for the two routes that name their own. *)
SubtitleTriggerStages == {"AUDIO_GENERATING", "SUBTITLE_GENERATING"}

RenderTriggerStages == {"SUBTITLE_GENERATING", "RENDER_GENERATING"}

TriggerStages ==
  [generate_script      |-> {"IDEA_READY", "SCRIPT_REVIEW",
                             "SCRIPT_GENERATING"},
   generate_visual_plan |-> {"VISUAL_PLAN_SETUP", "VISUAL_PLAN_GENERATING"},
   generate_audio       |-> {"VISUAL_ASSET_REVIEW", "AUDIO_GENERATING"},
   generate_subtitles   |-> SubtitleTriggerStages,
   render_video         |-> RenderTriggerStages]

TargetStage ==
  [generate_script      |-> "SCRIPT_GENERATING",
   generate_visual_plan |-> "VISUAL_PLAN_GENERATING",
   generate_audio       |-> "AUDIO_GENERATING",
   generate_subtitles   |-> "SUBTITLE_GENERATING",
   render_video         |-> "RENDER_GENERATING"]

(* allowed_stages: where a delivered task may start. *)
AllowedStages ==
  [generate_script      |-> {"IDEA_READY", "SCRIPT_GENERATING"},
   generate_visual_plan |-> {"VISUAL_PLAN_SETUP", "VISUAL_PLAN_GENERATING"},
   generate_audio       |-> {"VISUAL_ASSET_REVIEW", "AUDIO_GENERATING"},
   generate_subtitles   |-> {"AUDIO_GENERATING", "SUBTITLE_GENERATING"},
   render_video         |-> {"RENDER_GENERATING"}]

(* safe_stages: where its outcome may still move the run. *)
SafeStages ==
  [generate_script      |-> {"IDEA_READY", "SCRIPT_GENERATING"},
   generate_visual_plan |-> {"VISUAL_PLAN_GENERATING"},
   generate_audio       |-> {"VISUAL_ASSET_REVIEW", "AUDIO_GENERATING"},
   generate_subtitles   |-> {"AUDIO_GENERATING", "SUBTITLE_GENERATING"},
   render_video         |-> {"RENDER_GENERATING"}]

SuccessStage ==
  [generate_script      |-> "SCRIPT_REVIEW",
   generate_visual_plan |-> "VISUAL_PLAN_REVIEW",
   generate_audio       |-> "SUBTITLE_GENERATING",
   generate_subtitles   |-> "RENDER_GENERATING",
   render_video         |-> "FINAL_REVIEW"]

(* The kinds whose task may refuse its inputs before calling a provider. *)
InputErrorKinds ==
  {"generate_visual_plan", "generate_audio", "generate_subtitles"}

(* The stages a reconciler may fail a run in. *)
RollbackStages ==
  GeneratingStages \cup
  {"IDEA_READY", "VISUAL_PLAN_SETUP", "SCRIPT_REVIEW",
   "VISUAL_PLAN_REVIEW", "VISUAL_ASSET_REVIEW"}

=============================================================================

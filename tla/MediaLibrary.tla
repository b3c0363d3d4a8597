---------------------------- MODULE MediaLibrary ----------------------------
(***************************************************************************)
(* What becomes of stored media: the project's timeline that refers to     *)
(* assets (postgres_timeline_storage.py), the approval that fixes a        *)
(* revision of it and advances the run (creator_timeline_render.py,        *)
(* stage_review_service.py, postgres_stage_review_storage.py), the ways    *)
(* around it (restart_run, go_back and POST /runs/{id}/render), the render *)
(* of that revision (timeline_render.py), and the retention sweep that     *)
(* deletes what nothing refers to (media_retention.py,                     *)
(* postgres_media_retention_storage.py).  MediaUploads brings the assets   *)
(* in; a saved upload is an asset.                                         *)
(*                                                                         *)
(* Every statement or transaction, every call of the object store and      *)
(* every await between them is an action.  Assets are old enough to be     *)
(* deleted whenever nothing protects them; a claim's lease runs out at any *)
(* time.  A stopped run is resumed at once: its status is left out.        *)
(***************************************************************************)
EXTENDS MediaUploads, Stages, SequencesExt

CONSTANTS
  Stored,         \* the assets there are to begin with, in the timeline
  Keepers,        \* sweep_media_retention passes
  Approvers,      \* requests to approve the timeline and render, or to render
  UserStages,     \* bound: the stages the user moves the run to
  MaxRevision,    \* bound: saves of the timeline
  LibraryFaults   \* review, undo, dispatch, stop, keeper, object

ASSUME LibraryAssumption ==
  /\ Stored \subseteq Uploads
  /\ MaxRevision \in Nat
  /\ UserStages \subseteq RunStages

VARIABLES
  claim,     \* creator_media_asset_deletion_claims
  keeper,    \* the retention sweeps
  timeline,  \* the project's row of creator_timelines
  editor,    \* a save of the timeline under way
  run,       \* stage and render_timeline_revision of the run, and (history)
             \* the approval that took it to its render, nobody otherwise
  reviews,   \* creator_stage_reviews with creator_approved_timeline_assets,
             \* the latest last
  approver,  \* the requests to approve or render
  render     \* the render task each of them dispatches

libraryOnly == <<claim, keeper, timeline, editor, run, reviews, approver, render>>
libraryVars == <<uploadVars, libraryOnly>>

Nobody == "nobody"
NoClaim == [token |-> Nobody, live |-> FALSE, deleting |-> FALSE]
RestingKeeper == [phase |-> "idle", todo |-> {}, key |-> Nobody, died |-> FALSE]
NoPlan == [rev |-> 0, assets |-> {}]
NoRender == [phase |-> "none", revision |-> 0, plan |-> NoPlan]

Claimed == {a \in Uploads : claim[a] # NoClaim}

(* get_asset, list_assets and save_timeline see no asset with a claim.     *)
Visible == media \ Claimed

Approved == UNION {reviews[i].assets : i \in DOMAIN reviews}
Referenced == timeline.assets

LibraryInit ==
  /\ intent = [u \in Uploads |->
       [state |-> IF u \in Stored THEN "completed" ELSE "none", reserved |-> 0,
        live |-> FALSE, token |-> NobodySweeps, retries |-> 0]]
  /\ upload = [u \in Uploads |-> IF u \in Stored THEN "ended" ELSE "idle"]
  /\ sweep = [s \in Sweepers |-> RestingSweep]
  /\ media = Stored /\ blobs = Stored
  /\ claim = [u \in Uploads |-> NoClaim]
  /\ keeper = [k \in Keepers |-> RestingKeeper]
  /\ timeline = [rev |-> 1, assets |-> Stored]
  /\ editor = [phase |-> "idle", plan |-> NoPlan]
  /\ run = [stage |-> "TIMELINE_REVIEW", revision |-> 0, by |-> Nobody]
  /\ reviews = <<>>
  /\ approver = [p \in Approvers |-> [phase |-> "idle", plan |-> NoPlan, before |-> 0,
                                      from |-> "TIMELINE_REVIEW"]]
  /\ render = [p \in Approvers |-> NoRender]

-----------------------------------------------------------------------------
(* The timeline: TimelineService.save_timeline looks the assets up, then   *)
(* the storage's statement checks revision and claims again under the      *)
(* workspace's lock.                                                       *)

StartSave(S) ==
  /\ editor.phase = "idle"
  /\ timeline.rev < MaxRevision
  /\ S \subseteq Visible
  /\ editor' = [phase |-> "save", plan |-> [rev |-> timeline.rev, assets |-> S]]
  /\ UNCHANGED <<uploadVars, claim, keeper, timeline, run, reviews, approver, render>>

Savable(plan) == timeline.rev = plan.rev /\ plan.assets \subseteq Visible

SaveTimeline ==
  /\ editor.phase = "save"
  /\ timeline' = IF Savable(editor.plan)
                 THEN [rev |-> timeline.rev + 1, assets |-> editor.plan.assets]
                 ELSE timeline
  /\ editor' = [phase |-> "idle", plan |-> NoPlan]
  /\ UNCHANGED <<uploadVars, claim, keeper, run, reviews, approver, render>>

-----------------------------------------------------------------------------
(* Retention. *)

Keeps(k) == claim[keeper[k].key].token = k
ToKeeper(k, phase) == keeper' = [keeper EXCEPT ![k].phase = phase]
NextAsset(k) ==
  keeper' = [keeper EXCEPT ![k].phase = "next", ![k].key = Nobody]
StopsKeeping(k) ==
  keeper' = [keeper EXCEPT ![k] = [RestingKeeper EXCEPT !.died = keeper[k].died]]

(* Mutant: an asset somebody has claimed is left to them for ever.         *)
ExpiredUnclaimed == Visible \ (Referenced \cup Approved)

(* select_retention_candidates over list_retention_assets *)
Expendable ==
  {a \in media \ (Referenced \cup Approved) : ~claim[a].live}

StartKeeping(k) ==
  /\ keeper[k].phase = "idle"
  /\ Expendable # {}
  /\ keeper' = [keeper EXCEPT ![k].phase = "next", ![k].todo = Expendable]
  /\ UNCHANGED <<uploadVars, claim, timeline, editor, run, reviews, approver, render>>

(* Mutant: the candidates are deleted although they are used by now.       *)
UnprotectedAsListed(a) == TRUE

Unprotected(a) == a \notin Referenced \cup Approved

(* claim_retained_asset *)
ClaimAsset(k, a) ==
  /\ keeper[k].phase = "next"
  /\ a \in keeper[k].todo
  /\ IF a \in media /\ Unprotected(a) /\ ~claim[a].live
     THEN /\ claim' = [claim EXCEPT ![a].token = k, ![a].live = TRUE]
          /\ keeper' = [keeper EXCEPT ![k].phase = "fence", ![k].key = a,
                                      ![k].todo = @ \ {a}]
     ELSE /\ keeper' = [keeper EXCEPT ![k].todo = @ \ {a}]
          /\ UNCHANGED claim
  /\ UNCHANGED <<uploadVars, timeline, editor, run, reviews, approver, render>>

(* finalize_retained_asset, first transaction *)
FenceDeletion(k) ==
  LET a == keeper[k].key
  IN /\ keeper[k].phase = "fence"
     /\ IF Keeps(k) /\ claim[a].live /\ Unprotected(a)
        THEN /\ claim' = [claim EXCEPT ![a].deleting = TRUE]
             /\ ToKeeper(k, "delete")
        ELSE /\ claim' = IF Keeps(k) /\ ~claim[a].deleting
                         THEN [claim EXCEPT ![a] = NoClaim] ELSE claim
             /\ NextAsset(k)
     /\ UNCHANGED <<uploadVars, timeline, editor, run, reviews, approver, render>>

(* An error of the store leaves the sweep, and the claim stays. *)
DeleteObject(k) ==
  /\ keeper[k].phase = "delete"
  /\ \/ ToKeeper(k, "row") /\ blobs' = blobs \ {keeper[k].key}
     \/ "object" \in LibraryFaults /\ StopsKeeping(k) /\ UNCHANGED blobs
  /\ UNCHANGED <<intent, upload, sweep, media, claim, timeline, editor, run,
                 reviews, approver, render>>

(* The second transaction; the claim goes with the row. *)
DropRow(k) ==
  LET a == keeper[k].key
  IN /\ keeper[k].phase = "row"
     /\ IF Keeps(k) /\ claim[a].deleting
        THEN media' = media \ {a} /\ claim' = [claim EXCEPT ![a] = NoClaim]
        ELSE UNCHANGED <<media, claim>>
     /\ NextAsset(k)
     /\ UNCHANGED <<intent, upload, sweep, blobs, timeline, editor, run, reviews,
                    approver, render>>

KeepingEnds(k) ==
  /\ keeper[k].phase = "next"
  /\ keeper[k].todo = {}
  /\ StopsKeeping(k)
  /\ UNCHANGED <<uploadVars, claim, timeline, editor, run, reviews, approver, render>>

(* The worker dies (bound: once for each sweep). *)
KeeperDies(k) ==
  /\ "keeper" \in LibraryFaults
  /\ keeper[k].phase # "idle"
  /\ ~keeper[k].died
  /\ keeper' = [keeper EXCEPT ![k] = [RestingKeeper EXCEPT !.died = TRUE]]
  /\ UNCHANGED <<uploadVars, claim, timeline, editor, run, reviews, approver, render>>

ClaimRunsOut(a) ==
  /\ claim[a].live
  /\ claim' = [claim EXCEPT ![a].live = FALSE]
  /\ UNCHANGED <<uploadVars, keeper, timeline, editor, run, reviews, approver, render>>

KeeperStep(k) ==
  \/ StartKeeping(k) \/ (\E a \in Uploads : ClaimAsset(k, a)) \/ FenceDeletion(k)
  \/ DeleteObject(k) \/ DropRow(k) \/ KeepingEnds(k)

-----------------------------------------------------------------------------
(* The run: everybody but an approval moves its stage alone. *)

MoveTo(stage) == run' = [run EXCEPT !.stage = stage, !.by = Nobody]
libraryBelow == <<uploadVars, claim, keeper, timeline, editor>>

(* restart_run dispatches nothing, and asks for no approval. *)
RestartRun(stage) ==
  /\ CanTransition(run.stage, stage)
  /\ MoveTo(stage)
  /\ UNCHANGED <<libraryBelow, reviews, approver, render>>

GoBack ==
  /\ run.stage \in DOMAIN StageBack
  /\ StageBack[run.stage] \in UserStages
  /\ MoveTo(StageBack[run.stage])
  /\ UNCHANGED <<libraryBelow, reviews, approver, render>>

(* stop_run while the render is generated *)
StopRender ==
  /\ "stop" \in LibraryFaults
  /\ run.stage = "RENDER_GENERATING"
  /\ MoveTo(StageBeforeGenerating[run.stage])
  /\ UNCHANGED <<libraryBelow, reviews, approver, render>>

UserMoves == (\E stage \in UserStages : RestartRun(stage)) \/ GoBack \/ StopRender

-----------------------------------------------------------------------------
(* The approval. *)

ToApprover(p, phase) == approver' = [approver EXCEPT ![p].phase = phase]

(* approve_timeline_render: the stage, then the timeline's revision. *)
LoadTimeline(p) ==
  /\ approver[p].phase = "idle"
  /\ run.stage = "TIMELINE_REVIEW"
  /\ approver' = [approver EXCEPT ![p].phase = "compile", ![p].plan = timeline]
  /\ UNCHANGED <<libraryBelow, run, reviews, render>>

CompilePlan(p) ==
  /\ approver[p].phase = "compile"
  /\ ToApprover(p, IF approver[p].plan.assets \subseteq Visible THEN "recheck"
                   ELSE "ended")
  /\ UNCHANGED <<libraryBelow, run, reviews, render>>

RecheckRevision(p) ==
  /\ approver[p].phase = "recheck"
  /\ ToApprover(p, IF timeline.rev = approver[p].plan.rev THEN "original" ELSE "ended")
  /\ UNCHANGED <<libraryBelow, run, reviews, render>>

(* approve_and_advance reads what a rollback would restore, ... *)
CaptureOriginal(p) ==
  /\ approver[p].phase = "original"
  /\ approver' = [approver EXCEPT ![p].phase = "advance", ![p].before = run.revision]
  /\ UNCHANGED <<libraryBelow, run, reviews, render>>

(* ... then advances by compare-and-swap. *)
AdvanceRun(p) ==
  /\ approver[p].phase = "advance"
  /\ IF run.stage = "TIMELINE_REVIEW"
     THEN /\ run' = [stage |-> "RENDER_GENERATING", revision |-> approver[p].plan.rev,
                     by |-> p]
          /\ ToApprover(p, "review")
     ELSE ToApprover(p, "ended") /\ UNCHANGED run
  /\ UNCHANGED <<libraryBelow, reviews, render>>

(* An asset that is being deleted, or may be, cannot be approved. *)
Reviewable(plan) ==
  /\ timeline.rev = plan.rev
  /\ \A a \in plan.assets : ~claim[a].deleting /\ ~claim[a].live

(* create_review *)
RecordReview(p) ==
  /\ approver[p].phase = "review"
  /\ \/ /\ Reviewable(approver[p].plan)
        /\ reviews' = Append(reviews, approver[p].plan)
        /\ ToApprover(p, "dispatch")
     \/ /\ ~Reviewable(approver[p].plan) \/ "review" \in LibraryFaults
        /\ ToApprover(p, "undo")
        /\ UNCHANGED reviews
  /\ UNCHANGED <<libraryBelow, run, render>>

(* The rollback of approve_and_advance, fenced by the stage alone.  One    *)
(* that matches nothing or raises is logged as an inconsistency, and the   *)
(* run stays where it is.                                                  *)
UndoAdvance(p) ==
  /\ approver[p].phase = "undo"
  /\ \/ /\ run.stage = "RENDER_GENERATING"
        /\ run' = [stage |-> "TIMELINE_REVIEW", revision |-> approver[p].before,
                   by |-> Nobody]
        /\ ToApprover(p, "ended")
     \/ /\ run.stage # "RENDER_GENERATING" \/ "undo" \in LibraryFaults
        /\ ToApprover(p, "inconsistent")
        /\ UNCHANGED run
  /\ UNCHANGED <<libraryBelow, reviews, render>>

StillRenders(task) == task.phase \notin {"none", "ended"}

(* render_trigger *)
AskRender(p) ==
  /\ approver[p].phase = "idle"
  /\ run.stage \in TriggerStages.render_video
  /\ run.stage = "RENDER_GENERATING" => \A q \in Approvers : ~StillRenders(render[q])
  /\ approver' = [approver EXCEPT ![p].phase = "dispatch", ![p].from = run.stage]
  /\ UNCHANGED <<libraryBelow, run, reviews, render>>

(* The expected stages of an approval's dispatch, and of the trigger's. *)
ExpectedStages(p) ==
  IF approver[p].from = "TIMELINE_REVIEW" THEN {"RENDER_GENERATING"}
  ELSE TriggerStages.render_video

Publish(p) == render' = [render EXCEPT ![p].phase = "published"]
TakeToRender ==
  IF run.stage = "RENDER_GENERATING" THEN UNCHANGED run ELSE MoveTo("RENDER_GENERATING")

(* cas_dispatch_with_rollback; DispatchCAS has its steps.  A dispatch that *)
(* fails takes the stage back, or fails to, and leaves the metadata; its   *)
(* message may have been sent all the same.                                *)
DispatchRender(p) ==
  /\ approver[p].phase = "dispatch"
  /\ ToApprover(p, "ended")
  /\ \/ run.stage \in ExpectedStages(p) /\ TakeToRender /\ Publish(p)
     \/ /\ "dispatch" \in LibraryFaults /\ run.stage \in ExpectedStages(p)
        /\ TakeToRender \/ MoveTo(approver[p].from)
        /\ UNCHANGED render \/ Publish(p)
     \/ /\ run.stage \notin ExpectedStages(p) \/ "dispatch" \in LibraryFaults
        /\ UNCHANGED <<run, render>>
  /\ UNCHANGED <<libraryBelow, reviews>>

ApproverStep(p) ==
  \/ LoadTimeline(p) \/ CompilePlan(p) \/ RecheckRevision(p) \/ CaptureOriginal(p)
  \/ AdvanceRun(p) \/ RecordReview(p) \/ UndoAdvance(p)
  \/ AskRender(p) \/ DispatchRender(p)

-----------------------------------------------------------------------------
(* The render worker, render_saved_timeline.  A check that fails ends the  *)
(* task.  Without a revision there is no timeline to render: the run's     *)
(* scenes are.                                                             *)

ToRender(p, check, phase) ==
  render' = [render EXCEPT ![p].phase = IF check THEN phase ELSE "failed"]

ReadApprovedRevision(p) ==
  /\ render[p].phase = "published"
  /\ run.stage = "RENDER_GENERATING" /\ run.revision # 0
  /\ render' = [render EXCEPT ![p].phase = "load", ![p].revision = run.revision]
  /\ UNCHANGED <<libraryBelow, run, reviews, approver>>

(* Mutant: whatever is in the timeline by now is rendered. *)
LoadedAtAnyRevision(p) == TRUE

LoadedAsApproved(p) == timeline.rev = render[p].revision

LoadForRender(p) ==
  /\ render[p].phase = "load"
  /\ render' = [render EXCEPT ![p].plan = timeline,
                  ![p].phase = IF LoadedAsApproved(p) THEN "approval" ELSE "failed"]
  /\ UNCHANGED <<libraryBelow, run, reviews, approver>>

CheckApproval(p) ==
  /\ render[p].phase = "approval"
  /\ ToRender(p, reviews # <<>> /\ Last(reviews).rev = render[p].revision, "resolve")
  /\ UNCHANGED <<libraryBelow, run, reviews, approver>>

ResolveAssets(p) ==
  /\ render[p].phase = "resolve"
  /\ ToRender(p, render[p].plan.assets \subseteq Visible, "materialize")
  /\ UNCHANGED <<libraryBelow, run, reviews, approver>>

(* materialize_plan opens the objects. *)
Materialize(p) ==
  /\ render[p].phase = "materialize"
  /\ ToRender(p, render[p].plan.assets \subseteq blobs, "rendered")
  /\ UNCHANGED <<libraryBelow, run, reviews, approver>>

(* The outcome moves a run that is still rendering. *)
EndRender(p) ==
  /\ render[p].phase \in {"rendered", "failed"}
  /\ render' = [render EXCEPT ![p].phase = "ended"]
  /\ IF run.stage \in SafeStages.render_video
     THEN MoveTo(IF render[p].phase = "rendered" THEN SuccessStage.render_video
                 ELSE "FAILED")
     ELSE UNCHANGED run
  /\ UNCHANGED <<libraryBelow, reviews, approver>>

RenderStep(p) ==
  \/ ReadApprovedRevision(p) \/ LoadForRender(p) \/ CheckApproval(p)
  \/ ResolveAssets(p) \/ Materialize(p) \/ EndRender(p)

-----------------------------------------------------------------------------
UploadSide ==
  /\ \/ \E u \in Uploads :
          UploadStep(u) \/ UploaderDies(u) \/ LandLate(u) \/ LeaseRunsOut(u)
     \/ \E s \in Sweepers : SweepStep(s) \/ SweeperDies(s)
  /\ UNCHANGED libraryOnly

LibraryNext ==
  \/ UploadSide
  \/ \E S \in SUBSET Uploads : StartSave(S)
  \/ SaveTimeline
  \/ \E k \in Keepers : KeeperStep(k) \/ KeeperDies(k)
  \/ \E a \in Uploads : ClaimRunsOut(a)
  \/ \E p \in Approvers : ApproverStep(p) \/ RenderStep(p)
  \/ UserMoves

LibrarySafe == LibraryInit /\ [][LibraryNext]_libraryVars

(* The beat's sweeps go on; the store's deletions do not fail for ever,    *)
(* and the 15 minutes of a claim do not always run out before its next     *)
(* statement.                                                              *)
LibraryFairness ==
  /\ \A k \in Keepers : WF_libraryVars(KeeperStep(k))
  /\ \A k \in Keepers :
       /\ SF_libraryVars(FenceDeletion(k) /\ keeper'[k].phase = "delete")
       /\ SF_libraryVars(DeleteObject(k) /\ keeper'[k].phase = "row")
  /\ \A a \in Uploads : WF_libraryVars(ClaimRunsOut(a))

LibrarySpec == LibrarySafe /\ UploadFairness /\ LibraryFairness

-----------------------------------------------------------------------------
(* Properties. *)

LibraryTypeOK ==
  /\ UploadTypeOK
  /\ claim \in [Uploads -> [token : Keepers \cup {Nobody}, live : BOOLEAN,
                            deleting : BOOLEAN]]
  /\ timeline.rev \in 1 .. MaxRevision
  /\ timeline.assets \subseteq Uploads
  /\ run.stage \in RunStages /\ run.revision \in 0 .. MaxRevision

(* Every asset a user can see has its object: the upload sweep never       *)
(* deletes what a slow request goes on to save, and the retention sweep    *)
(* hides an asset before it touches it (save_uploaded_asset,               *)
(* media_upload_reconciliation.sweep, finalize_retained_asset).            *)
AssetHasObject == Visible \subseteq blobs

(* What the timeline or an approval refers to keeps its row and its        *)
(* object, whichever of the save, the approval and the deletion is first   *)
(* (the workspace lock of save_timeline, create_review and                 *)
(* claim_retained_asset).                                                  *)
ReferencedAssetsStay == Referenced \cup Approved \subseteq Visible \cap blobs

(* A render of the timeline is of an approved plan and misses no object,   *)
(* whoever took the run to it and dispatched the task, and although        *)
(* nothing is locked between the checks and the reads                      *)
(* (timeline_render.py:98).                                                *)
RenderedIsApproved ==
  \A p \in Approvers :
    render[p].phase \in {"resolve", "materialize", "rendered"} =>
      /\ render[p].plan.assets \subseteq blobs
      /\ \E i \in DOMAIN reviews : reviews[i] = render[p].plan

(* A run that an approval took past the review was reviewed at the         *)
(* revision its metadata names, unless the approval is still under way, or *)
(* has reported that its rollback failed (stage_review_service.py:155).    *)
(* Nothing is said of a run its user restarted past the review.            *)
ApprovalIsRecorded ==
  run.stage = "RENDER_GENERATING" /\ run.by # Nobody =>
    \/ approver[run.by].phase \in {"review", "undo", "inconsistent"}
    \/ \E i \in DOMAIN reviews : reviews[i].rev = run.revision

(* What is rendered was approved, and an approval that advanced the run    *)
(* left its record.                                                        *)
RendersAreApproved == RenderedIsApproved /\ ApprovalIsRecorded

(* A claim does not hide an asset for ever: it is deleted, or seen again.  *)
ClaimsEnd == \A a \in Uploads : (a \in Claimed) ~> (a \notin Claimed)

=============================================================================

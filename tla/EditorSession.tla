---------------------------- MODULE EditorSession ----------------------------
(***************************************************************************)
(* One editing session: the history of accepted edits                      *)
(* (editor_history.py) and the proposals built and applied against it      *)
(* (command_proposal.py, shorten_, pacing_ and replace_asset_proposal.py,  *)
(* scene_regeneration.py, proposal_diff.py, validate_ai_proposal.py).      *)
(* A lock makes every operation of the history one step; a proposal is     *)
(* built in one step and applied in a later one, and in between the user   *)
(* edits and the library changes.                                          *)
(***************************************************************************)
EXTENDS TimelineEdits

CONSTANTS
  FirstCut,    \* the timelines a session may load
  Commands(_), \* the commands a user tries on the segments given
  Requests,    \* the proposals a user asks for
  Fleeting,    \* assets that may leave the library
  MaxDepth,    \* bound: accepted edits that can be undone at one time
  MaxSegments  \* bound: segments of a timeline that is still split

ASSUME SessionAssumption == \A segs \in FirstCut : Orderly(segs)

VARIABLES
  past, now, future,  \* entries [segs, gen] of the history; future is a stack
  lib,                \* assets the workspace-scoped lookup resolves
  proposal            \* the CommandProposal somebody holds, or NoProposal

sessionVars == <<past, now, future, lib, proposal>>

NoProposal == [kind |-> "none"]
SeqLast(s) == s[Len(s)]
SeqFront(s) == SubSeq(s, 1, Len(s) - 1)

SessionInit ==
  /\ \E segs \in FirstCut : now = [segs |-> segs, gen |-> 0]
  /\ past = <<>> /\ future = <<>>
  /\ lib = Assets
  /\ proposal = NoProposal

\* The accepted result replaces the present and ends the redo branch.
Accept(segs) ==
  /\ Len(past) < MaxDepth
  /\ past' = Append(past, now)
  /\ now' = [segs |-> segs, gen |-> now.gen + 1]
  /\ future' = <<>>

UserEdit(c) ==
  /\ c \in EditorCommand
  /\ \E segs \in Apply(lib, now.segs, c) : Accept(segs)
  /\ UNCHANGED <<lib, proposal>>

Undo ==
  /\ past # <<>>
  /\ future' = Append(future, now)
  /\ now' = SeqLast(past)
  /\ past' = SeqFront(past)
  /\ UNCHANGED <<lib, proposal>>

Redo ==
  /\ future # <<>>
  /\ past' = Append(past, now)
  /\ now' = SeqLast(future)
  /\ future' = SeqFront(future)
  /\ UNCHANGED <<lib, proposal>>

\* Whole ticks only: the factor must not leave a fraction.
PaceIsWhole(factor) ==
  \A i \in DOMAIN now.segs : (now.segs[i].dur * factor[1]) % factor[2] = 0

Built(r) ==
  CASE r.kind = "shorten" -> Shorten(now.segs, r.target, r.tolerance)
    [] r.kind = "pace"    -> IF PaceIsWhole(r.factor)
                             THEN Pace(lib, now.segs, r.factor, r.scenes, r.tr) ELSE {}
    [] r.kind = "swap"    -> SwapAsset(lib, now.segs, r.seg, r.asset)
    [] r.kind = "scene"   -> SwapScene(lib, now.segs, r.scene, r.asset)
    [] r.kind = "model"   -> {r.commands}

\* A builder captures the present and its generation; seen and of are what
\* it saw and was asked, kept for the properties.
Propose(r) ==
  /\ proposal = NoProposal /\ Len(past) < MaxDepth
  /\ \E cs \in {b \in Built(r) : b \in Seq(EditorCommand)} :
        proposal' = [kind |-> r.kind, base |-> now.gen, commands |-> cs,
                     seen |-> now.segs, of |-> r]
  /\ UNCHANGED <<past, now, future, lib>>

\* apply_ai_proposal: stale and failing proposals change nothing.
ApplyProposal ==
  /\ proposal # NoProposal
  /\ proposal' = NoProposal
  /\ IF proposal.base = now.gen /\ Batch(lib, now.segs, proposal.commands) # {}
     THEN \E segs \in Batch(lib, now.segs, proposal.commands) : Accept(segs)
     ELSE UNCHANGED <<past, now, future>>
  /\ UNCHANGED lib

\* compute_proposal_diff, what the preview shows of a proposal.
Ids(segs) == {segs[i].id : i \in DOMAIN segs}
Diff(before, after) ==
  [added    |-> Ids(after) \ Ids(before),
   removed  |-> Ids(before) \ Ids(after),
   modified |-> {after[i].id : i \in {j \in DOMAIN after :
                    \E k \in DOMAIN before :
                       before[k].id = after[j].id /\ before[k] # after[j]}},
   was |-> Total(before), is |-> Total(after)]

Preview ==
  {Diff(now.segs, t) : t \in IF proposal.base = now.gen
                             THEN Batch(lib, now.segs, proposal.commands) ELSE {}}

\* An asset leaves the library between a proposal and its application.
AssetGoes(a) ==
  /\ a \in lib /\ proposal # NoProposal /\ Len(past) < MaxDepth
  /\ lib' = lib \ {a}
  /\ UNCHANGED <<past, now, future, proposal>>

SessionNext ==
  \/ \E c \in Commands(now.segs) :
        (c.type = "split" => Len(now.segs) < MaxSegments) /\ UserEdit(c)
  \/ Undo \/ Redo
  \/ \E r \in Requests : Propose(r)
  \/ ApplyProposal
  \/ \E a \in Fleeting : AssetGoes(a)

-----------------------------------------------------------------------------
(* Properties.                                                               *)

Entries == {now} \cup Range(past) \cup Range(future)

\* However edits, batches, undo and redo are combined, every timeline of the
\* history keeps its segments one after the other in time, which is what
\* resize's ripple by position relies on (editor_command_applier.py:248-258),
\* and stays one that compiles as long as its assets are there and it has a
\* segment left (timeline_compiler.py:45-128).
EditsKeepTimelinesSound ==
  \A e \in Entries : /\ InOrder(e.segs)
                     /\ e.segs # <<>> => Compiles(Assets, e.segs)

StillHolds ==
  proposal # NoProposal /\ proposal.seen = now.segs /\ proposal.base = now.gen /\ lib = Assets

OpeningKept(old, new) ==
  \A i \in DOMAIN new : i < Len(new) => new[i] = InTimeOrder(old)[i]

OutOfScopeKept(old, new, scenes) ==
  \A i \in DOMAIN old : old[i].scene \notin scenes =>
     [new[i] EXCEPT !.start = 0] = [old[i] EXCEPT !.start = 0]

\* A proposal applied to the timeline it was built from is never refused and
\* does what its builder promises: a shortened timeline lands on the target
\* within the tolerance and keeps the opening as it was
\* (shorten_proposal.py:4-11), pacing leaves the other scenes' content alone
\* (pacing_proposal.py:9-11), a regenerated scene the other scenes
\* (scene_regeneration.py:8-12), and the preview shows what Apply yields.
ProposalsKeepTheirPromise ==
  StillHolds /\ proposal.kind # "model" =>
    /\ Preview # {}
    /\ \A new \in Batch(lib, now.segs, proposal.commands) :
         /\ proposal.kind = "shorten" =>
              /\ Total(new) <= proposal.of.target
              /\ Total(new) >= proposal.of.target - proposal.of.tolerance
              /\ OpeningKept(now.segs, new)
         /\ proposal.kind = "pace" => OutOfScopeKept(now.segs, new, proposal.of.scenes)
         /\ proposal.kind = "scene" => OutOfScopeKept(now.segs, new, {proposal.of.scene})
         /\ \A d \in Preview : d.is = Total(new)

\* editor_history.py:14-18 says that a proposal built before a later accepted
\* edit is detected as stale.  Undo hands its generation out again.
AppliedToWhatItSaw ==
  [][ApplyProposal /\ now' # now => proposal.seen = now.segs]_sessionVars
=============================================================================

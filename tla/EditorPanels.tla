---------------------------- MODULE EditorPanels ----------------------------
(***************************************************************************)
(* The web client's pure edit models, each with a history of its own       *)
(* (segmentMove.ts, segmentDelete.ts, segmentSplit.ts, segmentResize.ts,   *)
(* segmentReplace.ts, segmentTransition.ts, outputSwitch.ts), driven with  *)
(* the commands that the server's history accepts or refuses.  A panel     *)
(* works on its own fields of a segment: Seen names them.                  *)
(***************************************************************************)
EXTENDS EditorSession

CONSTANT Panels  \* kinds of panels that are opened

VARIABLES panel, output

panelVars == <<panel, output>>

Seen(kind) ==
  CASE kind = "move"       -> {"id", "scene", "dur", "start"}
    [] kind = "delete"     -> {"id", "scene", "asset", "start", "dur"}
    [] kind = "split"      -> {"id", "scene", "start", "dur", "ts", "te"}
    [] kind = "resize"     -> {"id", "scene", "start", "dur", "ts"}
    [] kind = "replace"    -> {"id", "scene", "asset", "dur", "ts", "te"}
    [] kind = "transition" -> {"id", "scene", "dur", "tr"}

View(kind, segs) == [i \in DOMAIN segs |-> [f \in Seen(kind) |-> segs[i][f]]]

ScenesContiguous(segs) ==
  \A i, j, k \in DOMAIN segs :
     i < j /\ j < k /\ segs[i].scene = segs[k].scene => segs[j].scene = segs[i].scene

MoveSegment(segs, c) ==
  {moved \in ApplyMove(segs, c) :
     (\E i \in At(segs, c.seg) : i = c.to + 1) \/ ScenesContiguous(moved)}

DeleteSegment(segs, c) ==
  {LET gone == segs[i]
       rest == SelectSeq(segs, LAMBDA s : s.id # c.seg)
   IN  [j \in DOMAIN rest |->
          IF c.policy = "ripple" /\ rest[j].start >= gone.start
          THEN Shifted(rest[j], -gone.dur) ELSE rest[j]] :
     i \in At(segs, c.seg)}

\* The source offset of the halves is computed for videos alone.
SplitSegment(segs, c) ==
  {LET s == segs[i]
       offset == IF Kind[s.asset] = "video" /\ s.ts # None
                 THEN s.ts + c.at - s.start ELSE None
   IN  Replaced(segs, i, <<[s EXCEPT !.id = Append(@, "a"), !.dur = c.at - s.start,
                                     !.te = offset],
                           [s EXCEPT !.id = Append(@, "b"), !.start = c.at,
                                     !.dur = End(s) - c.at, !.ts = offset]>>) :
     i \in {j \in At(segs, c.seg) : segs[j].start < c.at /\ c.at < End(segs[j])}}

ResizeSegment(segs, c) ==
  {[j \in DOMAIN segs |->
      IF j = i THEN [segs[i] EXCEPT !.dur = c.dur]
      ELSE IF j > i THEN Shifted(segs[j], c.dur - segs[i].dur) ELSE segs[j]] :
     i \in {j \in At(segs, c.seg) :
              /\ c.dur > 0
              /\ Kind[segs[j].asset] = "video" =>
                   c.dur <= Length[segs[j].asset] - From(segs[j])}}

\* The end is clamped first, then the start below the end.
Swapped(s, asset) ==
  LET kept == [s EXCEPT !.asset = asset]
      to == Least(s.te, Length[asset])
      from == Least(s.ts, Most(0, to - 1))
  IN  CASE Kind[asset] = "image"        -> [kept EXCEPT !.ts = None, !.te = None]
        [] s.ts = None \/ s.te = None   -> kept
        [] OTHER -> [kept EXCEPT !.ts = from, !.te = to, !.dur = to - from]

ReplaceAsset(segs, c) ==
  {[segs EXCEPT ![i] = Swapped(@, c.asset)] :
     i \in {j \in At(segs, c.seg) :
              Kind[segs[j].asset] = Kind[c.asset] /\ c.asset \in lib}}

Bound(segs, i) == IF i = 1 THEN segs[i].dur ELSE Least(segs[i].dur, segs[i - 1].dur)

\* A cut has no duration; the other transitions need one the neighbours hold.
SetTransition(segs, c) ==
  {[segs EXCEPT ![i].tr = c.tr] :
     i \in {j \in At(segs, c.seg) :
              c.tr = "cut" \/ (c.dur # None /\ 0 < c.dur /\ c.dur <= Bound(segs, j))}}

-----------------------------------------------------------------------------
(* The panels' histories; their redo stacks grow at the front.  Each panel   *)
(* has an apply, an undo and a redo of its own: the results of an event.     *)

PanelOf(kind, present) ==
  [kind |-> kind, past |-> <<>>, present |-> present, future |-> <<>>]

Advanced(h, present) ==
  [h EXCEPT !.past = Append(@, h.present), !.present = present, !.future = <<>>]

UndoneAtBack(h) ==
  [h EXCEPT !.past = SeqFront(@), !.present = SeqLast(h.past),
            !.future = Append(@, h.present)]

Undone(h) ==
  [h EXCEPT !.past = SeqFront(@), !.present = SeqLast(h.past),
            !.future = <<h.present>> \o @]

Redone(h) ==
  [h EXCEPT !.past = Append(@, h.present), !.present = Head(h.future),
            !.future = Tail(@)]

Walk(h, e, Edit(_, _)) ==
  CASE e.do = "apply" -> {Advanced(h, p) : p \in Edit(h.present, e.edit)}
    [] e.do = "undo"  -> {IF h.past = <<>> THEN h ELSE Undone(h)}
    [] e.do = "redo"  -> {IF h.future = <<>> THEN h ELSE Redone(h)}

MovePanel(h, e) == Walk(h, e, MoveSegment)
DeletePanel(h, e) == Walk(h, e, DeleteSegment)
SplitPanel(h, e) == Walk(h, e, SplitSegment)
ResizePanel(h, e) == Walk(h, e, ResizeSegment)
ReplacePanel(h, e) == Walk(h, e, ReplaceAsset)
TransitionPanel(h, e) == Walk(h, e, SetTransition)

Walked(e) ==
  CASE panel.kind = "move"       -> MovePanel(panel, e)
    [] panel.kind = "delete"     -> DeletePanel(panel, e)
    [] panel.kind = "split"      -> SplitPanel(panel, e)
    [] panel.kind = "resize"     -> ResizePanel(panel, e)
    [] panel.kind = "replace"    -> ReplacePanel(panel, e)
    [] panel.kind = "transition" -> TransitionPanel(panel, e)

\* The panel predicts, the server decides.
PanelEdit(c) ==
  /\ c \in EditorCommand /\ c.type = panel.kind /\ Len(panel.past) < MaxDepth
  /\ panel' \in Walked([do |-> "apply", edit |-> c])
  /\ IF Apply(lib, now.segs, c) = {}
     THEN UNCHANGED <<past, now, future>>
     ELSE \E segs \in Apply(lib, now.segs, c) : Accept(segs)
  /\ UNCHANGED <<lib, proposal, output>>

PanelUndo == Undo /\ panel' \in Walked([do |-> "undo"]) /\ UNCHANGED output
PanelRedo == Redo /\ panel' \in Walked([do |-> "redo"]) /\ UNCHANGED output

\* outputSwitch.ts: the geometry changes, fits are promoted, edits stay.
Presets == {"vertical", "square", "landscape"}

FitFor(fit, from, to) == IF from = to THEN fit ELSE "contain"

SwitchOutput(project, to) ==
  [project EXCEPT !.preset = to,
                  !.fit = [i \in DOMAIN @ |-> FitFor(@[i], project.preset, to)]]

OutputPanel(e) == Walk(output, e, LAMBDA p, to : {SwitchOutput(p, to)})

OutputSwitch(to) ==
  Len(output.past) < MaxDepth /\ output' \in OutputPanel([do |-> "apply", edit |-> to])
OutputUndo == output' \in OutputPanel([do |-> "undo"])
OutputRedo == output' \in OutputPanel([do |-> "redo"])

FirstOutput == PanelOf("output", [preset |-> "vertical", fit |-> <<"cover", "contain">>])

PanelNext ==
  \/ panel.kind # "output" /\ (\/ \E c \in Commands(panel.present) : PanelEdit(c)
                               \/ PanelUndo \/ PanelRedo)
  \/ /\ panel.kind = "output"
     /\ (\E to \in Presets : OutputSwitch(to)) \/ OutputUndo \/ OutputRedo
     /\ UNCHANGED <<sessionVars, panel>>

-----------------------------------------------------------------------------
(* What a panel shows after any of its edits, undos and redos is what the    *)
(* server's history holds: the server accepts what the panel predicted, with *)
(* the same segments, times, trims and assets, and both stacks walk alike    *)
(* (segment*.ts against editor_command_applier.py).  Cropping fits never     *)
(* survive a change of aspect, on any path of switches, undos and redos      *)
(* (outputSwitch.ts:8-11).                                                   *)
PanelsMatchServer ==
  /\ panel.kind \notin {"none", "output"} =>
       /\ View(panel.kind, panel.present) = View(panel.kind, now.segs)
       /\ Len(panel.past) = Len(past) /\ Len(panel.future) = Len(future)
  /\ output.present.preset # "vertical" => "cover" \notin Range(output.present.fit)
=============================================================================

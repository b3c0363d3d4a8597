---------------------------- MODULE TimelineEdits ----------------------------
(***************************************************************************)
(* The edits of a timeline: what the server's applier                      *)
(* (editor_command_applier.py) makes of a command, the batches that the    *)
(* proposal builders make, and what the web client's pure models predict   *)
(* (apps/studio-web/src/components/creator/segment*.ts).                   *)
(*                                                                         *)
(* Data: seconds are whole ticks of a millisecond scale, one tick being    *)
(* the shortest duration the code tells apart (the tolerances 1e-9 and     *)
(* 1e-6 vanish, 1e-3 is one tick).  A segment id is the sequence of its    *)
(* halvings.  An edit yields the set of its results: none when the code    *)
(* raises, one otherwise.                                                  *)
(***************************************************************************)
EXTENDS Integers, Sequences, FiniteSets, SequencesExt

CONSTANTS
  Assets,   \* media assets of the project and its workspace
  Kind,     \* [Assets -> {"image", "video"}]
  Length,   \* [Assets -> Nat], the duration of the source
  Origin    \* [Assets -> scenes], the scene an asset was generated for

ASSUME EditsAssumption ==
  /\ Kind \in [Assets -> {"image", "video"}]
  /\ Length \in [Assets -> Nat]

None == -1
End(s) == s.start + s.dur
From(s) == IF s.ts = None THEN 0 ELSE s.ts
Total(segs) ==
  LET ends == {End(segs[i]) : i \in DOMAIN segs}
  IN  IF ends = {} THEN 0 ELSE CHOOSE e \in ends : \A f \in ends : f <= e

SoundSegment(s) ==
  /\ s.start >= 0 /\ s.dur > 0
  /\ s.ts # None /\ s.te # None => s.ts <= s.te

Disjoint(s, t) == End(s) <= t.start \/ End(t) <= s.start

\* What Timeline.model_validate accepts.
Valid(segs) ==
  /\ \A i \in DOMAIN segs : SoundSegment(segs[i])
  /\ \A i, j \in DOMAIN segs :
        i # j => segs[i].id # segs[j].id /\ Disjoint(segs[i], segs[j])

InTimeOrder(segs) == SortSeq(segs, LAMBDA s, t : s.start < t.start)

\* compile_timeline_to_render_plan accepts the source ranges.
SourceEnd(s) == IF s.te # None THEN s.te ELSE From(s) + s.dur
WithinSource(s) == Kind[s.asset] = "video" => SourceEnd(s) <= Length[s.asset]
Compiles(lib, segs) ==
  /\ segs # <<>>
  /\ \A i \in DOMAIN segs : segs[i].asset \in lib /\ WithinSource(segs[i])

\* A timeline as the draft builder makes it: one segment after the other,
\* each shorter than what is left of its source.
InOrder(segs) ==
  \A i, j \in DOMAIN segs : i < j => End(segs[i]) <= segs[j].start
Fits(s) ==
  /\ DOMAIN s = {"id", "scene", "asset", "start", "dur", "ts", "te", "tr"}
  /\ s.asset \in Assets /\ s.start \in Nat /\ s.dur \in Nat \ {0}
  /\ s.ts \in {None} \cup Nat /\ s.te \in {None} \cup Nat
  /\ Kind[s.asset] = "video" => WithinSource(s) /\ From(s) + s.dur <= Length[s.asset]
Orderly(segs) ==
  segs \in Seq(Range(segs)) /\ InOrder(segs) /\ \A i \in DOMAIN segs : Fits(segs[i])

-----------------------------------------------------------------------------
(* The contract of the commands, which parsing and every builder obey.       *)

SegmentId == Seq(STRING)
Transitions == {"cut", "fade", "ken_burns", "ken_burns_lite"}
EditorCommand ==
  [type : {"trim"}, seg : SegmentId, from : Nat, to : Nat \ {0}]
  \cup [type : {"split"}, seg : SegmentId, at : Nat]
  \cup [type : {"delete"}, seg : SegmentId, policy : {"gap", "ripple"}]
  \cup [type : {"replace"}, seg : SegmentId, asset : Assets]
  \cup [type : {"move"}, seg : SegmentId, to : Nat]
  \cup [type : {"resize"}, seg : SegmentId, dur : Nat \ {0}]
  \cup [type : {"transition"}, seg : SegmentId, tr : Transitions, dur : {None} \cup (Nat \ {0})]
  \cup [type : {"output"}, preset : STRING] \cup [type : {"style"}, style : STRING]
  \cup [type : {"audio"}, volume : Nat]

-----------------------------------------------------------------------------
(* The server's applier.  lib is the set of assets its lookup resolves.      *)

At(segs, id) == {i \in DOMAIN segs : segs[i].id = id}
Bounded(lib, s) == Kind[s.asset] = "video"
Resolved(lib, segs, id) == {i \in At(segs, id) : segs[i].asset \in lib}

ApplyTrim(lib, segs, c) ==
  {[segs EXCEPT ![i] = [@ EXCEPT !.ts = c.from, !.te = c.to, !.dur = c.to - c.from]] :
     i \in {j \in Resolved(lib, segs, c.seg) :
              /\ c.from <= c.to
              /\ Bounded(lib, segs[j]) => c.to <= Length[segs[j].asset]}}

Halves(s, at) ==
  LET cut == IF s.ts = None THEN None ELSE s.ts + at - s.start
  IN  <<[s EXCEPT !.id = Append(@, "a"), !.dur = at - s.start, !.te = cut],
        [s EXCEPT !.id = Append(@, "b"), !.dur = End(s) - at, !.ts = cut,
                  !.start = at]>>

Replaced(segs, i, new) ==
  SubSeq(segs, 1, i - 1) \o new \o SubSeq(segs, i + 1, Len(segs))

ApplySplit(segs, c) ==
  {Replaced(segs, i, Halves(segs[i], c.at)) :
     i \in {j \in At(segs, c.seg) : segs[j].start < c.at /\ c.at < End(segs[j])}}

Shifted(s, by) == [s EXCEPT !.start = @ + by]

ApplyDelete(segs, c) ==
  {LET rest == RemoveAt(segs, i)
   IN  IF c.policy = "gap" THEN rest
       ELSE [j \in DOMAIN rest |->
               IF rest[j].start >= segs[i].start
               THEN Shifted(rest[j], -segs[i].dur) ELSE rest[j]] :
     i \in At(segs, c.seg)}

Least(a, b) == IF a <= b THEN a ELSE b
Most(a, b) == IF a >= b THEN a ELSE b

Refitted(s, asset) ==
  LET from == Least(From(s), Most(0, Length[asset] - 1))
      wanted == IF s.te # None THEN s.te ELSE from + s.dur
      to == Least(wanted, Length[asset])
      kept == [s EXCEPT !.asset = asset]
  IN  IF /\ Kind[asset] = "video"
         /\ to < wanted \/ From(s) # from \/ s.dur > to - from
      THEN [kept EXCEPT !.ts = from, !.te = to, !.dur = to - from]
      ELSE kept

ApplyReplace(lib, segs, c) ==
  {[segs EXCEPT ![i] = Refitted(@, c.asset)] :
     i \in {j \in At(segs, c.seg) :
              /\ c.asset \in lib
              /\ segs[j].asset \in lib => Kind[segs[j].asset] = Kind[c.asset]}}

Resequence(segs) ==
  LET dur == [i \in DOMAIN segs |-> segs[i].dur]
  IN  [i \in DOMAIN segs |->
         [segs[i] EXCEPT !.start = SumFunctionOnSet(dur, 1..(i - 1))]]

ApplyMove(segs, c) ==
  {Resequence(InsertAt(RemoveAt(segs, i), c.to + 1, segs[i])) :
     i \in {j \in At(segs, c.seg) : c.to < Len(segs)}}

ResizeUnbounded(lib, segs, c) ==
  {[j \in DOMAIN segs |->
      IF j = i THEN [segs[i] EXCEPT !.dur = c.dur]
      ELSE IF j > i THEN Shifted(segs[j], c.dur - segs[i].dur) ELSE segs[j]] :
     i \in Resolved(lib, segs, c.seg)}

ApplyResize(lib, segs, c) ==
  {LET s == segs[i]
       bounded == Bounded(lib, s)
   IN  [j \in DOMAIN segs |->
          IF j = i THEN [s EXCEPT !.dur = c.dur,
                                  !.te = IF bounded /\ @ # None THEN From(s) + c.dur ELSE @]
          ELSE IF j > i THEN Shifted(segs[j], c.dur - s.dur) ELSE segs[j]] :
     i \in {j \in Resolved(lib, segs, c.seg) :
              Bounded(lib, segs[j]) => c.dur <= Length[segs[j].asset] - From(segs[j])}}

ApplyTransition(segs, c) ==
  {[segs EXCEPT ![i].tr = c.tr] : i \in {j \in At(segs, c.seg) : c.dur = None}}

\* Output, style and audio commands are part of the contract and refused.
Applied(lib, segs, c) ==
  CASE c.type = "trim"       -> ApplyTrim(lib, segs, c)
    [] c.type = "split"      -> ApplySplit(segs, c)
    [] c.type = "delete"     -> ApplyDelete(segs, c)
    [] c.type = "replace"    -> ApplyReplace(lib, segs, c)
    [] c.type = "move"       -> ApplyMove(segs, c)
    [] c.type = "resize"     -> ApplyResize(lib, segs, c)
    [] c.type = "transition" -> ApplyTransition(segs, c)
    [] OTHER                 -> {}

Apply(lib, segs, c) == {t \in Applied(lib, segs, c) : Valid(t)}

\* A batch lands as a whole; an empty one is no change and is refused.
Batch(lib, segs, cs) ==
  LET after[n \in 0..Len(cs)] ==
        IF n = 0 THEN {segs} ELSE UNION {Apply(lib, t, cs[n]) : t \in after[n - 1]}
  IN  IF cs = <<>> THEN {} ELSE after[Len(cs)]

-----------------------------------------------------------------------------
(* The builders of proposals: the set of the batches they return.            *)

RippleDelete(s) == [type |-> "delete", seg |-> s.id, policy |-> "ripple"]
TailCut(tail) == [i \in DOMAIN tail |-> RippleDelete(Reverse(tail)[i])]

ShortenAnyway(ordered, target, tolerance) ==
  {TailCut(SelectSeq(ordered, LAMBDA s : End(s) >= target))}

ShortenAtGap(ordered, target, tolerance) ==
  LET prefix == SelectSeq(ordered, LAMBDA s : End(s) < target)
      later == SelectSeq(ordered, LAMBDA s : End(s) >= target)
  IN  IF prefix = <<>> \/ target - Total(prefix) > tolerance THEN {}
      ELSE {TailCut(later)}

Boundary(ordered, target) ==
  {i \in DOMAIN ordered : ordered[i].start < target /\ target <= End(ordered[i])}

TrimTail(s, kept) ==
  IF kept < s.dur
  THEN <<[type |-> "trim", seg |-> s.id, from |-> From(s), to |-> From(s) + kept]>>
  ELSE <<>>

\* build_shorten_proposal: cut the tail, trim the segment at the target.
Shorten(segs, target, tolerance) ==
  LET ordered == InTimeOrder(segs)
      TooShort(i) == target - ordered[i].start = 1 /\ ordered[i].dur > 1
      cuts == {TailCut(SubSeq(ordered, i + 1, Len(ordered)))
                 \o TrimTail(ordered[i], target - ordered[i].start) :
                 i \in {j \in Boundary(ordered, target) : ~TooShort(j)}}
  IN  IF Total(segs) <= target + tolerance THEN {}
      ELSE IF Boundary(ordered, target) = {} THEN ShortenAtGap(ordered, target, tolerance)
      ELSE {cs \in cuts : cs # <<>>}

Paced(lib, s, factor) ==
  LET wanted == (s.dur * factor[1]) \div factor[2]
  IN  IF Bounded(lib, s) THEN Least(wanted, Length[s.asset] - From(s)) ELSE wanted

PaceSegment(lib, s, factor, tr) ==
  LET dur == Paced(lib, s, factor)
  IN  (IF dur <= 0 \/ dur = s.dur THEN <<>>
       ELSE <<[type |-> "resize", seg |-> s.id, dur |-> dur]>>)
      \o (IF tr = "keep" \/ tr = s.tr THEN <<>>
          ELSE <<[type |-> "transition", seg |-> s.id, tr |-> tr, dur |-> None]>>)

\* build_pacing_proposal for the scenes asked for.
Pace(lib, segs, factor, scenes, tr) ==
  LET scope == SelectSeq(InTimeOrder(segs), LAMBDA s : s.scene \in scenes)
      cs == FlattenSeq([i \in DOMAIN scope |-> PaceSegment(lib, scope[i], factor, tr)])
  IN  IF \/ ~scenes \subseteq {segs[i].scene : i \in DOMAIN segs}
         \/ \E i \in DOMAIN scope : scope[i].asset \notin lib
         \/ cs = <<>>
      THEN {} ELSE {cs}

ReplaceWith(id, asset) == [type |-> "replace", seg |-> id, asset |-> asset]

\* Replacement proposals are dry-run before they are returned.
SwapAsset(lib, segs, id, asset) ==
  {cs \in {<<ReplaceWith(id, asset)>>} : Batch(lib, segs, cs) # {}}

\* select_scene_regeneration: every segment of the scene, for an asset whose
\* provenance is that scene.
SwapScene(lib, segs, scene, asset) ==
  LET of == SelectSeq(segs, LAMBDA s : s.scene = scene)
      cs == [i \in DOMAIN of |-> ReplaceWith(of[i].id, asset)]
  IN  {b \in {cs} : /\ asset \in lib /\ Origin[asset] = scene
                    /\ Batch(lib, segs, b) # {}}
=============================================================================

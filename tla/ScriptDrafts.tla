--------------------------- MODULE ScriptDrafts ----------------------------
(***************************************************************************)
(* What a run keeps of its words and of its pictures: versions of the      *)
(* script, versions of the visual plan made from it, and the images of one *)
(* scene.  Clients read and write in separate steps, deliveries of a       *)
(* generation task save under the key of the task, and the run moves on    *)
(* between the two.                                                        *)
(***************************************************************************)
EXTENDS Stages, Integers, Sequences, SequencesExt, FiniteSets

CONSTANTS
  Writers,        \* requests of clients under way
  Deliveries,     \* deliveries of generation tasks
  KeyOf,          \* the task a delivery is of
  Documents,      \* markdown a client may write or a model generate
  Scripts,        \* JSON scripts, sequences of [type, text, prompt]
  Short,          \* paragraphs below _MIN_PARAGRAPH_CHARS
  LastDraft, LastPlan, LastAsset        \* bounds on versions

VARIABLES
  stage,
  drafts,         \* [sections, markdown, key, moved, parsed], by version
  plans,          \* [scenes, key, by, scene], by version
  asked,          \* what a client or a delivery is about to write
  shelf           \* images of a scene, in Postgres and in the double

draftVars == <<stage, drafts, plans, asked, shelf>>

Unset == "unset"
AnyVersion == 0
Idle == [op |-> "idle"]
ScriptStages == {"IDEA_READY", "SCRIPT_GENERATING", "SCRIPT_REVIEW"}
PlanStages == {"VISUAL_PLAN_SETUP", "VISUAL_PLAN_GENERATING", "VISUAL_PLAN_REVIEW"}
AssetStages == {"VISUAL_ASSET_GENERATING", "VISUAL_ASSET_REVIEW"}

-----------------------------------------------------------------------------
(* Markdown: blocks of a heading and its paragraphs.                       *)
NormalizeType(type) == IF type = "Body" THEN "body" ELSE type

SplitParagraphs(text) ==
  LET long == SelectSeq(text, LAMBDA p : p \notin Short)
  IN  IF Len(long) > 1 THEN [i \in DOMAIN long |-> <<long[i]>>] ELSE <<text>>

ExpandSections(blocks) ==
  FlattenSeq([i \in DOMAIN blocks |->
    LET type == NormalizeType(blocks[i].type)
        texts == IF type = "body" THEN SplitParagraphs(blocks[i].text) ELSE <<blocks[i].text>>
    IN  [j \in DOMAIN texts |-> [type |-> type, text |-> texts[j]]]])

\* A section keeps the identifier that a section of its type has at its
\* position; text does not count.
ParseMarkdown(blocks, existing) ==
  LET parsed == ExpandSections(blocks)
  IN  [i \in DOMAIN parsed |->
        [id |-> IF i \in DOMAIN existing /\ existing[i].type = parsed[i].type
                THEN existing[i].id ELSE <<parsed[i].type, i>>,
         type |-> parsed[i].type, text |-> parsed[i].text, prompt |-> Unset]]

ParseJsonScenes(scenes) ==
  [i \in DOMAIN scenes |->
    [id |-> <<scenes[i].type, i>>, type |-> scenes[i].type, text |-> scenes[i].text,
     prompt |-> scenes[i].prompt]]

RebuildMarkdown(sections) ==
  [i \in DOMAIN sections |-> [type |-> sections[i].type, text |-> sections[i].text]]

-----------------------------------------------------------------------------
(* The stores: a key that was saved answers with what it saved.            *)
Saved(rows, key) == key # Unset /\ \E row \in rows : row.key = key
SaveDraft(row) == drafts' = IF Saved(Range(drafts), row.key) THEN drafts ELSE Append(drafts, row)
SavePlan(row) == plans' = IF Saved(Range(plans), row.key) THEN plans ELSE Append(plans, row)
SavePlanBlindly(row, version) == plans' = Append(plans, row)      \* no comparison
SavePlanIfVersion(row, version) ==
  plans' = IF Len(plans) = version THEN Append(plans, row) ELSE plans

ActiveSections == IF drafts = <<>> THEN <<>> ELSE Last(drafts).sections

Ask(w, ask) ==
  /\ asked[w] = Idle
  /\ asked' = [asked EXCEPT ![w] = ask]
  /\ UNCHANGED <<stage, drafts, plans, shelf>>
Answered(w) == asked' = [asked EXCEPT ![w] = Idle]

-----------------------------------------------------------------------------
(* The script.  A route looks at the stage it was given with the run; the  *)
(* draft is read and saved later.                                          *)
Sections(sections, moved) ==
  [op |-> "save",
   row |-> [sections |-> sections, markdown |-> RebuildMarkdown(sections), key |-> Unset,
            moved |-> moved, parsed |-> FALSE]]
Parsed(blocks, existing, key) ==
  [op |-> "save",
   row |-> [sections |-> ParseMarkdown(blocks, existing), markdown |-> blocks, key |-> key,
            moved |-> FALSE, parsed |-> TRUE]]

PutMarkdown(w) ==
  /\ stage \in ScriptStages
  /\ \E blocks \in Documents : Ask(w, [op |-> "markdown", blocks |-> blocks, key |-> Unset])

PutJson(w) ==
  /\ stage \in ScriptStages
  /\ \E scenes \in Scripts :
       Ask(w, Sections(ParseJsonScenes(scenes), FALSE))

\* Sections as the client edited them: a text replaced, or two sections
\* swapped with the identifiers they had.
PutStructured(w) ==
  /\ stage \in ScriptStages
  /\ Len(ActiveSections) > 1
  /\ LET sections == ActiveSections
     IN  \/ Ask(w, Sections([sections EXCEPT ![1].text = <<"edited">>], FALSE))
         \/ Ask(w, Sections([sections EXCEPT ![1] = sections[2], ![2] = sections[1]], TRUE))

PostParseMarkdown(w) ==
  /\ stage \in ScriptStages
  /\ drafts # <<>>
  /\ LET draft == Last(drafts)
     IN  Ask(w, Parsed(draft.markdown, draft.sections, Unset))

DeliverScript(d) ==
  /\ stage = "SCRIPT_GENERATING"
  /\ \E blocks \in Documents : Ask(d, [op |-> "markdown", blocks |-> blocks, key |-> KeyOf[d]])

\* save_draft of ScriptService: the sections in force are read first.
ReadSections(w) ==
  /\ asked[w].op = "markdown"
  /\ asked' = [asked EXCEPT ![w] =
       Parsed(asked[w].blocks, ActiveSections, asked[w].key)]
  /\ UNCHANGED <<stage, drafts, plans, shelf>>

WriteDraft(w) ==
  /\ asked[w].op = "save"
  /\ Len(drafts) < LastDraft
  /\ SaveDraft(asked[w].row)
  /\ Answered(w)
  /\ UNCHANGED <<stage, plans, shelf>>

-----------------------------------------------------------------------------
(* The plan: a scene for each section, with the script's own prompt, the   *)
(* model's where its answer has one, or a default.                         *)
SceneId(section) == <<"scene", section.id>>
PlanScenes(sections, answered) ==
  [i \in DOMAIN sections |->
    [id |-> SceneId(sections[i]),
     prompt |-> CASE sections[i].prompt # Unset -> sections[i].prompt
                  [] sections[i].id \in answered -> "model"
                  [] OTHER -> "default"]]

PlanRow(scenes, key, by, scene) == [scenes |-> scenes, key |-> key, by |-> by, scene |-> scene]

DeliverPlan(d) ==
  /\ stage = "VISUAL_PLAN_GENERATING"
  /\ ActiveSections # <<>>
  /\ LET ids == {ActiveSections[i].id : i \in DOMAIN ActiveSections}
     IN  \E answered \in {{}, ids} :
           Ask(d, [op |-> "plan", expected |-> AnyVersion,
                   row |-> PlanRow(PlanScenes(ActiveSections, answered), KeyOf[d], "model", 0)])

ReplaceVisualPlan(w) ==
  /\ stage \in PlanStages
  /\ plans # <<>>
  /\ Ask(w, [op |-> "plan", expected |-> AnyVersion,
             row |-> PlanRow([Last(plans).scenes EXCEPT ![1].prompt = "replaced"], Unset,
                             "replaced", 0)])

FirstScene(scenes, id) == CHOOSE i \in DOMAIN scenes :
  scenes[i].id = id /\ \A j \in 1..(i - 1) : scenes[j].id # id

\* patch_scene: the plan in force is read, compared with the version the
\* client names if it names one, and saved whole with one scene changed.
PatchScene(w) ==
  /\ stage \in PlanStages
  /\ plans # <<>>
  /\ LET scenes == Last(plans).scenes
     IN  \E expected \in {AnyVersion, Len(plans)}, i \in DOMAIN scenes :
           LET at == FirstScene(scenes, scenes[i].id)
           IN  Ask(w, [op |-> "plan", expected |-> expected,
                       row |-> PlanRow([scenes EXCEPT ![at].prompt = w], Unset,
                                       IF expected = AnyVersion THEN "patch" ELSE "guarded", at)])

WritePlan(w) ==
  /\ asked[w].op = "plan"
  /\ Len(plans) < LastPlan
  /\ IF asked[w].expected = AnyVersion
     THEN SavePlan(asked[w].row)
     ELSE SavePlanIfVersion(asked[w].row, asked[w].expected)
  /\ Answered(w)
  /\ UNCHANGED <<stage, drafts, shelf>>

-----------------------------------------------------------------------------
(* The images of a scene: version, whether it is active, key.              *)
OnlyActive(rows, version) == {[r EXCEPT !.active = r.version = version] : r \in rows}
NextVersion(rows) == 1 + Max({0} \cup {r.version : r \in rows})
WithAsset(rows, key, active) ==
  IF Saved(rows, key) THEN rows
  ELSE LET version == NextVersion(rows)
           others == IF active THEN OnlyActive(rows, version) ELSE rows
       IN  others \cup {[version |-> version, active |-> active, key |-> key]}

\* The double assigns activity row by row, Postgres clears all rows of the
\* scene and then sets one; both before they know that the row is there.
SetActivePg(rows, version) ==
  LET cleared == {[r EXCEPT !.active = FALSE] : r \in rows}
  IN  {IF r.version = version THEN [r EXCEPT !.active = TRUE] ELSE r : r \in cleared}
SetActiveDouble(rows, version) == OnlyActive(rows, version)
DropVersion(rows, version) == {r \in rows : r.version # version}

Shelve(pg, double) ==
  /\ shelf' = [pg |-> pg, double |-> double]
  /\ UNCHANGED <<stage, drafts, plans>>

CreateAsset(key, active) ==
  /\ NextVersion(shelf.pg) <= LastAsset
  /\ Shelve(WithAsset(shelf.pg, key, active), WithAsset(shelf.double, key, active))
  /\ UNCHANGED asked

SelectActive(w) ==
  /\ stage \in AssetStages
  /\ \E r \in shelf.pg : Ask(w, [op |-> "select", version |-> r.version])
SetActive(w) ==
  /\ asked[w].op = "select"
  /\ Shelve(SetActivePg(shelf.pg, asked[w].version),
            SetActiveDouble(shelf.double, asked[w].version))
  /\ Answered(w)

DeleteAsset(version) ==
  /\ \E r \in shelf.pg : r.version = version
  /\ Shelve(DropVersion(shelf.pg, version), DropVersion(shelf.double, version))
  /\ UNCHANGED asked

-----------------------------------------------------------------------------
(* The run moves along, or back to a review.                               *)
Move ==
  /\ stage' \in (Transitions[stage] \cup (IF stage \in DOMAIN StageBack THEN {StageBack[stage]} ELSE {}))
                  \cap (ScriptStages \cup PlanStages \cup AssetStages)
  /\ UNCHANGED <<drafts, plans, asked, shelf>>

\* An import creates a run in review and saves its draft afterwards.
ImportMarkdown == {[op |-> "markdown", blocks |-> blocks, key |-> Unset] : blocks \in Documents}
ImportJson == {Sections(ParseJsonScenes(scenes), FALSE) : scenes \in Scripts}
NobodyAsks == [w \in Writers \cup Deliveries |-> Idle]

DraftsBegin(first, scripts) ==
  /\ stage = first
  /\ drafts \in scripts
  /\ plans = <<>>
  /\ shelf = [pg |-> {}, double |-> {}]

ScriptStep ==
  \/ \E w \in Writers : PutMarkdown(w) \/ PutJson(w) \/ PutStructured(w) \/ PostParseMarkdown(w)
  \/ \E d \in Deliveries : DeliverScript(d)
  \/ \E w \in Writers \cup Deliveries : ReadSections(w) \/ WriteDraft(w)
PlanStep ==
  \/ \E w \in Writers : ReplaceVisualPlan(w) \/ PatchScene(w)
  \/ \E d \in Deliveries : DeliverPlan(d)
  \/ \E w \in Writers \cup Deliveries : WritePlan(w)
ShelfStep ==
  \/ \E d \in Deliveries, active \in BOOLEAN :
       CreateAsset(KeyOf[d], active) \/ CreateAsset(Unset, active)
  \/ \E w \in Writers : SelectActive(w) \/ SetActive(w)
  \/ \E version \in 1..LastAsset : DeleteAsset(version)

\* A script under way or imported, a plan of a script that is there, a scene's images.
ScriptsBegin ==
  \/ DraftsBegin("IDEA_READY", {<<>>}) /\ asked = NobodyAsks
  \/ /\ DraftsBegin("SCRIPT_REVIEW", {<<>>})
     /\ \E w \in Writers, import \in ImportMarkdown \cup ImportJson :
          asked = [NobodyAsks EXCEPT ![w] = import]
PlansBegin ==
  /\ DraftsBegin("VISUAL_PLAN_SETUP", {<<Sections(ParseJsonScenes(s), FALSE).row>> : s \in Scripts})
  /\ asked = NobodyAsks
ShelfBegins == DraftsBegin("VISUAL_ASSET_GENERATING", {<<>>}) /\ asked = NobodyAsks

-----------------------------------------------------------------------------
\* A task leaves one version however often it is delivered
\* (script_service.py:45-65, visual_plan_service.py:93-114).
KeysOnce(rows) ==
  \A i, j \in DOMAIN rows : rows[i].key = rows[j].key /\ rows[i].key # Unset => i = j
OneVersionPerTask == KeysOnce(drafts) /\ KeysOnce(plans)

\* A patch that names a version changes one scene of the version before
\* it, whoever wrote in between (visual_plan_service.py:201-259).
GuardedPatchesLoseNothing ==
  \A n \in DOMAIN plans : plans[n].by = "guarded" =>
    /\ n > 1
    /\ DOMAIN plans[n].scenes = DOMAIN plans[n - 1].scenes
    /\ \A i \in DOMAIN plans[n].scenes \ {plans[n].scene} :
         plans[n].scenes[i] = plans[n - 1].scenes[i]

\* No two sections of a script share the identifier that scenes, narration
\* and images hang on, as long as nobody moved a section with its
\* identifier (markdown_parser.py:90-125, json_script_parser.py:60).
SectionIdsAreDistinct ==
  (\A i \in DOMAIN drafts : ~ drafts[i].moved) =>
    \A n \in DOMAIN drafts : IsInjective([i \in DOMAIN drafts[n].sections |->
                                            drafts[n].sections[i].id])

\* Parsing the markdown of a draft again leaves the sections it has
\* (creator_script.py:397-431).
ReparsingIsStable ==
  \A n \in DOMAIN drafts : drafts[n].parsed =>
    ParseMarkdown(drafts[n].markdown, drafts[n].sections) = drafts[n].sections

\* A scene has one active image at most, and the double agrees with
\* Postgres on which (visual_asset_service.py:97-180).
OneActiveImage ==
  /\ shelf.pg = shelf.double
  /\ Cardinality({r \in shelf.pg : r.active}) <= 1

DraftsAreKept ==
  OneVersionPerTask /\ GuardedPatchesLoseNothing /\ SectionIdsAreDistinct
  /\ ReparsingIsStable /\ OneActiveImage
=============================================================================

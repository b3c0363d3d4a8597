--------------------------- MODULE ArtifactStores ---------------------------
(***************************************************************************)
(* The artifacts of one run as audio_service, subtitle_service and         *)
(* render_service store them: in Postgres, where the kinds share the table *)
(* creator_artifacts, and in the lists and dictionaries of the in-memory   *)
(* stores the tests run on.  Every save goes to both.                      *)
(*                                                                         *)
(* A save in Postgres is a look-up of the idempotency key, an INSERT that  *)
(* does nothing on a conflict, and another look-up; two deliveries of a    *)
(* task may overlap.  An artifact is what was saved the nth time.          *)
(***************************************************************************)
EXTENDS Integers, FiniteSets, FiniteSetsExt, SequencesExt

CONSTANTS
  Narrations,  \* idempotency keys of audio and subtitles
  Films,       \* idempotency keys of videos
  Paragraphs,  \* sections that have artifacts of their own
  MaxSaves     \* bound: saves begun

VARIABLES
  table,    \* the rows of creator_artifacts
  shelf,    \* the double's artifacts
  known,    \* the double's dictionary of idempotency keys
  saving,   \* saves whose first look-up found nothing
  begun,    \* saves begun
  answered  \* what the last save answered, of both stores

storesVars == <<table, shelf, known, saving, begun, answered>>

Whole == "whole"
KindOf(key) == IF key \in Films THEN "video" ELSE "narration"
Artifact(key, sec, n) == [key |-> key, kind |-> KindOf(key), sec |-> sec, at |-> n]
StoresInit ==
  /\ table = {} /\ shelf = {} /\ known = {} /\ saving = {} /\ begun = 0
  /\ answered = <<{}, {}>>

Keyed(rows, key) == {a \in rows : a.key = key}

\* InMemory...Storage.save_artifact: the key is looked up in a dictionary that
\* deletions leave alone.
DoubleSaves(a) ==
  IF Keyed(known, a.key) # {} THEN UNCHANGED <<shelf, known>>
  ELSE shelf' = shelf \cup {a} /\ known' = known \cup {a}
DoubleAnswers(a) == IF Keyed(known, a.key) # {} THEN Keyed(known, a.key) ELSE {a}

\* A worker asks for the artifact to be saved; a row of the key is the answer.
BeginSave(key, sec) ==
  LET a == Artifact(key, sec, begun + 1)
  IN  /\ begun < MaxSaves /\ begun' = begun + 1
      /\ KindOf(key) = "video" => sec = Whole
      /\ \A b \in Keyed(saving, key) \cup Keyed(table, key) : b.sec = sec
      /\ IF Keyed(table, key) = {}
         THEN /\ saving' = saving \cup {a} /\ UNCHANGED <<table, shelf, known, answered>>
         ELSE /\ answered' = <<Keyed(table, key), DoubleAnswers(a)>>
              /\ DoubleSaves(a) /\ UNCHANGED <<table, saving>>

\* ON CONFLICT (idempotency_key) DO NOTHING
InsertUnlessKnown(a) == IF Keyed(table, a.key) = {} THEN table \cup {a} ELSE table

\* created_at is the time of the INSERT.
Insert(a) ==
  LET late == [a EXCEPT !.at = 1 + Max({b.at : b \in table \cup known} \cup {0})]
  IN  /\ a \in saving /\ saving' = saving \ {a}
      /\ table' = InsertUnlessKnown(late)
      /\ answered' = <<Keyed(table', a.key), DoubleAnswers(late)>>
      /\ DoubleSaves(late)
      /\ UNCHANGED begun

\* delete_by_section
WithoutSection(sec) == {a \in shelf : a.sec # sec}
DeleteSection(sec) ==
  /\ \E a \in table : a.sec = sec /\ a.kind = "narration"
  /\ table' = {a \in table : a.sec # sec}
  /\ shelf' = WithoutSection(sec)
  /\ answered' = <<{}, {}>>
  /\ UNCHANGED <<known, saving, begun>>

StoresNext ==
  \/ \E key \in Narrations \cup Films, sec \in Paragraphs \cup {Whole} : BeginSave(key, sec)
  \/ \E a \in saving : Insert(a)
  \/ \E sec \in Paragraphs : DeleteSection(sec)

-----------------------------------------------------------------------------
(* The reads.  Each store orders by created_at, newest first.              *)
Newest(rows) == {a \in rows : \A b \in rows : b.at <= a.at}
Wholes(rows, kind) == {a \in rows : a.kind = kind /\ a.sec = Whole}

GetLatest(rows, kind) == Newest(Wholes(rows, kind))
ListByRun(rows, kind) == SetToSortSeq(Wholes(rows, kind), LAMBDA a, b : a.at > b.at)
GetBySection(rows, sec) == Newest({a \in rows : a.sec = sec})
ListSections(rows) == {a \in rows : a.sec # Whole}
GetById(rows, a) == a \in rows
Preview(rows) == [kind \in {"narration", "video"} |-> GetLatest(rows, kind)]
RenderLayers(rows) == GetLatest(rows, "narration")

Reads(rows) ==
  [listed   |-> [kind \in {"narration", "video"} |-> ListByRun(rows, kind)],
   sections |-> [sec \in Paragraphs |-> GetBySection(rows, sec)],
   all      |-> ListSections(rows), preview |-> Preview(rows), layers |-> RenderLayers(rows)]

\* A key whose row was deleted and saved again: the double keeps the old row's
\* answer and stores nothing.
Reborn == {a \in table : a \notin shelf}

-----------------------------------------------------------------------------
(* The doubles answer the saves, the look-ups by id and by section and the *)
(* listings of a run above as Postgres does, however deliveries of a task  *)
(* overlap, until a key is used again whose artifact was deleted.          *)
(* The listing of sections is compared as a set: its order differs.        *)
StoresAgree ==
  Reborn = {} =>
    /\ answered[1] = answered[2]
    /\ Reads(table) = Reads(shelf)
    /\ \A a \in known : Keyed(shelf, a.key) # {} => GetById(table, a)
=============================================================================

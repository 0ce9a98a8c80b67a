------------------------------- MODULE Migrations -------------------------------
(* Opening the database (internal/db/db.go): every start executes the same     *)
(* list of statements, each committed by itself, on a database of any earlier  *)
(* release, a start that was cut off included; then the server writes notes    *)
(* and tags, and triggers keep the full-text index.  One action is one         *)
(* statement; creating what exists does nothing.                               *)
EXTENDS Integers, Sequences, FiniteSets

CONSTANTS
    Notes,       \* note ids
    MaxTags,     \* bound: tag ids
    Names,       \* tag names as stored
    NormalName,  \* Names -> Names \cup {""}: internal/tags, idempotent
    Texts,       \* what users save as titles and bodies; "" is empty
    NoPayload,   \* the NULL payload of cron runs
    Databases,   \* the database files there may be at the first start
    Bounds       \* [crashes, errors, edits]

VARIABLES
    schema,            \* tables, columns, indexes and triggers that exist
    title,             \* notes: note -> title
    body, updates,     \* the body column of old; the rows of updates by id
    tags, refs,        \* id -> name; table -> pairs of note and tag id
    fts,               \* notes_fts: note -> [title, tags]
    runs,              \* job_runs: [id, payload, active]
    vec, vectors, chunked,  \* vector table, notes with vectors, with chunks
    at,                \* 0: no process; else the statement it executes next
    driver,            \* "vec", or "plain" after a failure
    saved,             \* what users have saved: note -> text
    used

texts == <<title, body, updates, saved>>
tagging == <<tags, refs>>
vectorIndex == <<vec, vectors, chunked>>
data == <<texts, tagging, fts, runs, vectorIndex>>
vars == <<schema, data, at, driver, used>>

With(f, k, v) == [x \in DOMAIN f \cup {k} |-> IF x = k THEN v ELSE f[x]]
(* The greatest of some ids, 0 if there are none; ids matter by their order.   *)
LastId(ids) == CHOOSE m \in ids \cup {0} : \A i \in ids : i <= m

-------------------------------------------------------------------------------
(* The statements                                                              *)

AuthScript == <<"auth", "sessions", "webauthn_credentials", "flags", "attestation_format">>
JobScript == <<"job_definitions", "job_runs", "DEDUPE", "active_unique", "retry_count">>
\* Mutant: the column goes before its bodies are copied.
NotesScript_DropFirst == <<"notes", "updates", "note_search_chunks", "VECTORS", "DROP_BODY", "COPY_BODY",
                 "DROP_UPDATED_AT", "parent_id", "type", "pinned">>

NotesScript == <<"notes", "updates", "note_search_chunks", "VECTORS", "COPY_BODY", "DROP_BODY",
                 "DROP_UPDATED_AT", "parent_id", "type", "pinned">>
MediaScript == <<"files", "file_s3", "files_refs">>
UploadScript == <<"upload_sessions", "status", "finish_result", "placeholder_token">>
OCRScript == <<"files_ocr">>
STTScript == <<"files_stt">>
TagsScript == <<"tags", "tags_refs", "auto_tags_refs", "NORMALIZE">>
Triggers == <<"notes_ai", "notes_ad", "notes_au", "tags_refs_ai", "tags_refs_ad",
              "auto_tags_refs_ai", "auto_tags_refs_ad", "tags_au">>
HasTriggers(s) == \A i \in DOMAIN Triggers : Triggers[i] \in s
FTSScript == <<"notes_fts", "BACKFILL">> \o Triggers

Script == AuthScript \o JobScript \o NotesScript \o MediaScript \o UploadScript
             \o OCRScript \o STTScript \o TagsScript \o FTSScript
Changes == {"DEDUPE", "VECTORS", "COPY_BODY", "DROP_BODY", "DROP_UPDATED_AT", "NORMALIZE", "BACKFILL"}
Items == {Script[i] : i \in DOMAIN Script} \ Changes

(* A table created now has the columns that an old one must be given.          *)
ColumnsOf(table) ==
    CASE table = "webauthn_credentials" -> {"flags", "attestation_format"}
      [] table = "job_runs" -> {"retry_count"}
      [] table = "notes" -> {"parent_id"}
      [] table = "upload_sessions" -> {"status", "finish_result", "placeholder_token"}
      [] OTHER -> {}

RefTables == {"tags_refs", "auto_tags_refs"}

(* The tags of a row of notes_fts: manual and automatic ones together.         *)
TagNames(T, R, n) ==
    {T[t] : t \in {u \in DOMAIN T : \E table \in RefTables : <<n, u>> \in R[table]}}

(* A database that an earlier release wrote: its keys hold, what the body      *)
(* column has is what was saved last, and the index, if there are rows of it,  *)
(* is that of the notes and has its triggers.                                  *)
IsWhole(d) ==
    /\ DOMAIN d.title \subseteq Notes /\ DOMAIN d.title \subseteq DOMAIN d.saved
    /\ LastId(DOMAIN d.updates) \in Nat /\ DOMAIN d.updates \subseteq 1 .. LastId(DOMAIN d.updates)
    /\ DOMAIN d.tags \subseteq 1 .. MaxTags /\ \A t \in DOMAIN d.tags : d.tags[t] \in Names
    /\ DOMAIN d.refs = RefTables
    /\ \A table \in RefTables : d.refs[table] \subseteq (DOMAIN d.title) \X (DOMAIN d.tags)
    /\ \A r, s \in d.runs : r.id \in Nat /\ (r.id = s.id => r = s)
    /\ \A n \in DOMAIN d.title :
          LET history == {i \in DOMAIN d.updates : d.updates[i].note = n} IN
          /\ "body" \in d.schema => d.body[n] = d.saved[n]
          /\ history # {} => d.updates[LastId(history)].body = d.saved[n]
          /\ history = {} /\ "body" \notin d.schema => d.saved[n] = ""
    /\ DOMAIN d.fts \subseteq DOMAIN d.title
    /\ DOMAIN d.fts # {} => HasTriggers(d.schema)
    /\ \A n \in DOMAIN d.fts : d.fts[n] = [title |-> d.title[n], tags |-> TagNames(d.tags, d.refs, n)]

Ready == Len(Script) + 1
IsReady == at = Ready
Executes(statement) == at \in DOMAIN Script /\ Script[at] = statement
Proceed == at' = at + 1 /\ UNCHANGED <<driver, used>>

Init ==
    /\ \E d \in Databases :
          /\ schema = d.schema /\ title = d.title /\ body = d.body /\ updates = d.updates
          /\ tags = d.tags /\ refs = d.refs /\ fts = d.fts /\ runs = d.runs
          /\ vec = d.vec /\ vectors = d.chunked /\ chunked = d.chunked
          /\ saved = d.saved
    /\ at = 0 /\ driver = "vec"
    /\ used = [b \in DOMAIN Bounds |-> 0]

Use(what) == used[what] < Bounds[what] /\ used' = [used EXCEPT ![what] = @ + 1]

Start ==
    /\ at = 0
    /\ at' = 1 /\ driver' = "vec"
    /\ UNCHANGED <<schema, data, used>>

(* Whatever fails under the driver with vectors, Open tries once more without. *)
Fail ==
    /\ at \in DOMAIN Script /\ Use("errors")
    /\ at' = IF driver = "vec" THEN 1 ELSE 0
    /\ driver' = "plain"
    /\ UNCHANGED <<schema, data>>

Crash ==
    /\ at # 0 /\ Use("crashes")
    /\ at' = 0
    /\ UNCHANGED <<schema, data, driver>>

Ensure ==
    /\ at \in DOMAIN Script
    /\ LET item == Script[at] IN
          /\ item \notin Changes
          /\ schema' = schema \cup (IF item \in schema THEN {} ELSE {item} \cup ColumnsOf(item))
    /\ Proceed /\ UNCHANGED data

\* Mutant: the oldest of all rows with the payload is kept, finished ones too.
Dedupe_AnyStatus ==
    /\ Executes("DEDUPE")
    /\ runs' = {r \in runs : r.active /\ r.payload # NoPayload =>
                   \A o \in runs : o.payload = r.payload => r.id <= o.id}
    /\ Proceed /\ UNCHANGED <<schema, texts, tagging, fts, vectorIndex>>

(* Of the active runs with the same payload the oldest stays; the unique index *)
(* can then be created.                                                        *)
Dedupe ==
    /\ Executes("DEDUPE")
    /\ runs' = {r \in runs : r.active /\ r.payload # NoPayload =>
                   \A o \in runs : o.active /\ o.payload = r.payload => r.id <= o.id}
    /\ Proceed /\ UNCHANGED <<schema, texts, tagging, fts, vectorIndex>>

(* ensureVecTable, for the four tables alike: a table of another module or     *)
(* shape is dropped, then created in a statement of its own.                   *)
EnsureVec ==
    /\ Executes("VECTORS")
    /\ IF driver = "plain" \/ vec = "ok"
       THEN Proceed /\ UNCHANGED <<vec, vectors>>
       ELSE /\ IF vec = "absent" THEN vec' = "ok" /\ UNCHANGED vectors
                                 ELSE vec' = "absent" /\ vectors' = {}
            /\ UNCHANGED <<at, driver, used>>
    /\ UNCHANGED <<schema, texts, tagging, fts, runs, chunked>>

(* The bodies that are not empty become the history, in the order of the       *)
(* notes; then the column goes.                                                *)
CopyBody ==
    LET last == LastId(DOMAIN updates)
        copied == {n \in DOMAIN title : body[n] # ""} IN
    /\ Executes("COPY_BODY")
    /\ updates' = IF "body" \in schema
                  THEN [i \in DOMAIN updates \cup {last + n : n \in copied} |->
                           IF i \in DOMAIN updates THEN updates[i]
                           ELSE [note |-> i - last, body |-> body[i - last]]]
                  ELSE updates
    /\ Proceed /\ UNCHANGED <<schema, title, body, saved, tagging, fts, runs, vectorIndex>>

DropColumn(statement, column) ==
    /\ Executes(statement)
    /\ schema' = schema \ {column}
    /\ Proceed /\ UNCHANGED data

-------------------------------------------------------------------------------
(* Tags and the full-text index                                                *)

(* The triggers rebuild the rows of the notes they fire for.                   *)
Rebuild(f, touched) ==
    [n \in DOMAIN f |-> IF n \in touched THEN [f[n] EXCEPT !.tags = TagNames(tags', refs', n)]
                                         ELSE f[n]]

(* Of the tags with one normal name the lowest id stays, unless it is blank.   *)
Canonical(t) ==
    CHOOSE u \in DOMAIN tags :
       /\ NormalName[tags[u]] = NormalName[tags[t]]
       /\ \A v \in DOMAIN tags : NormalName[tags[v]] = NormalName[tags[t]] => u <= v

(* References to a blank tag go, to a duplicate move to the lowest id.         *)
Reassign(pairs) ==
    {<<p[1], Canonical(p[2])>> : p \in {q \in pairs : NormalName[tags[q[2]]] # ""}}

(* One transaction.  Triggers exist from an earlier start or not at all: a     *)
(* start that was cut off among them had found the names normal.               *)
Normalize ==
    LET stay == {t \in DOMAIN tags : NormalName[tags[t]] # "" /\ Canonical(t) = t}
        same == {t \in stay : NormalName[tags[t]] = tags[t]} IN
    /\ Executes("NORMALIZE")
    /\ tags' = [t \in stay |-> NormalName[tags[t]]]
    /\ refs' = [table \in RefTables |-> Reassign(refs[table])]
    /\ fts' = IF HasTriggers(schema)
              THEN Rebuild(fts, {n \in DOMAIN fts : \E table \in RefTables, t \in DOMAIN tags \ same :
                                                      <<n, t>> \in refs[table]})
              ELSE fts
    /\ Proceed /\ UNCHANGED <<schema, texts, runs, vectorIndex>>

(* Rows are made for notes that have none.                                     *)
Backfill ==
    /\ Executes("BACKFILL")
    /\ fts' = [n \in DOMAIN title |->
                  IF n \in DOMAIN fts THEN fts[n]
                  ELSE [title |-> title[n], tags |-> TagNames(tags, refs, n)]]
    /\ Proceed /\ UNCHANGED <<schema, texts, tagging, runs, vectorIndex>>

-------------------------------------------------------------------------------
(* The server: transactions on notes and tags, with what the triggers add      *)

(* saveTagRefs: the references of the note are replaced.                       *)
SaveTagRefs(table, n, names) ==
    LET normal == {NormalName[x] : x \in names} \ {""}
        new == normal \ {tags[t] : t \in DOMAIN tags}
        missing == CHOOSE s \in [1 .. Cardinality(new) -> new] : \A i, j \in DOMAIN s : s[i] = s[j] => i = j
        last == LastId(DOMAIN tags)
        others == {p \in refs[table] : p[1] # n} IN
    /\ last + Cardinality(new) <= MaxTags
    /\ tags' = [t \in DOMAIN tags \cup (last + 1 .. last + Cardinality(new)) |->
                   IF t \in DOMAIN tags THEN tags[t] ELSE missing[t - last]]
    /\ refs' = [refs EXCEPT ![table] =
                   others \cup {<<n, t>> : t \in {u \in DOMAIN tags' : tags'[u] \in normal}}]

OnInsert == [tags_refs |-> "tags_refs_ai", auto_tags_refs |-> "auto_tags_refs_ai"]
OnDelete == [tags_refs |-> "tags_refs_ad", auto_tags_refs |-> "auto_tags_refs_ad"]

\* Mutant: no triggers on automatic tags.
Retagged_Manual(f, table, n) == IF table = "tags_refs" THEN Rebuild(f, {n}) ELSE f

(* What the triggers on a reference table make of the row of a note.           *)
Retagged(f, table, n) ==
    LET before == {p \in refs[table] : p[1] = n}
        after == {p \in refs'[table] : p[1] = n} IN
    IF \/ before # {} /\ OnDelete[table] \in schema
       \/ after # {} /\ OnInsert[table] \in schema
    THEN Rebuild(f, {n}) ELSE f

Retitled(f, n, text) ==
    IF n \in DOMAIN f /\ "notes_au" \in schema THEN [f EXCEPT ![n].title = text] ELSE f

(* createNote and updateNote; ids are never given again.                       *)
SaveNote(n, text, names) ==
    LET isNew == n \notin DOMAIN saved IN
    /\ IsReady /\ Use("edits")
    /\ isNew \/ n \in DOMAIN title
    /\ title' = With(title, n, text)
    /\ updates' = With(updates, LastId(DOMAIN updates) + 1, [note |-> n, body |-> text])
    /\ saved' = With(saved, n, text)
    /\ SaveTagRefs("tags_refs", n, names)
    /\ fts' = Retagged(IF ~isNew THEN Retitled(fts, n, text)
                       ELSE IF "notes_ai" \in schema THEN With(fts, n, [title |-> text, tags |-> {}])
                       ELSE fts, "tags_refs", n)
    /\ UNCHANGED <<schema, body, runs, vectorIndex, at, driver>>

SaveAutoTags(n, names) ==
    /\ IsReady /\ Use("edits") /\ n \in DOMAIN title
    /\ SaveTagRefs("auto_tags_refs", n, names)
    /\ fts' = Retagged(fts, "auto_tags_refs", n)
    /\ UNCHANGED <<schema, texts, runs, vectorIndex, at, driver>>

(* The title job.                                                              *)
SaveTitle(n, text) ==
    /\ IsReady /\ Use("edits") /\ n \in DOMAIN title
    /\ title' = With(title, n, text)
    /\ fts' = Retitled(fts, n, text)
    /\ UNCHANGED <<schema, body, updates, saved, tagging, runs, vectorIndex, at, driver>>

(* The references, the history and the chunks go with the note.                *)
DeleteNote(n) ==
    /\ IsReady /\ Use("edits") /\ n \in DOMAIN title
    /\ title' = [m \in DOMAIN title \ {n} |-> title[m]]
    /\ updates' = [i \in {j \in DOMAIN updates : updates[j].note # n} |-> updates[i]]
    /\ refs' = [table \in RefTables |-> {p \in refs[table] : p[1] # n}]
    /\ fts' = [m \in DOMAIN fts \ (IF "notes_ad" \in schema THEN {n} ELSE {}) |-> fts[m]]
    /\ chunked' = chunked \ {n}
    /\ vectors' = IF driver = "vec" THEN vectors \ {n} ELSE vectors
    /\ UNCHANGED <<schema, body, saved, tags, runs, vec, at, driver>>

(* handleReindexNotes and its jobs: notes without chunks get chunks, vectors.  *)
Reindex ==
    /\ IsReady /\ driver = "vec" /\ Use("edits")
    /\ vectors' = vectors \cup (DOMAIN title \ chunked)
    /\ chunked' = chunked \cup DOMAIN title
    /\ UNCHANGED <<schema, texts, tagging, fts, runs, vec, at, driver>>

-------------------------------------------------------------------------------
Migrate ==
    \/ Ensure \/ Dedupe \/ EnsureVec \/ CopyBody \/ Normalize \/ Backfill
    \/ DropColumn("DROP_BODY", "body") \/ DropColumn("DROP_UPDATED_AT", "updated_at")
Serve ==
    \/ \E n \in Notes, text \in Texts, names \in SUBSET Names : SaveNote(n, text, names)
    \/ \E n \in Notes, names \in SUBSET Names : SaveAutoTags(n, names)
    \/ \E n \in Notes, text \in Texts : SaveTitle(n, text)
    \/ \E n \in Notes : DeleteNote(n)
    \/ Reindex

Next == Start \/ Migrate \/ Fail \/ Crash \/ Serve

Spec == Init /\ [][Next]_vars
-------------------------------------------------------------------------------
TypeOK ==
    /\ schema \subseteq Items \cup {"body", "updated_at"}
    /\ DOMAIN title \subseteq Notes /\ DOMAIN fts \subseteq Notes
    /\ DOMAIN tags \subseteq 1 .. MaxTags
    /\ \A table \in RefTables : refs[table] \subseteq Notes \X DOMAIN tags
    /\ at \in 0 .. Ready /\ driver \in {"vec", "plain"}

LatestBody(n) ==
    LET history == {i \in DOMAIN updates : updates[i].note = n} IN
    IF history # {} THEN updates[LastId(history)].body
    ELSE IF "body" \in schema THEN body[n] ELSE ""

(* The text a user saved last is what is read, wherever a start is cut off and *)
(* repeated: the column is dropped only when every body is in the history      *)
(* (db.go:369).                                                                *)
TextsKept == \A n \in DOMAIN title : LatestBody(n) = saved[n]

(* Once the server runs, the full-text index has a row for every note, with    *)
(* its title and the names of its manual and automatic tags: the backfill and  *)
(* eight triggers must miss no way a note or tag changes (db.go:640).          *)
FtsInSync ==
    IsReady => /\ DOMAIN fts = DOMAIN title
               /\ \A n \in DOMAIN title :
                     fts[n] = [title |-> title[n],
                               tags |-> {tags[p[2]] : p \in {q \in UNION {refs[table] : table \in RefTables} :
                                                                q[1] = n}}]

Pending == {r.payload : r \in {s \in runs : s.active}}
NormalRefs(table) ==
    {<<p[1], NormalName[tags[p[2]]]>> : p \in refs[table]} \ (Notes \X {""})

(* A start loses no pending job and no tag of a note, up to the normal form of *)
(* its name (db.go:265, 494); after it no two pending jobs have one payload.   *)
KeepsWork ==
    ~IsReady => /\ Pending' = Pending
                /\ \A table \in RefTables : NormalRefs(table)' = NormalRefs(table)
                /\ IsReady' => \A r, s \in runs' : r.active /\ s.active /\ r # s =>
                                   r.payload # s.payload \/ r.payload = NoPayload
StartKeepsWork == [][KeepsWork]_vars

(* Not a property of the code: the bodies are copied once.                     *)
BodyCopiedOnce ==
    \A i, j \in DOMAIN updates : used.edits = 0 /\ updates[i] = updates[j] => i = j

(* Not a property of the code: a reindex makes "search embeddings" for every   *)
(* note that misses them (server.go:694).                                      *)
ReindexFindsLost == [][Reindex => vectors' = DOMAIN title]_vars
================================================================================

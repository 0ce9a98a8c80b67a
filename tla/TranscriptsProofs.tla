----------------------------- MODULE TranscriptsProofs ---------------------------
(***************************************************************************)
(* Recognition of an ingested recording or image, for any number of texts, *)
(* workers, errors, reindexing and crashes: the note has the tag of its    *)
(* source only if the file was understood, and a stored text without a     *)
(* vector has a job that will embed it, one that failed visibly, or a      *)
(* failure of this text in the log.                                        *)
(***************************************************************************)
EXTENDS Transcripts, TLAPS
-----------------------------------------------------------------------------
RecFields == {"job", "at", "part", "text", "body", "tags"}

\* The file comes before its jobs, the note before the tags and the editor.
Stages ==
  /\ note \in {"none", "live", "gone"}
  /\ ingest = "idle" <=> note = "none"
  /\ ingest \in {"idle", "note"} => file = "none"
  /\ ingest = "enqueue" => file = "stored"
  /\ file # "stored" => planned = {} /\ running = {} /\ result = "none"
  /\ note # "live" => tags = {}
  /\ note = "none" => view = NoView
  /\ planned \subseteq JobRuns

\* What the tag of the source stands for.
Good == heard \cap landed # {} \/ Empty \in heard

Embeds(r) == \E t \in Texts \ {Empty} : r.job = Embedding(t) /\ r.text = t
Recognised(r) == r.job \in {ToNote, OfFile}

\* Where a run can stand, and what is known there.
Run(r) ==
  /\ DOMAIN r = RecFields /\ r.job \in JobRuns
  /\ r.job = OfFile => r.at \in {"start", "chunk", "whole", "save", "embed", "report"}
  /\ ~Recognised(r) => r.at \in {"start", "vector", "report"} /\ r.job = Embedding(r.text)
  /\ r.at = "vector" => r.text # Empty
  /\ Recognised(r) => r.at # "vector"
  /\ r.at \in {"append", "insert", "embed"} => r.text \in heard /\ r.text \in Texts
  /\ note = "live" /\ r.job = ToNote /\ r.at \in {"embed", "tags", "force"} => Good
  /\ r.at = "insert" => r.text # Empty
Runs == \A r \in running : Run(r)

Tagged ==
  /\ "forced" \in tags => Good
  /\ note = "live" /\ "forced" \in view.tags => Good

\* An embedding that is done has its row, or another will insert one or has
\* failed visibly.
Writes(r) == Embeds(r) /\ r.at \in {"start", "vector"}
Embeddings == {Embedding(t) : t \in Texts \ {Empty}}
Settled ==
  vector = "none" /\ (\E r \in running : Embeds(r) /\ r.at = "report") =>
    (\E r \in running : Writes(r)) \/ (planned \cup errored) \cap Embeddings # {}

\* Who will embed a text that lacks its vector.
Before(r) == Recognised(r) /\ r.at \in {"start", "chunk", "whole", "save"}
Has(r)    == r.at \in {"append", "insert", "embed"} /\ r.text # Empty /\ r.text = result
Owed ==
  result \in Texts \ {Empty} /\ vector = "none" =>
    \/ \E r \in running : Before(r) \/ Has(r) \/ Writes(r)
    \/ planned \cap Retold # {}
    \/ errored \cap Retold # {}
    \/ lost \cap {result, "error"} # {}

Inv == Stages /\ Runs /\ Tagged /\ Settled /\ Owed
-----------------------------------------------------------------------------
LEMMA JobNames ==
  /\ ToNote # OfFile
  /\ \A t : Embedding(t) # ToNote /\ Embedding(t) # OfFile
  /\ \A t, u : Embedding(t) = Embedding(u) => t = u
  /\ ToNote.text = "none" /\ OfFile.text = "none"
  /\ \A t : Embedding(t).text = t
<1>1. /\ ToNote.name = "to_note" /\ OfFile.name = "file"
      /\ \A t : Embedding(t).name = "embedding" /\ Embedding(t).text = t
      /\ ToNote.text = "none" /\ OfFile.text = "none"
  BY DEF ToNote, OfFile, Embedding
<1>2. QED
  BY <1>1

LEMMA InitInv == Init => Inv
BY TranscriptsAssumption DEF Init, Inv, Stages, Runs, Tagged, Settled, Owed

\* What every step does to the note and to what was heard.
Goes ==
  /\ note' = note \/ (note = "none" /\ running = {}) \/ note' = "gone"
  /\ heard \subseteq heard'
  /\ note' = "live" => landed \subseteq landed'

LEMMA StillRun ==
  ASSUME Goes, NEW r \in running, Run(r)
  PROVE  Run(r)'
<1>1. note' = "live" /\ Good => Good'
  BY DEF Goes, Good
<1>2. note' = "live" => note = "live"
  BY DEF Goes
<1>3. QED
  BY <1>1, <1>2 DEF Run, Recognised, Goes

\* A run goes on as another record.
LEMMA RunsGoOn ==
  ASSUME Inv, Goes, NEW r \in running, NEW s, Step(r, s), Run(s)'
  PROVE  Runs'
<1> SUFFICES ASSUME NEW q \in running' PROVE Run(q)'
  BY DEF Runs
<1>1. PICK p : p = q
  OBVIOUS
<1>2. CASE p = s
  BY <1>1, <1>2 DEF Run, Recognised
<1>3. CASE p \in running
  <2>1. Run(p)'
    BY <1>3, StillRun DEF Inv, Runs
  <2>2. QED
    BY <1>1, <2>1 DEF Run, Recognised
<1>4. QED
  BY <1>1, <1>2, <1>3 DEF Step

\* None is new.
LEMMA RunsLeft ==
  ASSUME Inv, Goes, running' \subseteq running
  PROVE  Runs'
<1> SUFFICES ASSUME NEW q \in running' PROVE Run(q)'
  BY DEF Runs
<1>1. PICK p \in running : p = q
  OBVIOUS
<1>2. Run(p)'
  BY StillRun DEF Inv, Runs
<1>3. QED
  BY <1>1, <1>2 DEF Run, Recognised

LEMMA RunOf ==
  ASSUME Inv, NEW r \in running
  PROVE  /\ Run(r) /\ DOMAIN r = {"job", "at", "part", "text", "body", "tags"}
         /\ file = "stored"
         /\ Embeds(r) <=> r.job \notin {ToNote, OfFile, Embedding(Empty)}
<1>1. Run(r) /\ DOMAIN r = {"job", "at", "part", "text", "body", "tags"} /\ file = "stored"
  BY DEF Inv, Runs, Run, RecFields, Stages
<1>2. Embeds(r) <=> r.job \notin {ToNote, OfFile, Embedding(Empty)}
  BY <1>1, JobNames DEF Run, Embeds, Recognised, JobRuns
<1>3. QED
  BY <1>1, <1>2

\* The steps that touch neither the result nor the vector.
LEMMA OwedGoesOn ==
  ASSUME Inv, NEW r \in running, NEW s, Step(r, s), UNCHANGED <<result, lost, vector>>,
         planned \subseteq planned', errored \subseteq errored',
         Before(r) => Before(s) \/ Has(s), Has(r) => Has(s), Writes(r) => Writes(s),
         Embeds(s) => Embeds(r) /\ r.at = s.at,
         Embeds(r) => Embeds(s) /\ r.at = s.at
  PROVE  Owed' /\ Settled'
<1>1. running' = (running \ {r}) \cup {s}
  BY DEF Step
<1>2. Owed'
  BY <1>1 DEF Inv, Owed, Before, Has, Writes, Embeds, Recognised
<1>3. Settled'
  BY <1>1 DEF Inv, Settled, Writes, Embeds
<1>4. QED
  BY <1>2, <1>3

LEMMA TaggedStays ==
  ASSUME Inv, Goes, UNCHANGED <<note, tags, view>>
  PROVE  Tagged'
<1>1. note' = "live" /\ Good => Good'
  BY DEF Goes, Good
<1>2. "forced" \in tags => note = "live"
  BY DEF Inv, Stages
<1>3. QED
  BY <1>1, <1>2 DEF Inv, Tagged

LEMMA StagesStay ==
  ASSUME Inv, UNCHANGED <<note, ingest, file, tags, view>>, planned' \subseteq JobRuns, file = "stored"
  PROVE  Stages'
BY DEF Inv, Stages
-----------------------------------------------------------------------------
(* Recognition.                                                                *)

LEMMA RecogniseInv ==
  ASSUME Inv, NEW r \in running, LockSTT(r) \/ BeginOCR(r) \/ Transcribe(r) \/ Whole(r)
  PROVE  Inv'
<1>1. UNCHANGED <<note, body, landed, tags, kind, file, result, heard, lost, vector, planned, errored, ingest, view>>
  BY DEF LockSTT, BeginOCR, Transcribe, Whole, noteVars, fileVars
<1>2. PICK s : /\ Step(r, s) /\ s.job = r.job /\ DOMAIN s = RecFields
               /\ s.at \in {"chunk", "whole", "save"}
  <2>1. CASE LockSTT(r) \/ BeginOCR(r)
    <3>1. PICK at \in {"chunk", "whole"} : Goto(r, at)
      <4>1. Goto(r, "chunk") \/ Goto(r, "whole")
        BY <2>1, RunOf DEF LockSTT, BeginOCR
      <4>2. QED
        BY <4>1 DEF Goto, Step
    <3>2. PICK s : s = [r EXCEPT !.at = at]
      OBVIOUS
    <3>3. s.job = r.job /\ s.at = at /\ DOMAIN s = RecFields
      BY <3>2, RunOf DEF RecFields
    <3>4. QED
      BY <3>1, <3>2, <3>3 DEF Goto
  <2>2. CASE Transcribe(r)
    <3>1. CASE Step(r, [r EXCEPT !.part = @ + 1])
      <4>1. PICK s : s = [r EXCEPT !.part = @ + 1]
        OBVIOUS
      <4>2. s.job = r.job /\ s.at = "chunk" /\ DOMAIN s = RecFields
        BY <2>2, <4>1, RunOf DEF RecFields, Transcribe
      <4>3. QED
        BY <3>1, <4>1, <4>2
    <3>2. CASE Step(r, [r EXCEPT !.at = "whole", !.part = 0])
      <4>1. PICK s : s = [r EXCEPT !.at = "whole", !.part = 0]
        OBVIOUS
      <4>2. s.job = r.job /\ s.at = "whole" /\ DOMAIN s = RecFields
        BY <4>1, RunOf DEF RecFields
      <4>3. QED
        BY <3>2, <4>1, <4>2
    <3>3. ASSUME NEW t \in Texts, Step(r, [r EXCEPT !.at = "save", !.text = t, !.part = 0])
          PROVE  \E s : /\ Step(r, s) /\ s.job = r.job /\ DOMAIN s = RecFields
                        /\ s.at \in {"chunk", "whole", "save"}
      <4>1. PICK s : s = [r EXCEPT !.at = "save", !.text = t, !.part = 0]
        OBVIOUS
      <4>2. s.job = r.job /\ s.at = "save" /\ DOMAIN s = RecFields
        BY <4>1, RunOf DEF RecFields
      <4>3. QED
        BY <3>3, <4>1, <4>2
    <3>4. QED
      BY <2>2, <3>1, <3>2, <3>3 DEF Transcribe
  <2>3. CASE Whole(r)
    <3>1. PICK s, text : Step(r, s) /\ s = [r EXCEPT !.at = "save", !.text = text]
      BY <2>3 DEF Whole
    <3>2. s.job = r.job /\ s.at = "save" /\ DOMAIN s = RecFields
      BY <3>1, RunOf DEF RecFields
    <3>3. QED
      BY <3>1, <3>2
  <2>4. QED
    BY <2>1, <2>2, <2>3
<1>3. Recognised(r) /\ r.at \notin {"append", "insert", "embed", "vector", "report"}
  BY RunOf DEF Run, LockSTT, BeginOCR, Transcribe, Whole, Recognises, Recognised
<1>4. Goes
  BY <1>1 DEF Goes
<1>5. Run(s) /\ Before(s) /\ ~Embeds(r) /\ ~Embeds(s)
  BY <1>2, <1>3, RunOf, JobNames DEF Run, Recognised, Before, Embeds
<1>6. Runs'
  BY <1>1, <1>2, <1>4, <1>5, RunsGoOn DEF Run, Recognised, Good
<1>7. Owed' /\ Settled'
  BY <1>1, <1>2, <1>3, <1>5, OwedGoesOn DEF Has, Writes
<1>8. Stages' /\ Tagged'
  BY <1>1, <1>4, StagesStay, TaggedStays, RunOf DEF Inv, Stages
<1>9. QED
  BY <1>6, <1>7, <1>8 DEF Inv

\* A step that only moves on.
LEMMA GotoFacts ==
  ASSUME Inv, NEW r \in running, NEW at, Goto(r, at)
  PROVE  \E s : /\ Step(r, s) /\ s.job = r.job /\ s.at = at /\ s.text = r.text
                /\ DOMAIN s = RecFields /\ (Embeds(s) <=> Embeds(r))
<1>1. PICK s : s = [r EXCEPT !.at = at]
  OBVIOUS
<1>2. s.job = r.job /\ s.at = at /\ s.text = r.text /\ DOMAIN s = RecFields
  BY <1>1, RunOf DEF RecFields
<1>3. QED
  BY <1>1, <1>2 DEF Goto, Embeds

LEMMA SaveInv ==
  ASSUME Inv, NEW r \in running, SaveResult(r) \/ SaveError(r)
  PROVE  Inv'
<1>1. /\ UNCHANGED <<note, body, landed, tags, kind, file, vector, planned, errored, ingest, view>>
      /\ heard \subseteq heard'
  BY DEF SaveResult, SaveError, noteVars
<1>2. PICK at : /\ Goto(r, at)
                /\ \/ at = "report" /\ (result' = "error" \/ (result' = result /\ "error" \in lost'))
                   \/ /\ at = (IF r.job = OfFile THEN "embed" ELSE "append")
                      /\ result' = r.text /\ r.text \in Texts /\ r.text \in heard'
  BY DEF SaveResult, SaveError
<1>3. PICK s : /\ Step(r, s) /\ s.job = r.job /\ s.at = at /\ s.text = r.text
               /\ DOMAIN s = RecFields /\ (Embeds(s) <=> Embeds(r))
  BY <1>2, GotoFacts
<1>4. Recognised(r) /\ r.at = "save"
  BY RunOf DEF Run, SaveResult, SaveError, Recognised
<1>5. Goes
  BY <1>1 DEF Goes
<1>6. Run(s)'
  <2>1. r.job \in JobRuns
    BY RunOf DEF Run
  <2>2. QED
    BY <1>2, <1>3, <1>4, <2>1, JobNames DEF Run, Recognised
<1>7. ~Embeds(r)
  BY <1>4, JobNames DEF Recognised, Embeds
<1>8. running' = (running \ {r}) \cup {s}
  BY <1>3 DEF Step
<1>9. Owed'
  <2>1. CASE result' \in Texts \ {Empty} /\ at # "report"
    <3>1. Has(s)'
      BY <1>2, <1>3, <2>1 DEF Has
    <3>2. QED
      BY <1>8, <3>1 DEF Owed, Has
  <2>2. CASE result' \notin Texts \ {Empty}
    BY <2>2 DEF Owed
  <2>3. CASE result' # "error" /\ at = "report"
    BY <1>2, <2>3 DEF Owed
  <2>4. QED
    BY <2>1, <2>2, <2>3, TranscriptsAssumption
<1>10. Settled'
  BY <1>1, <1>3, <1>7, <1>8 DEF Inv, Settled, Writes, Embeds, Recognised
<1>11. Stages' /\ Tagged'
  <2>1. file = "stored"
    BY RunOf
  <2>2. QED
    BY <1>1, <1>5, <2>1, TaggedStays DEF Inv, Stages
<1>12. QED
  BY <1>3, <1>5, <1>6, <1>9, <1>10, <1>11, RunsGoOn DEF Inv
-----------------------------------------------------------------------------
(* The text in the note.                                                       *)

\* A run that fails visibly.
LEMMA FailInv ==
  ASSUME Inv, NEW r \in running, Fails(r), r.job # Embedding(Empty),
         UNCHANGED <<noteVars, fileVars, planned, ingest, view>>
  PROVE  Inv'
<1>1. running' = running \ {r} /\ errored' = errored \cup {r.job}
  BY DEF Fails, Drop
<1>2. r.job \in Retold
  BY RunOf, JobNames DEF Run, Retold, JobRuns
<1>3. Goes
  BY DEF Goes, noteVars, fileVars
<1>4. Runs'
  BY <1>1, <1>3, RunsLeft
<1>5. Owed' /\ Settled'
  <2>1. Owed'
    BY <1>1, <1>2 DEF Inv, Owed, Has, Before, Writes, Embeds, Recognised, fileVars
  <2>2. Embeds(r) => r.job \in Embeddings
    BY DEF Embeds, Embeddings
  <2>3. Settled'
    BY <1>1, <2>2 DEF Inv, Settled, Writes, Embeds, fileVars
  <2>4. QED
    BY <2>1, <2>3
<1>6. Stages' /\ Tagged'
  BY <1>3, StagesStay, TaggedStays, RunOf DEF Inv, Stages, noteVars, fileVars
<1>7. QED
  BY <1>4, <1>5, <1>6 DEF Inv

LEMMA StatementFailsInv ==
  ASSUME Inv, NEW r \in running, StatementFails(r)
  PROVE  Inv'
<1>1. r.job # Embedding(Empty)
  BY RunOf, JobNames DEF Run, Recognised, StatementFails
<1>2. QED
  BY <1>1, FailInv DEF StatementFails

LEMMA ReadBodyInv ==
  ASSUME Inv, NEW r \in running, ReadBody(r)
  PROVE  Inv'
<1>1. UNCHANGED <<note, body, landed, tags, kind, file, result, heard, lost, vector, planned, errored, ingest, view>>
  BY DEF ReadBody, noteVars, fileVars
<1>2. PICK s : /\ Step(r, s) /\ s.job = r.job /\ s.text = r.text /\ DOMAIN s = RecFields
               /\ s.at = (IF r.text = Empty THEN "embed" ELSE "insert")
  <2>1. PICK s : /\ Step(r, s)
                 /\ s = IF r.text = Empty THEN [r EXCEPT !.at = "embed"]
                                          ELSE [r EXCEPT !.at = "insert", !.body = body]
    BY DEF ReadBody
  <2>2. s.job = r.job /\ s.text = r.text /\ DOMAIN s = RecFields
        /\ s.at = (IF r.text = Empty THEN "embed" ELSE "insert")
    BY <2>1, RunOf DEF RecFields
  <2>3. QED
    BY <2>1, <2>2
<1>3. r.job = ToNote /\ r.text \in heard /\ r.text \in Texts /\ r.at = "append"
  BY RunOf DEF Run, ReadBody, Recognised
<1>4. Goes
  BY <1>1 DEF Goes
<1>5. Run(s)
  BY <1>2, <1>3, RunOf, JobNames DEF Run, Recognised, Good
<1>6. Runs'
  BY <1>1, <1>2, <1>4, <1>5, RunsGoOn DEF Run, Recognised, Good
<1>7. Owed' /\ Settled'
  <2>1. ~Embeds(r) /\ ~Embeds(s) /\ ~Before(r) /\ (Has(r) => Has(s))
    BY <1>2, <1>3, JobNames DEF Embeds, Before, Has
  <2>2. QED
    BY <1>1, <1>2, <2>1, OwedGoesOn DEF Writes
<1>8. Stages' /\ Tagged'
  BY <1>1, <1>4, StagesStay, TaggedStays, RunOf DEF Inv, Stages
<1>9. QED
  BY <1>6, <1>7, <1>8 DEF Inv

LEMMA AppendTextInv ==
  ASSUME Inv, NEW r \in running, AppendText(r)
  PROVE  Inv'
<1>1. /\ r.job = ToNote /\ r.text \in heard /\ r.text \in Texts \ {Empty} /\ r.at = "insert"
      /\ r.job \notin {Embedding(t) : t \in Texts}
  BY RunOf, JobNames DEF Run, AppendText, Recognised
<1>2. ~Embeds(r) /\ ~Before(r)
  BY <1>1, JobNames DEF Embeds, Before
<1>3. CASE note # "live"
  BY <1>1, <1>2, <1>3, JobNames, FailInv DEF AppendText, noteVars
<1>4. CASE note = "live"
  <2>1. /\ UNCHANGED <<note, tags, kind, file, result, heard, lost, vector, planned, errored, ingest, view>>
        /\ landed' = landed \cup {r.text}
    BY <1>4 DEF AppendText, fileVars
  <2>2. PICK s : Step(r, s) /\ s = [r EXCEPT !.at = "embed", !.body = <<>>]
    BY <1>4 DEF AppendText
  <2>3. s.job = r.job /\ s.text = r.text /\ DOMAIN s = RecFields /\ s.at = "embed"
    BY <2>2, RunOf DEF RecFields
  <2>4. Good' /\ Goes
    BY <1>1, <2>1 DEF Good, Goes
  <2>5. Run(s)'
    BY <1>1, <2>1, <2>3, <2>4, RunOf, JobNames DEF Run, Recognised
  <2>6. Owed' /\ Settled'
    <3>1. ~Embeds(s) /\ (Has(r) => Has(s))
      BY <1>1, <2>3, JobNames DEF Embeds, Has
    <3>2. QED
      BY <1>2, <2>1, <2>2, <3>1, OwedGoesOn DEF Writes
  <2>7. Stages' /\ Tagged'
    BY <2>1, <2>4, StagesStay, TaggedStays, RunOf DEF Inv, Stages
  <2>8. QED
    BY <2>2, <2>4, <2>5, <2>6, <2>7, RunsGoOn DEF Inv
<1>5. QED
  BY <1>3, <1>4

LEMMA EnqueueEmbeddingInv ==
  ASSUME Inv, NEW r \in running, EnqueueEmbedding(r)
  PROVE  Inv'
<1>1. UNCHANGED <<note, body, landed, tags, kind, file, result, heard, vector, errored, ingest, view>>
  BY DEF EnqueueEmbedding, noteVars, fileVars
<1>2. PICK e : e = Embedding(r.text)
  OBVIOUS
<1>3. \/ planned' = planned \cup ({e} \ Active) /\ lost' = lost
      \/ planned' = planned /\ lost' = lost \cup {r.text}
  BY <1>2 DEF EnqueueEmbedding, Enqueue
<1>4. PICK s : /\ Step(r, s) /\ s.job = r.job /\ s.text = r.text /\ DOMAIN s = RecFields
               /\ (Embeds(s) <=> Embeds(r)) /\ s.at = (IF r.job = OfFile THEN "report" ELSE "tags")
  BY GotoFacts DEF EnqueueEmbedding
<1>5. r.at = "embed" /\ Recognised(r) /\ r.text \in Texts /\ ~Embeds(r)
  BY RunOf, JobNames DEF Run, EnqueueEmbedding, Recognised
<1>6. Goes
  BY <1>1 DEF Goes
<1>7. Run(s)
  BY <1>4, <1>5, RunOf, JobNames DEF Run, Recognised
<1>8. Runs'
  BY <1>1, <1>4, <1>6, <1>7, RunsGoOn DEF Run, Recognised, Good
<1>9. running' = (running \ {r}) \cup {s}
  BY <1>4 DEF Step
<1>10. Settled'
  BY <1>1, <1>3, <1>4, <1>5, <1>9 DEF Inv, Settled, Writes, Embeds
<1>11. Owed'
  <2> SUFFICES ASSUME result \in Texts \ {Empty}, vector = "none" PROVE Owed'
    BY <1>1 DEF Owed
  <2>1. CASE Has(r)
    <3>1. e \in Retold
      BY <1>2, <1>5, <2>1 DEF Has, Retold
    <3>2. CASE e \in planned'
      BY <3>1, <3>2 DEF Owed
    <3>3. CASE planned' = planned \cup ({e} \ Active) /\ e \notin planned'
      <4>1. PICK q \in running : q.job = e
        BY <1>3, <3>3 DEF Active
      <4>2. Embeds(q) /\ q.at \in {"start", "vector", "report"}
        BY <1>2, <1>5, <2>1, <4>1, RunOf, JobNames DEF Run, Recognised, Has
      <4>3. CASE \E w \in running : Writes(w)
        <5>1. PICK w \in running : Writes(w)
          BY <4>3
        <5>2. w # r
          BY <1>5, <5>1 DEF Writes
        <5>3. QED
          BY <1>9, <5>1, <5>2 DEF Owed, Writes, Embeds
      <4>4. CASE (planned \cup errored) \cap Embeddings # {}
        <5>1. Embeddings \subseteq Retold
          BY DEF Embeddings, Retold
        <5>2. QED
          BY <1>1, <1>3, <4>4, <5>1 DEF Owed
      <4>5. QED
        BY <4>2, <4>3, <4>4 DEF Inv, Settled, Writes
    <3>4. CASE lost' = lost \cup {r.text}
      BY <1>1, <2>1, <3>4 DEF Owed, Has
    <3>5. QED
      BY <1>3, <3>2, <3>3, <3>4
  <2>2. CASE ~Has(r)
    <3>1. ~Before(r) /\ ~Writes(r)
      BY <1>5 DEF Before, Writes
    <3>2. QED
      BY <1>1, <1>3, <1>9, <2>2, <3>1 DEF Inv, Owed, Before, Has, Writes, Embeds, Recognised
  <2>3. QED
    BY <2>1, <2>2
<1>12. Stages' /\ Tagged'
  <2>1. planned' \subseteq JobRuns
    BY <1>2, <1>3, <1>5 DEF Inv, Stages, JobRuns
  <2>2. QED
    BY <1>1, <1>6, <2>1, StagesStay, TaggedStays, RunOf
<1>13. QED
  BY <1>8, <1>10, <1>11, <1>12 DEF Inv

LEMMA ReadTagsInv ==
  ASSUME Inv, NEW r \in running, ReadTags(r)
  PROVE  Inv'
<1>1. UNCHANGED <<note, body, landed, tags, kind, file, result, heard, lost, vector, planned, errored, ingest, view>>
  BY DEF ReadTags, noteVars, fileVars
<1>2. PICK s : /\ Step(r, s) /\ s.job = r.job /\ DOMAIN s = RecFields
               /\ s.at \in {"force", "report"}
  <2>1. CASE Step(r, [r EXCEPT !.at = "force", !.tags = tags])
    <3>1. PICK s : s = [r EXCEPT !.at = "force", !.tags = tags]
      OBVIOUS
    <3>2. s.job = r.job /\ s.at = "force" /\ DOMAIN s = RecFields
      BY <3>1, RunOf DEF RecFields
    <3>3. QED
      BY <2>1, <3>1, <3>2
  <2>2. CASE Step(r, [r EXCEPT !.at = "force"]) \/ Goto(r, "report")
    <3>1. Goto(r, "force") \/ Goto(r, "report")
      BY <2>2 DEF Goto
    <3>2. QED
      BY <3>1, GotoFacts
  <2>3. QED
    BY <2>1, <2>2 DEF ReadTags
<1>3. r.job = ToNote /\ r.at = "tags"
  BY RunOf DEF Run, ReadTags, Recognised
<1>4. Goes
  BY <1>1 DEF Goes
<1>5. Run(s)
  BY <1>2, <1>3, RunOf, JobNames DEF Run, Recognised
<1>6. Runs'
  BY <1>1, <1>2, <1>4, <1>5, RunsGoOn DEF Run, Recognised, Good
<1>7. Owed' /\ Settled'
  <2>1. ~Embeds(r) /\ ~Embeds(s) /\ ~Before(r) /\ ~Has(r)
    BY <1>2, <1>3, JobNames DEF Embeds, Before, Has
  <2>2. QED
    BY <1>1, <1>2, <2>1, OwedGoesOn DEF Writes
<1>8. Stages' /\ Tagged'
  BY <1>1, <1>4, StagesStay, TaggedStays, RunOf DEF Inv, Stages
<1>9. QED
  BY <1>6, <1>7, <1>8 DEF Inv

\* The tag is written for a text that has landed.
LEMMA ForceTagInv ==
  ASSUME Inv, NEW r \in running, ForceTag(r)
  PROVE  Inv'
<1>1. r.job = ToNote /\ r.at = "force" /\ (note = "live" => Good)
  BY RunOf DEF Run, ForceTag, Recognised
<1>2. CASE note # "live"
  BY <1>1, <1>2, JobNames, FailInv DEF ForceTag, noteVars
<1>3. CASE note = "live"
  <2>1. UNCHANGED <<note, body, landed, kind, file, result, heard, lost, vector, planned, errored, ingest, view>>
    BY <1>3 DEF ForceTag, fileVars
  <2>2. PICK s : Step(r, s) /\ s = [r EXCEPT !.at = "report", !.tags = {}]
    BY <1>3 DEF ForceTag
  <2>3. s.job = r.job /\ DOMAIN s = RecFields /\ s.at = "report"
    BY <2>2, RunOf DEF RecFields
  <2>4. Goes /\ Good'
    BY <1>1, <1>3, <2>1 DEF Goes, Good
  <2>5. Run(s)'
    BY <1>1, <2>3, RunOf, JobNames DEF Run, Recognised
  <2>6. Owed' /\ Settled'
    <3>1. ~Embeds(r) /\ ~Embeds(s) /\ ~Before(r) /\ ~Has(r)
      BY <1>1, <2>3, JobNames DEF Embeds, Before, Has
    <3>2. QED
      BY <2>1, <2>2, <3>1, OwedGoesOn DEF Writes
  <2>7. Stages' /\ Tagged'
    BY <1>3, <2>1, <2>4, RunOf DEF Inv, Stages, Tagged
  <2>8. QED
    BY <2>2, <2>4, <2>5, <2>6, <2>7, RunsGoOn DEF Inv
<1>4. QED
  BY <1>2, <1>3
-----------------------------------------------------------------------------
(* The vector.                                                                 *)

LEMMA DeleteVectorInv ==
  ASSUME Inv, NEW r \in running, DeleteVector(r)
  PROVE  Inv'
<1>1. UNCHANGED <<note, body, landed, tags, kind, file, result, heard, lost, planned, ingest, view>>
  BY DEF DeleteVector, noteVars
<1>2. r.at = "start" /\ ~Recognised(r) /\ r.job = Embedding(r.text)
  BY RunOf DEF Run, DeleteVector, Recognised
<1>3. Goes
  BY <1>1 DEF Goes
<1>4. CASE Fails(r) /\ vector' = vector /\ r.text # Empty
  <2>1. r.job # Embedding(Empty)
    BY <1>2, <1>4, JobNames
  <2>2. UNCHANGED <<noteVars, fileVars, planned, ingest, view>>
    BY <1>1, <1>4 DEF noteVars, fileVars
  <2>3. QED
    BY <1>2, <1>4, <2>1, <2>2, FailInv
<1>5. CASE r.text = Empty /\ Goto(r, "report") /\ UNCHANGED <<vector, errored>>
  <2>1. PICK s : /\ Step(r, s) /\ s.job = r.job /\ s.at = "report" /\ s.text = r.text
                 /\ DOMAIN s = RecFields /\ (Embeds(s) <=> Embeds(r))
    BY <1>5, GotoFacts
  <2>2. Run(s)'
    BY <1>2, <2>1, RunOf DEF Run, Recognised
  <2>3. ~Embeds(r) /\ ~Before(r) /\ ~Has(r)
    BY <1>2, <1>5, JobNames DEF Embeds, Before, Has
  <2>4. Owed' /\ Settled'
    BY <1>1, <1>5, <2>1, <2>3, OwedGoesOn DEF Writes
  <2>5. Stages' /\ Tagged'
    BY <1>1, <1>3, StagesStay, TaggedStays, RunOf DEF Inv, Stages
  <2>6. QED
    BY <1>3, <2>1, <2>2, <2>4, <2>5, RunsGoOn DEF Inv
<1>6. CASE r.text # Empty /\ Goto(r, "vector") /\ vector' = "none" /\ UNCHANGED errored
  <2>1. PICK s : /\ Step(r, s) /\ s.job = r.job /\ s.at = "vector" /\ s.text = r.text
                 /\ DOMAIN s = RecFields /\ (Embeds(s) <=> Embeds(r))
    BY <1>6, GotoFacts
  <2>2. Run(s)'
    BY <1>2, <1>6, <2>1, RunOf DEF Run, Recognised
  <2>3. Embeds(s)
    BY <1>2, <1>6, <2>1, JobNames, RunOf DEF Recognised
  <2>4. s \in running'
    BY <2>1 DEF Step
  <2>5. Owed' /\ Settled'
    BY <2>1, <2>3, <2>4 DEF Owed, Settled, Writes, Embeds
  <2>6. Stages' /\ Tagged'
    BY <1>1, <1>3, StagesStay, TaggedStays, RunOf DEF Inv, Stages
  <2>7. QED
    BY <1>3, <2>1, <2>2, <2>5, <2>6, RunsGoOn DEF Inv
<1>7. QED
  BY <1>4, <1>5, <1>6 DEF DeleteVector

LEMMA InsertVectorInv ==
  ASSUME Inv, NEW r \in running, InsertVector(r)
  PROVE  Inv'
<1>1. UNCHANGED <<note, body, landed, tags, kind, file, result, heard, lost, planned, ingest, view>>
  BY DEF InsertVector, noteVars
<1>2. ~Recognised(r) /\ r.job = Embedding(r.text) /\ r.text \in Texts
  BY RunOf, JobNames DEF Run, InsertVector, Recognised, JobRuns
<1>3. vector' # "none"
  BY <1>2, TranscriptsAssumption DEF InsertVector
<1>4. Owed' /\ Settled'
  BY <1>3 DEF Owed, Settled
<1>5. Goes
  BY <1>1 DEF Goes
<1>6. Stages' /\ Tagged'
  BY <1>1, <1>5, StagesStay, TaggedStays, RunOf DEF Inv, Stages
<1>7. CASE Fails(r)
  BY <1>4, <1>5, <1>6, <1>7, RunsLeft DEF Inv, Fails, Drop
<1>8. CASE Goto(r, "report")
  <2>1. PICK s : /\ Step(r, s) /\ s.job = r.job /\ s.at = "report" /\ s.text = r.text
                 /\ DOMAIN s = RecFields
    BY <1>8, GotoFacts
  <2>2. Run(s)'
    BY <1>2, <2>1, RunOf DEF Run, Recognised
  <2>3. QED
    BY <1>4, <1>5, <1>6, <2>1, <2>2, RunsGoOn DEF Inv
<1>9. QED
  BY <1>7, <1>8 DEF InsertVector

LEMMA ReportInv ==
  ASSUME Inv, NEW r \in running, Report(r)
  PROVE  Inv'
<1>1. running' = running \ {r} /\ UNCHANGED <<noteVars, fileVars, planned, errored, ingest, view>>
  BY DEF Report, Drop
<1>2. Goes
  BY <1>1 DEF Goes, noteVars, fileVars
<1>3. Owed' /\ Settled'
  BY <1>1 DEF Inv, Owed, Settled, Before, Has, Writes, Embeds, Recognised, Report, fileVars
<1>4. Stages' /\ Tagged'
  BY <1>1, <1>2, StagesStay, TaggedStays, RunOf DEF Inv, Stages, noteVars, fileVars
<1>5. QED
  BY <1>1, <1>2, <1>3, <1>4, RunsLeft DEF Inv

LEMMA StartInv ==
  ASSUME Inv, NEW j \in JobRuns, Start(j)
  PROVE  Inv'
<1>1. /\ UNCHANGED <<note, body, landed, tags, kind, file, result, heard, lost, vector, ingest, view>>
      /\ planned' = planned \ {j} /\ errored' = errored \ {j} /\ file = "stored"
  BY DEF Start, noteVars, fileVars, Inv, Stages
<1>2. PICK f : f = Fresh(j) /\ running' = running \cup {f}
  BY DEF Start
<1>3. DOMAIN f = RecFields /\ f.job = j /\ f.at = "start" /\ f.text = j.text
  BY <1>2 DEF Fresh, RecFields
<1>4. Run(f)'
  BY <1>3, JobNames DEF Run, Recognised, JobRuns
<1>5. Goes
  BY <1>1 DEF Goes
<1>6. Runs'
  <2> SUFFICES ASSUME NEW q \in running' PROVE Run(q)'
    BY DEF Runs
  <2>1. PICK p : p = q
    OBVIOUS
  <2>2. CASE p = f
    BY <1>4, <2>1, <2>2 DEF Run, Recognised
  <2>3. CASE p \in running
    <3>1. Run(p)'
      BY <1>5, <2>3, StillRun DEF Inv, Runs
    <3>2. QED
      BY <2>1, <3>1 DEF Run, Recognised
  <2>4. QED
    BY <1>2, <2>1, <2>2, <2>3
<1>7. Settled'
  <2>1. CASE j \in Embeddings
    <3>1. Writes(f)
      BY <1>3, <2>1, JobNames DEF Writes, Embeds, Embeddings
    <3>2. QED
      BY <1>2, <3>1 DEF Settled, Writes, Embeds
  <2>2. CASE j \notin Embeddings
    BY <1>1, <1>2, <1>3, <2>2 DEF Inv, Settled, Writes, Embeds
  <2>3. QED
    BY <2>1, <2>2
<1>8. Owed'
  <2>1. CASE j \in Retold
    <3>1. Before(f) \/ Writes(f)
      BY <1>3, <2>1, JobNames DEF Before, Writes, Embeds, Recognised, Retold
    <3>2. QED
      BY <1>2, <3>1 DEF Owed, Before, Writes, Embeds, Recognised
  <2>2. CASE j \notin Retold
    BY <1>1, <1>2, <2>2 DEF Inv, Owed, Before, Has, Writes, Embeds, Recognised
  <2>3. QED
    BY <2>1, <2>2
<1>9. Stages' /\ Tagged'
  BY <1>1, <1>5, StagesStay, TaggedStays DEF Inv, Stages
<1>10. QED
  BY <1>6, <1>7, <1>8, <1>9 DEF Inv
-----------------------------------------------------------------------------
(* Handlers and the user.                                                      *)

\* A step that leaves the jobs alone, but for a new one.
LEMMA JobsStand ==
  ASSUME Inv, Goes, UNCHANGED <<running, errored, result, lost, vector>>, planned \subseteq planned'
  PROVE  Runs' /\ Settled' /\ Owed'
<1>1. Runs'
  BY RunsLeft
<1>2. Settled'
  BY DEF Inv, Settled, Writes, Embeds
<1>3. Owed'
  BY DEF Inv, Owed, Before, Has, Writes, Embeds, Recognised
<1>4. QED
  BY <1>1, <1>2, <1>3

LEMMA IngestInv ==
  ASSUME Inv, InsertIngestNote \/ IngestStep
  PROVE  Inv'
<1>1. /\ UNCHANGED <<body, landed, tags, kind, result, heard, lost, vector, running, errored, view>>
      /\ planned \subseteq planned'
  BY DEF InsertIngestNote, IngestStep, CreateAttachment, UpdateFileMIMEType, EnqueueToNote, Enqueue,
     noteVars, fileVars, jobs
<1>2. CASE InsertIngestNote
  <2>1. note = "none" /\ running = {} /\ planned' = planned /\ file' = file
    BY <1>2 DEF InsertIngestNote, Inv, Stages, fileVars, jobs
  <2>2. Goes
    BY <1>1, <2>1 DEF Goes
  <2>3. Stages'
    BY <1>1, <1>2, <2>1 DEF InsertIngestNote, Inv, Stages
  <2>4. Tagged'
    <3>1. tags = {} /\ view.tags = {"unloaded"}
      BY <2>1 DEF Inv, Stages, NoView
    <3>2. QED
      BY <1>1, <3>1 DEF Tagged
  <2>5. QED
    BY <1>1, <2>2, <2>3, <2>4, JobsStand DEF Inv
<1>3. CASE IngestStep
  <2>1. note' = note
    BY <1>3 DEF IngestStep, CreateAttachment, UpdateFileMIMEType, EnqueueToNote, noteVars
  <2>2. Goes
    BY <1>1, <2>1 DEF Goes
  <2>3. Stages'
    <3>1. CASE CreateAttachment
      BY <1>1, <2>1, <3>1 DEF CreateAttachment, Inv, Stages, jobs
    <3>2. CASE UpdateFileMIMEType
      BY <1>1, <2>1, <3>2 DEF UpdateFileMIMEType, Inv, Stages, jobs
    <3>3. CASE EnqueueToNote
      <4>1. planned' \subseteq JobRuns /\ file' = file /\ file = "stored" /\ ingest' = "done"
        BY <3>3 DEF EnqueueToNote, Enqueue, Inv, Stages, JobRuns, fileVars
      <4>2. QED
        BY <1>1, <2>1, <3>3, <4>1 DEF EnqueueToNote, Inv, Stages
    <3>4. QED
      BY <1>3, <3>1, <3>2, <3>3 DEF IngestStep
  <2>4. Tagged'
    BY <1>1, <2>1, <2>2, TaggedStays
  <2>5. QED
    BY <1>1, <2>2, <2>3, <2>4, JobsStand DEF Inv
<1>4. QED
  BY <1>2, <1>3

LEMMA ReindexInv ==
  ASSUME Inv, Reindex \/ ReindexAll
  PROVE  Inv'
<1>1. /\ UNCHANGED <<note, body, landed, tags, kind, file, result, heard, lost, vector, running, errored, ingest, view>>
      /\ file = "stored"
  BY DEF Reindex, ReindexAll, noteVars, fileVars
<1>2. planned \subseteq planned' /\ planned' \subseteq JobRuns
  BY DEF Reindex, ReindexAll, Enqueue, Inv, Stages, JobRuns
<1>3. Goes
  BY <1>1 DEF Goes
<1>4. QED
  BY <1>1, <1>2, <1>3, JobsStand, StagesStay, TaggedStays DEF Inv

LEMMA UserInv ==
  ASSUME Inv, DeleteNote \/ LoadNote \/ SaveNote
  PROVE  Inv'
<1>1. UNCHANGED <<kind, file, result, heard, lost, vector, planned, running, errored, ingest>> /\ note = "live"
  BY DEF DeleteNote, LoadNote, SaveNote, fileVars, jobs
<1>2. Goes
  BY <1>1 DEF Goes, DeleteNote, LoadNote, SaveNote, noteVars
<1>3. Stages'
  BY <1>1 DEF Inv, Stages, DeleteNote, LoadNote, SaveNote, noteVars
<1>4. Tagged'
  <2>1. CASE DeleteNote
    BY <2>1 DEF DeleteNote, Tagged
  <2>2. CASE LoadNote
    <3>1. UNCHANGED <<note, tags, landed>> /\ view'.tags = tags
      BY <2>2 DEF LoadNote, noteVars
    <3>2. QED
      BY <1>1, <3>1 DEF Inv, Tagged, Good
  <2>3. CASE SaveNote
    <3>1. view' = NoView /\ landed \subseteq landed' /\ tags' = view.tags \cup {"user"}
      BY <2>3 DEF SaveNote
    <3>2. "forced" \notin NoView.tags
      BY DEF NoView
    <3>3. Good => Good'
      BY <1>1, <3>1 DEF Good
    <3>4. QED
      BY <1>1, <3>1, <3>2, <3>3 DEF Inv, Tagged
  <2>4. QED
    BY <2>1, <2>2, <2>3
<1>5. QED
  BY <1>1, <1>2, <1>3, <1>4, JobsStand DEF Inv

\* What ran is planned again.
LEMMA RestartInv ==
  ASSUME Inv, Restart
  PROVE  Inv'
<1>1. /\ UNCHANGED <<note, body, landed, tags, kind, file, result, heard, lost, vector, errored, view>>
      /\ running' = {} /\ planned' = Active
  BY DEF Restart, noteVars, fileVars
<1>2. Goes /\ Runs' /\ Settled'
  BY <1>1 DEF Goes, Runs, Settled
<1>3. Owed'
  <2> SUFFICES ASSUME result \in Texts \ {Empty}, vector = "none",
                      NEW r \in running, Before(r) \/ Has(r) \/ Writes(r)
               PROVE  planned' \cap Retold # {}
    BY <1>1 DEF Inv, Owed, Active
  <2>1. r.job \in Retold
    BY RunOf DEF Before, Has, Writes, Embeds, Run, Recognised, Retold
  <2>2. QED
    BY <1>1, <2>1 DEF Active
<1>4. Stages'
  <2>1. planned' \subseteq JobRuns
    BY <1>1 DEF Inv, Stages, Runs, Run, Active
  <2>2. file # "stored" => planned' = {}
    BY <1>1 DEF Inv, Stages, Active
  <2>3. ingest' = (IF ingest = "idle" THEN "idle" ELSE "done")
    BY DEF Restart
  <2>4. QED
    BY <1>1, <2>1, <2>2, <2>3 DEF Inv, Stages
<1>5. QED
  BY <1>1, <1>2, <1>3, <1>4, TaggedStays DEF Inv

LEMMA StutterInv == Inv /\ UNCHANGED vars => Inv'
<1> SUFFICES ASSUME Inv, UNCHANGED vars PROVE Inv'
  OBVIOUS
<1>1. UNCHANGED <<noteVars, fileVars, jobs, ingest, view>>
  BY DEF vars
<1>2. Goes
  BY <1>1 DEF Goes, noteVars, fileVars
<1>3. Stages'
  BY <1>1 DEF Inv, Stages, noteVars, fileVars, jobs
<1>4. QED
  BY <1>1, <1>2, <1>3, JobsStand, TaggedStays DEF Inv, noteVars, fileVars, jobs

LEMMA NextInv == Inv /\ [Next]_vars => Inv'
<1> SUFFICES ASSUME Inv, [Next]_vars PROVE Inv'
  OBVIOUS
<1>1. ASSUME NEW r \in running, JobStep(r) PROVE Inv'
  <2>1. CASE Recognise(r)
    BY <2>1, RecogniseInv, SaveInv DEF Recognise
  <2>2. CASE Enter(r)
    BY <2>2, ReadBodyInv, AppendTextInv, EnqueueEmbeddingInv, ReadTagsInv, ForceTagInv DEF Enter
  <2>3. CASE Embed(r) \/ StatementFails(r) \/ Report(r)
    BY <2>3, DeleteVectorInv, InsertVectorInv, StatementFailsInv, ReportInv DEF Embed
  <2>4. QED
    BY <1>1, <2>1, <2>2, <2>3 DEF JobStep
<1>2. QED
  BY <1>1, StutterInv, IngestInv, StartInv, ReindexInv, UserInv, RestartInv DEF Next

(* Whatever the user, the models and crashes do, a note with the tag of the    *)
(* source has the text of its recording in its history, or there was none.     *)
THEOREM TagOnlyIfHeard == Spec => []TaggedIsHeard
<1>1. Inv => TaggedIsHeard
  BY DEF Inv, Tagged, Good, TaggedIsHeard
<1>2. QED
  BY <1>1, InitInv, NextInv, PTL DEF Spec

(* A recognised text without a vector has a job that will embed it, or one     *)
(* that failed visibly, for any number of texts, workers, failing statements   *)
(* and crashes - unless a failure that only the server log tells of left it    *)
(* behind: its embedding could not be queued, or a later recognition failed    *)
(* and that could not be recorded.                                             *)
THEOREM HeardStaysSearchable == Spec => []HeardIsSearchable
<1>1. Inv => HeardIsSearchable
  <2> SUFFICES ASSUME Inv, result \in Texts \ {Empty}, vector = "none",
                      NEW r \in running, Before(r) \/ Has(r) \/ Writes(r)
               PROVE  Active \cap Retold # {}
    BY DEF Inv, Owed, HeardIsSearchable, Active
  <2>1. r.job \in Retold
    BY RunOf DEF Before, Has, Writes, Embeds, Run, Recognised, Retold
  <2>2. QED
    BY <2>1 DEF Active
<1>2. QED
  BY <1>1, InitInv, NextInv, PTL DEF Spec
===============================================================================

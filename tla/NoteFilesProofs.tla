---------------------------- MODULE NoteFilesProofs ----------------------------
(***************************************************************************)
(* A file that is attached to a note is live or went astray, for any       *)
(* number of notes, files, uploads and handlers and any failing statement. *)
(*                                                                         *)
(* A file gets its attachment when its row is inserted and never again.    *)
(* So whoever has decided to delete it may act as late as he likes, if no  *)
(* attachment was left when he decided: the cleanup, a reconciliation and  *)
(* a failed upload.  A deletion of a note decides earlier; what it has     *)
(* found deletable is attached to that note only, whose row goes first, or *)
(* was counted too late.                                                   *)
(***************************************************************************)
EXTENDS NoteFiles, FiniteSetTheorems, TLAPS

Attached(n, f) == <<n, f, "attachment">> \in refs
Free(f)        == \A n \in Notes : ~Attached(n, f)
Doomed(f)      == Free(f) \/ f \in astray
OnlyOf(n, f)   == f \in astray \/ \A m \in Notes : Attached(m, f) => m = n

Fields == DOMAIN Idle

Shapes ==
  /\ row \in [Files -> {"none", "live", "deleted", "gone"}]
  /\ pending \in [Files -> Notes \cup {None}]
  /\ refs \subseteq Notes \X Files \X Kinds
  /\ DOMAIN note = Notes
  /\ DOMAIN act = Actors /\ \A a \in Actors : DOMAIN act[a] = Fields

\* Nothing refers to a row that was never inserted.
RefsInserted == \A r \in refs : row[r[2]] # "none"

\* A pending file is no attachment.
PendingFree == \A f \in Files : pending[f] # None => row[f] # "none" /\ Free(f)

\* What an actor is about to delete or to mark.
Collecting == {"refs", "owned", "count", "owner"}
Decided(x) ==
  /\ x.at \in {"put", "pend", "abandon"} => x.file \in Files /\ row[x.file] # "none"
  /\ x.at = "put" /\ x.kind = "inline" => Free(x.file)
  /\ x.at = "pend" => Free(x.file)
  /\ x.at = "abandon" => Doomed(x.file)
  /\ x.at \in {"owned", "count", "owner"} =>
       x.list \subseteq Files /\ \A f \in x.list : row[f] # "none"
  /\ x.at \in Collecting \cup {"delete", "soft"} =>
       x.todo \subseteq Files /\ \A f \in x.todo : row[f] # "none"
  /\ x.at \in Collecting \cup {"delete"} => x.note \in Notes /\ \A f \in x.todo : OnlyOf(x.note, f)
  /\ x.at = "owner" => x.file \in Files /\ row[x.file] # "none" /\ OnlyOf(x.note, x.file)
  /\ x.at = "soft" => \A f \in x.todo : Doomed(f)
  /\ x.at \in {"idle", "insert", "put"} => x.kind \in Kinds
AllDecided == \A a \in Actors : Decided(act[a])

Inv == Shapes /\ RefsInserted /\ PendingFree /\ AllDecided /\ AttachmentLives
-----------------------------------------------------------------------------
LEMMA IdleFacts ==
  /\ DOMAIN Idle = Fields /\ Idle.at = "idle"
  /\ Fields = {"at", "note", "kind", "file", "body", "list", "todo"}
  /\ Idle.kind \in Kinds /\ Idle.todo = {} /\ Decided(Idle)
BY DEF Fields, Idle, Decided, Kinds, Collecting

LEMMA InitInv == Init => Inv
<1> SUFFICES ASSUME Init PROVE Inv
  OBVIOUS
<1>1. PICK home \in [Files -> notes \cup {None}] :
        /\ row = [f \in Files |-> IF home[f] = None THEN "none" ELSE "live"]
        /\ known = {f \in Files : home[f] # None}
        /\ body \in [Notes -> SUBSET known]
        /\ refs = {<<home[f], f, "attachment">> : f \in known}
                   \cup UNION {{n} \X body[n] \X {"inline"} : n \in Notes}
  BY DEF Init
<1>2. ASSUME NEW r \in refs PROVE r \in Notes \X Files \X Kinds /\ row[r[2]] = "live"
  <2>1. CASE r \in {<<home[f], f, "attachment">> : f \in known}
    <3>1. PICK f \in known : r = <<home[f], f, "attachment">>
      BY <2>1
    <3>2. f \in Files /\ home[f] \in Notes /\ row[f] = "live"
      BY <1>1, <3>1 DEF notes
    <3>3. QED
      BY <3>1, <3>2 DEF Kinds
  <2>2. CASE r \in UNION {{n} \X body[n] \X {"inline"} : n \in Notes}
    <3>1. PICK n \in Notes : \E f \in body[n] : r = <<n, f, "inline">>
      BY <2>2
    <3>2. PICK f \in body[n] : r = <<n, f, "inline">>
      BY <3>1
    <3>3. f \in Files /\ row[f] = "live"
      BY <1>1, <3>2
    <3>4. QED
      BY <3>2, <3>3 DEF Kinds
  <2>3. QED
    BY <1>1, <2>1, <2>2
<1>3. \A f \in Files : pending[f] = None
  BY DEF Init
<1>4. Shapes
  <2>1. /\ row \in [Files -> {"none", "live", "deleted", "gone"}]
        /\ refs \subseteq Notes \X Files \X Kinds
    BY <1>1, <1>2
  <2>2. QED
    BY <2>1, IdleFacts DEF Init, Shapes
<1>5. AllDecided
  BY IdleFacts DEF Init, AllDecided
<1>6. RefsInserted /\ PendingFree /\ AttachmentLives
  BY <1>2, <1>3 DEF RefsInserted, PendingFree, AttachmentLives, Init
<1>7. QED
  BY <1>4, <1>5, <1>6 DEF Inv

\* What every step does to rows and references: a row stays inserted, an
\* attachment comes with its row, what is deleted is no attachment, and what
\* becomes pending is none either.
Effect ==
  /\ row' \in [Files -> {"none", "live", "deleted", "gone"}]
  /\ pending' \in [Files -> Notes \cup {None}]
  /\ refs' \subseteq Notes \X Files \X Kinds
  /\ DOMAIN note' = Notes
  /\ RefsInserted'
  /\ \A f \in Files : row[f] # "none" => row'[f] # "none"
  /\ \A n \in Notes, f \in Files :
        Attached(n, f)' => Attached(n, f) \/ (row[f] = "none" /\ row'[f] = "live")
  /\ \A f \in Files : row[f] = "live" /\ row'[f] # "live" => Doomed(f)'
  /\ astray \subseteq astray'
  /\ \A f \in Files : pending'[f] # None => pending[f] # None \/ (row[f] # "none" /\ Free(f))

\* Actor a goes on with record x.
Moves(a) == \E x : act' = [act EXCEPT ![a] = x] /\ Decided(x)' /\ DOMAIN x = Fields

LEMMA Quiet ==
  ASSUME Inv, UNCHANGED <<row, pending, refs, note>>, astray \subseteq astray'
  PROVE  Effect
BY DEF Inv, Shapes, RefsInserted, Effect, Attached, Free

LEMMA StaysDecided ==
  ASSUME Effect, NEW x, Decided(x)
  PROVE  Decided(x)'
<1>1. \A f \in Files : row[f] # "none" =>
        (Free(f) => Free(f)') /\ (Doomed(f) => Doomed(f)')
  BY DEF Effect, Free, Doomed
<1>2. \A f \in Files, n \in Notes : row[f] # "none" /\ OnlyOf(n, f) => OnlyOf(n, f)'
  BY DEF Effect, OnlyOf
<1>3. \A f \in Files : row[f] # "none" => row'[f] # "none"
  BY DEF Effect
<1>4. QED
  BY <1>1, <1>2, <1>3 DEF Decided, Collecting

LEMMA FilesKept ==
  ASSUME Inv, Effect
  PROVE  PendingFree' /\ AttachmentLives'
<1>1. PendingFree'
  BY DEF Inv, PendingFree, Effect, Free
<1>2. ASSUME NEW r \in refs', r[3] = "attachment"
      PROVE  row'[r[2]] = "live" \/ r[2] \in astray'
  <2>1. PICK n \in Notes, f \in Files, k \in Kinds : r = <<n, f, k>>
    BY DEF Effect
  <2>2. Attached(n, f)'
    BY <1>2, <2>1 DEF Attached
  <2>3. ~Free(f)'
    BY <2>2 DEF Free
  <2>4. Attached(n, f) => row[f] = "live" \/ f \in astray
    BY DEF Inv, AttachmentLives, Attached
  <2>5. QED
    BY <2>1, <2>2, <2>3, <2>4 DEF Effect, Doomed
<1>3. QED
  BY <1>1, <1>2 DEF AttachmentLives

\* The step of an actor; the others stay where they are.
LEMMA OneMoved ==
  ASSUME Inv, Effect, NEW a \in Actors, Moves(a)
  PROVE  Inv'
<1>1. PICK x : act' = [act EXCEPT ![a] = x] /\ Decided(x)' /\ DOMAIN x = Fields
  BY DEF Moves
<1>2. act'[a] = x /\ \A b \in Actors \ {a} : act'[b] = act[b]
  BY <1>1 DEF Inv, Shapes
<1>3. ASSUME NEW b \in Actors PROVE Decided(act[b])'
  <2>1. PICK y : y = act'[b]
    OBVIOUS
  <2>2. CASE b = a
    BY <1>1, <1>2, <2>2 DEF Decided, Collecting
  <2>3. CASE b # a
    <3>1. Decided(y)
      BY <1>2, <2>1, <2>3 DEF Inv, AllDecided
    <3>2. Decided(y)'
      BY <3>1, StaysDecided
    <3>3. QED
      BY <2>1, <3>2 DEF Decided, Collecting
  <2>4. QED
    BY <2>2, <2>3
<1>4. Shapes'
  BY <1>1, <1>2 DEF Inv, Shapes, Effect
<1>5. QED
  BY <1>3, <1>4, FilesKept DEF Inv, AllDecided, Effect

LEMMA NoneMoved ==
  ASSUME Inv, Effect, act' = act
  PROVE  Inv'
<1>1. ASSUME NEW b \in Actors PROVE Decided(act[b])'
  <2>1. PICK y : y = act[b]
    OBVIOUS
  <2>2. Decided(y)'
    BY <2>1, StaysDecided DEF Inv, AllDecided
  <2>3. QED
    BY <2>1, <2>2 DEF Decided, Collecting
<1>2. Shapes'
  BY DEF Inv, Shapes, Effect
<1>3. QED
  BY <1>1, <1>2, FilesKept DEF Inv, AllDecided, Effect

LEMMA IdleMoves ==
  ASSUME NEW a, act' = [act EXCEPT ![a] = Idle]
  PROVE  Moves(a)
<1>1. PICK x : x = Idle
  OBVIOUS
<1>2. x.at = "idle" /\ x.kind \in Kinds /\ DOMAIN x = Fields
  BY <1>1, IdleFacts
<1>3. Decided(x)'
  BY <1>2 DEF Decided, Collecting
<1>4. QED
  BY <1>1, <1>2, <1>3 DEF Moves

\* A step forward leaves the rest of the record as it is.
LEMMA GotoRecord ==
  ASSUME Inv, NEW a \in Actors, NEW step, Goto(a, step)
  PROVE  \E x : /\ act' = [act EXCEPT ![a] = x] /\ DOMAIN x = Fields /\ x.at = step
                /\ x.note = act[a].note /\ x.kind = act[a].kind /\ x.file = act[a].file
                /\ x.list = act[a].list /\ x.todo = act[a].todo
<1>1. PICK x : x = [act[a] EXCEPT !.at = step]
  OBVIOUS
<1>2. act' = [act EXCEPT ![a] = x]
  BY <1>1 DEF Goto
<1>3. DOMAIN act[a] = {"at", "note", "kind", "file", "body", "list", "todo"}
  BY IdleFacts DEF Inv, Shapes
<1>4. DOMAIN x = Fields /\ x.at = step
  BY <1>1, <1>3, IdleFacts
<1>5. /\ x.note = act[a].note /\ x.kind = act[a].kind /\ x.file = act[a].file
      /\ x.list = act[a].list /\ x.todo = act[a].todo
  BY <1>1, <1>3
<1>6. QED
  BY <1>2, <1>4, <1>5

LEMMA FinishedMoves ==
  ASSUME Inv, NEW a \in Actors, Finished(a)
  PROVE  Moves(a)
<1>1. CASE act' = [act EXCEPT ![a] = Idle]
  BY <1>1, IdleMoves
<1>2. CASE Goto(a, "ended")
  <2>1. PICK x : act' = [act EXCEPT ![a] = x] /\ DOMAIN x = Fields /\ x.at = "ended"
    BY <1>2, GotoRecord
  <2>2. Decided(x)'
    BY <2>1 DEF Decided, Collecting
  <2>3. QED
    BY <2>1, <2>2 DEF Moves
<1>3. QED
  BY <1>1, <1>2 DEF Finished

\* A step to a point where nothing is decided.
LEMMA PlainMoves ==
  ASSUME Inv, NEW a \in Actors, NEW step, Goto(a, step),
         step \in {"resolve", "commit", "reconcile", "record", "load", "persist", "ended"}
  PROVE  Moves(a)
<1>1. PICK x : act' = [act EXCEPT ![a] = x] /\ DOMAIN x = Fields /\ x.at = step
  BY GotoRecord
<1>2. Decided(x)'
  BY <1>1 DEF Decided, Collecting
<1>3. QED
  BY <1>1, <1>2 DEF Moves

\* Few references: a file that has one of note n, and not two, has only that.
LEMMA OneRef ==
  ASSUME Shapes, NEW n \in Notes, NEW f \in Files, NEW k \in Kinds, <<n, f, k>> \in refs,
         Cardinality(RefsOf(f)) <= 1
  PROVE  RefsOf(f) = {<<n, f, k>>}
<1> DEFINE pairs == Notes \X Kinds
           at == [p \in pairs |-> <<p[1], f, p[2]>>]
           T == {at[p] : p \in pairs}
<1>1. IsFiniteSet(Kinds)
  <2>1. IsFiniteSet({"attachment"})
    BY FS_Singleton
  <2>2. Kinds = {"attachment"} \cup {"inline"}
    BY DEF Kinds
  <2>3. QED
    BY <2>1, <2>2, FS_AddElement
<1>2. IsFiniteSet(pairs)
  BY <1>1, FS_Product, ConstantsAssumption
<1>3. IsFiniteSet(T)
  <2>1. at \in Surjection(pairs, T)
    BY DEF Surjection
  <2>2. QED
    BY <1>2, <2>1, FS_Surjection
<1>4. RefsOf(f) \subseteq T
  <2> SUFFICES ASSUME NEW r \in RefsOf(f) PROVE r \in T
    OBVIOUS
  <2>1. r \in Notes \X Files \X Kinds /\ r[2] = f
    BY DEF RefsOf, Shapes
  <2>2. PICK m \in Notes, g \in Files, j \in Kinds : r = <<m, g, j>>
    BY <2>1
  <2>3. <<m, j>> \in pairs /\ at[<<m, j>>] = r
    BY <2>1, <2>2
  <2>4. QED
    BY <2>3
<1>5. IsFiniteSet(RefsOf(f)) /\ Cardinality(RefsOf(f)) \in Nat
  BY <1>3, <1>4, FS_Subset, FS_CardinalityType
<1>6. <<n, f, k>> \in RefsOf(f)
  BY DEF RefsOf
<1>7. Cardinality(RefsOf(f)) = 1
  BY <1>5, <1>6, FS_EmptySet
<1>8. QED
  BY <1>5, <1>6, <1>7, FS_Singleton
-----------------------------------------------------------------------------
(* Saving.                                                                     *)

LEMMA SaveInv ==
  ASSUME Inv, NEW h \in Handlers, NEW n \in Notes, NEW b,
         CreateNote(h, n, b) \/ UpdateNote(h, n, b)
  PROVE  Inv'
<1>1. Effect
  <2>1. UNCHANGED <<row, pending, refs, astray>> /\ DOMAIN note' = Notes
    BY DEF CreateNote, UpdateNote, Inv, Shapes
  <2>2. QED
    BY <2>1 DEF Inv, Shapes, RefsInserted, Effect, Attached, Free
<1>2. Moves(h)
  <2>1. PICK x : /\ act' = [act EXCEPT ![h] = x]
                 /\ \E at \in {"idle", "reconcile", "resolve"} :
                        x = [Idle EXCEPT !.at = at, !.note = n, !.body = b]
    BY DEF CreateNote, UpdateNote, Request
  <2>2. DOMAIN x = Fields /\ x.at \in {"idle", "reconcile", "resolve"} /\ x.kind \in Kinds
    BY <2>1, IdleFacts
  <2>3. Decided(x)'
    BY <2>2 DEF Decided, Collecting
  <2>4. QED
    BY <2>1, <2>2, <2>3 DEF Moves
<1>3. QED
  BY <1>1, <1>2, OneMoved DEF Actors

LEMMA ResolveInv ==
  ASSUME Inv, NEW h \in Handlers, ResolveBody(h) \/ CommitUpdate(h)
  PROVE  Inv'
<1>1. Effect
  BY Quiet DEF ResolveBody, CommitUpdate
<1>2. h \in Actors
  BY DEF Actors
<1>3. CASE ResolveBody(h)
  <2>1. PICK b : act' = [act EXCEPT ![h].at = "commit", ![h].body = b]
    BY <1>3 DEF ResolveBody
  <2>2. PICK x : /\ act' = [act EXCEPT ![h] = x]
                 /\ x = [act[h] EXCEPT !.at = "commit", !.body = b]
    BY <2>1
  <2>3. DOMAIN x = Fields /\ x.at = "commit"
    BY <1>2, <2>2, IdleFacts DEF Inv, Shapes
  <2>4. Decided(x)'
    BY <2>3 DEF Decided, Collecting
  <2>5. QED
    BY <1>1, <1>2, <2>2, <2>3, <2>4, OneMoved DEF Moves
<1>4. CASE CommitUpdate(h)
  BY <1>1, <1>2, <1>4, OneMoved, PlainMoves, FinishedMoves DEF CommitUpdate
<1>5. QED
  BY <1>3, <1>4

\* An orphan was pending, so it is no attachment; links are inline references.
LEMMA ReconcileInv ==
  ASSUME Inv, NEW a \in Actors, Reconcile(a)
  PROVE  Inv'
<1>1. Effect
  <2>1. CASE UNCHANGED <<refs, pending, row>>
    BY <2>1, Quiet DEF Reconcile
  <2>2. CASE ~UNCHANGED <<refs, pending, row>>
    <3>1. PICK n, links, orphans :
             n = act[a].note /\ links = act[a].body \cap Files /\ orphans = PendingOf(n) \ links
      OBVIOUS
    <3>2. /\ n \in Notes /\ links \subseteq Files
          /\ refs' = {r \in refs : r[1] # n \/ r[3] # "inline"}
                      \cup {<<n, f, "inline">> : f \in links}
          /\ \E cleared : pending' = [f \in Files |-> IF f \in cleared THEN None ELSE pending[f]]
          /\ row' = [f \in Files |-> IF f \in orphans THEN "deleted" ELSE row[f]]
          /\ note' = note /\ astray' = astray
          /\ \A f \in links : row[f] # "none"
      <4>1. n \in notes /\ \A f \in links : Exists(f)
        BY <2>2, <3>1 DEF Reconcile
      <4>2. /\ refs' = {r \in refs : r[1] # n \/ r[3] # "inline"}
                        \cup {<<n, f, "inline">> : f \in links}
            /\ row' = [f \in Files |-> IF f \in orphans THEN "deleted" ELSE row[f]]
            /\ note' = note /\ astray' = astray
        BY <3>1, <4>1 DEF Reconcile
      <4>3. \E cleared : pending' = [f \in Files |-> IF f \in cleared THEN None ELSE pending[f]]
        BY <3>1, <4>1, Zenon DEF Reconcile
      <4>4. QED
        BY <3>1, <4>1, <4>2, <4>3 DEF notes, Exists
    <3>3. refs' \subseteq Notes \X Files \X Kinds
      BY <3>1, <3>2 DEF Inv, Shapes, Kinds
    <3>4. /\ row' \in [Files -> {"none", "live", "deleted", "gone"}]
          /\ pending' \in [Files -> Notes \cup {None}]
          /\ DOMAIN note' = Notes
      BY <3>1, <3>2 DEF Inv, Shapes
    <3>5. \A m \in Notes, f \in Files : Attached(m, f)' => Attached(m, f)
      BY <3>1, <3>2 DEF Attached
    <3>6. \A f \in Files : row[f] # "none" => row'[f] # "none"
      BY <3>1, <3>2
    <3>7. \A f \in Files : row[f] = "live" /\ row'[f] # "live" => Free(f)
      <4> SUFFICES ASSUME NEW f \in Files, row[f] = "live", row'[f] # "live" PROVE Free(f)
        OBVIOUS
      <4>1. f \in PendingOf(n)
        BY <3>1, <3>2
      <4>2. pending[f] # None
        BY <3>1, <3>2, <4>1, ConstantsAssumption DEF PendingOf
      <4>3. QED
        BY <4>2 DEF Inv, PendingFree
    <3>8. \A f \in Files : pending'[f] # None => pending[f] # None
      BY <3>1, <3>2
    <3>9. RefsInserted'
      BY <3>2, <3>3, <3>6 DEF Inv, RefsInserted
    <3>10. QED
      BY <3>3, <3>4, <3>5, <3>6, <3>7, <3>8, <3>9, <3>2 DEF Effect, Free, Doomed
  <2>3. QED
    BY <2>1, <2>2
<1>2. QED
  BY <1>1, OneMoved, FinishedMoves DEF Reconcile
-----------------------------------------------------------------------------
(* Deleting.                                                                   *)

LEMMA DeleteNoteInv ==
  ASSUME Inv, NEW h \in Handlers, NEW n \in Notes, DeleteNote(h, n)
  PROVE  Inv'
<1>1. Effect
  BY Quiet DEF DeleteNote
<1>2. PICK x : x = [Idle EXCEPT !.at = "refs", !.note = n]
  OBVIOUS
<1>3. DOMAIN x = Fields /\ x.at = "refs" /\ x.note = n /\ x.todo = {}
  BY <1>2, IdleFacts
<1>4. Decided(x)'
  BY <1>3 DEF Decided, Collecting
<1>5. act' = [act EXCEPT ![h] = x]
  BY <1>2 DEF DeleteNote, Request
<1>6. QED
  BY <1>1, <1>3, <1>4, <1>5, OneMoved DEF Moves, Actors

\* The lists of a deletion, and its way on when a query fails.
LEMMA ListInv ==
  ASSUME Inv, NEW h \in Handlers, ListRefs(h) \/ ListPending(h) \/ CollectFails(h)
  PROVE  Inv'
<1>1. Effect
  BY Quiet DEF ListRefs, ListPending, CollectFails
<1>2. h \in Actors
  BY DEF Actors
<1>3. act[h].at \in Collecting /\ DOMAIN act[h] = Fields
  BY <1>2 DEF ListRefs, ListPending, CollectFails, Collecting, Inv, Shapes
<1>4. PICK x : /\ act' = [act EXCEPT ![h] = x] /\ DOMAIN x = Fields /\ x.note = act[h].note
               /\ \/ /\ x.at \in {"owned", "count"} /\ x.todo = act[h].todo
                     /\ x.list \subseteq Files /\ \A f \in x.list : row[f] # "none"
                  \/ x.at = "delete" /\ x.todo = {}
  <2>1. CASE ListRefs(h)
    <3>1. PICK l : l = {f \in Files : \E k \in Kinds : <<act[h].note, f, k>> \in refs}
      OBVIOUS
    <3>2. PICK x : x = [act[h] EXCEPT !.at = "owned", !.list = l]
      OBVIOUS
    <3>3. act' = [act EXCEPT ![h] = x]
      BY <2>1, <3>1, <3>2 DEF ListRefs
    <3>4. /\ DOMAIN x = Fields /\ x.at = "owned" /\ x.list = l
          /\ x.note = act[h].note /\ x.todo = act[h].todo
      BY <1>3, <3>2, IdleFacts
    <3>5. l \subseteq Files /\ \A f \in l : row[f] # "none"
      BY <3>1 DEF Inv, RefsInserted
    <3>6. QED
      BY <3>3, <3>4, <3>5
  <2>2. CASE ListPending(h)
    <3>1. PICK owned \in Partly(PendingOf(act[h].note)) :
            act' = [act EXCEPT ![h].at = "count", ![h].list = @ \cup owned]
      BY <2>2 DEF ListPending
    <3>2. PICK x : x = [act[h] EXCEPT !.at = "count", !.list = act[h].list \cup owned]
      OBVIOUS
    <3>3. act' = [act EXCEPT ![h] = x]
      BY <3>1, <3>2
    <3>4. /\ DOMAIN x = Fields /\ x.at = "count" /\ x.list = act[h].list \cup owned
          /\ x.note = act[h].note /\ x.todo = act[h].todo
      BY <1>3, <3>2, IdleFacts
    <3>5. owned \subseteq Files /\ \A f \in owned : row[f] # "none"
      BY DEF Partly, PendingOf
    <3>6. act[h].list \subseteq Files /\ \A f \in act[h].list : row[f] # "none"
      BY <1>2, <2>2 DEF ListPending, Inv, AllDecided, Decided, Collecting
    <3>7. QED
      BY <3>3, <3>4, <3>5, <3>6
  <2>3. CASE CollectFails(h)
    <3>1. PICK x : x = [act[h] EXCEPT !.at = "delete", !.list = {}, !.todo = {}]
      OBVIOUS
    <3>2. act' = [act EXCEPT ![h] = x]
      BY <2>3, <3>1 DEF CollectFails
    <3>3. DOMAIN x = Fields /\ x.at = "delete" /\ x.note = act[h].note /\ x.todo = {}
      BY <1>3, <3>1, IdleFacts
    <3>4. QED
      BY <3>2, <3>3
  <2>4. QED
    BY <2>1, <2>2, <2>3
<1>5. Decided(x)
  BY <1>2, <1>3, <1>4 DEF Inv, AllDecided, Decided, Collecting
<1>6. QED
  BY <1>1, <1>2, <1>4, <1>5, StaysDecided, OneMoved DEF Moves

\* A file with one reference is attached to the note that goes, or to no note, or
\* the note's own reference is gone and the file goes astray.
LEMMA CountInv ==
  ASSUME Inv, NEW h \in Handlers, CountRefs(h)
  PROVE  Inv'
<1>1. Effect
  <2>1. astray \subseteq astray'
    BY DEF CountRefs
  <2>2. QED
    BY <2>1, Quiet DEF CountRefs
<1>2. h \in Actors
  BY DEF Actors
<1>3. PICK n : n = act[h].note
  OBVIOUS
<1>4. /\ n \in Notes /\ DOMAIN act[h] = Fields /\ act[h].at = "count"
      /\ act[h].list \subseteq Files /\ \A f \in act[h].list : row[f] # "none"
      /\ act[h].todo \subseteq Files /\ \A f \in act[h].todo : row[f] # "none" /\ OnlyOf(n, f)
  BY <1>2, <1>3 DEF CountRefs, Inv, Shapes, AllDecided, Decided, Collecting
<1>5. CASE act[h].list = {}
  <2>1. PICK x : /\ act' = [act EXCEPT ![h] = x] /\ DOMAIN x = Fields /\ x.at = "delete"
                 /\ x.note = n /\ x.todo = act[h].todo
    BY <1>2, <1>3, <1>5, GotoRecord DEF CountRefs
  <2>2. Decided(x)
    BY <1>4, <2>1 DEF Decided, Collecting
  <2>3. QED
    BY <1>1, <1>2, <2>1, <2>2, StaysDecided, OneMoved DEF Moves
<1>6. CASE act[h].list # {}
  <2>1. PICK f \in act[h].list :
           /\ act' = [act EXCEPT ![h].at = IF Few(f) THEN "owner" ELSE "count",
                                 ![h].file = f, ![h].list = @ \ {f}]
           /\ astray' = IF Few(f) /\ RefsOf(f) # {} /\ \A r \in RefsOf(f) : r[1] # n
                        THEN astray \cup {f} ELSE astray
    BY <1>3, <1>6 DEF CountRefs
  <2>2. UNCHANGED refs
    BY DEF CountRefs
  <2>3. PICK x : x = [act[h] EXCEPT !.at = IF Few(f) THEN "owner" ELSE "count",
                                    !.file = f, !.list = act[h].list \ {f}]
    OBVIOUS
  <2>4. act' = [act EXCEPT ![h] = x]
    BY <2>1, <2>3
  <2>5. /\ DOMAIN x = Fields /\ x.at = IF Few(f) THEN "owner" ELSE "count"
        /\ x.file = f /\ x.list \subseteq act[h].list
        /\ x.note = n /\ x.todo = act[h].todo
    BY <1>3, <1>4, <2>3, IdleFacts
  <2>6. ASSUME Few(f), f \notin astray', NEW m \in Notes, Attached(m, f) PROVE m = n
    <3>1. <<m, f, "attachment">> \in RefsOf(f)
      BY <2>6 DEF Attached, RefsOf
    <3>2. PICK r \in RefsOf(f) : r[1] = n
      BY <2>1, <2>6, <3>1
    <3>3. PICK k \in Kinds : r = <<n, f, k>>
      BY <3>2 DEF RefsOf, Inv, Shapes
    <3>4. RefsOf(f) = {<<n, f, k>>}
      BY <1>4, <2>6, <3>2, <3>3, OneRef DEF Few, RefsOf, Inv
    <3>5. QED
      BY <3>1, <3>4
  <2>7. Few(f) => OnlyOf(n, f)'
    BY <2>2, <2>6 DEF OnlyOf, Attached
  <2>8. f \in Files /\ row'[f] # "none"
    BY <1>4, <2>1 DEF CountRefs
  <2>9. /\ \A g \in act[h].todo : row'[g] # "none" /\ OnlyOf(n, g)'
        /\ \A g \in act[h].list : row'[g] # "none"
    BY <1>1, <1>4, <2>2 DEF CountRefs, OnlyOf, Attached, Effect
  <2>10. CASE Few(f)
    <3>1. x.at = "owner"
      BY <2>5, <2>10
    <3>2. QED
      <4>1. Decided(x)'
        BY <1>4, <2>5, <2>7, <2>8, <2>9, <2>10, <3>1 DEF Decided, Collecting
      <4>2. QED
        BY <1>1, <1>2, <2>4, <2>5, <4>1, OneMoved DEF Moves
  <2>11. CASE ~Few(f)
    <3>1. x.at = "count"
      BY <2>5, <2>11
    <3>2. Decided(x)'
      BY <1>4, <2>5, <2>9, <3>1 DEF Decided, Collecting
    <3>3. QED
      BY <1>1, <1>2, <2>4, <2>5, <3>2, OneMoved DEF Moves
  <2>12. QED
    BY <2>10, <2>11
<1>7. QED
  BY <1>5, <1>6

LEMMA OwnerInv ==
  ASSUME Inv, NEW h \in Handlers, CheckOwner(h)
  PROVE  Inv'
<1>1. Effect
  BY Quiet DEF CheckOwner
<1>2. h \in Actors
  BY DEF Actors
<1>3. /\ DOMAIN act[h] = Fields /\ act[h].at = "owner" /\ Decided(act[h])
  BY <1>2 DEF CheckOwner, Inv, Shapes, AllDecided
<1>4. PICK t : /\ t \in {act[h].todo, act[h].todo \cup {act[h].file}}
               /\ act' = [act EXCEPT ![h].at = "count", ![h].file = None, ![h].todo = t]
  BY DEF CheckOwner
<1>5. PICK x : x = [act[h] EXCEPT !.at = "count", !.file = None, !.todo = t]
  OBVIOUS
<1>6. act' = [act EXCEPT ![h] = x]
  BY <1>4, <1>5
<1>7. /\ DOMAIN x = Fields /\ x.at = "count" /\ x.todo = t
      /\ x.list = act[h].list /\ x.note = act[h].note
  BY <1>3, <1>5, IdleFacts
<1>8. Decided(x)
  BY <1>3, <1>4, <1>7 DEF Decided, Collecting
<1>9. QED
  BY <1>1, <1>2, <1>6, <1>7, <1>8, StaysDecided, OneMoved DEF Moves

\* The note's references go with it, so what was found deletable is free from now on, or astray.
LEMMA DeleteRowInv ==
  ASSUME Inv, NEW h \in Handlers, DeleteNoteRow(h)
  PROVE  Inv'
<1>1. h \in Actors
  BY DEF Actors
<1>2. PICK n : n = act[h].note
  OBVIOUS
<1>3. CASE n \notin notes
  <2>1. Finished(h) /\ Effect
    BY <1>2, <1>3, Quiet DEF DeleteNoteRow
  <2>2. QED
    BY <1>1, <2>1, OneMoved, FinishedMoves
<1>4. CASE n \in notes
  <2>1. /\ note' = [note EXCEPT ![n] = "gone"] /\ astray' = astray
        /\ refs' = {r \in refs : r[1] # n /\ r[2] \notin Cascade(n)}
        /\ row' = [f \in Files |-> IF f \in Cascade(n) THEN "gone" ELSE row[f]]
        /\ pending' = [f \in Files |-> IF pending[f] = n THEN None ELSE pending[f]]
        /\ Goto(h, "soft") /\ act[h].at = "delete"
    BY <1>2, <1>4 DEF DeleteNoteRow
  <2>2. n \in Notes /\ n # None
    BY <1>4, ConstantsAssumption DEF notes
  <2>3. \A m \in Notes, f \in Files : Attached(m, f)' => Attached(m, f) /\ m # n
    BY <2>1 DEF Attached
  <2>4. \A f \in Files : row[f] = "live" /\ row'[f] # "live" => Free(f)
    BY <2>1, <2>2 DEF Cascade, Inv, PendingFree
  <2>5. Effect
    <3>1. /\ row' \in [Files -> {"none", "live", "deleted", "gone"}]
          /\ pending' \in [Files -> Notes \cup {None}]
          /\ refs' \subseteq Notes \X Files \X Kinds /\ DOMAIN note' = Notes
      BY <2>1 DEF Inv, Shapes
    <3>2. \A f \in Files : row[f] # "none" => row'[f] # "none"
      BY <2>1
    <3>3. RefsInserted'
      BY <2>1, <3>1, <3>2 DEF Inv, RefsInserted
    <3>4. \A f \in Files : pending'[f] # None => pending[f] # None
      BY <2>1
    <3>5. QED
      BY <2>1, <2>3, <2>4, <3>1, <3>2, <3>3, <3>4 DEF Effect, Free, Doomed
  <2>6. PICK x : /\ act' = [act EXCEPT ![h] = x] /\ DOMAIN x = Fields /\ x.at = "soft"
                 /\ x.todo = act[h].todo
    BY <1>1, <2>1, GotoRecord
  <2>7. /\ x.todo \subseteq Files /\ \A f \in x.todo : row[f] # "none"
        /\ \A f \in x.todo : OnlyOf(n, f)
    BY <1>1, <1>2, <2>1, <2>6 DEF Inv, AllDecided, Decided, Collecting
  <2>8. \A f \in x.todo : row'[f] # "none" /\ Doomed(f)'
    BY <2>1, <2>3, <2>5, <2>7 DEF Effect, Free, OnlyOf, Doomed
  <2>9. Decided(x)'
    BY <2>6, <2>7, <2>8 DEF Decided, Collecting
  <2>10. QED
    BY <1>1, <2>5, <2>6, <2>9, OneMoved DEF Moves
<1>5. QED
  BY <1>3, <1>4

\* A row that is no attachment, or astray, is deleted.
LEMMA DoomedDeleted ==
  ASSUME Inv, NEW f \in Files, Doomed(f), row[f] # "none", NEW s \in {"deleted", "gone"},
         row' = [row EXCEPT ![f] = s] \/ row' = row,
         UNCHANGED <<pending, refs, note, astray>>
  PROVE  Effect
BY DEF Inv, Shapes, RefsInserted, Effect, Attached, Free, Doomed

LEMMA SoftDeleteInv ==
  ASSUME Inv, NEW a \in Actors, SoftDelete(a)
  PROVE  Inv'
<1>1. CASE act[a].todo = {}
  BY <1>1, OneMoved, FinishedMoves, Quiet DEF SoftDelete
<1>2. CASE act[a].todo # {}
  <2>1. PICK f \in act[a].todo :
           /\ row' = [row EXCEPT ![f] = IF Exists(f) THEN "deleted" ELSE row[f]]
           /\ act' = [act EXCEPT ![a].todo = @ \ {f}]
           /\ act[a].at = "soft" /\ UNCHANGED <<pending, refs, note, astray>>
    BY <1>2 DEF SoftDelete
  <2>2. f \in Files /\ row[f] # "none" /\ Doomed(f)
    BY <2>1 DEF Inv, AllDecided, Decided, Collecting
  <2>3. Effect
    <3>1. row' = [row EXCEPT ![f] = "deleted"] \/ row' = row
      BY <2>1, <2>2 DEF Inv, Shapes
    <3>2. QED
      BY <2>1, <2>2, <3>1, DoomedDeleted
  <2>4. PICK x : x = [act[a] EXCEPT !.todo = act[a].todo \ {f}]
    OBVIOUS
  <2>5. act' = [act EXCEPT ![a] = x]
    BY <2>1, <2>4
  <2>6. DOMAIN act[a] = {"at", "note", "kind", "file", "body", "list", "todo"}
    BY IdleFacts DEF Inv, Shapes
  <2>7. DOMAIN x = Fields /\ x.at = "soft" /\ x.todo \subseteq act[a].todo
    BY <2>1, <2>4, <2>6, IdleFacts
  <2>8. Decided(x)
    BY <2>1, <2>7 DEF Inv, AllDecided, Decided, Collecting
  <2>9. Decided(x)'
    BY <2>3, <2>8, StaysDecided
  <2>10. QED
    BY <2>3, <2>5, <2>7, <2>9, OneMoved DEF Moves
<1>3. QED
  BY <1>1, <1>2

\* An attachment is deleted when the note has the only references.
LEMMA RemoveInv ==
  ASSUME Inv, NEW h \in Handlers, NEW n \in Notes, NEW f \in Files, RemoveAttachment(h, n, f)
  PROVE  Inv'
<1>1. h \in Actors
  BY DEF Actors
<1>2. /\ refs' = {r \in refs : r[1] # n \/ r[2] # f}
      /\ row' = [row EXCEPT ![f] = IF Exists(f) /\ RefsOf(f) \subseteq ({n} \X {f} \X Kinds)
                                   THEN "deleted" ELSE row[f]]
      /\ UNCHANGED <<note, pending, astray>> /\ act' = [act EXCEPT ![h] = Idle]
  BY DEF RemoveAttachment, Request
<1>3. \A m \in Notes, g \in Files :
         Attached(m, g)' => Attached(m, g) /\ (m # n \/ g # f)
  BY <1>2 DEF Attached
<1>4. \A g \in Files : row[g] # "none" => row'[g] # "none"
  BY <1>2 DEF Inv, Shapes
<1>5. ASSUME NEW g \in Files, row[g] = "live", row'[g] # "live", NEW m \in Notes, Attached(m, g)'
      PROVE  FALSE
  <2>1. g = f /\ RefsOf(f) \subseteq ({n} \X {f} \X Kinds)
    BY <1>2, <1>5 DEF Inv, Shapes
  <2>2. <<m, f, "attachment">> \in RefsOf(f) /\ m # n
    BY <1>3, <1>5, <2>1 DEF Attached, RefsOf
  <2>3. QED
    BY <2>1, <2>2
<1>6. Effect
  <2>1. /\ row' \in [Files -> {"none", "live", "deleted", "gone"}]
        /\ pending' \in [Files -> Notes \cup {None}]
        /\ refs' \subseteq Notes \X Files \X Kinds /\ DOMAIN note' = Notes
    BY <1>2 DEF Inv, Shapes
  <2>2. RefsInserted'
    BY <1>2, <1>4, <2>1 DEF Inv, RefsInserted
  <2>3. QED
    BY <1>2, <1>3, <1>4, <1>5, <2>1, <2>2 DEF Effect, Free, Doomed
<1>7. QED
  BY <1>1, <1>2, <1>6, OneMoved, IdleMoves
-----------------------------------------------------------------------------
(* Creating.                                                                   *)

LEMMA UploadInv ==
  ASSUME Inv, NEW n \in Notes,
         \/ \E h \in Handlers, k \in Kinds : Upload(h, n, k)
         \/ \E u \in Uploads : FinalizeUpload(u, n)
  PROVE  Inv'
<1>1. Effect
  BY Quiet DEF Upload, FinalizeUpload
<1>2. ASSUME NEW h \in Handlers, NEW k \in Kinds, Upload(h, n, k) PROVE Moves(h)
  <2>1. PICK x : x = [Idle EXCEPT !.at = "insert", !.note = n, !.kind = k]
    OBVIOUS
  <2>2. act' = [act EXCEPT ![h] = x]
    BY <1>2, <2>1 DEF Upload, Request
  <2>3. DOMAIN x = Fields /\ x.at = "insert" /\ x.kind = k
    BY <2>1, IdleFacts
  <2>4. Decided(x)'
    BY <2>3 DEF Decided, Collecting
  <2>5. QED
    BY <2>2, <2>3, <2>4 DEF Moves
<1>3. ASSUME NEW u \in Uploads, FinalizeUpload(u, n) PROVE Moves(u)
  <2>1. PICK x : x = [act[u] EXCEPT !.at = "insert", !.note = n]
    OBVIOUS
  <2>2. act' = [act EXCEPT ![u] = x] /\ act[u].at = "idle"
    BY <1>3, <2>1 DEF FinalizeUpload
  <2>3. DOMAIN act[u] = {"at", "note", "kind", "file", "body", "list", "todo"}
    BY IdleFacts DEF Inv, Shapes, Actors
  <2>4. DOMAIN x = Fields /\ x.at = "insert" /\ x.kind = act[u].kind
    BY <2>1, <2>3, IdleFacts
  <2>5. x.kind \in Kinds
    BY <2>2, <2>4 DEF Inv, AllDecided, Decided, Collecting, Actors
  <2>6. Decided(x)'
    BY <2>4, <2>5 DEF Decided, Collecting
  <2>7. QED
    BY <2>2, <2>4, <2>6 DEF Moves
<1>4. QED
  BY <1>1, <1>2, <1>3, OneMoved DEF Actors

\* The row is new: nothing referred to it, and it is attached here or never.
LEMMA InsertInv ==
  ASSUME Inv, NEW a \in Actors, InsertFile(a)
  PROVE  Inv'
<1>1. CASE act[a].note \notin notes
  BY <1>1, OneMoved, FinishedMoves, Quiet DEF InsertFile
<1>2. CASE act[a].note \in notes
  <2>1. PICK n : n = act[a].note
    OBVIOUS
  <2>2. PICK f \in Files :
           /\ row[f] = "none" /\ row' = [row EXCEPT ![f] = "live"]
           /\ refs' = IF act[a].kind = "attachment" THEN refs \cup {<<n, f, "attachment">>} ELSE refs
           /\ act' = [act EXCEPT ![a].at = "put", ![a].file = f]
           /\ UNCHANGED <<note, pending, astray>> /\ act[a].at = "insert"
    BY <1>2, <2>1 DEF InsertFile
  <2>3. n \in Notes
    BY <1>2, <2>1 DEF notes
  <2>4. \A m \in Notes : ~Attached(m, f)
    BY <2>2 DEF Attached, Inv, RefsInserted
  <2>5. \A m \in Notes, g \in Files : Attached(m, g)' => Attached(m, g) \/ g = f
    BY <2>2 DEF Attached
  <2>6. row'[f] = "live" /\ \A g \in Files \ {f} : row'[g] = row[g]
    BY <2>2 DEF Inv, Shapes
  <2>7. Effect
    <3>1. refs' \subseteq Notes \X Files \X Kinds
      BY <2>2, <2>3 DEF Inv, Shapes, Kinds
    <3>2. /\ row' \in [Files -> {"none", "live", "deleted", "gone"}]
          /\ pending' \in [Files -> Notes \cup {None}] /\ DOMAIN note' = Notes
      BY <2>2 DEF Inv, Shapes
    <3>3. \A g \in Files : row[g] # "none" => row'[g] # "none"
      BY <2>6
    <3>4. RefsInserted'
      <4> SUFFICES ASSUME NEW r \in refs' PROVE row'[r[2]] # "none"
        BY DEF RefsInserted
      <4>1. CASE r \in refs
        BY <3>1, <3>3, <4>1 DEF Inv, Shapes, RefsInserted
      <4>2. CASE r = <<n, f, "attachment">>
        BY <2>6, <4>2
      <4>3. QED
        BY <2>2, <4>1, <4>2
    <3>5. QED
      BY <2>2, <2>5, <2>6, <3>1, <3>2, <3>3, <3>4 DEF Effect
  <2>8. PICK x : x = [act[a] EXCEPT !.at = "put", !.file = f]
    OBVIOUS
  <2>9. act' = [act EXCEPT ![a] = x]
    BY <2>2, <2>8
  <2>10. DOMAIN act[a] = {"at", "note", "kind", "file", "body", "list", "todo"}
    BY IdleFacts DEF Inv, Shapes
  <2>11. DOMAIN x = Fields /\ x.at = "put" /\ x.kind = act[a].kind /\ x.file = f
    BY <2>8, <2>10, IdleFacts
  <2>12. x.kind \in Kinds
    BY <2>2, <2>11 DEF Inv, AllDecided, Decided, Collecting
  <2>13. x.kind = "inline" => Free(f)'
    BY <2>2, <2>4, <2>11 DEF Free, Attached
  <2>14. Decided(x)'
    BY <2>6, <2>11, <2>12, <2>13 DEF Decided, Collecting
  <2>15. QED
    BY <2>7, <2>9, <2>11, <2>14, OneMoved DEF Moves
<1>3. QED
  BY <1>1, <1>2

LEMMA StoredInv ==
  ASSUME Inv, NEW a \in Actors, Stored(a)
  PROVE  Inv'
<1>1. Effect
  BY Quiet DEF Stored
<1>2. CASE Finished(a)
  BY <1>1, <1>2, OneMoved, FinishedMoves
<1>3. CASE Goto(a, "pend") /\ act[a].kind # "attachment"
  <2>1. PICK x : /\ act' = [act EXCEPT ![a] = x] /\ DOMAIN x = Fields
                 /\ x.at = "pend" /\ x.file = act[a].file
    BY <1>3, GotoRecord
  <2>2. x.file \in Files /\ row[x.file] # "none" /\ Free(x.file)
    BY <1>3, <2>1 DEF Stored, Inv, AllDecided, Decided, Collecting, Kinds
  <2>3. Decided(x)
    BY <2>1, <2>2 DEF Decided, Collecting
  <2>4. QED
    BY <1>1, <2>1, <2>3, StaysDecided, OneMoved DEF Moves
<1>4. QED
  BY <1>2, <1>3 DEF Stored

\* The references go first, then the file; if they stay, it goes astray.
LEMMA StoreFailedInv ==
  ASSUME Inv, NEW a \in Actors, StoreFailed(a)
  PROVE  Inv'
<1>1. /\ UNCHANGED <<note, row, pending>> /\ Goto(a, "abandon")
      /\ \/ refs' = refs \ RefsOf(act[a].file) /\ astray' = astray
         \/ refs' = refs /\ astray' = astray \cup {act[a].file}
  BY DEF StoreFailed
<1>2. Effect
  BY <1>1 DEF Inv, Shapes, RefsInserted, Effect, Attached, Free
<1>3. PICK x : /\ act' = [act EXCEPT ![a] = x] /\ DOMAIN x = Fields
               /\ x.at = "abandon" /\ x.file = act[a].file
  BY <1>1, GotoRecord
<1>4. x.file \in Files /\ row'[x.file] # "none"
  BY <1>1, <1>3 DEF StoreFailed, Inv, AllDecided, Decided, Collecting
<1>5. Doomed(x.file)'
  BY <1>1, <1>3 DEF Doomed, Free, Attached, RefsOf
<1>6. Decided(x)'
  BY <1>3, <1>4, <1>5 DEF Decided, Collecting
<1>7. QED
  BY <1>2, <1>3, <1>6, OneMoved DEF Moves

LEMMA AbandonInv ==
  ASSUME Inv, NEW a \in Actors, Abandon(a)
  PROVE  Inv'
<1>1. PICK f : f = act[a].file
  OBVIOUS
<1>2. f \in Files /\ row[f] # "none" /\ Doomed(f)
  BY <1>1 DEF Abandon, Inv, AllDecided, Decided, Collecting
<1>3. row' = [row EXCEPT ![f] = "deleted"] \/ row' = row
  BY <1>1, <1>2 DEF Abandon, Inv, Shapes
<1>4. Effect
  BY <1>2, <1>3, DoomedDeleted DEF Abandon
<1>5. QED
  BY <1>4, OneMoved, FinishedMoves DEF Abandon

LEMMA SetPendingInv ==
  ASSUME Inv, NEW a \in Actors, SetPending(a)
  PROVE  Inv'
<1>1. Moves(a)
  BY PlainMoves, FinishedMoves DEF SetPending
<1>2. PICK n, f : n = act[a].note /\ f = act[a].file
  OBVIOUS
<1>3. f \in Files /\ row[f] # "none" /\ Free(f)
  BY <1>2 DEF SetPending, Inv, AllDecided, Decided, Collecting
<1>4. CASE n \notin notes
  BY <1>2, <1>4, Quiet, <1>1, OneMoved DEF SetPending
<1>5. CASE n \in notes
  <2>1. pending' = [pending EXCEPT ![f] = n] /\ UNCHANGED <<note, row, refs, astray>>
    BY <1>2, <1>5 DEF SetPending
  <2>2. n \in Notes
    BY <1>5 DEF notes
  <2>3. Effect
    BY <1>3, <2>1, <2>2 DEF Inv, Shapes, RefsInserted, Effect, Attached, Free
  <2>4. QED
    BY <1>1, <2>3, OneMoved
<1>6. QED
  BY <1>4, <1>5

\* A handler that gives up.
LEMMA FailInv ==
  ASSUME Inv, NEW a \in Actors, StatementFails(a)
  PROVE  Inv'
BY Quiet, FinishedMoves, OneMoved DEF StatementFails

LEMMA ResultInv ==
  ASSUME Inv, NEW u \in Uploads, UploadStep(u)
  PROVE  Inv'
<1>1. Effect
  BY Quiet DEF UploadStep, RecordResult, LoadBody, PersistBody
<1>2. u \in Actors
  BY DEF Actors
<1>3. CASE RecordResult(u)
  BY <1>1, <1>2, <1>3, PlainMoves, OneMoved DEF RecordResult
<1>4. CASE LoadBody(u)
  <2>1. CASE Finished(u)
    BY <1>1, <1>2, <2>1, FinishedMoves, OneMoved
  <2>2. CASE ~Finished(u)
    <3>1. PICK b : act' = [act EXCEPT ![u].at = "persist", ![u].body = b]
      BY <1>4, <2>2 DEF LoadBody
    <3>2. PICK x : x = [act[u] EXCEPT !.at = "persist", !.body = b] /\ act' = [act EXCEPT ![u] = x]
      BY <3>1
    <3>3. DOMAIN act[u] = {"at", "note", "kind", "file", "body", "list", "todo"}
      BY <1>2, IdleFacts DEF Inv, Shapes
    <3>4. DOMAIN x = Fields /\ x.at = "persist"
      BY <3>2, <3>3, IdleFacts
    <3>5. Decided(x)'
      BY <3>4 DEF Decided, Collecting
    <3>6. QED
      BY <1>1, <1>2, <3>2, <3>4, <3>5, OneMoved DEF Moves
  <2>3. QED
    BY <2>1, <2>2
<1>5. CASE PersistBody(u)
  BY <1>1, <1>2, <1>5, PlainMoves, FinishedMoves, OneMoved DEF PersistBody
<1>6. QED
  BY <1>3, <1>4, <1>5 DEF UploadStep
-----------------------------------------------------------------------------
(* The cleanup takes files that are pending, so no attachments.                *)
LEMMA CleanupInv ==
  ASSUME Inv, CleanupSelect
  PROVE  Inv'
<1>1. Effect
  BY Quiet DEF CleanupSelect
<1>2. Cleaner \in Actors
  BY DEF Actors
<1>3. PICK x : x = [act[Cleaner] EXCEPT !.at = "soft", !.todo = {f \in Files : Abandoned(f)}]
  OBVIOUS
<1>4. act' = [act EXCEPT ![Cleaner] = x]
  BY <1>3 DEF CleanupSelect
<1>5. DOMAIN act[Cleaner] = {"at", "note", "kind", "file", "body", "list", "todo"}
  BY <1>2, IdleFacts DEF Inv, Shapes
<1>6. DOMAIN x = Fields /\ x.at = "soft" /\ x.todo = {f \in Files : Abandoned(f)}
  BY <1>3, <1>5, IdleFacts
<1>7. \A f \in x.todo : f \in Files /\ row[f] # "none" /\ Free(f)
  BY <1>6 DEF Abandoned, Inv, PendingFree
<1>8. Decided(x)
  BY <1>6, <1>7 DEF Decided, Collecting, Doomed
<1>9. QED
  BY <1>1, <1>2, <1>4, <1>6, <1>8, StaysDecided, OneMoved DEF Moves

LEMMA NextInv == Inv /\ [Next]_vars => Inv'
<1> SUFFICES ASSUME Inv, [Next]_vars PROVE Inv'
  OBVIOUS
<1>1. ASSUME NEW h \in Handlers, NEW n \in Notes,
             \/ \E b \in Bodies : CreateNote(h, n, b) \/ UpdateNote(h, n, b)
             \/ DeleteNote(h, n)
             \/ \E k \in Kinds : Upload(h, n, k)
             \/ \E f \in Files : RemoveAttachment(h, n, f)
      PROVE  Inv'
  BY <1>1, SaveInv, DeleteNoteInv, UploadInv, RemoveInv
<1>2. ASSUME NEW u \in Uploads, NEW n \in Notes, FinalizeUpload(u, n) PROVE Inv'
  BY <1>2, UploadInv
<1>3. ASSUME NEW a \in Actors, ActorStep(a) PROVE Inv'
  BY <1>3, ReconcileInv, SoftDeleteInv, InsertInv, StoredInv, StoreFailedInv, AbandonInv,
     SetPendingInv, FailInv DEF ActorStep
<1>4. ASSUME NEW h \in Handlers, HandlerStep(h) PROVE Inv'
  BY <1>4, ResolveInv, ListInv, CountInv, OwnerInv, DeleteRowInv DEF HandlerStep
<1>5. ASSUME NEW u \in Uploads, UploadStep(u) PROVE Inv'
  BY <1>5, ResultInv
<1>6. CASE CleanupSelect
  BY <1>6, CleanupInv
<1>7. ASSUME NEW f \in Files, HourPasses(f) PROVE Inv'
  BY <1>7, Quiet, NoneMoved DEF HourPasses
<1>8. CASE UNCHANGED vars
  BY <1>8, Quiet, NoneMoved DEF vars
<1>9. QED
  BY <1>1, <1>2, <1>3, <1>4, <1>5, <1>6, <1>7, <1>8 DEF Next

\* A file attached to a note is not soft-deleted, whatever is saved, deleted, cleaned
\* up or fails meanwhile, unless a deletion counted it after its own note's reference
\* was gone or a failed upload could not drop its reference (service.go:531, 316).
THEOREM AttachmentsLive == Spec => []AttachmentLives
<1>1. Inv => AttachmentLives
  BY DEF Inv
<1>2. QED
  BY <1>1, InitInv, NextInv, PTL DEF Spec
=============================================================================

------------------------------ MODULE RowEditor -----------------------------
(***************************************************************************)
(* The in-place row editor every sheet of the client shares                *)
(* (frontend/src/hooks/useRowEditor.ts): at most one row is open, opening  *)
(* another writes the first, Esc discards, a save may go on to the next    *)
(* row.  An editor is [requested, draft]: the id asked to be open, and     *)
(* what was typed, each a set of at most one.  A step of it is the editor  *)
(* it leaves and the writes it makes, a sequence of at most one            *)
(* [row, draft].                                                           *)
(***************************************************************************)
EXTENDS Integers, Sequences

Closed == [requested |-> {}, draft |-> {}]

\* Derived at every render: a row deleted under its editor takes the editor with it.
OpenId(editor, rows) == {id \in editor.requested : \E r \in rows : r.id = id}

Commit(editor, rows) ==
  IF OpenId(editor, rows) = {} \/ editor.draft = {} THEN <<>>
  ELSE <<[row |-> CHOOSE id \in editor.requested : TRUE, draft |-> CHOOSE d \in editor.draft : TRUE]>>

Step(editor, writes) == [editor |-> editor, writes |-> writes]

\* Nothing happens when the row is open already.
OpenRow(editor, row, draft, rows) ==
  IF OpenId(editor, rows) = {row.id} THEN Step(editor, <<>>)
  ELSE Step([requested |-> {row.id}, draft |-> {draft}], Commit(editor, rows))

Save(editor, rows) == Step(Closed, Commit(editor, rows))

\* `next` is the row after the open one in the order of the sheet, if there is one, with what
\* is typed over it to begin with.
SaveAndNext(editor, next, rows) ==
  Step([requested |-> {r.row : r \in next}, draft |-> {r.draft : r \in next}], Commit(editor, rows))

SetDraft(editor, draft) == [editor EXCEPT !.draft = {draft}]

\* What a sheet's error callback does to reopen the refused row: it calls the openRow of the
\* render that wrote the row, in which that row is still open, so openRow returns at once,
\* and then it sets the draft.
Reopen(editor, write) == SetDraft(editor, write.draft)
=============================================================================

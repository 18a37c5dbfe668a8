------------------------------- MODULE GearPage -----------------------------
(***************************************************************************)
(* The Equipment and the Rental Order tabs of an event, on a desk and on a *)
(* phone, and the catalog of owned items (frontend/src/components:         *)
(* event/EquipmentTab, EquipmentSheet, RentalTab, RentalSheet,             *)
(* CatalogItemPicker, mobile/MobileEquipmentEditSheet,                     *)
(* MobileRentalEditSheet, OwnedGearManager): rows edited in place, forms   *)
(* for one line, and the editor that adds a batch of lines, a request for  *)
(* each, one after another.                                                *)
(***************************************************************************)
EXTENDS GearStore, RowEditor, SequencesExt

CONSTANTS Starts,      \* what the page opens on: records [patch, on, phone, parts, readOnly, spent]
          GearDrafts,  \* what is typed over a line: [qty, audio, light, note]
          MaxCalls, MaxOthers,
          OthersRequests

VARIABLES stored, made, others, written, told, calls, fetch, view, page
queryVars == <<stored, made, others, written, told, calls, fetch, view>>
pageVars == <<queryVars, page>>

Q == INSTANCE PageQueries WITH Apply <- ApplyGear

gear == view.data
Ask(req, then) == Q!Send(<<[req |-> req, then |-> then]>>)
KeysOf(source) == IF source = "rented" \/ source = "rental" THEN {"manual"} ELSE {"items", "owned"}

\* `asked` are the lists the GET on its way is about. `ending` are saves that wait for it:
\* an invalidation is over when what it asked for has arrived. `adding` and `form` hold an
\* editor that is open, known apart from those before it by its `key`.
\* Bound: GETs under way together are answered together, and `parts` are those of the page
\* a run uses.
NewPage(start) ==
  [on |-> start.on, phone |-> start.phone, parts |-> start.parts, readOnly |-> start.readOnly, filter |-> FALSE,
   editor |-> Closed, dialog |-> {}, adding |-> {}, form |-> {}, attached |-> 0, asked |-> {}, ending |-> {}]

RowsOf(shown) == CASE page.on = "equipment" -> EquipmentRows(shown)
                   [] page.on = "rental" -> RentalRows(shown)
                   [] page.on = "catalog" -> ItemRows(shown)
SheetRows == RowsOf(gear)
Shown == {r \in SheetRows : page.filter => r.problem}
DraftOf(row) == [qty |-> row.qty, audio |-> row.audio, light |-> row.light, note |-> row.note]
Part(name) == name \in page.parts /\ page.dialog = {}

\* The strip at the foot of a sheet shows only the lines it complains of.
ToggleFilter ==
  /\ Part("filter") /\ ~page.readOnly /\ (page.filter \/ \E r \in SheetRows : r.problem)
  /\ page' = [page EXCEPT !.filter = ~@]
  /\ UNCHANGED queryVars

-----------------------------------------------------------------------------
(* Rows edited in place.                                                    *)

OnSheet == Part("rows") /\ ~page.phone /\ ~page.readOnly

\* What a sheet does with a draft that is written back: nothing when nothing was changed.
PutRequest(source, item, draft) ==
  CASE source = "owned" -> [op |-> "putOwned", item |-> item, qty |-> draft.qty, note |-> draft.note]
    [] source \in {"rented", "rental"} ->
         [op |-> "putManual", item |-> item, audio |-> draft.audio, light |-> draft.light, note |-> draft.note]
    [] source = "catalog" -> [op |-> "updateItem", item |-> item, qty |-> draft.qty, note |-> draft.note]
Persist(step) ==
  LET writes == SelectSeq(step.writes, LAMBDA w : \E r \in Shown : r.id = w.row /\ DraftOf(r) # w.draft)
  IN IF writes = <<>> THEN page' = [page EXCEPT !.editor = step.editor] /\ UNCHANGED queryVars
     ELSE \E r \in Shown :
            /\ r.id = writes[1].row
            /\ Ask(PutRequest(r.source, r.item, writes[1].draft), [kind |-> "row", keys |-> KeysOf(r.source)])
            /\ page' = [page EXCEPT !.editor = step.editor, !.attached = IF page.on = "rental" THEN made + 1 ELSE @]

OpenLine(row) == OnSheet /\ OpenId(page.editor, Shown) # {row.id} /\ Persist(OpenRow(page.editor, row, DraftOf(row), Shown))
TypeLine(draft) == /\ OnSheet /\ OpenId(page.editor, Shown) # {} /\ page.editor.draft # {draft}
                   /\ page' = [page EXCEPT !.editor = SetDraft(@, draft)] /\ UNCHANGED queryVars
SaveLine == OnSheet /\ OpenId(page.editor, Shown) # {} /\ Persist(Save(page.editor, Shown))
SaveAndNextLine ==
  /\ OnSheet /\ OpenId(page.editor, Shown) # {}
  /\ LET after == {r \in Shown : \A id \in OpenId(page.editor, Shown) : r.id > id}
         next == {[row |-> r.id, draft |-> DraftOf(r)] : r \in {s \in after : \A t \in after : s.id <= t.id}}
     IN Persist(SaveAndNext(page.editor, next, Shown))
CloseLine == /\ OnSheet /\ OpenId(page.editor, Shown) # {}
             /\ page' = [page EXCEPT !.editor = Closed] /\ UNCHANGED queryVars

DeleteRequest(row) == [op |-> IF row.source = "owned" THEN "deleteOwned" ELSE "deleteManual", item |-> row.item]
\* A line that is all the plan's cannot be deleted; an owned item only after a question.
DeleteLine ==
  /\ OnSheet
  /\ \E r \in Shown :
       /\ OpenId(page.editor, Shown) = {r.id}
       /\ \/ /\ page.on = "equipment" \/ (page.on = "rental" /\ HasManualPart(r))
             /\ Ask(DeleteRequest(r), [kind |-> "row", keys |-> KeysOf(r.source)])
             /\ page' = [page EXCEPT !.editor = Closed]
          \/ /\ page.on = "catalog"
             /\ page' = [page EXCEPT !.dialog = {r.item}]
             /\ UNCHANGED queryVars
ConfirmDelete ==
  /\ page.dialog # {}
  /\ \E item \in page.dialog : Ask([op |-> "deleteItem", item |-> item], [kind |-> "row", keys |-> {"items"}])
  /\ page' = [page EXCEPT !.dialog = {}, !.editor = Closed]
CancelDelete == page.dialog # {} /\ page' = [page EXCEPT !.dialog = {}] /\ UNCHANGED queryVars

-----------------------------------------------------------------------------
(* A form for one line: a phone's sheet over a row, or a new line.          *)

Free == page.adding = {} /\ page.form = {}
Form(item, fixed, draft) == [item |-> item, fixed |-> fixed, draft |-> draft, key |-> made, saving |-> FALSE, gone |-> FALSE]
\* A phone opens any line; a rented line is only read on the Equipment tab.
OpenForm(row) ==
  /\ Part("form") /\ page.phone /\ Free /\ page.on # "catalog" /\ row.source # "rented"
  /\ page' = [page EXCEPT !.form = {Form(row.item, TRUE, DraftOf(row))}]
  /\ UNCHANGED queryVars
EmptyDraft == [qty |-> IF page.on = "catalog" THEN 1 ELSE 0, audio |-> 0, light |-> 0, note |-> {}]
OpenNewForm ==
  /\ Part("form") /\ ~page.readOnly /\ Free /\ page.on # "equipment"
  /\ page' = [page EXCEPT !.form = {Form(0, FALSE, EmptyDraft)}]
  /\ UNCHANGED queryVars

FormOpen == Part("form") /\ ~page.readOnly /\ \A f \in page.form : ~f.gone
\* A sheet over a row goes when the row does; the row back, it is there again as it was first.
Remounted(form, rows) ==
  LET mine == {r \in rows : r.item = form.item /\ r.source # "rented"} IN
  IF ~form.fixed THEN form
  ELSE IF mine = {} THEN [form EXCEPT !.gone = TRUE]
  ELSE IF form.gone THEN Form(form.item, TRUE, DraftOf(CHOOSE r \in mine : TRUE)) ELSE form
Refill(form, new) == page' = [page EXCEPT !.form = {new}] /\ new # form /\ UNCHANGED queryVars
PickFormItem(item) ==
  FormOpen /\ page.on = "rental" /\ \E f \in page.form : ~f.fixed /\ Refill(f, [f EXCEPT !.item = item])
TypeForm(draft) == FormOpen /\ \E f \in page.form : Refill(f, [f EXCEPT !.draft = draft])
FormReady(form) ==
  form.fixed \/ page.on = "catalog" \/ (form.item # 0 /\ (form.draft.audio > 0 \/ form.draft.light > 0))
FormSource == IF page.on = "equipment" THEN "owned" ELSE page.on
FormRequest(form) ==
  IF page.on = "catalog" THEN [op |-> "createItem", qty |-> form.draft.qty, note |-> form.draft.note]
  ELSE PutRequest(FormSource, form.item, form.draft)
\* Only a phone's confirm waits for the answer: a sheet's may be pressed twice.
SaveForm ==
  /\ FormOpen
  /\ \E f \in page.form :
       /\ FormReady(f) /\ ~(page.phone /\ f.saving)
       /\ Ask(FormRequest(f), [kind |-> "form", key |-> f.key, keys |-> IF page.phone /\ page.on = "equipment" THEN {"items", "owned", "manual"} ELSE KeysOf(FormSource)])
       /\ page' = [page EXCEPT !.form = {[f EXCEPT !.saving = page.phone]}, !.attached = made + 1]
DeleteForm ==
  /\ FormOpen /\ page.phone /\ page.on = "equipment"
  /\ \E f \in page.form :
       /\ f.fixed
       /\ Ask([op |-> "deleteOwned", item |-> f.item], [kind |-> "form", key |-> f.key, keys |-> {"items", "owned", "manual"}])
  /\ UNCHANGED page
CloseForm == page.form # {} /\ page' = [page EXCEPT !.form = {}] /\ UNCHANGED queryVars

-----------------------------------------------------------------------------
(* The editor that adds a batch.                                            *)

NewBatch == [source |-> "rented", chosen |-> {}, values |-> <<>>, note |-> {}, ticked |-> {}, key |-> made]
Adding == Part("batch") /\ ~page.readOnly /\ page.on = "equipment"
Editing(batch) == Adding /\ page.adding = {batch} /\ batch.ticked = {}
\* Bound: lines are chosen and typed while nothing is on its way.
Choosing(batch) == Editing(batch) /\ calls = {} /\ fetch = Q!Idle
Rebatch(batch, new) == page' = [page EXCEPT !.adding = {new}] /\ new # batch /\ UNCHANGED queryVars
Ids(batch) == {c.id : c \in batch.chosen}
Single(batch) == Cardinality(batch.chosen) = 1

StartAdding == Adding /\ Free /\ page' = [page EXCEPT !.adding = {NewBatch}] /\ UNCHANGED queryVars
CancelAdding == page.adding # {} /\ page' = [page EXCEPT !.adding = {}] /\ UNCHANGED queryVars

\* The catalogs are two lists of items with quantities of two shapes: what was chosen from
\* the one goes. The field is there while a save is on its way, too.
PickSource(batch, source) ==
  Editing(batch) /\ source # batch.source /\ Rebatch(batch, [batch EXCEPT !.source = source, !.chosen = {}, !.values = <<>>])

\* The picker opens on what is chosen. Its ticks, none or one set of ids, are its own until
\* they are confirmed; an item that is on the sheet cannot be ticked.
OnTheSheet(source) == {r.item : r \in {s \in EquipmentRows(gear) : s.source = source}}
OpenPicker(batch) == Choosing(batch) /\ Rebatch(batch, [batch EXCEPT !.ticked = {Ids(batch)}])
Picking(batch) == Adding /\ page.adding = {batch} /\ batch.ticked # {}
ClosePicker(batch) == Picking(batch) /\ Rebatch(batch, [batch EXCEPT !.ticked = {}])
Toggled(ids, id) == IF id \in ids THEN ids \ {id} ELSE ids \cup {id}
Tick(batch, id) ==
  /\ Picking(batch) /\ id \notin OnTheSheet(batch.source) /\ \E c \in Candidates(batch.source, gear) : c.id = id
  /\ \E ids \in batch.ticked : Rebatch(batch, [batch EXCEPT !.ticked = {Toggled(ids, id)}])
\* Of several, each starts at one, in the department of its category; one alone keeps what
\* was typed for it, or before it.
Chosen(batch, ids) ==
  LET picked == {c \in Candidates(batch.source, gear) : c.id \in ids}
      typed(c) == IF c.id \in DOMAIN batch.values THEN batch.values[c.id] ELSE ValueOf(batch.values, 0)
  IN [batch EXCEPT !.ticked = {}, !.chosen = picked,
        !.values = [id \in {c.id : c \in picked} |->
                      LET c == CHOOSE x \in picked : x.id = id
                      IN IF Cardinality(picked) > 1 THEN BatchDefaults(c) ELSE typed(c)]]
PickByName(batch, id) ==
  /\ Picking(batch) /\ batch.ticked = {{}} /\ id \notin OnTheSheet(batch.source)
  /\ \E c \in Candidates(batch.source, gear) : c.id = id
  /\ Rebatch(batch, Chosen(batch, {id}))
ConfirmPicks(batch) ==
  Picking(batch) /\ \E ids \in batch.ticked : ids # {} /\ Rebatch(batch, Chosen(batch, ids))

\* One line has its fields and a note; a batch has a block of numbers, and lines that can be
\* taken out of it on a desk.
TypeValue(batch, id, value) ==
  /\ Choosing(batch) /\ (IF Cardinality(batch.chosen) > 1 THEN id \in Ids(batch) ELSE id \in (IF Single(batch) THEN Ids(batch) ELSE {0}))
  /\ Rebatch(batch, [batch EXCEPT !.values = (id :> value) @@ @])
TypeNote(batch, note) == Choosing(batch) /\ Cardinality(batch.chosen) <= 1 /\ Rebatch(batch, [batch EXCEPT !.note = note])
RemoveLine(batch, c) ==
  Choosing(batch) /\ ~page.phone /\ Cardinality(batch.chosen) > 1 /\ Rebatch(batch, [batch EXCEPT !.chosen = @ \ {c}])

\* The lines of a batch go one at a time, the lower ids first.
LinesOf(batch) ==
  SetToSortSeq({[item |-> c.id] @@ ValueOf(batch.values, c.id) : c \in batch.chosen}, LAMBDA k, l : k.item < l.item)
LineRequest(then) == PutRequest(then.source, Head(then.lines).item, Head(then.lines) @@ [note |-> then.note])
\* A desk's sheet saves one batch at a time, a phone's editor its own.
Saving(batch) == \/ \E c \in calls : c.then.kind = "batch" /\ (page.phone => c.then.key = batch.key)
                 \/ \E e \in page.ending : e.kind = "batch" /\ (page.phone => e.key = batch.key)
\* `first` is history: the number of the first request, if none of this page was on its way.
SaveBatch(batch) ==
  /\ Editing(batch) /\ ~Saving(batch) /\ LinesReady(batch.source, Ids(batch), batch.values)
  /\ LET then == [kind |-> "batch", key |-> batch.key, source |-> batch.source, chosen |-> batch.chosen, lines |-> LinesOf(batch),
                  sent |-> LinesOf(batch), failed |-> {}, note |-> IF Single(batch) THEN batch.note ELSE {},
                  first |-> IF calls = {} THEN made + 1 ELSE 0]
     IN /\ Ask(LineRequest(then), then)
        /\ UNCHANGED page

-----------------------------------------------------------------------------
(* The answers.                                                             *)

AskedFor(keys) == (IF fetch = Q!Idle THEN {} ELSE page.asked) \cup keys

HearRow(c) ==
  /\ Q!Answer(c, c.state = "done", <<>>)
  /\ page' = IF c.state = "done" THEN [page EXCEPT !.asked = AskedFor(c.then.keys)] ELSE page

\* The desktop's add form is closed by the callback of its own save, which a save of a row
\* after it takes the place of; a phone's by any save of a sheet.
HearForm(c) ==
  /\ Q!Answer(c, c.state = "done", <<>>)
  /\ page' = IF c.state = "done"
             THEN [page EXCEPT !.asked = AskedFor(c.then.keys),
                               !.ending = @ \cup {[kind |-> "form", n |-> c.n, key |-> c.then.key, left |-> {}]}]
             ELSE [page EXCEPT !.form = {IF f.key = c.then.key /\ page.phone THEN [f EXCEPT !.saving = FALSE] ELSE f : f \in @}]

\* Mutant of Failed: only the last failure is kept.
FailedLast(c) == IF c.state = "done" THEN {} ELSE {Head(c.then.lines).item}
\* The lines of a batch that failed, the one that was just answered among them.
Failed(c) == c.then.failed \cup (IF c.state = "done" THEN {} ELSE {Head(c.then.lines).item})
\* A line that fails does not stop the batch. After the last one the sheet is read again,
\* and the editor ends on what failed.
HearLine(c) ==
  LET then == [c.then EXCEPT !.lines = Tail(@), !.failed = Failed(c)]
      left == {x \in c.then.chosen : x.id \in Failed(c)}
  IN IF then.lines # <<>>
     THEN Q!Answer(c, FALSE, <<[req |-> LineRequest(then), then |-> then]>>) /\ UNCHANGED page
     ELSE /\ Q!Answer(c, TRUE, <<>>)
          /\ page' = [page EXCEPT
               !.asked = AskedFor(IF page.phone THEN {"items", "owned", "manual"} ELSE KeysOf(c.then.source)),
               !.adding = {IF page.phone /\ left # {} /\ b.key = c.then.key THEN [b EXCEPT !.chosen = left] ELSE b : b \in @},
               !.ending = @ \cup {[kind |-> "batch", n |-> c.n, key |-> c.then.key, left |-> left]}]
HearAnswer(c) ==
  \/ c.then.kind = "row" /\ HearRow(c)
  \/ c.then.kind = "form" /\ HearForm(c)
  \/ c.then.kind = "batch" /\ HearLine(c)

\* What arrives is put in place of the lists it was asked for.
Merged(data) == [gear EXCEPT !.items = IF "items" \in page.asked THEN data.items ELSE @,
                             !.owned = IF "owned" \in page.asked THEN data.owned ELSE @,
                             !.manual = IF "manual" \in page.asked THEN data.manual ELSE @]
\* A save without failures closes the editor that is open, whichever it is: closing is the
\* tab's, and the editor that sent it may be gone by then. With failures the editor that
\* sent it keeps them.
Closes(e) == e.left = {} /\ (e.kind = "form" => page.phone \/ e.n = page.attached)
ViewArrives ==
  \E g \in fetch :
    /\ Q!ArriveShowing(g, Merged(g.data))
    /\ page' = [page EXCEPT
         !.asked = {}, !.ending = {},
         !.adding = IF \E e \in page.ending : Closes(e) /\ (page.phone \/ e.kind = "batch") THEN {}
                    ELSE {IF \E e \in page.ending : e.kind = "batch" /\ e.key = b.key
                          THEN [b EXCEPT !.chosen = (CHOOSE e \in page.ending : e.kind = "batch" /\ e.key = b.key).left] ELSE b : b \in @},
         !.form = IF \E e \in page.ending : Closes(e) /\ (page.phone \/ e.kind = "form") THEN {}
                  ELSE {Remounted(f, RowsOf(Merged(g.data))) : f \in @}]

-----------------------------------------------------------------------------
Init == \E start \in Starts : Q!Opened(start.patch, start.spent) /\ page = NewPage(start)

RowStep ==
  \/ \E row \in Shown : OpenLine(row)
  \/ \E draft \in GearDrafts : TypeLine(draft)
  \/ SaveLine \/ SaveAndNextLine \/ CloseLine \/ DeleteLine \/ ConfirmDelete \/ CancelDelete
FormStep ==
  \/ \E row \in Shown : OpenForm(row)
  \/ \E item \in {i.id : i \in Catalog} : PickFormItem(item)
  \/ \E draft \in GearDrafts : TypeForm(draft)
  \/ OpenNewForm \/ SaveForm \/ DeleteForm \/ CloseForm
\* Bound: what is typed is the numbers of a draft, or its note.
BatchStep ==
  \/ StartAdding \/ CancelAdding
  \/ \E batch \in page.adding :
       \/ \E source \in {"owned", "rented"} : PickSource(batch, source)
       \/ OpenPicker(batch) \/ ClosePicker(batch) \/ ConfirmPicks(batch) \/ SaveBatch(batch)
       \/ \E c \in Candidates(batch.source, gear) : Tick(batch, c.id) \/ PickByName(batch, c.id)
       \/ \E id \in {0} \cup Ids(batch), d \in GearDrafts : TypeValue(batch, id, [qty |-> d.qty, audio |-> d.audio, light |-> d.light])
       \/ \E d \in GearDrafts : TypeNote(batch, d.note)
       \/ \E c \in batch.chosen : RemoveLine(batch, c)
Focused == stored # gear /\ Q!Focus /\ page' = [page EXCEPT !.asked = {"items", "owned", "manual"}]
Elsewhere ==
  \/ \E c \in calls : Q!Serve(c) \/ Q!Lose(c)
  \/ Q!ReadStore \/ Q!LoseRead
  \/ \E req \in OthersRequests : Q!OtherClient(req)
Next ==
  \/ ToggleFilter \/ RowStep \/ FormStep \/ BatchStep
  \/ \E c \in calls : HearAnswer(c)
  \/ ViewArrives \/ Focused
  \/ Elsewhere /\ UNCHANGED page
Spec == Init /\ [][Next]_pageVars

-----------------------------------------------------------------------------
(* What the batch promises.                                                 *)

\* A batch that was alone ends with each of its lines as sent on the server or among those
\* it keeps to be sent again.
BatchEnds == {c \in calls : c.then.kind = "batch" /\ Len(c.then.lines) = 1 /\ ~\E d \in calls' : d.n = c.n}
Stored(source, line) ==
  IF source = "owned" THEN \E l \in stored.owned : l.item = line.item /\ l.qty = line.qty
  ELSE \E l \in stored.manual : l.item = line.item /\ l.audio = line.audio /\ l.light = line.light
BatchIsAccountedStep ==
  others = 0 => \A c \in BatchEnds : calls = {c} /\ made + 1 = c.then.first + Len(c.then.sent) =>
    \E e \in page'.ending : /\ e.n = c.n
                            /\ \A line \in ToSet(c.then.sent) : Stored(c.then.source, line) \/ \E x \in e.left : x.id = line.item
=============================================================================

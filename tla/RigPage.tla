------------------------------- MODULE RigPage ------------------------------
(***************************************************************************)
(* The Rig drawer of an event's audio pages (frontend/src/components/event:*)
(* RigDrawer, ConsoleSection, StageboxSection, StageMultiSection,          *)
(* DeviceSection and the three lists of devices): cards whose fields are   *)
(* each saved as they are left, a form in every section for a new row, and *)
(* the change of a desk's model, which is asked for twice.                 *)
(***************************************************************************)
EXTENDS RigStore

CONSTANTS Starts,   \* what the drawer opens on: records [patch, parts, readOnly, spent]
          Typed,    \* what is typed in a count
          Forms,    \* what is filled in for a new row: [section, row]
          Items,    \* the catalog: [id, ins, outs, channels], counts its text gives, none or one of each
          MaxCalls, MaxOthers,
          OthersRequests

VARIABLES stored, made, others, written, told, calls, fetch, view, page
queryVars == <<stored, made, others, written, told, calls, fetch, view>>
pageVars == <<queryVars, page>>

Q == INSTANCE PageQueries WITH Apply <- ApplyRig

rig == view.data
Ask(req, then) == Q!Send(<<[req |-> req, then |-> then]>>)
Sections == {"desks", "boxes", "multis", "inDevices", "procs", "dests"}

\* What every section has of its own, from when the drawer opens to when it closes: the
\* card that is open, whether the form is, and what was typed there. `late` is the count a
\* field was left with when it went, sent before anything else is done, and `key` knows this opening of the drawer apart.
\* Bound: `parts` are the sections a run uses, and what it uses of them: their fields, their
\* forms, and the change of a desk's model.
Shut == [open |-> FALSE, card |-> [s \in Sections |-> 0], adding |-> {}, forms |-> {}, dialog |-> {}, switching |-> {},
         counts |-> <<>>, key |-> 0]
NewPage(start) == Shut @@ [parts |-> start.parts, readOnly |-> start.readOnly, late |-> {}]

\* A device is in the list of destinations exactly when it has no output side.
RowsOf(section) ==
  CASE section = "desks" -> rig.desks [] section = "boxes" -> rig.boxes [] section = "multis" -> rig.multis
    [] section = "inDevices" -> rig.inDevices
    [] section = "procs" -> {d \in rig.outDevices : d.outs > 0}
    [] section = "dests" -> {d \in rig.outDevices : d.outs = 0}
Side(section) == IF section = "inDevices" THEN "in" ELSE "out"
DeviceLists == {"inDevices", "procs", "dests"}
Used(section) == page.open /\ section \in page.parts /\ page.late = {} /\ page.dialog = {} /\ page.switching = {}
Editing(section) == Used(section) /\ ~page.readOnly /\ \E r \in RowsOf(section) : r.id = page.card[section]
Fields(section) == "fields" \in page.parts /\ Editing(section)
Card(section) == {r \in RowsOf(section) : r.id = page.card[section]}

-----------------------------------------------------------------------------
(* CountField: a count holds its own text, as long as its card is open.     *)

Count(value) == [text |-> {value}, sent |-> value, shown |-> value]
CountsOf(box) == [ins |-> Count(box.ins), outs |-> Count(box.outs)]
\* Text that is a count, and not the one that was sent last.
Unsent(side) == page.counts[side].text \ {page.counts[side].sent}
CountRequest(id, side, n) == [op |-> "updateBox", id |-> id, fields |-> side :> n]
\* Leaving one count commits it, so one at most is uncommitted.
TypeCount(side, text) ==
  /\ Fields("boxes") /\ text # page.counts[side].text
  /\ \A other \in {"ins", "outs"} \ {side} : Unsent(other) = {}
  /\ page' = [page EXCEPT !.counts[side].text = text]
  /\ UNCHANGED queryVars
\* A blank saves nothing and puts the count back.
CommitCount(side) ==
  /\ Editing("boxes")
  /\ \/ /\ page.counts[side].text = {}
        /\ page' = [page EXCEPT !.counts[side].text = {page.counts[side].sent}]
        /\ UNCHANGED queryVars
     \/ \E n \in Unsent(side) :
          /\ Ask(CountRequest(page.card["boxes"], side, n), [kind |-> "field"])
          /\ page' = [page EXCEPT !.counts[side].sent = n]
\* A count that was read again replaces what is typed.
Reread(counts, box) ==
  [side \in {"ins", "outs"} |-> IF counts[side].shown = box[side] THEN counts[side] ELSE Count(box[side])]
\* The fields go with their card; what was left in one is sent then.
LeftCounts == UNION {{CountRequest(page.card["boxes"], side, n) : n \in Unsent(side)} : side \in DOMAIN page.counts}
SaveLate == \E req \in page.late : Ask(req, [kind |-> "field"]) /\ page' = [page EXCEPT !.late = @ \ {req}]

-----------------------------------------------------------------------------
(* The drawer and its cards.                                                *)

OpenDrawer == ~page.open /\ page.late = {} /\ page' = [page EXCEPT !.open = TRUE, !.key = made] /\ UNCHANGED queryVars
Closed == Shut @@ [page EXCEPT !.late = @ \cup LeftCounts]
CloseDrawer == page.open /\ page.dialog = {} /\ page.switching = {} /\ page' = Closed /\ UNCHANGED queryVars

WithCard(pg, section, id) ==
  IF section # "boxes" THEN [pg EXCEPT !.card[section] = id]
  ELSE [pg EXCEPT !.card["boxes"] = id, !.late = @ \cup LeftCounts,
                  !.counts = IF \E b \in rig.boxes : b.id = id THEN CountsOf(CHOOSE b \in rig.boxes : b.id = id) ELSE <<>>]
ToggleCard(section, row) ==
  /\ Used(section) /\ ~page.readOnly
  /\ page' = WithCard(page, section, IF page.card[section] = row.id THEN 0 ELSE row.id)
  /\ UNCHANGED queryVars

\* A desk's counts, where no model says them, its place of origin, and its recorder.
EditDesk(field, n) ==
  /\ Fields("desks")
  /\ \E d \in Card("desks") :
       /\ d.model = Generic /\ d[field] # n
       /\ Ask([op |-> "updateDesk", id |-> d.id, fields |-> field :> n, from |-> {}], [kind |-> "field"])
  /\ UNCHANGED page
EditDeskFrom(from) ==
  /\ Fields("desks")
  /\ \E d \in Card("desks") : Ask([op |-> "updateDesk", id |-> d.id, fields |-> <<>>, from |-> from], [kind |-> "field"])
  /\ UNCHANGED page
EditRecorder(on, tracks) ==
  /\ Fields("desks")
  /\ \E d \in Card("desks") :
       /\ tracks # d.tracks => on /\ d.recorder /\ d.model = Generic
       /\ Ask([op |-> "setRecorder", id |-> d.id, on |-> on, tracks |-> tracks], [kind |-> "field"])
  /\ UNCHANGED page

\* A box is sent what changed; its item brings the counts that it names, or those on show.
OneOr(counts, count) == IF counts = {} THEN count ELSE CHOOSE n \in counts : TRUE
EditBoxItem(picked) ==
  /\ Fields("boxes")
  /\ \E b \in Card("boxes") :
       Ask([op |-> "updateBox", id |-> b.id,
            fields |-> [item |-> {i.id : i \in picked}, ins |-> OneOr(UNION {i.ins : i \in picked}, b.ins),
                        outs |-> OneOr(UNION {i.outs : i \in picked}, b.outs)]], [kind |-> "field"])
  /\ UNCHANGED page
\* A multi and a device are sent whole, as they are on show but for the one field.
EditMulti(row) ==
  /\ Fields("multis") /\ Ask([op |-> "updateMulti", row |-> row], [kind |-> "field"]) /\ UNCHANGED page
EditMultiField ==
  \E m \in Card("multis") :
    \/ \E n \in Typed \ {0, m.channels} : EditMulti([m EXCEPT !.channels = n])
    \/ EditMulti([m EXCEPT !.shown = ~@])
    \/ \E picked \in {{}} \cup {{i} : i \in Items} :
         EditMulti([m EXCEPT !.item = {i.id : i \in picked}, !.channels = OneOr(UNION {i.channels : i \in picked}, @)])
MinInputs(section) == IF section = "procs" THEN 0 ELSE 1
SaveField(section, row) ==
  /\ Fields(section) /\ Ask([op |-> "updateDevice", side |-> Side(section), row |-> row], [kind |-> "field"]) /\ UNCHANGED page
EditDeviceField(section) ==
  \E d \in Card(section) :
    \/ \E n \in Typed : n >= MinInputs(section) /\ SaveField(section, [d EXCEPT !.ins = n])
    \/ \E n \in Typed : section # "dests" /\ SaveField(section, [d EXCEPT !.outs = n])
    \/ \E n \in Typed : section = "dests" /\ SaveField(section, [d EXCEPT !.links = n])
    \/ \E side \in IF section = "dests" THEN {"in", "link"} ELSE {"in", "out"} :
         SaveField(section, [d EXCEPT !.conn = IF side \in @ THEN @ \ {side} ELSE @ \cup {side}])
    \/ \E source \in {"rental", "owned"} : SaveField(section, [d EXCEPT !.from = IF @ = {source} THEN {} ELSE {source}])

DeleteRequest(section, id) ==
  CASE section = "desks" -> [op |-> "deleteDesk", id |-> id] [] section = "boxes" -> [op |-> "deleteBox", id |-> id]
    [] section = "multis" -> [op |-> "deleteMulti", id |-> id]
    [] OTHER -> [op |-> "deleteDevice", side |-> Side(section), id |-> id]
AskToDelete(section) ==
  /\ Editing(section)
  /\ page' = [page EXCEPT !.dialog = {[section |-> section, id |-> page.card[section]]}]
  /\ UNCHANGED queryVars
ConfirmDelete ==
  /\ \E d \in page.dialog :
       Ask(DeleteRequest(d.section, d.id),
           [kind |-> IF d.section \in DeviceLists THEN "field" ELSE "removal", section |-> d.section, key |-> page.key])
  /\ page' = [page EXCEPT !.dialog = {}]
CancelDelete == page.dialog # {} /\ page' = [page EXCEPT !.dialog = {}] /\ UNCHANGED queryVars

-----------------------------------------------------------------------------
(* The forms.                                                               *)

ToggleForm(section) ==
  /\ "forms" \in page.parts /\ Used(section) /\ ~page.readOnly
  /\ page' = [page EXCEPT !.adding = IF section \in @ THEN @ \ {section} ELSE @ \cup {section}]
  /\ UNCHANGED queryVars
FormOf(section) == {f.row : f \in {x \in page.forms : x.section = section}}
WithoutForm(section) == {f \in page.forms : f.section # section}
FillForm(form) ==
  /\ Used(form.section) /\ ~page.readOnly /\ form.section \in page.adding /\ form \notin page.forms
  /\ page' = [page EXCEPT !.forms = WithoutForm(form.section) \cup {form}]
  /\ UNCHANGED queryVars
CanAdd(section, row) ==
  section \in DeviceLists =>
    /\ row.from # {} /\ row.ins >= MinInputs(section) /\ (row.ins > 0 => "in" \in row.conn)
    /\ section # "dests" => row.outs > 0 /\ "out" \in row.conn
\* A new node is put beside those there are. A connector of no ports is not sent; one that
\* a link lacks is not missed here.
Placed(section, row) == row @@ [pos |-> Cardinality(RowsOf(section)) + IF section = "multis" THEN Cardinality(rig.boxes) ELSE 0]
CreateRequest(section, row) ==
  CASE section = "desks" -> [op |-> "createDesk", model |-> row.model, from |-> row.from]
    [] section = "boxes" -> [op |-> "createBox", row |-> Placed(section, row)]
    [] section = "multis" -> [op |-> "createMulti", row |-> Placed(section, row)]
    [] OTHER -> [op |-> "createDevice", side |-> Side(section),
                 row |-> Placed(section, [row EXCEPT !.conn = {side \in @ : side = "in" => row.ins > 0}])]
\* The lists of devices close their form as they send it, the others when it is done.
Add(section) ==
  /\ Used(section) /\ ~page.readOnly /\ section \in page.adding
  /\ \E row \in FormOf(section) :
       /\ CanAdd(section, row)
       /\ Ask(CreateRequest(section, row),
              [kind |-> IF section \in DeviceLists THEN "field" ELSE "creation", section |-> section, key |-> page.key])
  /\ page' = IF section \in DeviceLists
             THEN [page EXCEPT !.adding = @ \ {section}, !.forms = WithoutForm(section)] ELSE page

-----------------------------------------------------------------------------
(* A desk's model: asked what the change would do, then made.               *)

StartSwitch(model) ==
  /\ Editing("desks") /\ "switch" \in page.parts
  /\ \E d \in Card("desks") :
       /\ model # d.model
       /\ Ask([op |-> "switchDesk", id |-> d.id, model |-> model, apply |-> FALSE],
              [kind |-> "preview", desk |-> d.id, model |-> model, key |-> page.key])
  /\ UNCHANGED page
Applied(desk, model, key) ==
  [req |-> [op |-> "switchDesk", id |-> desk, model |-> model, apply |-> TRUE], then |-> [kind |-> "switch", key |-> key]]
ConfirmSwitch ==
  /\ ~\E c \in calls : c.then.kind = "switch" /\ c.then.key = page.key
  /\ \E w \in page.switching : Q!Send(<<Applied(w.desk, w.model, page.key)>>)
  /\ UNCHANGED page
CancelSwitch == page.switching # {} /\ page' = [page EXCEPT !.switching = {}] /\ UNCHANGED queryVars

-----------------------------------------------------------------------------
(* The answers.  What they do to a drawer that was closed meanwhile is      *)
(* lost; what they send is not.                                             *)

Mine(c) == c.then.key = page.key /\ page.open
HearField(c) == Q!Answer(c, c.state = "done", <<>>) /\ UNCHANGED page
HearCreation(c) ==
  /\ Q!Answer(c, c.state = "done", <<>>)
  /\ page' = IF c.state = "done" /\ Mine(c)
             THEN [page EXCEPT !.adding = @ \ {c.then.section}, !.forms = WithoutForm(c.then.section)] ELSE page
\* Whichever card is open by then is closed.
HearRemoval(c) ==
  /\ Q!Answer(c, c.state = "done", <<>>)
  /\ page' = IF c.state = "done" /\ Mine(c) THEN WithCard(page, c.then.section, 0) ELSE page
\* A change with nothing to say of it is made at once. What there is to say is left open.
HearPreview(c) ==
  \/ /\ c.state # "done" /\ Q!Answer(c, FALSE, <<>>) /\ UNCHANGED page
  \/ /\ c.state = "done" /\ Q!Answer(c, FALSE, <<Applied(c.then.desk, c.then.model, c.then.key)>>) /\ UNCHANGED page
  \/ /\ c.state = "done" /\ Q!Answer(c, FALSE, <<>>)
     /\ page' = IF Mine(c) THEN [page EXCEPT !.switching = {[desk |-> c.then.desk, model |-> c.then.model]}] ELSE page
HearSwitch(c) ==
  /\ Q!Answer(c, c.state = "done", <<>>)
  /\ page' = IF c.state = "done" /\ Mine(c) THEN [page EXCEPT !.switching = {}] ELSE page
HearAnswer(c) ==
  \/ c.then.kind = "field" /\ HearField(c)
  \/ c.then.kind = "creation" /\ HearCreation(c)
  \/ c.then.kind = "removal" /\ HearRemoval(c)
  \/ c.then.kind = "preview" /\ HearPreview(c)
  \/ c.then.kind = "switch" /\ HearSwitch(c)

\* A card goes with its row, its counts with the card.
ViewArrives ==
  /\ Q!Arrive
  /\ page' = IF page.counts = <<>> THEN page
             ELSE LET box == {b \in view'.data.boxes : b.id = page.card["boxes"]}
                  IN IF box = {} THEN [page EXCEPT !.late = @ \cup LeftCounts, !.counts = <<>>]
                     ELSE [page EXCEPT !.counts = Reread(@, CHOOSE b \in box : TRUE)]

-----------------------------------------------------------------------------
Init == \E start \in Starts : Q!Opened(start.patch, start.spent) /\ page = NewPage(start)

CardStep ==
  \/ \E section \in Sections : \E row \in RowsOf(section) : ToggleCard(section, row)
  \/ \E side \in DOMAIN page.counts : CommitCount(side) \/ \E n \in Typed : TypeCount(side, {n}) \/ TypeCount(side, {})
  \/ \E field \in {"inputs", "outputs", "localIn", "localOut"} : \E n \in Typed : EditDesk(field, n)
  \/ \E from \in {{}, {"rental"}, {"owned"}} : EditDeskFrom(from)
  \/ \E d \in Card("desks") : EditRecorder(~d.recorder, d.tracks) \/ \E n \in Typed : EditRecorder(TRUE, n)
  \/ \E picked \in {{}} \cup {{i} : i \in Items} : EditBoxItem(picked)
  \/ EditMultiField
  \/ \E section \in DeviceLists : EditDeviceField(section)
  \/ \E section \in Sections : AskToDelete(section)
  \/ ConfirmDelete \/ CancelDelete
FormStep ==
  \/ \E section \in Sections : ToggleForm(section) \/ Add(section)
  \/ \E form \in Forms : FillForm(form)
SwitchStep == (\E model \in DeskModelKeys : StartSwitch(model)) \/ ConfirmSwitch \/ CancelSwitch
Elsewhere ==
  \/ \E c \in calls : Q!Serve(c) \/ Q!Lose(c)
  \/ Q!ReadStore \/ Q!LoseRead
  \/ stored # view.data /\ Q!Focus
  \/ \E req \in OthersRequests : Q!OtherClient(req)
Next ==
  \/ OpenDrawer \/ CloseDrawer \/ CardStep \/ FormStep \/ SwitchStep \/ SaveLate
  \/ \E c \in calls : HearAnswer(c)
  \/ ViewArrives
  \/ Elsewhere /\ UNCHANGED page
Spec == Init /\ [][Next]_pageVars

-----------------------------------------------------------------------------
\* What the drawer is for: the rig may change under the cables, never away from them.
CablesKeepTheirPorts == CablesKeepPorts(stored)
=============================================================================

--------------------------- MODULE OutputPatchPage --------------------------
(***************************************************************************)
(* The Outputs tab: the sheet of outputs, the flow canvas with its ports,  *)
(* nodes, dialogs and inspector, and the phone's one-row sheet             *)
(* (frontend/src/components/event: AudioOutputsTab, OutputSheet,           *)
(* OutputFlowInspector; mobile/MobileOutputEditSheet).  Names, notes,      *)
(* tapes and types are left out of a row.                                  *)
(***************************************************************************)
EXTENDS PatchStore, RowEditor

CONSTANTS Starts,         \* what the page opens on: records [patch, views, readOnly, spent]
          Items,          \* catalog items a cable can be
          Drafts,         \* what is typed over a row: [number, width, desk, fed]
          Positions,      \* places a node is dragged to
          MaxCalls, MaxOthers,
          OthersRequests  \* what another client may ask meanwhile

VARIABLES stored, made, others, written, told, calls, fetch, view, page
queryVars == <<stored, made, others, written, told, calls, fetch, view>>
pageVars == <<queryVars, page>>

Q == INSTANCE PageQueries WITH Apply <- ApplyPatch

p == view.data
NoDesk == 0
NoDialog == [kind |-> "none"]
Silently == [kind |-> "nothing"]
Ask(req, then) == Q!Send(<<[req |-> req, then |-> then]>>)
NoPhone == [open |-> {}, desired |-> {}, fed |-> NoFeed, sheet |-> 0, saving |-> FALSE, failed |-> FALSE, ending |-> FALSE]

\* `attached` is the row save whose own callback would still run: leaving the sheet takes
\* it away, and so does a later save.
\* Bound: `views` are those a run lets the page show, the first of them at once.
NewPage(views, readOnly) ==
  [tab |-> Head(views), views |-> ToSet(views), readOnly |-> readOnly, desk |-> NoDesk, selection |-> {}, pending |-> {},
   dialog |-> NoDialog, editor |-> Closed, attached |-> {}, refused |-> {}, phone |-> NoPhone]

-----------------------------------------------------------------------------
(* AudioOutputsTab: which desk is listed, which view is shown.              *)

Deskless == {o \in p.outputs : o.desk = NoDesk}
ListedDesk == IF page.desk = -1 /\ Deskless # {} THEN NoDesk
              ELSE IF \E d \in p.desks : d.id = page.desk THEN page.desk
              ELSE Min({d.id : d \in p.desks} \cup {NoDesk : x \in {p.desks} \cap {{}}})
Listed == {o \in p.outputs : o.desk = ListedDesk}

LeaveSheet(pg) == [pg EXCEPT !.editor = Closed, !.attached = {}, !.refused = {}, !.dialog = NoDialog]
LeaveCanvas(pg) == [pg EXCEPT !.pending = {}, !.dialog = NoDialog]

SelectDesk(desk) ==
  /\ page.dialog = NoDialog /\ page.tab = "sheet" /\ desk # ListedDesk
  /\ desk \in {d.id : d \in p.desks} \cup {-1 : o \in Deskless}
  /\ page' = [LeaveSheet(page) EXCEPT !.desk = desk]
  /\ UNCHANGED queryVars
ShowView(tab) ==
  /\ page.dialog = NoDialog /\ {page.tab, tab} = {"sheet", "flow"} /\ tab \in page.views
  /\ page' = [IF tab = "flow" THEN LeaveSheet(page) ELSE LeaveCanvas(page) EXCEPT !.tab = tab]
  /\ UNCHANGED queryVars

\* "+ Output": after the last number this render lists; refused where there is no desk.
AddOutputRow ==
  /\ page.tab = "sheet" /\ page.dialog = NoDialog /\ ~page.readOnly /\ (ListedDesk = NoDesk => p.desks = {})
  /\ page' = [page EXCEPT !.refused = IF ListedDesk = NoDesk THEN {NoDesk} ELSE {}]
  /\ IF ListedDesk = NoDesk THEN UNCHANGED queryVars
     ELSE Ask([op |-> "createOutput", number |-> NextOutputNumber(Listed), width |-> "mono", color |-> NoColor,
               desk |-> ListedDesk], [kind |-> "added"])

\* "Edit in Flow" of a row selects the output, of a hop the box it is in; the head of a
\* chain, the desk's own port, selects nothing.
OpenInFlow(selected) ==
  /\ "flow" \in page.views
  /\ page' = [LeaveSheet(page) EXCEPT !.tab = "flow", !.selection = {selected}]
  /\ UNCHANGED queryVars
BoxOf(end) == [kind |-> IF end.kind = "device_link" THEN "device" ELSE end.kind, id |-> end.id]
BoxKinds == {"stagebox", "stage_multi", "device", "console_local"}

-----------------------------------------------------------------------------
(* OutputSheet: one row open at a time.                                     *)

DraftOf(o) == [number |-> o.number, width |-> o.width, desk |-> o.desk, fed |-> o.fed]
\* Fed by is a route, saved after the row and only if the row stays on its desk.
FedByChanged(o, draft) == draft.fed # o.fed /\ draft.desk = o.desk
RowSave(w) ==
  [req |-> [op |-> "updateOutput", id |-> w.row, number |-> w.draft.number, width |-> w.draft.width, desk |-> w.draft.desk],
   then |-> [kind |-> "row", feed |-> {[op |-> "setFedBy", id |-> w.row, fed |-> w.draft.fed]
                                         : o \in {x \in Row(Listed, w.row) : FedByChanged(x, w.draft)}}]]
EditorSteps(step, pg) ==
  /\ page' = [pg EXCEPT !.editor = step.editor, !.attached = IF step.writes = <<>> THEN @ ELSE {made + 1}]
  /\ IF step.writes = <<>> THEN UNCHANGED queryVars
     ELSE Q!Send([i \in DOMAIN step.writes |-> RowSave(step.writes[i])])

OnSheet == page.tab = "sheet" /\ page.dialog = NoDialog
OpenSheetRow(o) ==
  /\ OnSheet /\ ~page.readOnly
  /\ EditorSteps(OpenRow(page.editor, o, DraftOf(o), Listed), [page EXCEPT !.refused = {}])
Editing == OnSheet /\ OpenId(page.editor, Listed) # {}
TypeDraft(draft) ==
  /\ Editing /\ page.editor.draft # {draft}
  /\ page' = [page EXCEPT !.editor = SetDraft(@, draft)]
  /\ UNCHANGED queryVars
SaveRow ==
  /\ Editing
  /\ IF \E d \in page.editor.draft : d.desk = NoDesk
     THEN page' = [page EXCEPT !.refused = OpenId(page.editor, Listed)] /\ UNCHANGED queryVars
     ELSE EditorSteps(Save(page.editor, Listed), [page EXCEPT !.refused = {}])
RowAfter(id) == LET after == {c \in Listed : \E o \in Listed : o.id = id /\ o.number < c.number}
                IN {c \in after : \A o \in after : c.number <= o.number}
SaveAndNextRow ==
  /\ Editing
  /\ \E id \in OpenId(page.editor, Listed) :
       EditorSteps(SaveAndNext(page.editor, {[row |-> r.id, draft |-> DraftOf(r)] : r \in RowAfter(id)}, Listed), page)
CloseRow == Editing /\ page' = [page EXCEPT !.editor = Closed] /\ UNCHANGED queryVars
AskToDeleteRow ==
  /\ Editing
  /\ \E id \in OpenId(page.editor, Listed) : page' = [page EXCEPT !.dialog = [kind |-> "row", id |-> id]]
  /\ UNCHANGED queryVars
EditRowInFlow ==
  /\ Editing
  /\ \E id \in OpenId(page.editor, Listed) : OpenInFlow([kind |-> "output", id |-> id])

-----------------------------------------------------------------------------
(* ChainCell: the cables the listed chains run over.                        *)

ShownHops == UNION {UNION {{path.cables[i] : i \in DOMAIN path.cables} : path \in OutputChannelFlow(o, p).paths} : o \in Listed}
OpenHop(c) ==
  /\ OnSheet /\ ~page.readOnly /\ c \in ShownHops
  /\ page' = [page EXCEPT !.dialog = [kind |-> "hop", cable |-> c]]
  /\ UNCHANGED queryVars
EditHopInFlow ==
  /\ page.dialog.kind = "hop" /\ page.dialog.cable.to.kind \in BoxKinds
  /\ OpenInFlow(BoxOf(page.dialog.cable.to))

-----------------------------------------------------------------------------
(* OutputGraphCanvas: ports, cables and nodes.                              *)

\* The ports each node draws. A desk's box lists its outputs, another its jacks as far as a
\* cable is still on them; outputs of no desk have a box of their own.
ConsoleNode(desk) == UNION {MixerPorts(o) : o \in {x \in p.outputs : x.desk = desk.id}}
LocalJackNode(desk) == ConsoleLocalOutPorts(desk, LocalOutJackCount(desk, p.outCables))
MixerNode == UNION {MixerPorts(o) : o \in Deskless}
StageboxNode(box) == StageboxPorts(box)
StageMultiNode(multi) == IF IsMultiVisible(multi, p.outCables) THEN StageMultiPorts(multi) ELSE {}
DeviceNode(device) == OutputDevicePorts(device) \cup LinkPorts(device)
DrawnPorts ==
  MixerNode \cup UNION ({ConsoleNode(d) \cup LocalJackNode(d) : d \in p.desks} \cup {StageboxNode(b) : b \in p.boxes}
                       \cup {StageMultiNode(m) : m \in p.multis} \cup {DeviceNode(d) : d \in p.outDevices})

\* A box holding the outputs of no desk is drawn when there are any, or no desk at all.
Nodes ==
  {[kind |-> "mixer", id |-> d.id] : d \in p.desks}
  \cup {[kind |-> "mixer", id |-> NoDesk] : x \in {y \in {0} : Deskless # {} \/ p.desks = {}}}
  \cup {[kind |-> "console_local", id |-> d.id] : d \in {x \in p.desks : LocalOutJackCount(x, p.outCables) > 0}}
  \cup {[kind |-> "device", id |-> d.id] : d \in p.outDevices}
  \cup {[kind |-> "stagebox", id |-> b.id] : b \in p.boxes}
  \cup {[kind |-> "stage_multi", id |-> m.id] : m \in {x \in p.multis : IsMultiVisible(x, p.outCables)}}

\* A desk's bus list and its rows are one node, of which only the rows are selected.
Selectable == {n \in Nodes : n.kind # "mixer"} \cup {[kind |-> "output", id |-> o.id] : o \in p.outputs}

OnCanvas == page.tab = "flow" /\ page.dialog = NoDialog
Select(selected) == /\ OnCanvas /\ page.selection # {selected} /\ selected \in Selectable
                    /\ page' = [page EXCEPT !.selection = {selected}]
                    /\ UNCHANGED queryVars
\* Closed by hand; or by itself once what it is open on is gone.
CloseInspector == /\ OnCanvas /\ page.selection # {}
                  /\ page' = [page EXCEPT !.selection = {}]
                  /\ UNCHANGED queryVars

\* A desk output is a channel, not a jack: it may fan out, so a click on it never stops
\* at the cable it has.
TakenPort(q) == q.kind # "mixer" /\ IsOutputPortConnected(q, p.outCables)

AttemptConnect(from, to, pg) ==
  IF IsCablelessToKind(to.kind)
  THEN /\ page' = pg
       /\ Ask([op |-> "createCable", side |-> "out", cable |-> NewCable(from, to)], Silently)
  ELSE /\ page' = [pg EXCEPT !.dialog = [kind |-> "picker", cable |-> NewCable(from, to)]]
       /\ UNCHANGED queryVars
Connect(a, b, pg) == IF a.dir = "out" THEN AttemptConnect(End(a), End(b), pg) ELSE AttemptConnect(End(b), End(a), pg)

ClickPort(q) ==
  /\ OnCanvas
  /\ \/ /\ TakenPort(q)
        /\ page' = [page EXCEPT !.dialog = [kind |-> "info", cable |-> CHOOSE c \in OutputCableAtPort(q, p.outCables) : TRUE]]
        /\ UNCHANGED queryVars
     \/ /\ ~TakenPort(q) /\ ~page.readOnly
        /\ IF \E w \in page.pending : w.dir # q.dir
           THEN \E w \in page.pending : Connect(w, q, [page EXCEPT !.pending = {}])
           ELSE /\ page' = [page EXCEPT !.pending = IF @ = {q} THEN {} ELSE {q}]
                /\ UNCHANGED queryVars
DragCable(q, target) ==
  /\ OnCanvas /\ ~page.readOnly
  /\ ~TakenPort(q) /\ target.dir # q.dir /\ ~TakenPort(target)
  /\ Connect(q, target, page)

PickCable(item) ==
  /\ page.dialog.kind = "picker"
  /\ Ask([op |-> "createCable", side |-> "out", cable |-> [page.dialog.cable EXCEPT !.item = item]], Silently)
  /\ page' = [page EXCEPT !.dialog = NoDialog]
\* History: the cable the dialog showed.
AboutCable == [kind |-> "cable", cable |-> page.dialog.cable]
ChangeCableItem(item) ==
  /\ page.dialog.kind \in {"info", "hop"} /\ ~page.readOnly /\ ~IsCablelessToKind(page.dialog.cable.to.kind)
  /\ Ask([op |-> "updateCable", side |-> "out", id |-> page.dialog.cable.id, item |-> item], AboutCable)
  /\ page' = [page EXCEPT !.dialog = NoDialog]
Disconnect ==
  /\ page.dialog.kind \in {"info", "hop"} /\ ~page.readOnly
  /\ Ask([op |-> "deleteCable", side |-> "out", id |-> page.dialog.cable.id], AboutCable)
  /\ page' = [page EXCEPT !.dialog = NoDialog]

\* A node dragged to another place: a box sends its place alone, a multi and a device
\* their whole row as this render has it. The node of the deskless outputs has no row.
MoveRequest(node, pos) ==
  CASE node.kind = "stagebox" -> [op |-> "updateBox", id |-> node.id, fields |-> [pos |-> pos]]
    [] node.kind = "stage_multi" -> [op |-> "updateMulti", row |-> [CHOOSE m \in p.multis : m.id = node.id EXCEPT !.pos = pos]]
    [] node.kind = "device" -> [op |-> "updateOutputDevice", row |-> [CHOOSE d \in p.outDevices : d.id = node.id EXCEPT !.pos = pos]]
MoveNode(node, pos) ==
  /\ OnCanvas /\ ~page.readOnly /\ node.kind \in {"stagebox", "stage_multi", "device"}
  /\ Ask(MoveRequest(node, pos), Silently)
  /\ UNCHANGED page
\* A device's node carries its own Delete, which asks nothing first.
DeleteDevice(node) ==
  /\ OnCanvas /\ ~page.readOnly /\ node.kind = "device"
  /\ Ask([op |-> "deleteOutputDevice", id |-> node.id], Silently)
  /\ UNCHANGED page

-----------------------------------------------------------------------------
(* OutputFlowInspector: no draft, each field writes the whole row it shows. *)

Inspected == UNION {Row(p.outputs, n.id) : n \in {x \in page.selection : x.kind = "output"}}
SaveField(draft) ==
  /\ OnCanvas /\ ~page.readOnly
  /\ \E o \in Inspected : \E f \in {"number", "width", "desk"} :
       /\ draft[f] # o[f] /\ (f = "desk" => Cardinality(p.desks) > 1)
       /\ LET row == [o EXCEPT ![f] = draft[f]]
          IN Ask([op |-> "updateOutput", id |-> o.id, number |-> row.number, width |-> row.width, desk |-> row.desk], Silently)
  /\ UNCHANGED page
DuplicateOutput ==
  /\ OnCanvas /\ ~page.readOnly
  /\ \E o \in Inspected : Ask([op |-> "createOutput", number |-> NextOutputNumber(p.outputs), width |-> o.width,
                               color |-> o.color, desk |-> o.desk], [kind |-> "select"])
  /\ UNCHANGED page
AskToDeleteOutput ==
  /\ OnCanvas /\ ~page.readOnly
  /\ \E o \in Inspected : page' = [page EXCEPT !.dialog = [kind |-> "output", id |-> o.id]]
  /\ UNCHANGED queryVars
\* The rail's confirmation shows only on the output it was raised for.
ConfirmDelete ==
  /\ page.dialog.kind = "row" \/ (page.dialog.kind = "output" /\ \E o \in Inspected : o.id = page.dialog.id)
  /\ page' = [page EXCEPT !.dialog = NoDialog, !.selection = IF page.dialog.kind = "output" THEN {} ELSE @]
  /\ Ask([op |-> "deleteOutput", id |-> page.dialog.id], Silently)
Cancel == page.dialog # NoDialog /\ page' = [page EXCEPT !.dialog = NoDialog] /\ UNCHANGED queryVars

-----------------------------------------------------------------------------
(* MobileOutputEditSheet: the row, then its cables, one request at a time.  *)

OnPhone == page.tab = "phone" /\ page.phone.open # {} /\ ~page.readOnly
Feeds == {d.fed : d \in Drafts}
\* The socket chosen for the output: none, or a jack of a box.
Sockets == {{}} \cup UNION {{{[kind |-> "stagebox", id |-> b.id, port |-> n]} : n \in First(b.outs)} : b \in p.boxes}
FedBy(id) == IF Row(p.outputs, id) = {} THEN NoFeed ELSE (CHOOSE o \in Row(p.outputs, id) : TRUE).fed
\* Opened on a row, or (0) on one still to be made. A viewer reads a row here too.
OpenPhone(id) ==
  /\ page.tab = "phone" /\ page.phone.open = {} /\ calls = {} /\ fetch = Q!Idle /\ (id = 0 => ~page.readOnly)
  /\ page' = [page EXCEPT !.phone = [NoPhone EXCEPT !.open = {id}, !.sheet = made, !.fed = FedBy(id),
                                                    !.desired = ResolveOutputRouting(id, p.outCables)]]
  /\ UNCHANGED queryVars
ChooseOnPhone(socket, fed) ==
  /\ OnPhone
  /\ page' = [page EXCEPT !.phone.desired = socket, !.phone.fed = fed]
  /\ UNCHANGED queryVars
\* Nothing is saved without a desk: the row's own, or for a new row the one listed.
SavedDesk == LET rows == UNION {Row(p.outputs, id) : id \in page.phone.open}
             IN IF rows = {} THEN ListedDesk ELSE (CHOOSE r \in rows : TRUE).desk
\* What is saved is what this render has: the fields, and the cables to change. A row that
\* went away under the sheet is made again.
\* `fresh` is history: whether the cables on this render were those of the server.
SavePhone ==
  /\ OnPhone /\ ~page.phone.saving /\ SavedDesk # NoDesk
  /\ page' = [page EXCEPT !.phone.saving = TRUE, !.phone.failed = FALSE]
  /\ LET rows == UNION {Row(p.outputs, id) : id \in page.phone.open}
         then == [kind |-> "phone", sheet |-> page.phone.sheet, plan |-> <<>>, cables |-> p.outCables, fresh |-> stored.outCables = p.outCables,
                  desired |-> page.phone.desired,
                  feed |-> {page.phone.fed : o \in {x \in rows : x.fed # page.phone.fed}}]
     IN IF rows = {}
        THEN Ask([op |-> "createOutput", number |-> NextOutputNumber(Listed), width |-> "mono",
                  color |-> NoColor, desk |-> ListedDesk], then)
        ELSE \E o \in rows :
               Ask([op |-> "updateOutput", id |-> o.id, number |-> o.number, width |-> o.width, desk |-> o.desk], then)
PhonePlan(id, then) ==
  LET ops == ComputeOutputRoutingSave(id, then.cables, then.desired) IN
  SetToSeq({[op |-> "deleteCable", side |-> "out", id |-> c] : c \in ops.delete})
  \o SetToSeq({[op |-> "createCable", side |-> "out", cable |-> c] : c \in ops.create})
  \o SetToSeq({[op |-> "setFedBy", id |-> id, fed |-> f] : f \in then.feed})
\* A sheet closed while it saves goes on saving.
ClosePhone ==
  /\ page.phone.open # {}
  /\ page' = [page EXCEPT !.phone = NoPhone]
  /\ UNCHANGED queryVars

\* The next step of a save is taken when the one before it is answered. A step that fails
\* stops it, asks for nothing, and leaves its sheet open over what was typed; after the
\* last one the page is read again, and then the sheet closes.
HearPhone(c) ==
  LET plan == CASE c.req.op = "createOutput" -> PhonePlan(c.id, c.then)
                [] c.req.op = "updateOutput" -> PhonePlan(c.req.id, c.then)
                [] OTHER -> c.then.plan
  IN IF c.state # "done"
     THEN /\ Q!Answer(c, FALSE, <<>>)
          /\ page' = IF page.phone.open = {} \/ page.phone.sheet # c.then.sheet THEN page
                     ELSE [page EXCEPT !.phone.saving = FALSE, !.phone.failed = TRUE]
     ELSE IF plan = <<>> THEN Q!Answer(c, TRUE, <<>>) /\ page' = [page EXCEPT !.phone.ending = TRUE]
     ELSE /\ Q!Answer(c, FALSE, <<[req |-> Head(plan), then |-> [c.then EXCEPT !.plan = Tail(plan)]]>>)
          /\ UNCHANGED page

-----------------------------------------------------------------------------
(* The answers.                                                             *)

HearRow(c) ==
  /\ Q!Answer(c, c.state = "done",
              IF c.state = "done" /\ c.n \in page.attached
              THEN SetToSeq({[req |-> r, then |-> Silently] : r \in c.then.feed}) ELSE <<>>)
  /\ page' = [page EXCEPT !.attached = @ \ {c.n}]
HearOther(c) ==
  /\ Q!Answer(c, c.state = "done", <<>>)
  /\ page' = IF c.then.kind = "select" /\ c.state = "done"
             THEN [page EXCEPT !.selection = {[kind |-> "output", id |-> c.id]}]
             ELSE IF c.then.kind = "added" /\ c.state # "done" THEN [page EXCEPT !.refused = {NoDesk}]
             ELSE page
HearAnswer(c) ==
  \/ c.then.kind = "phone" /\ HearPhone(c)
  \/ c.then.kind = "row" /\ HearRow(c)
  \/ c.then.kind \in {"nothing", "cable", "select", "added"} /\ HearOther(c)

-----------------------------------------------------------------------------
Init == \E start \in Starts : Q!Opened(start.patch, start.spent) /\ page = NewPage(start.views, start.readOnly)

SheetStep ==
  \/ \E desk \in {-1} \cup {d.id : d \in p.desks} : SelectDesk(desk)
  \/ AddOutputRow
  \/ \E o \in Listed : OpenSheetRow(o)
  \/ \E draft \in Drafts : TypeDraft(draft)
  \/ SaveRow \/ SaveAndNextRow \/ CloseRow \/ AskToDeleteRow \/ EditRowInFlow
  \/ \E c \in p.outCables : OpenHop(c)
  \/ EditHopInFlow
CanvasStep ==
  \/ \E selected \in Selectable : Select(selected)
  \/ CloseInspector
  \/ \E q \in DrawnPorts : ClickPort(q)
  \/ \E q, target \in DrawnPorts : DragCable(q, target)
  \/ \E node \in Nodes : DeleteDevice(node) \/ \E pos \in Positions : MoveNode(node, pos)
  \/ DuplicateOutput \/ AskToDeleteOutput
  \/ \E draft \in Drafts : SaveField(draft)
DialogStep ==
  \/ \E item \in {{}} \cup {{i} : i \in Items} : PickCable(item) \/ ChangeCableItem(item)
  \/ Disconnect \/ ConfirmDelete \/ Cancel
PhoneStep ==
  \/ \E id \in {0} \cup {o.id : o \in Listed} : OpenPhone(id)
  \/ \E socket \in Sockets, fed \in Feeds : ChooseOnPhone(socket, fed)
  \/ SavePhone \/ ClosePhone

ViewArrives == Q!Arrive /\ page' = IF page.phone.ending THEN [page EXCEPT !.phone = NoPhone] ELSE page
\* Bound: a window is not focused when that would show nothing new (QueriedPage has every
\* GET at every time).
Elsewhere ==
  \/ \E c \in calls : Q!Serve(c) \/ Q!Lose(c)
  \/ Q!ReadStore \/ Q!LoseRead \/ (stored # p /\ Q!Focus)
  \/ \E req \in OthersRequests : Q!OtherClient(req)
Next ==
  \/ SheetStep \/ CanvasStep \/ DialogStep \/ PhoneStep
  \/ \E tab \in {"sheet", "flow"} : ShowView(tab)
  \/ \E c \in calls : HearAnswer(c)
  \/ ViewArrives
  \/ Elsewhere /\ UNCHANGED page
Spec == Init /\ [][Next]_pageVars
=============================================================================

--------------------------- MODULE InputPatchPage ---------------------------
(***************************************************************************)
(* The Inputs tab on a desk: the sheet of channels with its row editor and *)
(* chain cells, the flow canvas with its ports, nodes, dialogs and         *)
(* inspector, and the requests they send about the patch the page last     *)
(* read (frontend/src/components/event: AudioInputsTab, InputSheet,        *)
(* ChainCell, InputGraphCanvas, InputFlowInspector).  Names, notes, tapes  *)
(* and routes are left out of a row; a node's place is `pos`.              *)
(***************************************************************************)
EXTENDS PatchStore, RowEditor

CONSTANTS Starts,         \* what the page opens on: records [patch, views, readOnly, spent]
          Items,          \* catalog items a cable can be
          Drafts,         \* what is typed over a row: [number, width, desk]
          Positions,      \* places a node is dragged to
          MaxCalls, MaxOthers,
          OthersRequests  \* what another client may ask meanwhile

VARIABLES stored, made, others, written, told, calls, fetch, view, page
queryVars == <<stored, made, others, written, told, calls, fetch, view>>
pageVars == <<queryVars, page>>

Q == INSTANCE PageQueries WITH Apply <- ApplyPatch

p == view.data
NoDesk == 0
NoDialog == [kind |-> "none"]
Ask(req, then) == Q!Send(<<[req |-> req, then |-> then]>>)
Silently == [kind |-> "nothing"]
NoPhone == [open |-> {}, desired |-> NoRouting, sheet |-> 0, saving |-> FALSE, failed |-> FALSE, ending |-> FALSE]

\* What a fresh tab holds. `attached` is the save whose error callback would still run: a
\* sheet that was left hears of none, and a later save takes the place of an earlier.
\* Bound: `views` are those a run lets the page show, the first of them at once.
NewPage(views, readOnly) ==
  [tab |-> Head(views), views |-> ToSet(views), readOnly |-> readOnly, desk |-> NoDesk, selection |-> {}, pending |-> {},
   dialog |-> NoDialog, editor |-> Closed, attached |-> {}, refused |-> {}, phone |-> NoPhone]

-----------------------------------------------------------------------------
(* AudioInputsTab: which desk is listed, which view is shown.               *)

Deskless == {c \in p.channels : c.desk = NoDesk}
\* A desk that is gone, or a No desk list with nothing on it, falls back to the first desk.
ResolvedDesk ==
  IF p.desks = {} THEN NoDesk
  ELSE IF \E d \in p.desks : d.id = page.desk THEN page.desk
       ELSE Min({d.id : d \in p.desks})
ListedDesk == IF page.desk = -1 /\ Deskless # {} THEN NoDesk ELSE ResolvedDesk
Listed == {c \in p.channels : c.desk = ListedDesk}

\* The sheet is keyed by the desk it lists: another desk is another sheet, and what was
\* being typed goes with the old one.
LeaveSheet(pg) == [pg EXCEPT !.editor = Closed, !.attached = {}, !.refused = {}, !.dialog = NoDialog]
LeaveCanvas(pg) == [pg EXCEPT !.pending = {}, !.dialog = NoDialog]

SelectDesk(desk) ==
  /\ page.dialog = NoDialog /\ page.tab = "sheet" /\ desk # ListedDesk
  /\ desk \in {d.id : d \in p.desks} \cup {-1 : c \in Deskless}
  /\ page' = [LeaveSheet(page) EXCEPT !.desk = desk]
  /\ UNCHANGED queryVars

ShowView(tab) ==
  /\ page.dialog = NoDialog /\ {page.tab, tab} = {"sheet", "flow"} /\ tab \in page.views
  /\ page' = [IF tab = "flow" THEN LeaveSheet(page) ELSE LeaveCanvas(page) EXCEPT !.tab = tab]
  /\ UNCHANGED queryVars

\* "+ Channel": refused on the spot where there is no desk, by the server where it is full.
AddToDesk ==
  /\ page.tab = "sheet" /\ page.dialog = NoDialog /\ ~page.readOnly /\ (ListedDesk = NoDesk => p.desks = {})
  /\ page' = [page EXCEPT !.refused = IF ListedDesk = NoDesk THEN {NoDesk} ELSE {}]
  /\ IF ListedDesk = NoDesk THEN UNCHANGED queryVars
     ELSE Ask([op |-> "createChannel", number |-> 0, desk |-> ListedDesk], [kind |-> "added"])

\* "Edit in Flow": a hop of a chain that is a node of this graph is selected there.
OpenInFlow(node) ==
  /\ node.kind \in InputFromKinds /\ "flow" \in page.views
  /\ page' = [LeaveSheet(page) EXCEPT !.tab = "flow", !.selection = {node}]

-----------------------------------------------------------------------------
(* InputSheet: one row open at a time.                                      *)

DraftOf(c) == [number |-> c.number, width |-> c.width, desk |-> c.desk]
RowRequest(w) == [op |-> "updateChannel", id |-> w.row, number |-> w.draft.number,
                  width |-> w.draft.width, desk |-> w.draft.desk]
\* The editor takes a step, and what it writes is sent at once, without waiting.
EditorSteps(step, pg) ==
  /\ page' = [pg EXCEPT !.editor = step.editor,
                        !.attached = IF step.writes = <<>> THEN @ ELSE {made + 1},
                        !.refused = IF step.writes = <<>> THEN @ ELSE {}]
  /\ IF step.writes = <<>> THEN UNCHANGED queryVars
     ELSE Q!Send([i \in DOMAIN step.writes |->
                    [req |-> RowRequest(step.writes[i]), then |-> [kind |-> "saved", write |-> step.writes[i]]]])

OnSheet == page.tab = "sheet" /\ page.dialog = NoDialog
OpenSheetRow(c) ==
  /\ OnSheet /\ ~page.readOnly
  /\ EditorSteps(OpenRow(page.editor, c, DraftOf(c), Listed), [page EXCEPT !.refused = {}])

Editing == OnSheet /\ OpenId(page.editor, Listed) # {}
TypeDraft(draft) ==
  /\ Editing /\ page.editor.draft # {draft}
  /\ page' = [page EXCEPT !.editor = SetDraft(@, draft)]
  /\ UNCHANGED queryVars

\* The Save button refuses a draft on no desk; the keyboard's save does not look.
SaveRow ==
  /\ Editing
  /\ IF \E d \in page.editor.draft : d.desk = NoDesk
     THEN page' = [page EXCEPT !.refused = OpenId(page.editor, Listed)] /\ UNCHANGED queryVars
     ELSE EditorSteps(Save(page.editor, Listed), page)
NextRow(id) == LET after == {c \in Listed : \E o \in Listed : o.id = id /\ o.number < c.number}
               IN {c \in after : \A o \in after : c.number <= o.number}
SaveAndNextRow ==
  /\ Editing
  /\ \E id \in OpenId(page.editor, Listed) :
       EditorSteps(SaveAndNext(page.editor, {[row |-> r.id, draft |-> DraftOf(r)] : r \in NextRow(id)}, Listed), page)
CloseRow == Editing /\ page' = [page EXCEPT !.editor = Closed] /\ UNCHANGED queryVars

AskToDeleteRow ==
  /\ Editing
  /\ \E id \in OpenId(page.editor, Listed) : page' = [page EXCEPT !.dialog = [kind |-> "row", id |-> id]]
  /\ UNCHANGED queryVars

-----------------------------------------------------------------------------
(* ChainCell: a hop's dialog, on the cable the chain showed.                *)

ShownHops == {c \in p.inCables : \E ch \in Listed : \E n \in {0, 1} :
                \E i \in DOMAIN WalkBackward([kind |-> "channel", id |-> ch.id, port |-> n, dir |-> "in"], p).hops :
                  WalkBackward([kind |-> "channel", id |-> ch.id, port |-> n, dir |-> "in"], p).hops[i].cable = c.id}
OpenHop(c) ==
  /\ OnSheet /\ ~page.readOnly /\ c \in ShownHops
  /\ page' = [page EXCEPT !.dialog = [kind |-> "hop", cable |-> c]]
  /\ UNCHANGED queryVars
EditHopInFlow ==
  /\ page.dialog.kind = "hop"
  /\ OpenInFlow([kind |-> page.dialog.cable.from.kind, id |-> page.dialog.cable.from.id])
  /\ UNCHANGED queryVars

-----------------------------------------------------------------------------
(* InputGraphCanvas: ports, cables and nodes.                               *)

\* The ports each node draws: the sources and the channels of a desk share a box each; a
\* desk's panels are drawn as far as a cable is still on them.
SourcesNode == UNION {SourcePorts(s) : s \in p.sources}
ChannelsNode == UNION {ChannelPorts(c) : c \in Deskless}
ConsoleNode(desk) == UNION {ChannelPorts(c) : c \in {x \in p.channels : x.desk = desk.id}}
LocalJackNode(desk) == ConsoleLocalInPorts(desk, LocalInJackCount(desk, p.inCables))
AuxJackNode(desk) == ConsoleAuxPorts(desk, AuxJackCount(desk, p.inCables))
StageboxNode(box) == InputStageboxPorts(box)
StageMultiNode(multi) == InputMultiPorts(multi)
DeviceNode(device) == InputDevicePorts(device)
DrawnPorts ==
  SourcesNode \cup ChannelsNode
  \cup UNION ({ConsoleNode(d) \cup LocalJackNode(d) \cup AuxJackNode(d) : d \in p.desks}
              \cup {StageboxNode(b) : b \in p.boxes} \cup {StageMultiNode(m) : m \in p.multis}
              \cup {DeviceNode(d) : d \in p.inDevices})
Nodes ==
  {[kind |-> "source", id |-> s.id] : s \in p.sources}
  \cup {[kind |-> "channel", id |-> d.id] : d \in p.desks}
  \cup {[kind |-> "channel", id |-> NoDesk] : x \in {y \in {0} : Deskless # {} \/ p.desks = {}}}
  \cup {[kind |-> "console_local", id |-> d.id] : d \in {x \in p.desks : LocalInJackCount(x, p.inCables) > 0}}
  \cup {[kind |-> "console_aux", id |-> d.id] : d \in {x \in p.desks : AuxJackCount(x, p.inCables) > 0}}
  \cup {[kind |-> "stagebox", id |-> b.id] : b \in p.boxes}
  \cup {[kind |-> "stage_multi", id |-> m.id] : m \in p.multis}
  \cup {[kind |-> "device", id |-> d.id] : d \in p.inDevices}

OnCanvas == page.tab = "flow" /\ page.dialog = NoDialog
Select(node) == /\ OnCanvas /\ page.selection # {node}
                /\ page' = [page EXCEPT !.selection = {node}]
                /\ UNCHANGED queryVars
CloseInspector == /\ OnCanvas /\ page.selection # {}
                  /\ page' = [page EXCEPT !.selection = {}]
                  /\ UNCHANGED queryVars

\* A source's port always starts or ends a connection; any other port with a cable on it
\* shows that cable.
TakenPort(q) == q.kind # "source" /\ IsInputPortConnected(q, p.inCables)

\* A second port of a stereo source is offered the item its first port's cable is.
SuggestedItem(from) ==
  IF from.kind = "source" /\ \E s \in p.sources : s.id = from.id /\ s.width = "stereo"
  THEN UNION {c.item : c \in FirstById({x \in p.inCables : x.from = [from EXCEPT !.port = 1 - @]})}
  ELSE {}

\* A hop that is no cable is made at once; any other asks which cable it is.
AttemptConnect(from, to, pg) ==
  IF IsCablelessEdge(from.kind, to.kind)
  THEN /\ page' = pg
       /\ Ask([op |-> "createCable", side |-> "in", cable |-> NewCable(from, to)], Silently)
  ELSE /\ page' = [pg EXCEPT !.dialog = [kind |-> "picker", cable |-> NewCable(from, to), suggested |-> SuggestedItem(from)]]
       /\ UNCHANGED queryVars
Connect(a, b, pg) == IF a.dir = "out" THEN AttemptConnect(End(a), End(b), pg) ELSE AttemptConnect(End(b), End(a), pg)

ClickPort(q) ==
  /\ OnCanvas
  /\ \/ /\ TakenPort(q)
        /\ page' = [page EXCEPT !.dialog =
             [kind |-> "info", cable |-> CHOOSE c \in InputCableAtPort(q, p.inCables) : TRUE]]
        /\ UNCHANGED queryVars
     \/ /\ ~TakenPort(q) /\ ~page.readOnly
        /\ IF \E w \in page.pending : w.dir # q.dir
           THEN \E w \in page.pending : Connect(w, q, [page EXCEPT !.pending = {}])
           ELSE /\ page' = [page EXCEPT !.pending = IF @ = {q} THEN {} ELSE {q}]
                /\ UNCHANGED queryVars

\* A cable drawn from one port to another. A target with a cable on it is refused.
DragCable(q, target) ==
  /\ OnCanvas /\ ~page.readOnly
  /\ ~TakenPort(q) /\ target.dir # q.dir /\ ~TakenPort(target)
  /\ Connect(q, target, page)

\* The dialogs close at once; what they ask for is about the cable they were opened on.
PickCable(item) ==
  /\ page.dialog.kind = "picker"
  /\ Ask([op |-> "createCable", side |-> "in", cable |-> [page.dialog.cable EXCEPT !.item = item]], Silently)
  /\ page' = [page EXCEPT !.dialog = NoDialog]
\* History: the cable the dialog showed.
AboutCable == [kind |-> "cable", cable |-> page.dialog.cable]
ChangeCableItem(item) ==
  /\ page.dialog.kind \in {"info", "hop"} /\ ~page.readOnly
  /\ ~IsCablelessEdge(page.dialog.cable.from.kind, page.dialog.cable.to.kind)
  /\ Ask([op |-> "updateCable", side |-> "in", id |-> page.dialog.cable.id, item |-> item], AboutCable)
  /\ page' = [page EXCEPT !.dialog = NoDialog]
\* Mutant of Disconnect: the dialog keeps the port it was opened at.
DisconnectPort ==
  /\ page.dialog.kind \in {"info", "hop"} /\ ~page.readOnly
  /\ \E c \in p.inCables : /\ c.from = page.dialog.cable.from
                            /\ Ask([op |-> "deleteCable", side |-> "in", id |-> c.id], AboutCable)
  /\ page' = [page EXCEPT !.dialog = NoDialog]
Disconnect ==
  /\ page.dialog.kind \in {"info", "hop"} /\ ~page.readOnly
  /\ Ask([op |-> "deleteCable", side |-> "in", id |-> page.dialog.cable.id], AboutCable)
  /\ page' = [page EXCEPT !.dialog = NoDialog]

\* Mutant of MoveRequest: the whole box as this render has it.
MoveWholeRow(node, pos) ==
  IF node.kind = "stagebox"
  THEN [op |-> "updateBox", id |-> node.id, fields |-> [CHOOSE b \in p.boxes : b.id = node.id EXCEPT !.pos = pos]]
  ELSE [op |-> "updateMulti", row |-> [CHOOSE m \in p.multis : m.id = node.id EXCEPT !.pos = pos]]
\* A node dragged to another place: a box sends its place alone, a multi its whole row as
\* this render has it.
MoveRequest(node, pos) ==
  IF node.kind = "stagebox" THEN [op |-> "updateBox", id |-> node.id, fields |-> [pos |-> pos]]
  ELSE [op |-> "updateMulti", row |-> [CHOOSE m \in p.multis : m.id = node.id EXCEPT !.pos = pos]]
MoveNode(node, pos) ==
  /\ OnCanvas /\ ~page.readOnly /\ node.kind \in {"stagebox", "stage_multi"}
  /\ Ask(MoveRequest(node, pos), Silently)
  /\ UNCHANGED page

-----------------------------------------------------------------------------
(* InputFlowInspector and the Sources rail.                                 *)

\* The source the rail is open on, if it is still there.
InspectedSource == UNION {Row(p.sources, n.id) : n \in {x \in page.selection : x.kind = "source"}}

AddSource == /\ OnCanvas /\ ~page.readOnly
             /\ Ask([op |-> "createSource", width |-> "mono"], [kind |-> "select"])
             /\ UNCHANGED page
SaveSource(width) ==
  /\ OnCanvas /\ ~page.readOnly
  /\ \E s \in InspectedSource : Ask([op |-> "updateSource", id |-> s.id, width |-> width], Silently)
  /\ UNCHANGED page
DuplicateSource ==
  /\ OnCanvas /\ ~page.readOnly
  /\ \E s \in InspectedSource : Ask([op |-> "createSource", width |-> s.width], Silently)
  /\ UNCHANGED page
AskToDeleteSource ==
  /\ OnCanvas /\ ~page.readOnly
  /\ \E s \in InspectedSource : page' = [page EXCEPT !.dialog = [kind |-> "source", id |-> s.id]]
  /\ UNCHANGED queryVars

\* A confirmation names the row it was raised for. The rail's shows only while that row
\* is the one the rail is open on.
ConfirmDelete ==
  /\ \/ /\ page.dialog.kind = "row"
        /\ page' = [page EXCEPT !.dialog = NoDialog]
        /\ Ask([op |-> "deleteChannel", id |-> page.dialog.id], Silently)
     \/ /\ page.dialog.kind = "source" /\ \E s \in InspectedSource : s.id = page.dialog.id
        /\ page' = [page EXCEPT !.dialog = NoDialog, !.selection = {}]
        /\ Ask([op |-> "deleteSource", id |-> page.dialog.id], Silently)
Cancel == page.dialog # NoDialog /\ page' = [page EXCEPT !.dialog = NoDialog] /\ UNCHANGED queryVars

-----------------------------------------------------------------------------
(* MobileChannelEditSheet: the row, then its cables, one request at a time. *)

OnPhone == page.tab = "phone" /\ page.phone.open # {} /\ ~page.readOnly
\* Where the channel may be said to come from: a jack of a panel or none, and a source.
Panels == {[kind |-> "stagebox", id |-> b.id, count |-> b.ins] : b \in p.boxes}
          \cup {[kind |-> "console_local", id |-> d.id, count |-> LocalInJackCount(d, p.inCables)] : d \in p.desks}
          \cup {[kind |-> "console_aux", id |-> d.id, count |-> AuxJackCount(d, p.inCables)] : d \in p.desks}
Routings ==
  LET fed == {{}} \cup {{s.id} : s \in p.sources} IN
  {[panel |-> {}, port |-> {}, source |-> s] : s \in fed}
  \cup UNION {{[panel |-> {[kind |-> k.kind, id |-> k.id]}, port |-> {n}, source |-> s] : n \in First(k.count), s \in fed}
               : k \in Panels}
OpenPhone(id) ==
  /\ page.tab = "phone" /\ page.phone.open = {} /\ calls = {} /\ fetch = Q!Idle /\ (id = 0 => ~page.readOnly)
  /\ page' = [page EXCEPT !.phone = [NoPhone EXCEPT !.open = {id}, !.sheet = made, !.desired = ResolveChannelRouting(id, p.inCables)]]
  /\ UNCHANGED queryVars
ChooseRouting(routing) ==
  /\ OnPhone
  /\ page' = [page EXCEPT !.phone.desired = routing]
  /\ UNCHANGED queryVars
\* Nothing is saved without a desk: the row's own, or for a new row the one listed.
SavedDesk == LET rows == UNION {Row(p.channels, id) : id \in page.phone.open}
             IN IF rows = {} THEN ListedDesk ELSE (CHOOSE r \in rows : TRUE).desk
\* What is saved is what this render has: the fields, and the cables to change. A row that
\* went away under the sheet is made again, on the first free strip of the listed desk.
\* `fresh` is history: whether the cables on this render were those of the server.
SavePhone ==
  /\ OnPhone /\ ~page.phone.saving /\ SavedDesk # NoDesk
  /\ page' = [page EXCEPT !.phone.saving = TRUE, !.phone.failed = FALSE]
  /\ LET rows == UNION {Row(p.channels, id) : id \in page.phone.open}
         then == [kind |-> "phone", sheet |-> page.phone.sheet, plan |-> <<>>, cables |-> p.inCables, fresh |-> stored.inCables = p.inCables,
                  desired |-> page.phone.desired]
     IN IF rows = {} THEN Ask([op |-> "createChannel", number |-> 0, desk |-> ListedDesk], then)
        ELSE \E c \in rows : Ask([op |-> "updateChannel", id |-> c.id, number |-> c.number,
                                  width |-> c.width, desk |-> c.desk], then)
PhonePlan(id, then) ==
  LET ops == ComputeRoutingSave(id, then.cables, then.desired) IN
  SetToSeq({[op |-> "deleteCable", side |-> "in", id |-> c] : c \in ops.delete})
  \o SetToSeq({[op |-> "createCable", side |-> "in", cable |-> c] : c \in ops.create})
\* A sheet closed while it saves goes on saving.
ClosePhone ==
  /\ page.phone.open # {}
  /\ page' = [page EXCEPT !.phone = NoPhone]
  /\ UNCHANGED queryVars

\* The next step of a save is taken when the one before it is answered. A step that fails
\* stops it, asks for nothing, and leaves its sheet open over what was typed; after the
\* last one the page is read again, and then the sheet closes.
HearPhone(c) ==
  LET plan == CASE c.req.op = "createChannel" -> PhonePlan(c.id, c.then)
                [] c.req.op = "updateChannel" -> PhonePlan(c.req.id, c.then)
                [] OTHER -> c.then.plan
  IN IF c.state # "done"
     THEN /\ Q!Answer(c, FALSE, <<>>)
          /\ page' = IF page.phone.open = {} \/ page.phone.sheet # c.then.sheet THEN page
                     ELSE [page EXCEPT !.phone.saving = FALSE, !.phone.failed = TRUE]
     ELSE IF plan = <<>> THEN Q!Answer(c, TRUE, <<>>) /\ page' = [page EXCEPT !.phone.ending = TRUE]
     ELSE /\ Q!Answer(c, FALSE, <<[req |-> Head(plan), then |-> [c.then EXCEPT !.plan = Tail(plan)]]>>)
          /\ UNCHANGED page

-----------------------------------------------------------------------------
(* The answers.                                                             *)

\* A refused row is to be opened again with what was typed.
HearRow(c) ==
  /\ Q!Answer(c, c.state = "done", <<>>)
  /\ page' = IF c.n \in page.attached /\ c.state # "done"
             THEN [page EXCEPT !.attached = {}, !.refused = {c.then.write.row}, !.editor = Reopen(@, c.then.write)]
             ELSE [page EXCEPT !.attached = @ \ {c.n}]
HearOther(c) ==
  /\ Q!Answer(c, c.state = "done", <<>>)
  /\ page' = IF c.then.kind = "select" /\ c.state = "done"
             THEN [page EXCEPT !.selection = {[kind |-> "source", id |-> c.id]}]
             ELSE IF c.then.kind = "added" /\ c.state # "done" THEN [page EXCEPT !.refused = {NoDesk}]
             ELSE page
HearAnswer(c) ==
  \/ c.then.kind = "phone" /\ HearPhone(c)
  \/ c.then.kind = "saved" /\ HearRow(c)
  \/ c.then.kind \in {"nothing", "cable", "select", "added"} /\ HearOther(c)

-----------------------------------------------------------------------------
Init == \E start \in Starts : Q!Opened(start.patch, start.spent) /\ page = NewPage(start.views, start.readOnly)

SheetStep ==
  \/ \E desk \in {-1} \cup {d.id : d \in p.desks} : SelectDesk(desk)
  \/ AddToDesk
  \/ \E c \in Listed : OpenSheetRow(c)
  \/ \E draft \in Drafts : TypeDraft(draft)
  \/ SaveRow \/ SaveAndNextRow \/ CloseRow \/ AskToDeleteRow
  \/ \E c \in p.inCables : OpenHop(c)
  \/ EditHopInFlow

CanvasStep ==
  \/ \E node \in Nodes : Select(node)
  \/ CloseInspector
  \/ \E q \in DrawnPorts : ClickPort(q)
  \/ \E q, target \in DrawnPorts : DragCable(q, target)
  \/ \E node \in Nodes, pos \in Positions : MoveNode(node, pos)
  \/ AddSource \/ DuplicateSource \/ AskToDeleteSource
  \/ \E width \in Widths : SaveSource(width)

DialogStep ==
  \/ \E item \in {{}} \cup {{i} : i \in Items} : PickCable(item) \/ ChangeCableItem(item)
  \/ Disconnect \/ ConfirmDelete \/ Cancel

PhoneStep ==
  \/ \E id \in {0} \cup {c.id : c \in Listed} : OpenPhone(id)
  \/ \E routing \in Routings : ChooseRouting(routing)
  \/ SavePhone \/ ClosePhone

ViewArrives == Q!Arrive /\ page' = IF page.phone.ending THEN [page EXCEPT !.phone = NoPhone] ELSE page
\* Bound: a window is not focused when that would show nothing new (QueriedPage has every
\* GET at every time).
Elsewhere ==
  \/ \E c \in calls : Q!Serve(c) \/ Q!Lose(c)
  \/ Q!ReadStore \/ Q!LoseRead \/ (stored # p /\ Q!Focus)
  \/ \E req \in OthersRequests : Q!OtherClient(req)
Next ==
  \/ SheetStep \/ CanvasStep \/ DialogStep \/ PhoneStep
  \/ \E tab \in {"sheet", "flow"} : ShowView(tab)
  \/ \E c \in calls : HearAnswer(c)
  \/ ViewArrives
  \/ Elsewhere /\ UNCHANGED page
Spec == Init /\ [][Next]_pageVars
=============================================================================

----------------------------- MODULE RoutingPage ----------------------------
(***************************************************************************)
(* The Desk Routing tab (frontend/src/components/event: DeskRoutingTab,    *)
(* RoutingGrid, RecorderTable, DeskRoutingCanvas): one desk's insides, a   *)
(* table at a time. A table of mixes has one column open for editing at    *)
(* most, the table of the recorder is edited as a whole, and the drawing   *)
(* opens the tables. In the hand a mix is a sheet of ticks.                *)
(***************************************************************************)
EXTENDS RoutingStore

CONSTANTS Starts,      \* what the tab opens on: records [patch, table, phone, parts, readOnly, spent]
          TypedSlots,  \* what is typed in a column's slot
          MaxCalls, MaxOthers,
          OthersRequests

VARIABLES stored, made, others, written, told, calls, fetch, view, page
queryVars == <<stored, made, others, written, told, calls, fetch, view>>
pageVars == <<queryVars, page>>

Q == INSTANCE PageQueries WITH Apply <- ApplyRouting

shown == view.data
Ask(req, then) == Q!Send(<<[req |-> req, then |-> then]>>)

TABLE_KIND == [mains |-> "main", subgroups |-> "subgroup", monitors |-> "monitor", fx |-> "fx", matrices |-> "matrix",
               dcas |-> "dca", mutes |-> "mute"]
Tables == DOMAIN TABLE_KIND \cup {"recorder"}
TableOf(kind) == CHOOSE t \in DOMAIN TABLE_KIND : TABLE_KIND[t] = kind

\* `desk` is the choice the audio sheets share, 0 none; `open` the column that is open, with its draft; `drafts` the
\* tracks being edited, by number; `picked` the sheet in the hand, over the mix as it was when it was opened;
\* `settling` the kinds of save whose new look at the plan is not in yet.
\* Bound: `parts` are the operations a run uses of those there are.
NewPage(start) ==
  [parts |-> start.parts, phone |-> start.phone, readOnly |-> start.readOnly, desk |-> 0, view |-> "sheet", table |-> start.table,
   adding |-> FALSE, dialog |-> {}, open |-> {}, showAll |-> FALSE, drafts |-> {}, picked |-> {}, selected |-> {}, settling |-> {}]

\* A desk that is gone falls back to the first.
resolveDeskSelection(chosen, desks) ==
  IF \E d \in desks : d.id = chosen THEN CHOOSE d \in desks : d.id = chosen
  ELSE CHOOSE d \in desks : \A e \in desks : d.id <= e.id
desk == resolveDeskSelection(page.desk, shown.desks)
mixes == MixesOn(shown, desk.id)
channels == {c \in shown.channels : c.desk = desk.id}
deskRoutes == RoutesOn(shown, desk.id)
Used(part) == part \in page.parts /\ page.dialog = {} /\ page.picked = {}
SheetUp == page.phone \/ page.view = "sheet"
kind == TABLE_KIND[page.table]
columns == {m \in mixes : m.kind = kind}
Pending(name) == name \in page.settling \/ \E c \in calls : c.then.kind = name

-----------------------------------------------------------------------------
(* What is on show.                                                         *)

Shut(pg) == [pg EXCEPT !.open = {}, !.showAll = FALSE]
\* The tracks' table is not told of a change of desk: its drafts stay.
SelectDesk(d) ==
  /\ Used("desk") /\ Cardinality(shown.desks) > 1 /\ d # desk
  /\ page' = [Shut(page) EXCEPT !.desk = d.id]
  /\ UNCHANGED queryVars
Showing(pg, table) ==
  IF table = pg.table THEN pg ELSE [Shut(pg) EXCEPT !.table = table, !.drafts = {}]
SelectTable(table) ==
  /\ Used("tables") /\ SheetUp /\ table # page.table
  /\ page' = Showing(page, table)
  /\ UNCHANGED queryVars
SetView(v) ==
  /\ Used("flow") /\ ~page.phone /\ v # page.view
  /\ page' = [Shut(page) EXCEPT !.view = v, !.drafts = {}, !.selected = {}]
  /\ UNCHANGED queryVars
\* The drawing has the desk's channels, its mixes and its recorder; the last two have tables.
Nodes == {[kind |-> "channel", id |-> c.id] : c \in channels} \cup {[kind |-> "mix", id |-> m.id] : m \in mixes}
         \cup {[kind |-> "recorder", id |-> d.id] : d \in {x \in {desk} : x.recorder}}
SelectNode(node) ==
  /\ Used("flow") /\ ~SheetUp
  /\ page' = [page EXCEPT !.selected = IF @ = {node} THEN {} ELSE {node}]
  /\ UNCHANGED queryVars
OpenTable(node) ==
  /\ Used("flow") /\ ~SheetUp /\ page.selected = {node} /\ node.kind # "channel"
  /\ LET table == IF node.kind = "recorder" THEN "recorder" ELSE TableOf((CHOOSE m \in mixes : m.id = node.id).kind)
     IN page' = [Showing(page, table) EXCEPT !.view = "sheet", !.selected = {}]
  /\ UNCHANGED queryVars

-----------------------------------------------------------------------------
(* + Mix.                                                                   *)

addableKinds(model) ==
  {k \in UserMixKinds : Engine(model) = "lv1" /\ k \in {"subgroup", "monitor"} => PoolCapacity(model, k) > 0}
ToggleAdding ==
  Used("add") /\ ~page.phone /\ SheetUp /\ ~page.readOnly /\ page' = [page EXCEPT !.adding = ~@] /\ UNCHANGED queryVars
\* Offered in the menu, in a table that is empty, and in the hand on every table but the mains'.
Offers(k) ==
  \/ page.phone /\ page.table # "recorder" /\ k = kind /\ k # "main"
  \/ ~page.phone /\ k \in addableKinds(desk.model) /\ (page.adding \/ (page.table # "recorder" /\ columns = {} /\ k = kind))
Create(k) ==
  /\ Used("add") /\ SheetUp /\ ~page.readOnly /\ Offers(k)
  /\ Ask([op |-> "createMix", desk |-> desk.id, kind |-> k], [kind |-> "create"])
  /\ UNCHANGED page

-----------------------------------------------------------------------------
(* The tables of mixes.                                                     *)

SourcesOf(mix) == {[kind |-> r.src.kind, id |-> r.src.id] : r \in Into(deskRoutes, "mix", mix.id)}
\* On an LV1 matrix the channels are those in use, until all are asked for.
SOURCE_MIX_KINDS == {"main", "subgroup", "monitor", "fx", "matrix"}
ChannelRow(id) == [kind |-> "channel", id |-> id, slot |-> 0]
visibleChannels ==
  LET folded == kind = "matrix" /\ Engine(desk.model) = "lv1" /\ ~page.showAll
      usedHere == UNION ({SourcesOf(m) : m \in columns} \cup {o.sources : o \in page.open})
  IN {c \in channels : RuleOf(desk.model, "channel", kind) # "no" /\ (folded => [kind |-> "channel", id |-> c.id] \in usedHere)}
Rows == {ChannelRow(c.id) : c \in visibleChannels}
        \cup {[kind |-> m.kind, id |-> m.id, slot |-> m.slot] : m \in {x \in mixes : x.kind \in SOURCE_MIX_KINDS}}
Key(row) == [kind |-> IF row.kind = "channel" THEN "channel" ELSE "mix", id |-> row.id]
Flip(set, x) == IF x \in set THEN set \ {x} ELSE set \cup {x}

GridUp == ~page.phone /\ SheetUp /\ page.table # "recorder"
\* The open column, while there is such a column.
OpenOnes == IF GridUp THEN {m \in columns : \E o \in page.open : o.id = m.id} ELSE {}
Draft == CHOOSE o \in page.open : TRUE
PressHead(mix) ==
  /\ Used("grid") /\ GridUp /\ ~page.readOnly
  /\ page' = [page EXCEPT !.open = IF mix \in OpenOnes THEN {}
                                   ELSE {[id |-> mix.id, sources |-> SourcesOf(mix), slot |-> mix.slot, width |-> mix.width]}]
  /\ UNCHANGED queryVars
SetDraft(draft) == page' = [page EXCEPT !.open = {draft}] /\ UNCHANGED queryVars
\* A square is a control where the stored column could have the route.
Toggle(mix, row) ==
  /\ Used("grid") /\ CellAllowed(desk.model, row, mix)
  /\ SetDraft([Draft EXCEPT !.sources = Flip(@, Key(row))])
TypeSlot(mix, slot) ==
  /\ Used("fields") /\ mix.kind # "main" /\ slot # Draft.slot /\ SetDraft([Draft EXCEPT !.slot = slot])
PickWidth(mix) ==
  /\ Used("fields") /\ mix.kind \notin {"main", "dca", "mute"} /\ ~StereoForced(desk.model, mix.kind)
  /\ SetDraft([Draft EXCEPT !.width = IF @ = "mono" THEN "stereo" ELSE "mono"])
ShowAll ==
  /\ Used("grid") /\ GridUp /\ kind = "matrix" /\ Engine(desk.model) = "lv1" /\ ~page.showAll
  /\ page' = [page EXCEPT !.showAll = TRUE]
  /\ UNCHANGED queryVars
Update(mix, sources) == [op |-> "updateMix", id |-> mix.id, slot |-> mix.slot, width |-> mix.width, sources |-> sources]
\* The column closes as it is sent.
SaveColumn(mix) ==
  /\ Used("grid") /\ ~Pending("save")
  /\ Ask(Update(Draft, Draft.sources), [kind |-> "save"])
  /\ page' = [page EXCEPT !.open = {}]
AskToDelete(mix) == Used("grid") /\ mix.kind # "main" /\ page' = [page EXCEPT !.dialog = {mix.id}] /\ UNCHANGED queryVars
ConfirmDelete ==
  /\ \E id \in page.dialog : Ask([op |-> "deleteMix", id |-> id], [kind |-> "removal"])
  /\ page' = [page EXCEPT !.dialog = {}]
CancelDelete == page.dialog # {} /\ page' = [page EXCEPT !.dialog = {}] /\ UNCHANGED queryVars

-----------------------------------------------------------------------------
(* In the hand.                                                             *)

OpenPhone(mix) ==
  /\ page.phone /\ Used("grid") /\ page.table # "recorder"
  /\ page' = [page EXCEPT !.picked = {[mix |-> mix, sources |-> SourcesOf(mix)]}]
  /\ UNCHANGED queryVars
candidates(mix) ==
  {row \in {ChannelRow(c.id) : c \in channels} \cup
           {[kind |-> m.kind, id |-> m.id, slot |-> m.slot] : m \in {x \in mixes : x.kind \notin {"dca", "mute"}}}
     : CellAllowed(desk.model, row, mix)}
Tick(p) ==
  /\ ~page.readOnly
  /\ \E row \in candidates(p.mix) : page' = [page EXCEPT !.picked = {[p EXCEPT !.sources = Flip(@, Key(row))]}]
  /\ UNCHANGED queryVars
SavePhone(p) ==
  /\ ~page.readOnly
  /\ Ask(Update(p.mix, p.sources), [kind |-> "save"])
  /\ page' = [page EXCEPT !.picked = {}]
ClosePhone(p) == page' = [page EXCEPT !.picked = {}] /\ UNCHANGED queryVars

-----------------------------------------------------------------------------
(* The recorder's table.                                                    *)

NoDraft == [record |-> {}, play |-> 0, mode |-> "soundcheck"]
draftsFrom(tracks) ==
  [t \in 1 .. tracks |->
     LET record == {r.src : r \in {x \in Into(deskRoutes, "recorder", desk.id) : TrackOf(x) = t}}
         plays == {r \in deskRoutes : Playing(r) /\ r.src.id = desk.id /\ TrackOf(r) = t}
     IN IF plays = {} THEN [NoDraft EXCEPT !.record = record]
        ELSE LET r == CHOOSE x \in plays : TRUE IN [record |-> record, play |-> r.dst.id, mode |-> r.mode]]
recordOptions ==
  {Port("channel", c.id, 0) : c \in channels}
  \cup UNION {{Port("mix", m.id, side) : side \in IF m.width = "stereo" THEN {0, 1} ELSE {0}}
                : m \in {x \in mixes : x.kind \notin {"dca", "mute"}}}
TracksUp == Used("tracks") /\ SheetUp /\ page.table = "recorder" /\ desk.recorder /\ ~page.readOnly
Tracks == CHOOSE d \in page.drafts : TRUE
EditTracks ==
  /\ TracksUp /\ page.drafts = {}
  /\ page' = [page EXCEPT !.drafts = {draftsFrom(TracksOf(desk))}]
  /\ UNCHANGED queryVars
SetTrack(t, draft) == draft # Tracks[t] /\ page' = [page EXCEPT !.drafts = {[Tracks EXCEPT ![t] = draft]}] /\ UNCHANGED queryVars
TypeTrack ==
  /\ TracksUp /\ page.drafts # {}
  /\ \E t \in DOMAIN Tracks :
       \/ \E record \in {{}} \cup {{p} : p \in recordOptions} : SetTrack(t, [Tracks[t] EXCEPT !.record = record])
       \/ \E play \in {0} \cup {c.id : c \in channels} : SetTrack(t, [Tracks[t] EXCEPT !.play = play])
       \/ \E mode \in {"soundcheck", "source"} : Tracks[t].play # 0 /\ SetTrack(t, [Tracks[t] EXCEPT !.mode = mode])
RowRoutes(t) ==
  {Joined(desk.id, p, Recorder(desk.id, t), "") : p \in Tracks[t].record}
  \cup {Joined(desk.id, Recorder(desk.id, t), Port("channel", id, 0), Tracks[t].mode) : id \in {Tracks[t].play} \ {0}}
\* Mutant of PastTheCount: what the table has no row for is not sent.
NothingPast == {}
\* "Tracks past the recorder's count that a model switch kept are sent back as they are."
PastTheCount == {r \in deskRoutes : (Recording(r) \/ Playing(r)) /\ TrackOf(r) > TracksOf(desk)}
\* `shown` and `count` are history: what the page showed of the desk as it sent.
SaveTracks ==
  /\ TracksUp /\ page.drafts # {} /\ ~Pending("tracks")
  /\ Ask([op |-> "setTracks", desk |-> desk.id, rows |-> UNION {RowRoutes(t) : t \in DOMAIN Tracks}, kept |-> PastTheCount],
         [kind |-> "tracks", shown |-> deskRoutes, count |-> TracksOf(desk)])
  /\ page' = [page EXCEPT !.drafts = {}]
CancelTracks == TracksUp /\ page.drafts # {} /\ page' = [page EXCEPT !.drafts = {}] /\ UNCHANGED queryVars
Fill ==
  /\ TracksUp /\ page.drafts = {} /\ ~Pending("tracks")
  /\ Ask([op |-> "fillRecorder", desk |-> desk.id], [kind |-> "tracks"])
  /\ UNCHANGED page

-----------------------------------------------------------------------------
(* The answers.                                                             *)

\* A new mix brings its table up, whatever is open on the one on show.
HearCreate(c) ==
  /\ Q!Answer(c, c.state = "done", <<>>)
  /\ page' = IF c.state # "done" THEN page
             ELSE [Showing(page, TableOf((CHOOSE m \in c.reply : TRUE).kind)) EXCEPT !.adding = FALSE]
HearSave(c) ==
  /\ Q!Answer(c, c.state = "done", <<>>)
  /\ page' = IF c.state = "done" THEN [page EXCEPT !.settling = @ \cup {c.then.kind}] ELSE page
HearAnswer(c) ==
  \/ c.then.kind = "create" /\ HearCreate(c)
  \/ c.then.kind # "create" /\ HearSave(c)
\* A table goes with its last column.
ViewArrives ==
  /\ Q!Arrive
  /\ page' = [page EXCEPT !.settling = {},
                !.open = IF page.table # "recorder" /\ ~\E m \in view'.data.mixes : m.desk = desk.id /\ m.kind = kind THEN {} ELSE @]

-----------------------------------------------------------------------------
Init == \E start \in Starts : Q!Opened(start.patch, start.spent) /\ page = NewPage(start)

ShowStep ==
  \/ \E d \in shown.desks : SelectDesk(d)
  \/ \E table \in Tables : SelectTable(table)
  \/ \E v \in {"sheet", "flow"} : SetView(v)
  \/ \E node \in Nodes : SelectNode(node) \/ OpenTable(node)
AddStep == ToggleAdding \/ \E k \in MixKinds : Create(k)
GridStep ==
  \/ page.table # "recorder" /\ \E mix \in columns : PressHead(mix) \/ OpenPhone(mix)
  \/ \E mix \in OpenOnes :
       \/ \E row \in Rows : Toggle(mix, row)
       \/ \E slot \in TypedSlots : TypeSlot(mix, slot)
       \/ PickWidth(mix) \/ SaveColumn(mix) \/ AskToDelete(mix)
  \/ page.table # "recorder" /\ ShowAll
  \/ ConfirmDelete \/ CancelDelete
  \/ \E p \in page.picked : Tick(p) \/ SavePhone(p) \/ ClosePhone(p)
RecorderStep == EditTracks \/ TypeTrack \/ SaveTracks \/ CancelTracks \/ Fill
Elsewhere ==
  \/ \E c \in calls : Q!Serve(c) \/ Q!Lose(c)
  \/ Q!ReadStore \/ Q!LoseRead
  \/ stored # view.data /\ Q!Focus
  \/ \E req \in OthersRequests : Q!OtherClient(req)
Next ==
  \/ ShowStep \/ AddStep \/ GridStep \/ RecorderStep
  \/ \E c \in calls : HearAnswer(c)
  \/ ViewArrives
  \/ Elsewhere /\ UNCHANGED page
Spec == Init /\ [][Next]_pageVars

-----------------------------------------------------------------------------
\* What is sent, while the page shows what the server has, of a column of the desk with its slot and its width
\* as they are and with sources that are stored or squares of it.
Offered(m, key) == key \in SourcesOf(m) \/ \E row \in candidates(m) : Key(row) = key
OffersSent(m, req) ==
  /\ stored = shown /\ m.slot = req.slot /\ m.width = req.width
  /\ \A key \in req.sources : Offered(m, key)

\* "A cell is never offered that the save would refuse": no offer is refused but for the number of
\* sources of an LV1 matrix, which no square looks at.
OfferedIsTakenStep ==
  \A c \in calls' \ calls : c.req.op = "updateMix" => \A m \in OfId(mixes, c.req.id) :
    OffersSent(m, c.req) /\ ~PastMatrixLimit(desk.model, m, c.req) => ApplyRouting(c.req, stored) # {}

\* The words as they stand: no offer is refused.
NoOfferRefusedStep ==
  \A c \in calls' \ calls : c.req.op = "updateMix" => \A m \in OfId(mixes, c.req.id) :
    OffersSent(m, c.req) => ApplyRouting(c.req, stored) # {}

\* "Saving the table never drops them": the tracks past the count the table was sent with, as it showed them.
PastTracksStayStep ==
  \A c \in calls : c.req.op = "setTracks" /\ c.state = "sent" /\ written' # written /\ c \notin calls' =>
    \A r \in stored.routes \cap c.then.shown : (Recording(r) \/ Playing(r)) /\ TrackOf(r) > c.then.count => r \in stored'.routes
=============================================================================

---------------------------- MODULE StagePlotPage ---------------------------
(***************************************************************************)
(* The Stage Plots tab: the plots, the canvas in its three views with the  *)
(* measure tool, the inspectors, the layers and the truss drawer, and the  *)
(* phone's reading of them (frontend/src/components/event: StagePlotTab,   *)
(* StagePlotCanvas, StagePlotInspector, PlotMeasurementLayer,              *)
(* StagePlotPalette, PlotTrussManager).  Changes of an element or a        *)
(* measurement show at once or by the answered row; every other save asks  *)
(* for the page again.  The canvas is at one pixel to the centimetre.      *)
(***************************************************************************)
EXTENDS PlotStore, TLC

CONSTANTS Starts,         \* what the page opens on: records [patch, parts, points, phone, readOnly, spent],
                          \* `points` those of a view's plane, its v up in the elevations, that are pressed
          Templates,      \* elements the palette places
          MaxCalls, MaxOthers,
          OthersRequests  \* what another client may ask meanwhile

VARIABLES stored, made, others, written, told, calls, fetch, view, page
queryVars == <<stored, made, others, written, told, calls, fetch, view>>
pageVars == <<queryVars, page>>

Q == INSTANCE PageQueries WITH Apply <- ApplyPlot

p == view.data
NoDrag == [kind |-> "none"]
NoDialog == [kind |-> "none"]
\* Bound: `parts` of the tab a run works in: "plots", "layers", "canvas", "handles",
\* "measure", "panels", "links", "order", "trusses".
\* Choices are sets of at most one id; `first` is the first pick of a measurement, `after`
\* what will be chosen when the GET that shows it arrives.
NewPage(start) ==
  [phone |-> start.phone, readOnly |-> start.readOnly, parts |-> start.parts, points |-> start.points, plot |-> {}, view |-> "top", element |-> {},
   measure |-> {}, layer |-> {}, tool |-> {}, first |-> {}, drag |-> NoDrag, dialog |-> NoDialog, manager |-> FALSE, after |-> {}]

-----------------------------------------------------------------------------
(* What is shown.                                                           *)

InOrder(rows) == SetToSortSeq(rows, LAMBDA a, b : a.id < b.id)
Initial(ids) == IF ids = {} THEN {} ELSE {Least(ids)}
ActiveOf(chosen, plots) == IF chosen # {} /\ chosen \subseteq plots THEN chosen ELSE Initial(plots)
ActivePlot == ActiveOf(page.plot, p.plots)
\* Another plot has a canvas of its own, with nothing held and nothing picked.
OnItsCanvas(pg, plots) == IF ActiveOf(pg.plot, plots) = ActivePlot THEN pg ELSE [pg EXCEPT !.first = {}, !.drag = NoDrag]
OfPlot(rows) == {r \in rows : {r.plot} = ActivePlot}
Elements == OfPlot(p.elements)
Layers == OfPlot(p.layers)
Heads == {p.heads[id] : id \in ActivePlot}
Settings == The(Heads)
ShownView == IF page.phone THEN page.view ELSE Settings.view
LayerOf(row) == CHOOSE l \in Layers : l.id = row.layer
Placeable(l) == l.visible /\ ~l.locked
FirstLayer(layers) == {l.id : l \in {x \in layers : \A y \in layers : x.sort < y.sort \/ (x.sort = y.sort /\ x.id <= y.id)}}
\* The layer chosen, if something can be placed on it; else the first where something can.
ActiveLayer ==
  LET placeable == {l \in Layers : Placeable(l)}
  IN IF \E l \in placeable : page.layer = {l.id} THEN page.layer
     ELSE IF placeable # {} THEN FirstLayer(placeable) ELSE FirstLayer(Layers)
\* A hidden layer takes the selection on it away.
SelectedElement == {e \in Elements : page.element = {e.id} /\ \E l \in Layers : l.id = e.layer /\ l.visible}
SelectedMeasurement == {m \in OfPlot(p.measures) : page.measure = {m.id} /\ \E l \in Layers : l.id = m.layer /\ l.visible}
\* Elements as they are drawn and measured, on hidden layers too.
Measurable == {EffectiveElement(e, p) : e \in Elements}
Drawn == {m \in VisibleMeasurements(OfPlot(p.measures), ShownView, Measurable, Layers) :
            MeasurementGeometry(m, Measurable, ShownView) # {}}

-----------------------------------------------------------------------------
(* Saves.                                                                   *)

Refetch == [kind |-> "refetch", chooses |-> "none"]
Choosing(what) == [kind |-> "refetch", chooses |-> what]
Ask(req, then) == Q!Send(<<[req |-> req, then |-> then]>>)
Replaced(rows, row) == {IF r.id = row.id THEN row ELSE r : r \in rows}
\* Shown before it is answered.
\* `by` and `plane` are history: what changed it, and in which view.
UpdateElementOptimistically(e, by, patch) ==
  Q!SendShowing(<<[req |-> [op |-> "updateElement", plot |-> e.plot, id |-> e.id, patch |-> patch],
                   then |-> [kind |-> "element", by |-> by, plane |-> ShownView]]>>,
                [p EXCEPT !.elements = {IF x.id = e.id THEN Patched(x, patch, ElementPatch) ELSE x : x \in @}])
UpdateTheMeasurement(m, patch) ==
  Ask([op |-> "updateMeasurement", plot |-> m.plot, id |-> m.id, patch |-> patch], [kind |-> "measurement"])
Unchanging == [f \in {} |-> 0]

Open == page.drag = NoDrag /\ page.dialog = NoDialog /\ Heads # {}
Editing(part) == Open /\ ~page.phone /\ ~page.readOnly /\ part \in page.parts

-----------------------------------------------------------------------------
(* The plots and their settings.                                            *)

\* Choosing a plot reads it, if nothing is being read.
ChoosePlot(id) ==
  /\ page.dialog = NoDialog /\ page.drag = NoDrag /\ "plots" \in page.parts /\ {id} # ActivePlot
  /\ page' = OnItsCanvas([page EXCEPT !.plot = {id}, !.element = {}], p.plots)
  /\ IF fetch = Q!Idle THEN Q!Focus ELSE UNCHANGED queryVars
CreateThePlot ==
  /\ page.drag = NoDrag /\ page.dialog = NoDialog /\ ~page.phone /\ ~page.readOnly /\ "plots" \in page.parts
  /\ Ask([op |-> "createPlot"], Choosing("plot"))
  /\ UNCHANGED page
RenamePlot == Editing("plots") /\ Ask([op |-> "updatePlot", plot |-> Least(ActivePlot), patch |-> Unchanging], Refetch) /\ UNCHANGED page
\* The dialog and its request are about the plot on show when it was raised.
AskToDeletePlot ==
  /\ Editing("plots")
  /\ page' = [page EXCEPT !.dialog = [kind |-> "plot", req |-> [op |-> "deletePlot", plot |-> Settings.id], then |-> [kind |-> "plotGone"]]]
  /\ UNCHANGED queryVars
\* View, grid and snapping are the plot's, for everyone. Bound: one change at a time.
ChangeSettings(patch) ==
  /\ Editing("plots") /\ ~\E c \in calls : c.then.kind = "settings"
  /\ Ask([op |-> "updatePlot", plot |-> Least(ActivePlot), patch |-> patch], [kind |-> "settings"])
  /\ UNCHANGED page
SettingsPatches == {"view" :> v : v \in Views} \cup {"grid" :> 100}
                   \cup {"snapGrid" :> ~h.snapGrid : h \in Heads} \cup {"snapObjects" :> ~h.snapObjects : h \in Heads}
\* The phone's view is its own.
ShowOnPhone(v) == /\ page.phone /\ page.view # v /\ page' = [page EXCEPT !.view = v]
                  /\ UNCHANGED queryVars

-----------------------------------------------------------------------------
(* The layers.                                                              *)

CreateTheLayer == Editing("layers") /\ Ask([op |-> "createLayer", plot |-> Least(ActivePlot)], Choosing("layer")) /\ UNCHANGED page
LayerPatch(l, patch) == [req |-> [op |-> "updateLayer", plot |-> l.plot, id |-> l.id, patch |-> patch], then |-> Refetch]
ToggleLayer(l, field) == Editing("layers") /\ Q!Send(<<LayerPatch(l, field :> ~l[field])>>) /\ UNCHANGED page
\* Two requests, each with the other's place as this render has it.
Neighbours(rows) == {ab \in rows \X rows : /\ ab[1].sort < ab[2].sort
                                           /\ ~\E r \in rows : ab[1].sort < r.sort /\ r.sort < ab[2].sort}
SwapLayers(a, b) == Editing("order") /\ Q!Send(<<LayerPatch(a, "sort" :> b.sort), LayerPatch(b, "sort" :> a.sort)>>) /\ UNCHANGED page
SetActiveLayer(l) == Open /\ ~page.phone /\ "layers" \in page.parts /\ page' = [page EXCEPT !.layer = {l.id}] /\ UNCHANGED queryVars
AskToDeleteLayer(l) ==
  /\ Editing("layers") /\ Cardinality(Layers) > 1
  /\ page' = [page EXCEPT !.dialog = [kind |-> "layer", req |-> [op |-> "deleteLayer", plot |-> l.plot, id |-> l.id], then |-> Refetch]]
  /\ UNCHANGED queryVars

-----------------------------------------------------------------------------
(* The palette and the element's inspector.                                 *)

CreateTheElement(e) ==
  Ask([op |-> "createElement", plot |-> Least(ActivePlot), element |-> e], [kind |-> "created", chooses |-> "element"])
\* In the middle of what the canvas shows, on the active layer; one at a time.
Place(template, at) ==
  /\ Editing("panels") /\ ActiveLayer # {} /\ ~\E c \in calls : c.then.kind = "created"
  /\ CreateTheElement([template EXCEPT !.layer = Least(ActiveLayer), !.x = at.u, !.y = at.v])
  /\ UNCHANGED page
DuplicateElement ==
  /\ Editing("panels")
  /\ \E e \in SelectedElement : /\ ~LayerOf(e).locked /\ e.kind \in {"shape", "resource"}
                                /\ CreateTheElement([e EXCEPT !.x = @ + 30, !.y = @ + 30])
  /\ UNCHANGED page
\* Fields are saved one at a time, as they are left, if they were changed. The phone has the
\* layer but nothing of where an element is.
EditingElement(e, part) == Open /\ ~page.readOnly /\ part \in page.parts /\ ~LayerOf(e).locked
ChangeField(e, field, value) ==
  /\ EditingElement(e, "panels") /\ (page.phone => field = "layer") /\ e[field] # value
  /\ e.kind = "truss" => field \in {"x", "y", "yaw", "tilt", "layer"}
  /\ UpdateElementOptimistically(e, "field", field :> value)
  /\ UNCHANGED page
FieldValues(e) == {<<"x", e.x + 10>>, <<"z", Most({0, e.z - 20})>>, <<"width", ClampDimension(e.width - 20)>>, <<"yaw", (e.yaw + 1) % 4>>}
                  \cup {<<"layer", l.id>> : l \in Layers}
AskToDeleteElement ==
  /\ Editing("panels")
  /\ \E e \in SelectedElement :
       /\ ~LayerOf(e).locked
       /\ page' = [page EXCEPT !.dialog = [kind |-> "element", req |-> [op |-> "deleteElement", plot |-> e.plot, id |-> e.id],
                                           then |-> [kind |-> "elementGone"]]]
  /\ UNCHANGED queryVars
\* The Delete key asks nothing, whatever else is open.
DeleteByKey ==
  /\ ~page.readOnly /\ Heads # {} /\ "handles" \in page.parts
  /\ \E e \in SelectedElement : /\ ~LayerOf(e).locked
                                /\ Ask([op |-> "deleteElement", plot |-> e.plot, id |-> e.id], [kind |-> "elementGone"])
  /\ UNCHANGED page

\* What stands on an element, in its order, and who uses it.
LinksOf(e) == {k \in p.links : k.element = e.id}
StackOf(e) == {k \in LinksOf(e) : k.role = "stack"}
OrderLink(e, k, sort) == [req |-> [op |-> "updateLink", element |-> e.id, id |-> k.id, sort |-> sort], then |-> Refetch]
LinkStep(e) ==
  /\ EditingElement(e, "links") /\ e.kind \in {"shape", "resource"}
  /\ \/ \E role \in {"stack", "assignment"}, target \in p.rig :
          Ask([op |-> "createLink", plot |-> e.plot, element |-> e.id, role |-> role, target |-> target,
               sort |-> IF role = "stack" THEN Most({0} \cup {k.sort : k \in StackOf(e)}) + 1 ELSE 0], Refetch)
     \/ \E k \in LinksOf(e) : Ask([op |-> "deleteLink", plot |-> e.plot, element |-> e.id, id |-> k.id], Refetch)
  /\ UNCHANGED page
SwapLinks(e, a, b) ==
  /\ EditingElement(e, "order") /\ Q!Send(<<OrderLink(e, a, b.sort), OrderLink(e, b, a.sort)>>)
  /\ UNCHANGED page

-----------------------------------------------------------------------------
(* The canvas: elements.                                                    *)

OnCanvas == Open /\ "canvas" \in page.parts
Svg(point) == IF ShownView = "top" THEN point ELSE Plane(point.u, -point.v)
\* A press on what cannot be moved is a tap. Locked elements let it through to the floor.
TapElement(e) ==
  /\ OnCanvas /\ page.tool = {} /\ (page.phone \/ page.readOnly) /\ Placeable(LayerOf(e))
  /\ page' = [page EXCEPT !.element = {e.id}, !.measure = {}]
  /\ UNCHANGED queryVars
TapFloor ==
  /\ OnCanvas /\ page.tool = {}
  /\ page' = [page EXCEPT !.element = {}, !.measure = {}]
  /\ UNCHANGED queryVars
\* Otherwise it selects, and holds the row as this render has it until it is let go.
\* Bound: an element is pressed in its middle.
Middle(rect) == Plane(rect.u, rect.v)
PressElement(e) ==
  /\ Editing("canvas") /\ page.tool = {} /\ Placeable(LayerOf(e))
  /\ page' = [page EXCEPT !.element = {e.id}, !.measure = {},
                          !.drag = [kind |-> "move", row |-> e, from |-> Middle(ProjectElement(EffectiveElement(e, p), ShownView))]]
  /\ UNCHANGED queryVars
PressHandle(mode) ==
  /\ Editing("handles") /\ page.tool = {} /\ (mode = "rotate" => ShownView # "side")
  /\ \E e \in SelectedElement : Placeable(LayerOf(e)) /\ page' = [page EXCEPT !.drag = [kind |-> mode, row |-> e]]
  /\ UNCHANGED queryVars

Shown(e) == \E l \in Layers : l.id = e.layer /\ l.visible
\* Where the drag brings the middle of the origin, near its neighbours or the grid.
MovedTo(point) ==
  LET origin == page.drag.row
      rect == ProjectElement(origin, ShownView)
      bounds == ProjectedBounds(origin, ShownView)
      others_ == InOrder({EffectiveElement(e, p) : e \in {x \in Elements : x.id # origin.id /\ Shown(x)}})
  IN SnapPosition(Plus(Plane(rect.u, rect.v), Plus(point, Times(-1, page.drag.from))),
                  [w |-> (bounds.maxU - bounds.minU) \div 2, h |-> (bounds.maxV - bounds.minV) \div 2],
                  [i \in DOMAIN others_ |-> ProjectedBounds(others_[i], ShownView)], Settings, 1)
\* Mutant of MovePatch: the whole place of the element as it was when it was pressed.
MoveWholePlace(axes, at) ==
  (axes.u :> at.u) @@ (axes.v :> IF axes.v = "y" THEN at.v ELSE at.v - (page.drag.row.height \div 2))
  @@ ("x" :> page.drag.row.x) @@ ("y" :> page.drag.row.y) @@ ("z" :> page.drag.row.z)
\* Only the two fields of the view; in the elevations the bottom is stored.
MovePatch(axes, at) ==
  [f \in {axes.u, axes.v} |-> IF f = axes.u THEN at.u ELSE IF f = "y" THEN at.v ELSE at.v - (page.drag.row.height \div 2)]

\* The point in the frame of a bar, as far as the view shows that frame.
InBar(axes, local) ==
  LET det == Cross(axes[1], axes[2])
  IN {Plane(det * Cross(local, axes[2]), det * Cross(axes[1], local)) : seen \in {TRUE} \cap {det # 0}}
BarPoint(s, point) == InBar(s.axes, RectLocalPoint(Svg(point), s.rect, s.view))
\* In the top view a fixture let go over a truss is hung on it: on the first that takes it.
Bars == {e \in Elements : e.kind = "truss" /\ Placeable(LayerOf(e)) /\ \E t \in p.trusses : e.truss = {t.id}}
DropsAt(at) ==
  UNION {UNION {{[id |-> s.id, truss |-> t, at |-> d] : t \in The(Row(Elements, s.id)).truss, d \in FixtureDropOnTruss(local, 2 * s.halves[1], s.halves[2])}
                : local \in BarPoint(s, at)} : s \in {Seen(EffectiveElement(e, p), "top") : e \in Bars}}
First(drops) == {d \in drops : \A x \in drops : d.id <= x.id}
DropsOnTruss(fixture, at) == IF fixture = {} \/ ShownView # "top" THEN {} ELSE First(DropsAt(at))
Hang(truss, fixture, at, consumed) ==
  Ask([op |-> "attachFixture", truss |-> truss, fixture |-> fixture, offset |-> {at.offset}, side |-> at.side],
      [kind |-> "hung", consumed |-> consumed])
LetGo == page' = [page EXCEPT !.drag = NoDrag]
DropAt(origin, at, drops) ==
  IF drops # {} THEN \E d \in drops : Hang(d.truss, Least(origin.fixture), d.at, {origin})
  ELSE UpdateElementOptimistically(origin, "drag", MovePatch(ViewAxisFields(ShownView), at))
DropElement(point) ==
  /\ page.drag.kind = "move" /\ LetGo
  /\ IF point = page.drag.from THEN UNCHANGED queryVars
     ELSE \E at \in {MovedTo(point)} : DropAt(page.drag.row, at, DropsOnTruss(page.drag.row.fixture, at))

\* The corner is pulled in the drawn frame; each view writes two of the sizes.
DropCorner(point) ==
  /\ page.drag.kind = "resize" /\ LetGo
  /\ LET origin == page.drag.row
         rect == ProjectElement(origin, ShownView)
         local == RectLocalPoint(Svg(point), rect, ShownView)
         fields == CASE ShownView = "top" -> <<"width", "depth">> [] ShownView = "front" -> <<"width", "height">>
                     [] ShownView = "side" -> <<"depth", "height">>
     IN UpdateElementOptimistically(origin, "corner", (fields[1] :> ClampDimension(local.u + (rect.width \div 2)))
                                            @@ (fields[2] :> ClampDimension(local.v + (rect.height \div 2))))
\* Bound: the knob is let go straight above, beside or below the middle.
DropKnob(point) ==
  /\ page.drag.kind = "rotate" /\ LetGo
  /\ LET rect == ProjectElement(EffectiveElement(page.drag.row, p), ShownView)
         away == Plus(Svg(point), Plane(-rect.u, IF ShownView = "top" THEN -rect.v ELSE rect.v))
     IN \E turn \in 0 .. 3 :
          /\ away # Zero /\ Normalize(away) = Turned(Plane(0, -1), turn)
          /\ UpdateElementOptimistically(page.drag.row, "knob", (IF ShownView = "top" THEN "yaw" ELSE "tilt") :> turn)

\* A fixture's marker slides along the bar and over its lanes, whichever the view shows.
PressMarker(e, hung) ==
  /\ Editing("canvas") /\ page.tool = {} /\ Placeable(LayerOf(e)) /\ hung.offset # {}
  /\ page' = [page EXCEPT !.drag = [kind |-> "marker", row |-> e, hung |-> hung]]
  /\ UNCHANGED queryVars
MarkerOnBar(hung, bar, s, local, inBar) ==
  LET along(u) == Clamped(u + (bar.width \div 2), 0, bar.width)
      stays == ClampFixtureOffset(The(hung.offset), bar.width)
  IN IF inBar # {} THEN {[offset |-> along(b.u), side |-> TrussSideForLocalV(b.v, bar.depth \div 2)] : b \in inBar}
     ELSE {IF s.axes[1] # Zero /\ bar.width >= bar.depth THEN [offset |-> along(Dot(local, s.axes[1])), side |-> hung.side]
           ELSE IF s.axes[2] # Zero THEN [offset |-> stays, side |-> TrussSideForLocalV(Dot(local, s.axes[2]), bar.depth \div 2)]
           ELSE [offset |-> stays, side |-> hung.side]}
MarkerAt(point) ==
  UNION {UNION {MarkerOnBar(page.drag.hung, bar, s, RectLocalPoint(Svg(point), s.rect, s.view), BarPoint(s, point)) : s \in {Seen(bar, ShownView)}}
         : bar \in {EffectiveElement(page.drag.row, p)}}
DropMarker(point) ==
  /\ page.drag.kind = "marker" /\ LetGo
  /\ IF \E t \in p.trusses : page.drag.row.truss = {t.id}
     THEN \E at \in MarkerAt(point) : Hang(Least(page.drag.row.truss), page.drag.hung.fixture, at, {})
     ELSE UNCHANGED queryVars

-----------------------------------------------------------------------------
(* The canvas: measurements.                                                *)

PickPx == 18
PointPx == 11
MeasureTypes == {"horizontal", "vertical", "aligned"}
\* The palette arms a tool and lets the element go; the key arms the aligned one, and leaves
\* it. Escape leaves the tool, or without one drops what is selected.
ArmTool(tool) ==
  /\ Editing("measure") /\ ActiveLayer # {} /\ ~\E c \in calls : c.then.kind = "created"
  /\ page' = [page EXCEPT !.tool = IF @ = {tool} THEN {} ELSE {tool}, !.element = IF page.tool = {tool} THEN @ ELSE {}]
  /\ UNCHANGED queryVars
ToolKey ==
  /\ ~page.phone /\ ~page.readOnly /\ "measure" \in page.parts /\ Heads # {}
  /\ page' = [page EXCEPT !.tool = IF @ = {} THEN {"aligned"} ELSE {}]
  /\ UNCHANGED queryVars
EscapeKey ==
  /\ ~page.phone /\ ~page.readOnly /\ "measure" \in page.parts /\ Heads # {}
  /\ page' = IF page.tool # {} THEN [page EXCEPT !.tool = {}] ELSE [page EXCEPT !.measure = {}, !.element = {}]
  /\ UNCHANGED queryVars

OnGrid(n) == LET grid == Settings.grid IN IF Settings.snapGrid /\ grid > 0 THEN ((2 * n + grid) \div (2 * grid)) * grid ELSE n
Aimed(targets, point) ==
  IF targets = {} THEN {Free(Plane(OnGrid(point.u), OnGrid(point.v)))} ELSE {On(a.element, a.feature, a.slide) : a \in targets}
AnchorAt(point) == Aimed(AimAtAnchor(InOrder(Measurable), ShownView, point, PickPx, PointPx), point)
\* A first pick, seen only while a tool is armed.
FirstPick == IF page.tool = {} THEN {} ELSE page.first
\* With a tool armed a press is a pick, wherever it falls. Two make a measurement, and the
\* tool stays armed. `seen` and `in` are history: what the page showed, and in which views.
Pick(at) ==
  /\ Editing("measure") /\ page.tool # {}
  /\ IF FirstPick = {}
     THEN page' = [page EXCEPT !.first = {[anchor |-> at, in |-> ShownView]}] /\ UNCHANGED queryVars
     ELSE /\ page' = [page EXCEPT !.first = {}]
          /\ \E from \in FirstPick :
               Ask([op |-> "createMeasurement", plot |-> Least(ActivePlot),
                    measure |-> [id |-> 0, plot |-> 0, layer |-> Least(ActiveLayer), view |-> ShownView, type |-> The(page.tool),
                                 from |-> from.anchor, to |-> at, offset |-> 0]],
                   [kind |-> "refetch", chooses |-> "measure", seen |-> p, in |-> {from.in, ShownView}])

\* The elements whose anchors the pointer shows. A hidden layer's are among them.
AnchorHints(point) == AnchorHintsFor(Measurable, ShownView, point, 44)

\* Taking a measurement puts the element down.
TapMeasurement(m) ==
  /\ Open /\ "measure" \in page.parts /\ page.measure # {m.id}
  /\ page' = [page EXCEPT !.measure = {m.id}, !.element = {}]
  /\ UNCHANGED queryVars
\* Its grips are there on a desk unless its layer is locked.
PressGrip(grip) ==
  /\ Open /\ ~page.phone /\ "measure" \in page.parts
  /\ \E m \in SelectedMeasurement \cap Drawn : /\ ~LayerOf(m).locked
                                               /\ page' = [page EXCEPT !.drag = [kind |-> grip, row |-> m]]
  /\ UNCHANGED queryVars
\* How far along its own normal the line is pulled. Bound: lines along an axis.
OffsetFor(m, point) ==
  {LET dir == Normalize(span.dir)
   IN OnGrid(Dot(Plus(point, Times(-1, span.b)), Plane(-dir.v, dir.u)))
     : span \in {s \in MeasurementGeometry(m, Measurable, ShownView) : 0 \in {s.dir.u, s.dir.v}}}
DropOffset(point) ==
  /\ page.drag.kind = "offset" /\ LetGo
  /\ \E m \in Row(p.measures, page.drag.row.id) : \E n \in OffsetFor(m, point) : UpdateTheMeasurement(m, "offset" :> n)
DropEnd(at) ==
  /\ page.drag.kind \in {"from", "to"} /\ LetGo
  /\ UpdateTheMeasurement(page.drag.row, page.drag.kind :> at)
\* Both take the anchor the pointer is at.
TakeAnchor ==
  /\ page.tool # {} \/ page.drag.kind \in {"from", "to"}
  /\ \E point \in page.points : \E at \in AnchorAt(point) : Pick(at) \/ DropEnd(at)
\* A press let go over nothing that takes it, or what it held gone meanwhile.
LetGoOfNothing == page.drag # NoDrag /\ LetGo /\ UNCHANGED queryVars

\* The measurement's inspector; the phone has its note and its layer.
InspectMeasurement(patch) ==
  /\ Open /\ ~page.readOnly /\ "panels" \in page.parts /\ (page.phone => DOMAIN patch \subseteq {"layer"})
  /\ \E m \in SelectedMeasurement : ~LayerOf(m).locked /\ UpdateTheMeasurement(m, patch)
  /\ UNCHANGED page
MeasurementPatches == {Unchanging} \cup {"type" :> t : t \in MeasureTypes} \cup {"layer" :> l.id : l \in Layers}
                      \cup {"offset" :> -m.offset : m \in SelectedMeasurement}
DeleteTheMeasurement ==
  /\ Editing("panels")
  /\ \E m \in SelectedMeasurement :
       ~LayerOf(m).locked /\ Ask([op |-> "deleteMeasurement", plot |-> m.plot, id |-> m.id], [kind |-> "measureGone"])
  /\ UNCHANGED page

-----------------------------------------------------------------------------
(* PlotTrussManager: the event's trusses, in a drawer beside the canvas.    *)

OpenManager(open) == /\ Open /\ "trusses" \in page.parts /\ page.manager # open
                     /\ page' = [page EXCEPT !.manager = open]
                     /\ UNCHANGED queryVars
EditingTrusses == Editing("trusses") /\ page.manager
TrussAsk(req) == EditingTrusses /\ Ask(req, Refetch) /\ UNCHANGED page
AskAboutTruss(req) ==
  /\ EditingTrusses
  /\ page' = [page EXCEPT !.dialog = [kind |-> "truss", req |-> req, then |-> [kind |-> "trussGone"]]]
  /\ UNCHANGED queryVars
PlaceTruss(t, at) ==
  /\ EditingTrusses /\ ActiveLayer # {} /\ ~\E e \in Elements : e.truss = {t.id}
  /\ CreateTheElement([id |-> 0, plot |-> 0, kind |-> "truss", shape |-> "rect", truss |-> {t.id}, fixture |-> {}, layer |-> Least(ActiveLayer),
                       x |-> at.u, y |-> at.v, z |-> 0, width |-> 0, depth |-> 30, height |-> 30, yaw |-> 0, tilt |-> 0])
  /\ page' = [page EXCEPT !.manager = FALSE]
TurnTruss(t, field) ==
  /\ EditingTrusses
  /\ \E e \in Elements : e.truss = {t.id} /\ UpdateElementOptimistically(e, "truss", field :> (e[field] + 1) % 4)
  /\ UNCHANGED page
Reposition(t, h, offset, side) == TrussAsk([op |-> "attachFixture", truss |-> t.id, fixture |-> h.fixture, offset |-> offset, side |-> side])
TrussStep ==
  \/ \E open \in BOOLEAN : OpenManager(open)
  \/ TrussAsk([op |-> "createTruss", height |-> 0])
  \/ \E t \in p.trusses :
       \/ TrussAsk([op |-> "updateTruss", id |-> t.id, height |-> t.height + 100])
       \/ AskAboutTruss([op |-> "deleteTruss", id |-> t.id])
       \/ TrussAsk([op |-> "createTrussPiece", truss |-> t.id, length |-> 100])
       \/ \E piece \in t.pieces : AskAboutTruss([op |-> "deleteTrussPiece", truss |-> t.id, id |-> piece.id])
       \/ \E fixture \in {f \in p.rig : ~\E h \in t.hung : h.fixture = f} : TrussAsk([op |-> "attachFixture", truss |-> t.id, fixture |-> fixture, offset |-> {}, side |-> "bottom"])
       \/ \E h \in t.hung : \/ Reposition(t, h, {50}, h.side) \/ Reposition(t, h, h.offset, "top")
                            \/ TrussAsk([op |-> "detachFixture", truss |-> t.id, fixture |-> h.fixture])
       \/ \E field \in {"yaw", "tilt"} : TurnTruss(t, field)
       \/ \E at \in page.points : PlaceTruss(t, at)

-----------------------------------------------------------------------------
(* Dialogs and answers.                                                     *)

\* The dialogs of the drawer stay until the answer.
Confirm ==
  /\ page.dialog # NoDialog
  /\ Ask(page.dialog.req, page.dialog.then)
  /\ page' = IF page.dialog.kind = "truss" THEN page ELSE [page EXCEPT !.dialog = NoDialog]
Cancel == page.dialog # NoDialog /\ page' = [page EXCEPT !.dialog = NoDialog] /\ UNCHANGED queryVars

\* The page an answer leaves: what it was about is no longer chosen, or is to be.
PageAfter(c) ==
  CASE c.then.kind = "plotGone" -> [page EXCEPT !.plot = {}, !.element = {}]
    [] c.then.kind = "elementGone" -> [page EXCEPT !.element = {}]
    [] c.then.kind = "measureGone" -> [page EXCEPT !.measure = {}]
    [] c.then.kind = "trussGone" -> [page EXCEPT !.dialog = NoDialog]
    [] c.then.kind = "consumed" -> [page EXCEPT !.element = @ \ {c.req.id}]
    [] c.then.kind \in {"refetch", "created"} /\ c.then.chooses # "none" -> [page EXCEPT !.after = @ \cup {<<c.then.chooses, c.id>>}]
    [] OTHER -> page
HearRefetching(c) ==
  /\ c.then.kind \in {"refetch", "created", "plotGone", "elementGone", "measureGone", "trussGone", "consumed"}
  /\ Q!Answer(c, c.state = "done", <<>>)
  /\ page' = IF c.state = "done" THEN OnItsCanvas(PageAfter(c), p.plots) ELSE page
\* The answered row takes the place of the one shown; a failure asks again.
HearUpdate(c) ==
  /\ c.then.kind \in {"element", "measurement"}
  /\ IF c.state # "done" THEN Q!Answer(c, TRUE, <<>>)
     ELSE Q!AnswerShowing(c, IF {c.req.plot} # ActivePlot THEN p
            ELSE IF c.then.kind = "element" THEN [p EXCEPT !.elements = Replaced(@, The(c.reply))]
            ELSE [p EXCEPT !.measures = Replaced(@, The(c.reply))])
  /\ UNCHANGED page
\* The answered plot goes to the plot on show by then.
HearSettings(c) ==
  /\ c.then.kind = "settings"
  /\ Q!AnswerShowing(c, IF c.state = "done" THEN [p EXCEPT !.heads = [id \in DOMAIN @ |-> IF {id} = ActivePlot THEN The(c.reply) ELSE @[id]]] ELSE p)
  /\ UNCHANGED page
\* Once it hangs the element it was drawn as is deleted.
HearHung(c) ==
  /\ c.then.kind = "hung"
  /\ LET consumes == c.state = "done" /\ c.then.consumed # {}
     IN Q!Answer(c, c.state = "done" /\ ~consumes,
                 IF consumes THEN SetToSeq({[req |-> [op |-> "deleteElement", plot |-> e.plot, id |-> e.id], then |-> [kind |-> "consumed"]]
                                              : e \in c.then.consumed})
                 ELSE <<>>)
  /\ UNCHANGED page
HearAnswer(c) == HearRefetching(c) \/ HearUpdate(c) \/ HearSettings(c) \/ HearHung(c)

Chosen(field) == IF \E a \in page.after : a[1] = field THEN {Most({a[2] : a \in {x \in page.after : x[1] = field}})} ELSE page[field]
ViewArrives ==
  /\ Q!Arrive
  /\ page' = OnItsCanvas([page EXCEPT !.plot = Chosen("plot"), !.element = Chosen("element"), !.measure = Chosen("measure"),
                                      !.layer = Chosen("layer"), !.after = {}], view'.data.plots)

-----------------------------------------------------------------------------
Init == \E start \in Starts : Q!Opened(start.patch, start.spent) /\ page = NewPage(start)

PlotStep ==
  \/ \E id \in p.plots : ChoosePlot(id)
  \/ CreateThePlot \/ RenamePlot \/ AskToDeletePlot
  \/ \E patch \in SettingsPatches : ChangeSettings(patch)
  \/ \E v \in Views : ShowOnPhone(v)
PanelStep ==
  \/ CreateTheLayer
  \/ \E l \in Layers : \/ \E field \in {"visible", "locked"} : ToggleLayer(l, field)
                       \/ SetActiveLayer(l) \/ AskToDeleteLayer(l)
  \/ \E ab \in Neighbours(Layers) : SwapLayers(ab[1], ab[2])
  \/ \E template \in Templates, at \in page.points : Place(template, at)
  \/ DuplicateElement \/ AskToDeleteElement
  \/ \E e \in SelectedElement : LinkStep(e) \/ \E ab \in Neighbours(StackOf(e)) : SwapLinks(e, ab[1], ab[2])
                               \/ \E fv \in FieldValues(e) : ChangeField(e, fv[1], fv[2])
  \/ \E patch \in MeasurementPatches : InspectMeasurement(patch)
  \/ DeleteTheMeasurement
CanvasStep ==
  \/ \E e \in Elements : \/ TapElement(e) \/ PressElement(e)
                         \/ \E t \in {x \in p.trusses : e.truss = {x.id}} : \E h \in t.hung : PressMarker(e, h)
  \/ TapFloor \/ DeleteByKey
  \/ \E mode \in {"resize", "rotate"} : PressHandle(mode)
  \/ page.drag # NoDrag /\ \E point \in page.points : DropElement(point) \/ DropCorner(point) \/ DropKnob(point) \/ DropMarker(point)
  \/ LetGoOfNothing
MeasureStep ==
  \/ \E tool \in MeasureTypes : ArmTool(tool)
  \/ ToolKey \/ EscapeKey
  \/ TakeAnchor
  \/ \E point \in page.points : DropOffset(point)
  \/ \E m \in Drawn : TapMeasurement(m)
  \/ \E grip \in {"offset", "from", "to"} : PressGrip(grip)
\* Bound: a window is focused only when that would show something new.
Elsewhere ==
  \/ \E c \in calls : Q!Serve(c) \/ Q!Lose(c)
  \/ Q!ReadStore \/ Q!LoseRead \/ (stored # p /\ Q!Focus)
  \/ \E req \in OthersRequests : Q!OtherClient(req)
Next ==
  \/ PlotStep \/ PanelStep \/ CanvasStep \/ MeasureStep \/ TrussStep
  \/ Confirm \/ Cancel
  \/ \E c \in calls : HearAnswer(c)
  \/ ViewArrives
  \/ Elsewhere /\ UNCHANGED page
Spec == Init /\ [][Next]_pageVars

-----------------------------------------------------------------------------
(* Steps a page may take.                                                   *)

\* A drag changes the place of an element in the plane it was dragged in, and nothing else
\* of it, whatever became of the element since the row on the page was read.
DragMovesInItsPlaneStep ==
  \A c \in calls : c.state = "sent" /\ c.then.kind = "element" /\ c.then.by = "drag" =>
    \A e \in Row(stored.elements, c.req.id) : \A x \in Row(stored.elements', c.req.id) :
      LET axes == ViewAxisFields(c.then.plane)
      IN (\E d \in calls' : d.n = c.n /\ d.state = "done") => \A f \in DOMAIN e \ {axes.u, axes.v} : x[f] = e[f]
\* What two picks of one view make of a plot that is as it is shown is refused only for
\* having no distance to state.
PicksAreAcceptedStep ==
  \A c \in calls :
    /\ c.state = "sent" /\ c.req.op = "createMeasurement" /\ c.then.seen = stored /\ Cardinality(c.then.in) = 1
    /\ \E d \in calls' : d.n = c.n /\ d.state = "refused"
    => MeasurementGeometry(c.req.measure, {EffectiveElement(e, stored) : e \in {x \in stored.elements : x.plot = c.req.plot}},
                           c.req.measure.view) = {}
=============================================================================

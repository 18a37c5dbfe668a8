------------------------------ MODULE PlotStore -----------------------------
(***************************************************************************)
(* The requests the client makes about an event's stage plots and what the *)
(* server makes of them (backend/internal/api/stage_plots.go,              *)
(* plot_trusses.go and stage_plot_measurements.go, sent by                 *)
(* frontend/src/api/stagePlots.ts).  A store is                            *)
(*   plots      the ids of the event's plots                               *)
(*   heads      of each plot its row [id, view, snapGrid, snapObjects,     *)
(*              grid]                                                      *)
(*   layers     [id, plot, sort, visible, locked]                          *)
(*   elements   the elements of PlotGeometry, with their `plot`            *)
(*   measures   [id, plot, layer, view, type, from, to, offset]            *)
(*   links      [id, element, role, target, sort]                          *)
(*   trusses    [id, height, pieces, hung], a piece [id, length], a hung   *)
(*              fixture [fixture, offset, side], its offset maybe none     *)
(*   rig        the ids of the event's lighting fixtures                   *)
(*   next       an id not given yet                                        *)
(* A truss has its own size: its element's row says nothing of it.         *)
(***************************************************************************)
EXTENDS PlotGeometry

\* A result is a store, the id of the row made and the row answered; a refusal is none.
Done(store) == {[store |-> store, id |-> 0, reply |-> {}]}
Given(store, row) == {[store |-> store, id |-> 0, reply |-> {row}]}
Made(store) == {[store |-> [store EXCEPT !.next = @ + 1], id |-> store.next, reply |-> {}]}
The(rows) == CHOOSE r \in rows : TRUE
Row(rows, id) == {r \in rows : r.id = id}
Put(rows, row) == {r \in rows : r.id # row.id} \cup {row}
\* A patch names the fields it changes, of those of its row that it may.
Patched(row, patch, fields) == [f \in DOMAIN row |-> IF f \in fields \cap DOMAIN patch THEN patch[f] ELSE row[f]]
HeadPatch == {"view", "snapGrid", "snapObjects", "grid"}
LayerPatchFields == {"sort", "visible", "locked"}
ElementPatch == {"layer", "x", "y", "z", "width", "depth", "height", "yaw", "tilt"}
MeasurePatch == {"layer", "view", "type", "from", "to", "offset"}

NewHead(id) == [id |-> id, view |-> "top", snapGrid |-> TRUE, snapObjects |-> TRUE, grid |-> 50]
\* A plot is created with a first layer, and takes everything on it with it.
CreatePlot(s) ==
  Made([s EXCEPT !.plots = @ \cup {s.next}, !.heads = (s.next :> NewHead(s.next)) @@ @,
                 !.layers = @ \cup {[id |-> s.next, plot |-> s.next, sort |-> 0, visible |-> TRUE, locked |-> FALSE]}])
UpdatePlot(req, s) ==
  IF req.plot \notin s.plots THEN {}
  ELSE LET head == Patched(s.heads[req.plot], req.patch, HeadPatch) IN Given([s EXCEPT !.heads[req.plot] = head], head)
DeletePlot(req, s) ==
  LET gone == {e.id : e \in {x \in s.elements : x.plot = req.plot}} IN
  IF req.plot \notin s.plots THEN {}
  ELSE Done([s EXCEPT !.plots = @ \ {req.plot}, !.layers = {l \in @ : l.plot # req.plot},
                      !.elements = {e \in @ : e.plot # req.plot}, !.measures = {m \in @ : m.plot # req.plot},
                      !.links = {k \in @ : k.element \notin gone}])

LayersOf(plot, s) == {l \in s.layers : l.plot = plot}
CreateLayer(req, s) ==
  IF req.plot \notin s.plots THEN {}
  ELSE Made([s EXCEPT !.layers = @ \cup {[id |-> s.next, plot |-> req.plot, visible |-> TRUE, locked |-> FALSE,
                                          sort |-> Most({0} \cup {l.sort : l \in LayersOf(req.plot, s)}) + 1]}])
UpdateLayer(req, s) ==
  UNION {Done([s EXCEPT !.layers = Put(@, Patched(l, req.patch, LayerPatchFields))]) : l \in Row(LayersOf(req.plot, s), req.id)}

\* Elements go with their measurements, whichever end is on them, and their links.
\* Mutant of WithoutElements: a measurement goes only when both its ends do.
WithoutBothEnds(gone, s) ==
  [s EXCEPT !.elements = {e \in @ : e.id \notin gone}, !.links = {k \in @ : k.element \notin gone},
            !.measures = {m \in @ : MeasurementAnchorElementIds(m) = {} \/ ~(MeasurementAnchorElementIds(m) \subseteq gone)}]
WithoutElements(gone, s) ==
  [s EXCEPT !.elements = {e \in @ : e.id \notin gone}, !.links = {k \in @ : k.element \notin gone},
            !.measures = {m \in @ : MeasurementAnchorElementIds(m) \cap gone = {}}]
\* The last layer of a plot stays; another takes what is on it with it.
DeleteLayer(req, s) ==
  LET left == WithoutElements({e.id : e \in {x \in s.elements : x.layer = req.id}}, s) IN
  IF req.plot \notin s.plots \/ Cardinality(LayersOf(req.plot, s)) = 1 THEN {}
  ELSE IF Row(LayersOf(req.plot, s), req.id) = {} THEN Done(s)
  ELSE Done([left EXCEPT !.layers = {l \in @ : l.id # req.id}, !.measures = {m \in @ : m.layer # req.id}])

\* A row of a request's fields, with an id of its own, on the plot it was asked of.
ElementFields == {"id", "plot", "kind", "shape", "truss", "fixture"} \cup ElementPatch
MeasureFields == {"id", "plot"} \cup MeasurePatch
RowOf(asked, fields, req, s) == [f \in fields |-> CASE f = "id" -> s.next [] f = "plot" -> req.plot [] OTHER -> asked[f]]

\* A truss is placed once on a plot, a fixture is of the event's rig, and no other element
\* is of either.
CreateElement(req, s) ==
  LET e == req.element IN
  IF \/ req.plot \notin s.plots \/ Row(LayersOf(req.plot, s), e.layer) = {}
     \/ e.kind # "truss" /\ e.truss # {}
     \/ e.kind # "fixture" /\ e.fixture # {}
     \/ e.kind = "truss" /\ \/ ~\E t \in s.trusses : e.truss = {t.id}
                            \/ \E x \in s.elements : x.plot = req.plot /\ x.truss = e.truss
     \/ e.kind = "fixture" /\ ~(e.fixture # {} /\ e.fixture \subseteq s.rig)
     \/ e.kind # "truss" /\ e.width <= 0
  THEN {}
  ELSE Made([s EXCEPT !.elements = @ \cup {RowOf(e, ElementFields, req, s)}])
UpdateElement(req, s) ==
  UNION {IF \/ "layer" \in DOMAIN req.patch /\ Row(LayersOf(req.plot, s), req.patch.layer) = {}
            \/ "width" \in DOMAIN req.patch /\ req.patch.width <= 0 /\ e.kind # "truss"
         THEN {}
         ELSE LET row == Patched(e, req.patch, ElementPatch) IN Given([s EXCEPT !.elements = Put(@, row)], row)
         : e \in {x \in Row(s.elements, req.id) : x.plot = req.plot}}
DeleteElement(req, s) ==
  IF req.plot \notin s.plots THEN {}
  ELSE Done(WithoutElements({e.id : e \in {x \in Row(s.elements, req.id) : x.plot = req.plot}}, s))

\* An entity is linked once to an element in a role.
CreateLink(req, s) ==
  IF \/ ~\E e \in s.elements : e.id = req.element /\ e.plot = req.plot
     \/ \E k \in s.links : k.element = req.element /\ k.role = req.role /\ k.target = req.target
  THEN {}
  ELSE Made([s EXCEPT !.links = @ \cup {[id |-> s.next, element |-> req.element, role |-> req.role,
                                         target |-> req.target, sort |-> req.sort]}])
LinkOf(req, s) == {k \in Row(s.links, req.id) : k.element = req.element}
UpdateLink(req, s) == UNION {Done([s EXCEPT !.links = Put(@, [k EXCEPT !.sort = req.sort])]) : k \in LinkOf(req, s)}
DeleteLink(req, s) ==
  IF ~\E e \in s.elements : e.id = req.element /\ e.plot = req.plot THEN {}
  ELSE Done([s EXCEPT !.links = @ \ LinkOf(req, s)])

\* The size of a placed truss is the truss's: as long as its pieces, as high as it hangs.
EffectiveElement(e, s) ==
  IF ~\E t \in s.trusses : e.truss = {t.id} THEN e
  ELSE LET t == CHOOSE x \in s.trusses : e.truss = {x.id}
       IN [e EXCEPT !.width = Most({TrussLength(t.pieces), 20}), !.height = 30, !.z = t.height]

\* A measurement's ends are features its elements have, a side that slides is a side in
\* its view, and between the two there is a distance.
LegalEnd(a, here, shows) ==
  \A id \in a.element : \E seen \in {Seen(e, shows) : e \in Row(here, id)} :
    a.slide => AllowsPlaneAnchor(seen) /\ \A f \in a.feature : SideLine(seen, f) # {}
LegalAmong(m, here) == /\ LegalEnd(m.from, here, m.view) /\ LegalEnd(m.to, here, m.view)
                       /\ MeasurementGeometry(m, here, m.view) # {}
LegalMeasurement(m, s) ==
  /\ LegalAmong(m, {EffectiveElement(e, s) : e \in {x \in s.elements : x.plot = m.plot}})
  /\ Row(LayersOf(m.plot, s), m.layer) # {}
CreateMeasurement(req, s) ==
  LET m == RowOf(req.measure, MeasureFields, req, s) IN
  IF req.plot \notin s.plots \/ ~LegalMeasurement(m, s) THEN {} ELSE Made([s EXCEPT !.measures = @ \cup {m}])
\* Whatever is changed of it, the whole of it has to be legal as it stands by then.
UpdateMeasurement(req, s) ==
  UNION {LET row == Patched(m, req.patch, MeasurePatch) IN
         IF ~LegalMeasurement(row, s) THEN {} ELSE Given([s EXCEPT !.measures = Put(@, row)], row)
         : m \in {x \in Row(s.measures, req.id) : x.plot = req.plot}}
DeleteMeasurement(req, s) ==
  IF req.plot \notin s.plots THEN {}
  ELSE Done([s EXCEPT !.measures = {m \in @ : ~(m.id = req.id /\ m.plot = req.plot)}])

\* Trusses belong to the event: all its plots draw them.
CreateTruss(req, s) == Made([s EXCEPT !.trusses = @ \cup {[id |-> s.next, height |-> req.height, pieces |-> {}, hung |-> {}]}])
UpdateTruss(req, s) == UNION {Done([s EXCEPT !.trusses = Put(@, [t EXCEPT !.height = req.height])]) : t \in Row(s.trusses, req.id)}
DeleteTruss(req, s) ==
  IF Row(s.trusses, req.id) = {} THEN {}
  ELSE Done(WithoutElements({e.id : e \in {x \in s.elements : x.truss = {req.id}}},
                            [s EXCEPT !.trusses = @ \ Row(@, req.id)]))
CreateTrussPiece(req, s) ==
  UNION {Made([s EXCEPT !.trusses = Put(@, [t EXCEPT !.pieces = @ \cup {[id |-> s.next, length |-> req.length]}])])
         : t \in {x \in Row(s.trusses, req.truss) : req.length > 0}}
UpdateTrussPiece(req, s) ==
  UNION {UNION {Done([s EXCEPT !.trusses = Put(@, [t EXCEPT !.pieces = Put(@, [p EXCEPT !.length = req.length])])])
                : p \in {x \in Row(t.pieces, req.id) : req.length > 0}} : t \in Row(s.trusses, req.truss)}
DeleteTrussPiece(req, s) ==
  UNION {Done([s EXCEPT !.trusses = Put(@, [t EXCEPT !.pieces = @ \ Row(@, req.id)])]) : t \in Row(s.trusses, req.truss)}

TakenDown(fixture, s) == {[t EXCEPT !.hung = {h \in @ : h.fixture # fixture}] : t \in s.trusses}
\* A fixture hangs on at most one truss: attaching it moves it.
AttachFixture(req, s) ==
  UNION {Done([s EXCEPT !.trusses =
           Put(TakenDown(req.fixture, s), [t EXCEPT !.hung = @ \cup {[fixture |-> req.fixture, offset |-> req.offset, side |-> req.side]}])])
         : t \in {x \in Row(TakenDown(req.fixture, s), req.truss) : req.fixture \in s.rig}}
DetachFixture(req, s) ==
  UNION {Done([s EXCEPT !.trusses = Put(@, [t EXCEPT !.hung = {h \in @ : h.fixture # req.fixture}])])
         : t \in Row(s.trusses, req.truss)}

PlotFields == {"plots", "heads", "layers", "elements", "measures", "links", "trusses", "rig", "next"}
IdsOnce(rows, next) == \A x \in rows : x.id \in 0 .. next - 1 /\ \A y \in rows : y.id = x.id => y = x
\* Rows with their fields, and ids given once and not yet again.
IsStage(s) ==
  /\ DOMAIN s = PlotFields /\ s.next \in Nat /\ s.plots \subseteq 0 .. s.next - 1
  /\ \A rows \in {s.layers, s.elements, s.measures, s.links, s.trusses} : IdsOnce(rows, s.next)
  /\ \A l \in s.layers : {"id", "plot"} \subseteq DOMAIN l
  /\ \A e \in s.elements : /\ {"id", "plot", "layer", "truss"} \subseteq DOMAIN e
                          /\ \A a, b \in e.truss : a = b
  /\ \A m \in s.measures : {"id", "plot", "layer", "from", "to"} \subseteq DOMAIN m
  /\ \A k \in s.links : {"id", "element"} \subseteq DOMAIN k
  /\ \A t \in s.trusses : {"id", "hung"} \subseteq DOMAIN t
\* What a plot's rows say of one another: every row is of a plot that has it, and ends on
\* rows of that plot; a truss is placed once on a plot, a fixture hangs once.
RowsStand(s) ==
  LET onPlot(row) == row.plot \in s.plots /\ \E l \in LayersOf(row.plot, s) : l.id = row.layer IN
  /\ \A plot \in s.plots : LayersOf(plot, s) # {}
  /\ \A e \in s.elements : /\ onPlot(e) /\ \A id \in e.truss : Row(s.trusses, id) # {}
                          /\ \A x \in s.elements : x.plot = e.plot /\ x.truss = e.truss /\ x.truss # {} => x = e
  /\ \A m \in s.measures : onPlot(m) /\ \A id \in MeasurementAnchorElementIds(m) : \E e \in s.elements : e.id = id /\ e.plot = m.plot
  /\ \A k \in s.links : Row(s.elements, k.element) # {}
  /\ \A t, u \in s.trusses : \A h \in t.hung : \A i \in u.hung : h.fixture = i.fixture => t = u /\ h = i

ApplyPlot(req, s) ==
  CASE req.op = "createPlot" -> CreatePlot(s)
    [] req.op = "updatePlot" -> UpdatePlot(req, s)
    [] req.op = "deletePlot" -> DeletePlot(req, s)
    [] req.op = "createLayer" -> CreateLayer(req, s)
    [] req.op = "updateLayer" -> UpdateLayer(req, s)
    [] req.op = "deleteLayer" -> DeleteLayer(req, s)
    [] req.op = "createElement" -> CreateElement(req, s)
    [] req.op = "updateElement" -> UpdateElement(req, s)
    [] req.op = "deleteElement" -> DeleteElement(req, s)
    [] req.op = "createLink" -> CreateLink(req, s)
    [] req.op = "updateLink" -> UpdateLink(req, s)
    [] req.op = "deleteLink" -> DeleteLink(req, s)
    [] req.op = "createMeasurement" -> CreateMeasurement(req, s)
    [] req.op = "updateMeasurement" -> UpdateMeasurement(req, s)
    [] req.op = "deleteMeasurement" -> DeleteMeasurement(req, s)
    [] req.op = "createTruss" -> CreateTruss(req, s)
    [] req.op = "updateTruss" -> UpdateTruss(req, s)
    [] req.op = "deleteTruss" -> DeleteTruss(req, s)
    [] req.op = "createTrussPiece" -> CreateTrussPiece(req, s)
    [] req.op = "updateTrussPiece" -> UpdateTrussPiece(req, s)
    [] req.op = "deleteTrussPiece" -> DeleteTrussPiece(req, s)
    [] req.op = "attachFixture" -> AttachFixture(req, s)
    [] req.op = "detachFixture" -> DetachFixture(req, s)
    [] OTHER -> {}
=============================================================================

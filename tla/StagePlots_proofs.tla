-------------------------- MODULE StagePlots_proofs --------------------------
(***************************************************************************)
(* What the server keeps of an event's stage plots, whatever pages and     *)
(* other clients ask of it and in whatever order: every row of a plot      *)
(* stands on rows that are there.                                          *)
(*                                                                         *)
(* First the store: what a request adds is checked, and what it takes out  *)
(* takes with it what stands on it; lemmas by the kind of rows that        *)
(* change, then one per request.  Then the tab: its steps reach the store  *)
(* by the server alone, a drag sends the coordinates of its plane and no   *)
(* other, and the counters of the page stay in order.  With                *)
(* EventPages_proofs that makes the types of all three tabs.               *)
(***************************************************************************)
EXTENDS EventPages_proofs

-----------------------------------------------------------------------------
(* The stage plots.                                                         *)

\* What the server keeps of plots, part by part: every plot with a layer; elements and
\* measurements on a plot and a layer of it, an element's truss there and once on its plot;
\* a measurement's ends and a link's element there; no fixture hung twice.
OnPlot(row, s) == row.plot \in s.plots /\ \E l \in s.layers : l.plot = row.plot /\ l.id = row.layer
Layered(s) == \A plot \in s.plots : \E l \in s.layers : l.plot = plot
Placed(s) ==
  \A e \in s.elements : /\ OnPlot(e, s)
                        /\ \A id \in e.truss : \E t \in s.trusses : t.id = id
                        /\ \A x \in s.elements : x.plot = e.plot /\ x.truss = e.truss /\ x.truss # {} => x = e
Anchored(s) ==
  \A m \in s.measures : OnPlot(m, s) /\ \A id \in m.from.element \cup m.to.element : \E e \in s.elements : e.id = id /\ e.plot = m.plot
Linked(s) == \A k \in s.links : \E e \in s.elements : e.id = k.element
HungOnce(s) == \A t, u \in s.trusses : \A h \in t.hung : \A i \in u.hung : h.fixture = i.fixture => t = u /\ h = i
Stands(s) == Plots!IsStage(s) /\ Layered(s) /\ Placed(s) /\ Anchored(s) /\ Linked(s) /\ HungOnce(s)

LEMMA StandsIsRowsStand ==
  ASSUME NEW s
  PROVE  Stands(s) <=> Plots!IsStage(s) /\ Plots!RowsStand(s)
  BY DEF Stands, OnPlot, Layered, Placed, Anchored, Linked, HungOnce, Plots!RowsStand, Plots!LayersOf, Plots!Row,
         Plots!MeasurementAnchorElementIds

\* A row in the place of the one of its id.
LEMMA PutOnce ==
  ASSUME NEW rows, NEW next, Plots!IdsOnce(rows, next), NEW old \in rows, NEW row, row.id = old.id
  PROVE  /\ Plots!IdsOnce(Plots!Put(rows, row), next)
         /\ \A x \in Plots!Put(rows, row) : x = row \/ (x \in rows /\ x # old)
         /\ \A x \in rows : x # old => x \in Plots!Put(rows, row)
         /\ row \in Plots!Put(rows, row)
  BY DEF Plots!IdsOnce, Plots!Put

\* A stage of which some rows are others.
Others(s, t, fields) == DOMAIN t = Plots!PlotFields /\ \A f \in Plots!PlotFields \ fields : t[f] = s[f]

LEMMA MoreIds ==
  ASSUME NEW rows, NEW next \in Nat, Plots!IdsOnce(rows, next)
  PROVE  Plots!IdsOnce(rows, next + 1)
  BY DEF Plots!IdsOnce

LEMMA NewId ==
  ASSUME NEW rows, NEW next \in Nat, Plots!IdsOnce(rows, next), NEW row, row.id = next
  PROVE  Plots!IdsOnce(rows \cup {row}, next + 1)
  BY DEF Plots!IdsOnce

LEMMA FewerIds ==
  ASSUME NEW rows, NEW next, Plots!IdsOnce(rows, next), NEW some \in SUBSET rows
  PROVE  Plots!IdsOnce(some, next)
  BY DEF Plots!IdsOnce

LEMMA MadeGives ==
  ASSUME NEW t, DOMAIN t = Plots!PlotFields, NEW r \in Plots!Made(t)
  PROVE  /\ DOMAIN r.store = Plots!PlotFields /\ r.store.next = t.next + 1
         /\ \A f \in Plots!PlotFields \ {"next"} : r.store[f] = t[f]
  BY DEF Plots!Made, Plots!PlotFields

\* Layers of the same places.
LEMMA LayersStand ==
  ASSUME NEW s, NEW t, Stands(s), Others(s, t, {"layers", "heads", "next"}), t.next \in {s.next, s.next + 1},
         Plots!IdsOnce(t.layers, t.next), \A l \in t.layers : {"id", "plot"} \subseteq DOMAIN l,
         \A l \in s.layers : \E k \in t.layers : k.id = l.id /\ k.plot = l.plot
  PROVE  Stands(t)
  <1>1. /\ DOMAIN t = Plots!PlotFields /\ t.plots = s.plots /\ t.elements = s.elements
        /\ t.measures = s.measures /\ t.links = s.links /\ t.trusses = s.trusses
    BY DEF Others, Plots!PlotFields
  <1>2. /\ s.next \in Nat /\ t.next \in Nat /\ s.plots \subseteq 0 .. s.next - 1
        /\ \A rows \in {s.elements, s.measures, s.links, s.trusses} : Plots!IdsOnce(rows, s.next)
    BY DEF Stands, Plots!IsStage
  <1>3. /\ t.plots \subseteq 0 .. t.next - 1
        /\ \A rows \in {t.elements, t.measures, t.links, t.trusses} : Plots!IdsOnce(rows, t.next)
    BY <1>1, <1>2, MoreIds
  <1>4. Plots!IsStage(t)
    BY <1>1, <1>2, <1>3 DEF Stands, Plots!IsStage
  <1>5. \A row : OnPlot(row, s) => OnPlot(row, t)
    BY <1>1 DEF OnPlot
  <1>6. Layered(t)
    BY <1>1 DEF Stands, Layered
  <1>7. Placed(t)
    BY <1>1, <1>5 DEF Stands, Placed
  <1>8. Anchored(t)
    BY <1>1, <1>5 DEF Stands, Anchored
  <1>9. Linked(t) /\ HungOnce(t)
    BY <1>1 DEF Stands, Linked, HungOnce
  <1> QED BY <1>4, <1>6, <1>7, <1>8, <1>9 DEF Stands

LEMMA UpdatePlotStands ==
  ASSUME NEW req, NEW s, Stands(s), NEW r \in Plots!UpdatePlot(req, s)
  PROVE  Stands(r.store)
  <1>1. DOMAIN s = Plots!PlotFields /\ s.next \in Nat /\ Plots!IdsOnce(s.layers, s.next)
        /\ \A l \in s.layers : {"id", "plot"} \subseteq DOMAIN l
    BY DEF Stands, Plots!IsStage
  <1> DEFINE head == Plots!Patched(s.heads[req.plot], req.patch, Plots!HeadPatch)
  <1>2. r.store = [s EXCEPT !.heads[req.plot] = head]
    BY DEF Plots!UpdatePlot, Plots!Given
  <1> HIDE DEF head
  <1>3. Others(s, r.store, {"heads"})
    BY <1>1, <1>2 DEF Others
  <1>4. Others(s, r.store, {"layers", "heads", "next"}) /\ r.store.next = s.next /\ r.store.layers = s.layers
    BY <1>3 DEF Others, Plots!PlotFields
  <1> QED BY <1>1, <1>4, LayersStand

LEMMA UpdateLayerStands ==
  ASSUME NEW req, NEW s, Stands(s), NEW r \in Plots!UpdateLayer(req, s)
  PROVE  Stands(r.store)
  <1>1. PICK l \in Plots!Row(Plots!LayersOf(req.plot, s), req.id) :
          r \in Plots!Done([s EXCEPT !.layers = Plots!Put(@, Plots!Patched(l, req.patch, Plots!LayerPatchFields))])
    BY DEF Plots!UpdateLayer
  <1> DEFINE row == Plots!Patched(l, req.patch, Plots!LayerPatchFields)
             layers == Plots!Put(s.layers, row)
  <1>2. /\ DOMAIN s = Plots!PlotFields /\ s.next \in Nat /\ Plots!IdsOnce(s.layers, s.next)
        /\ \A k \in s.layers : {"id", "plot"} \subseteq DOMAIN k
    BY DEF Stands, Plots!IsStage
  <1>3. l \in s.layers /\ {"id", "plot"} \subseteq DOMAIN l
    BY <1>1, <1>2 DEF Plots!Row, Plots!LayersOf
  <1>4. row.id = l.id /\ row.plot = l.plot /\ {"id", "plot"} \subseteq DOMAIN row
    BY <1>3 DEF Plots!Patched, Plots!LayerPatchFields
  <1>5. r.store = [s EXCEPT !.layers = layers]
    BY <1>1 DEF Plots!Done
  <1> HIDE DEF row
  <1>6. /\ Plots!IdsOnce(layers, s.next) /\ row \in layers
        /\ \A x \in layers : x = row \/ (x \in s.layers /\ x # l)
        /\ \A x \in s.layers : x # l => x \in layers
    BY <1>2, <1>3, <1>4, PutOnce
  <1> HIDE DEF layers
  <1>7. Others(s, r.store, {"layers", "heads", "next"}) /\ r.store.next = s.next /\ r.store.layers = layers
    BY <1>2, <1>5 DEF Others, Plots!PlotFields
  <1>8. \A x \in layers : {"id", "plot"} \subseteq DOMAIN x
    BY <1>2, <1>4, <1>6
  <1>9. \A x \in s.layers : \E k \in layers : k.id = x.id /\ k.plot = x.plot
    BY <1>4, <1>6
  <1> QED BY <1>2, <1>6, <1>7, <1>8, <1>9, LayersStand

LEMMA CreateLayerStands ==
  ASSUME NEW req, NEW s, Stands(s), NEW r \in Plots!CreateLayer(req, s)
  PROVE  Stands(r.store)
  <1> DEFINE row == [id |-> s.next, plot |-> req.plot, visible |-> TRUE, locked |-> FALSE,
                     sort |-> Plots!Most({0} \cup {l.sort : l \in Plots!LayersOf(req.plot, s)}) + 1]
  <1>1. row.id = s.next /\ {"id", "plot"} \subseteq DOMAIN row
    OBVIOUS
  <1> DEFINE t == [s EXCEPT !.layers = @ \cup {row}]
  <1>0. r \in Plots!Made(t)
    BY DEF Plots!CreateLayer
  <1> HIDE DEF row
  <1>2. /\ DOMAIN s = Plots!PlotFields /\ s.next \in Nat /\ Plots!IdsOnce(s.layers, s.next)
        /\ \A k \in s.layers : {"id", "plot"} \subseteq DOMAIN k
    BY DEF Stands, Plots!IsStage
  <1>3. Others(s, t, {"layers"}) /\ t.layers = s.layers \cup {row}
    BY <1>2 DEF Others, Plots!PlotFields
  <1> HIDE DEF t
  <1>4. /\ DOMAIN r.store = Plots!PlotFields /\ r.store.next = t.next + 1
        /\ \A f \in Plots!PlotFields \ {"next"} : r.store[f] = t[f]
    BY <1>0, <1>3, MadeGives DEF Others
  <1>5. /\ Others(s, r.store, {"layers", "heads", "next"}) /\ r.store.next = s.next + 1
        /\ r.store.layers = s.layers \cup {row}
    BY <1>3, <1>4 DEF Others, Plots!PlotFields
  <1>6. Plots!IdsOnce(r.store.layers, s.next + 1)
    BY <1>1, <1>2, <1>5, NewId
  <1> QED BY <1>1, <1>2, <1>5, <1>6, LayersStand

\* Fewer rows, each on rows that are there.
LEMMA FewerStand ==
  ASSUME NEW s, NEW t, Stands(s), DOMAIN t = Plots!PlotFields, t.next = s.next,
         t.plots \subseteq s.plots, t.layers \subseteq s.layers, t.elements \subseteq s.elements,
         t.measures \subseteq s.measures, t.links \subseteq s.links, t.trusses \subseteq s.trusses,
         Layered(t),
         \A e \in t.elements : OnPlot(e, t) /\ \A id \in e.truss : \E u \in t.trusses : u.id = id,
         \A m \in t.measures : OnPlot(m, t) /\ \A id \in m.from.element \cup m.to.element : \E e \in t.elements : e.id = id,
         Linked(t)
  PROVE  Stands(t)
  <1>1. /\ s.next \in Nat /\ s.plots \subseteq 0 .. s.next - 1
        /\ \A rows \in {s.layers, s.elements, s.measures, s.links, s.trusses} : Plots!IdsOnce(rows, s.next)
    BY DEF Stands, Plots!IsStage
  <1>2. \A rows \in {t.layers, t.elements, t.measures, t.links, t.trusses} : Plots!IdsOnce(rows, t.next)
    <2>1. Plots!IdsOnce(t.layers, t.next)
      BY <1>1, FewerIds
    <2>2. Plots!IdsOnce(t.elements, t.next)
      BY <1>1, FewerIds
    <2>3. Plots!IdsOnce(t.measures, t.next)
      BY <1>1, FewerIds
    <2>4. Plots!IdsOnce(t.links, t.next)
      BY <1>1, FewerIds
    <2>5. Plots!IdsOnce(t.trusses, t.next)
      BY <1>1, FewerIds
    <2> QED BY <2>1, <2>2, <2>3, <2>4, <2>5
  <1>3. t.plots \subseteq 0 .. t.next - 1
    BY <1>1
  <1>4. Plots!IsStage(t)
    BY <1>1, <1>2, <1>3 DEF Stands, Plots!IsStage
  <1>5. Placed(t)
    BY DEF Stands, Placed
  <1>6. \A d, e \in s.elements : d.id = e.id => d = e
    BY <1>1 DEF Plots!IdsOnce
  <1>7. Anchored(t)
    <2> SUFFICES ASSUME NEW m \in t.measures, NEW id \in m.from.element \cup m.to.element
                 PROVE  \E e \in t.elements : e.id = id /\ e.plot = m.plot
      BY DEF Anchored
    <2>1. PICK e \in t.elements : e.id = id
      OBVIOUS
    <2>2. PICK d \in s.elements : d.id = id /\ d.plot = m.plot
      BY DEF Stands, Anchored
    <2> QED BY <1>6, <2>1, <2>2
  <1>8. HungOnce(t)
    BY DEF Stands, HungOnce
  <1> QED BY <1>4, <1>5, <1>7, <1>8 DEF Stands

LEMMA WithoutGives ==
  ASSUME NEW gone, NEW s, DOMAIN s = Plots!PlotFields
  PROVE  LET t == Plots!WithoutElements(gone, s) IN
         /\ Others(s, t, {"elements", "links", "measures"})
         /\ t.elements = {e \in s.elements : e.id \notin gone}
         /\ t.links = {k \in s.links : k.element \notin gone}
         /\ t.measures = {m \in s.measures : (m.from.element \cup m.to.element) \cap gone = {}}
  BY DEF Others, Plots!PlotFields, Plots!WithoutElements, Plots!MeasurementAnchorElementIds

LEMMA DeletePlotStands ==
  ASSUME NEW req, NEW s, Stands(s), NEW r \in Plots!DeletePlot(req, s)
  PROVE  Stands(r.store)
  <1> DEFINE gone == {e.id : e \in {x \in s.elements : x.plot = req.plot}}
             t == [s EXCEPT !.plots = @ \ {req.plot}, !.layers = {l \in @ : l.plot # req.plot},
                            !.elements = {e \in @ : e.plot # req.plot}, !.measures = {m \in @ : m.plot # req.plot},
                            !.links = {k \in @ : k.element \notin gone}]
  <1>1. r.store = t
    BY DEF Plots!DeletePlot, Plots!Done
  <1>2. DOMAIN s = Plots!PlotFields
    BY DEF Stands, Plots!IsStage
  <1>3. /\ DOMAIN t = Plots!PlotFields /\ t.next = s.next /\ t.trusses = s.trusses
        /\ t.plots = s.plots \ {req.plot} /\ t.layers = {l \in s.layers : l.plot # req.plot}
        /\ t.elements = {e \in s.elements : e.plot # req.plot}
        /\ t.measures = {m \in s.measures : m.plot # req.plot}
        /\ t.links = {k \in s.links : k.element \notin gone}
    BY <1>2 DEF Plots!PlotFields
  <1> HIDE DEF t
  <1>4. \A row : OnPlot(row, s) /\ row.plot # req.plot => OnPlot(row, t)
    BY <1>3 DEF OnPlot
  <1>5. Layered(t)
    BY <1>3 DEF Stands, Layered
  <1>6. \A e \in t.elements : OnPlot(e, t) /\ \A id \in e.truss : \E u \in t.trusses : u.id = id
    BY <1>3, <1>4 DEF Stands, Placed
  <1>7. \A m \in t.measures : OnPlot(m, t) /\ \A id \in m.from.element \cup m.to.element : \E e \in t.elements : e.id = id
    <2> SUFFICES ASSUME NEW m \in t.measures
                 PROVE  OnPlot(m, t) /\ \A id \in m.from.element \cup m.to.element : \E e \in t.elements : e.id = id
      OBVIOUS
    <2>1. m \in s.measures /\ m.plot # req.plot
      BY <1>3
    <2>2. OnPlot(m, s) /\ \A id \in m.from.element \cup m.to.element : \E e \in s.elements : e.id = id /\ e.plot = m.plot
      BY <2>1 DEF Stands, Anchored
    <2> QED BY <1>3, <1>4, <2>1, <2>2
  <1>8. Linked(t)
    <2> SUFFICES ASSUME NEW k \in t.links PROVE \E e \in t.elements : e.id = k.element
      BY DEF Linked
    <2>1. k \in s.links /\ k.element \notin gone
      BY <1>3
    <2>2. PICK e \in s.elements : e.id = k.element
      BY <2>1 DEF Stands, Linked
    <2>3. e.plot # req.plot
      BY <2>1, <2>2
    <2> QED BY <1>3, <2>2, <2>3
  <1> QED BY <1>1, <1>3, <1>5, <1>6, <1>7, <1>8, FewerStand

\* What goes with some elements leaves the rest on rows that are there.
LEMMA WithoutStands ==
  ASSUME NEW gone, NEW s, Stands(s)
  PROVE  Stands(Plots!WithoutElements(gone, s))
  <1> DEFINE t == Plots!WithoutElements(gone, s)
  <1>1. DOMAIN s = Plots!PlotFields
    BY DEF Stands, Plots!IsStage
  <1>2. /\ Others(s, t, {"elements", "links", "measures"})
        /\ t.elements = {e \in s.elements : e.id \notin gone}
        /\ t.links = {k \in s.links : k.element \notin gone}
        /\ t.measures = {m \in s.measures : (m.from.element \cup m.to.element) \cap gone = {}}
    BY <1>1, WithoutGives
  <1> HIDE DEF t
  <1>3. DOMAIN t = Plots!PlotFields /\ t.plots = s.plots /\ t.layers = s.layers /\ t.trusses = s.trusses /\ t.next = s.next
    BY <1>2 DEF Others, Plots!PlotFields
  <1>4. \A row : OnPlot(row, s) => OnPlot(row, t)
    BY <1>3 DEF OnPlot
  <1>5. Layered(t)
    BY <1>3 DEF Stands, Layered
  <1>6. \A e \in t.elements : OnPlot(e, t) /\ \A id \in e.truss : \E u \in t.trusses : u.id = id
    BY <1>2, <1>3, <1>4 DEF Stands, Placed
  <1>7. \A m \in t.measures : OnPlot(m, t) /\ \A id \in m.from.element \cup m.to.element : \E e \in t.elements : e.id = id
    <2> SUFFICES ASSUME NEW m \in t.measures
                 PROVE  OnPlot(m, t) /\ \A id \in m.from.element \cup m.to.element : \E e \in t.elements : e.id = id
      OBVIOUS
    <2>1. m \in s.measures /\ (m.from.element \cup m.to.element) \cap gone = {}
      BY <1>2
    <2>2. OnPlot(m, s) /\ \A id \in m.from.element \cup m.to.element : \E e \in s.elements : e.id = id /\ e.plot = m.plot
      BY <2>1 DEF Stands, Anchored
    <2> QED BY <1>2, <1>4, <2>1, <2>2
  <1>8. Linked(t)
    BY <1>2 DEF Stands, Linked
  <1>9. Stands(t)
    BY <1>2, <1>3, <1>5, <1>6, <1>7, <1>8, FewerStand
  <1> QED BY <1>9 DEF t

LEMMA DeleteElementStands ==
  ASSUME NEW req, NEW s, Stands(s), NEW r \in Plots!DeleteElement(req, s)
  PROVE  Stands(r.store)
  <1>1. \E gone : r.store = Plots!WithoutElements(gone, s)
    BY DEF Plots!DeleteElement, Plots!Done
  <1> QED BY <1>1, WithoutStands

LEMMA DeleteLayerStands ==
  ASSUME NEW req, NEW s, Stands(s), NEW r \in Plots!DeleteLayer(req, s)
  PROVE  Stands(r.store)
  <1> DEFINE gone == {e.id : e \in {x \in s.elements : x.layer = req.id}}
             left == Plots!WithoutElements(gone, s)
             t == [left EXCEPT !.layers = {l \in @ : l.id # req.id}, !.measures = {m \in @ : m.layer # req.id}]
  <1>1. CASE Plots!Row(Plots!LayersOf(req.plot, s), req.id) = {}
    BY <1>1 DEF Plots!DeleteLayer, Plots!Done
  <1>2. CASE Plots!Row(Plots!LayersOf(req.plot, s), req.id) # {}
    <2>1. r.store = t /\ Cardinality(Plots!LayersOf(req.plot, s)) # 1
      BY <1>2 DEF Plots!DeleteLayer, Plots!Done, Plots!Cardinality, Cardinality
    <2>2. PICK l \in s.layers : l.id = req.id /\ l.plot = req.plot
      BY <1>2 DEF Plots!Row, Plots!LayersOf
    <2>3. Stands(left)
      BY WithoutStands
    <2>4. DOMAIN s = Plots!PlotFields /\ \A j, k \in s.layers : j.id = k.id => j = k
      BY DEF Stands, Plots!IsStage, Plots!IdsOnce
    <2>5. Others(s, left, {"elements", "links", "measures"}) /\ left.elements = {e \in s.elements : e.id \notin gone}
      BY <2>4, WithoutGives
    <2> HIDE DEF left
    <2>6. DOMAIN left = Plots!PlotFields /\ left.layers = s.layers
      BY <2>5 DEF Others, Plots!PlotFields
    <2>7. /\ Others(left, t, {"layers", "measures"})
          /\ t.layers = {k \in s.layers : k.id # req.id} /\ t.measures = {m \in left.measures : m.layer # req.id}
      BY <2>6 DEF Others, Plots!PlotFields
    <2> HIDE DEF t
    <2>8. /\ DOMAIN t = Plots!PlotFields /\ t.next = left.next /\ t.plots = left.plots /\ t.elements = left.elements
          /\ t.links = left.links /\ t.trusses = left.trusses
      BY <2>7 DEF Others, Plots!PlotFields
    <2>9. PICK k \in s.layers : k.plot = req.plot /\ k.id # req.id
      <3>1. Plots!LayersOf(req.plot, s) # {l}
        BY <2>1, FS_Singleton
      <3>2. l \in Plots!LayersOf(req.plot, s)
        BY <2>2 DEF Plots!LayersOf
      <3>3. PICK k \in Plots!LayersOf(req.plot, s) : k # l
        BY <3>1, <3>2
      <3> QED BY <2>2, <2>4, <3>3 DEF Plots!LayersOf
    <2>10. Layered(t)
      <3> SUFFICES ASSUME NEW plot \in t.plots PROVE \E j \in t.layers : j.plot = plot
        BY DEF Layered
      <3>1. PICK j \in s.layers : j.plot = plot
        BY <2>3, <2>6, <2>8 DEF Stands, Layered
      <3>2. CASE j.id = req.id
        BY <2>2, <2>4, <2>7, <2>9, <3>1, <3>2
      <3>3. CASE j.id # req.id
        BY <2>7, <3>1, <3>3
      <3> QED BY <3>2, <3>3
    <2>11. \A row : OnPlot(row, left) /\ row.layer # req.id => OnPlot(row, t)
      BY <2>6, <2>7, <2>8 DEF OnPlot
    <2>12. \A e \in t.elements : e.layer # req.id
      BY <2>5, <2>8
    <2>13. \A e \in t.elements : OnPlot(e, t) /\ \A id \in e.truss : \E u \in t.trusses : u.id = id
      BY <2>3, <2>8, <2>11, <2>12 DEF Stands, Placed
    <2>14. \A m \in t.measures : OnPlot(m, t) /\ \A id \in m.from.element \cup m.to.element : \E e \in t.elements : e.id = id
      BY <2>3, <2>7, <2>8, <2>11 DEF Stands, Anchored
    <2>15. Linked(t)
      BY <2>3, <2>8 DEF Stands, Linked
    <2>16. t.layers \subseteq left.layers /\ t.measures \subseteq left.measures
      BY <2>6, <2>7
    <2>17. Stands(t)
      BY <2>3, <2>8, <2>10, <2>13, <2>14, <2>15, <2>16, FewerStand
    <2> QED BY <2>1, <2>17
  <1> QED BY <1>1, <1>2

LEMMA DeleteTrussStands ==
  ASSUME NEW req, NEW s, Stands(s), NEW r \in Plots!DeleteTruss(req, s)
  PROVE  Stands(r.store)
  <1> DEFINE gone == {e.id : e \in {x \in s.elements : x.truss = {req.id}}}
             u == [s EXCEPT !.trusses = @ \ Plots!Row(@, req.id)]
             t == Plots!WithoutElements(gone, s)
             v == Plots!WithoutElements(gone, u)
  <1>1. r.store = v
    BY DEF Plots!DeleteTruss, Plots!Done
  <1>2. /\ DOMAIN s = Plots!PlotFields /\ \A d, e \in s.elements : d.id = e.id => d = e
        /\ \A e \in s.elements : \A a, b \in e.truss : a = b
    BY DEF Stands, Plots!IsStage, Plots!IdsOnce
  <1>3. Others(s, u, {"trusses"}) /\ u.trusses = {x \in s.trusses : x.id # req.id}
    BY <1>2 DEF Others, Plots!PlotFields, Plots!Row
  <1>4. Stands(t)
    BY WithoutStands
  <1>5. Others(s, t, {"elements", "links", "measures"}) /\ t.elements = {e \in s.elements : e.id \notin gone}
        /\ t.links = {k \in s.links : k.element \notin gone}
        /\ t.measures = {m \in s.measures : (m.from.element \cup m.to.element) \cap gone = {}}
    BY <1>2, WithoutGives
  <1> HIDE DEF u
  <1>6. DOMAIN u = Plots!PlotFields /\ u.elements = s.elements /\ u.links = s.links /\ u.measures = s.measures
        /\ u.plots = s.plots /\ u.layers = s.layers /\ u.next = s.next
    BY <1>3 DEF Others, Plots!PlotFields
  <1>7. Others(u, v, {"elements", "links", "measures"}) /\ v.elements = {e \in u.elements : e.id \notin gone}
        /\ v.links = {k \in u.links : k.element \notin gone}
        /\ v.measures = {m \in u.measures : (m.from.element \cup m.to.element) \cap gone = {}}
    <2> HIDE DEF gone
    <2>1. DOMAIN u = Plots!PlotFields
      BY <1>6
    <2> QED BY <2>1, WithoutGives
  <1> HIDE DEF t, v
  <1>8. /\ DOMAIN v = Plots!PlotFields /\ v.plots = s.plots /\ v.layers = s.layers /\ v.next = s.next
        /\ v.trusses = {x \in s.trusses : x.id # req.id}
    BY <1>3, <1>6, <1>7 DEF Others, Plots!PlotFields
  <1>9. DOMAIN t = Plots!PlotFields /\ t.plots = s.plots /\ t.layers = s.layers /\ t.next = s.next /\ t.trusses = s.trusses
    BY <1>5 DEF Others, Plots!PlotFields
  <1>10. v.elements = t.elements /\ v.links = t.links /\ v.measures = t.measures
    BY <1>5, <1>6, <1>7
  <1>11. \A row : OnPlot(row, t) => OnPlot(row, v)
    BY <1>8, <1>9 DEF OnPlot
  <1>12. Layered(v)
    BY <1>4, <1>8, <1>9 DEF Stands, Layered
  <1>13. \A e \in v.elements : req.id \notin e.truss
    <2> SUFFICES ASSUME NEW e \in s.elements, req.id \in e.truss PROVE e.id \in gone
      BY <1>6, <1>7
    <2>1. e.truss = {req.id}
      BY <1>2
    <2> QED BY <2>1
  <1>14. \A e \in v.elements : OnPlot(e, v) /\ \A id \in e.truss : \E x \in v.trusses : x.id = id
    BY <1>4, <1>8, <1>9, <1>10, <1>11, <1>13 DEF Stands, Placed
  <1>15. \A m \in v.measures : OnPlot(m, v) /\ \A id \in m.from.element \cup m.to.element : \E e \in v.elements : e.id = id
    BY <1>4, <1>10, <1>11 DEF Stands, Anchored
  <1>16. Linked(v)
    BY <1>4, <1>10 DEF Stands, Linked
  <1>17. v.trusses \subseteq t.trusses
    BY <1>8, <1>9
  <1>18. Stands(v)
    BY <1>4, <1>8, <1>9, <1>10, <1>12, <1>14, <1>15, <1>16, <1>17, FewerStand
  <1> QED BY <1>1, <1>18

\* Elements, a measurement or links of others, each on rows that are there.
LEMMA ElementsStand ==
  ASSUME NEW s, NEW t, Stands(s), Others(s, t, {"elements", "next"}), t.next \in {s.next, s.next + 1},
         Plots!IdsOnce(t.elements, t.next), Placed(t),
         \A e \in t.elements : {"id", "plot", "layer", "truss"} \subseteq DOMAIN e /\ \A a, b \in e.truss : a = b,
         \A d \in s.elements : \E e \in t.elements : e.id = d.id /\ e.plot = d.plot
  PROVE  Stands(t)
  <1>1. /\ DOMAIN t = Plots!PlotFields /\ t.plots = s.plots /\ t.layers = s.layers
        /\ t.measures = s.measures /\ t.links = s.links /\ t.trusses = s.trusses
    BY DEF Others, Plots!PlotFields
  <1>2. /\ s.next \in Nat /\ t.next \in Nat /\ s.plots \subseteq 0 .. s.next - 1
        /\ \A rows \in {s.layers, s.measures, s.links, s.trusses} : Plots!IdsOnce(rows, s.next)
    BY DEF Stands, Plots!IsStage
  <1>3. /\ t.plots \subseteq 0 .. t.next - 1
        /\ \A rows \in {t.layers, t.measures, t.links, t.trusses} : Plots!IdsOnce(rows, t.next)
    BY <1>1, <1>2, MoreIds
  <1>4. Plots!IsStage(t)
    BY <1>1, <1>2, <1>3 DEF Stands, Plots!IsStage
  <1>5. \A row : OnPlot(row, s) => OnPlot(row, t)
    BY <1>1 DEF OnPlot
  <1>6. Layered(t) /\ HungOnce(t)
    BY <1>1 DEF Stands, Layered, HungOnce
  <1>7. Anchored(t)
    <2> SUFFICES ASSUME NEW m \in t.measures
                 PROVE  /\ OnPlot(m, t)
                        /\ \A id \in m.from.element \cup m.to.element : \E e \in t.elements : e.id = id /\ e.plot = m.plot
      BY DEF Anchored
    <2>1. /\ OnPlot(m, s)
          /\ \A id \in m.from.element \cup m.to.element : \E e \in s.elements : e.id = id /\ e.plot = m.plot
      BY <1>1 DEF Stands, Anchored
    <2>2. ASSUME NEW id \in m.from.element \cup m.to.element PROVE \E e \in t.elements : e.id = id /\ e.plot = m.plot
      BY <2>1
    <2> QED BY <1>5, <2>1, <2>2
  <1>8. Linked(t)
    BY <1>1 DEF Stands, Linked
  <1> QED BY <1>4, <1>6, <1>7, <1>8 DEF Stands

LEMMA MeasuresStand ==
  ASSUME NEW s, NEW t, Stands(s), Others(s, t, {"measures", "next"}), t.next \in {s.next, s.next + 1},
         Plots!IdsOnce(t.measures, t.next), Anchored(t),
         \A m \in t.measures : {"id", "plot", "layer", "from", "to"} \subseteq DOMAIN m
  PROVE  Stands(t)
  <1>1. /\ DOMAIN t = Plots!PlotFields /\ t.plots = s.plots /\ t.layers = s.layers
        /\ t.elements = s.elements /\ t.links = s.links /\ t.trusses = s.trusses
    BY DEF Others, Plots!PlotFields
  <1>2. /\ s.next \in Nat /\ t.next \in Nat /\ s.plots \subseteq 0 .. s.next - 1
        /\ \A rows \in {s.layers, s.elements, s.links, s.trusses} : Plots!IdsOnce(rows, s.next)
    BY DEF Stands, Plots!IsStage
  <1>3. /\ t.plots \subseteq 0 .. t.next - 1
        /\ \A rows \in {t.layers, t.elements, t.links, t.trusses} : Plots!IdsOnce(rows, t.next)
    BY <1>1, <1>2, MoreIds
  <1>4. Plots!IsStage(t)
    BY <1>1, <1>2, <1>3 DEF Stands, Plots!IsStage
  <1>5. \A row : OnPlot(row, s) => OnPlot(row, t)
    BY <1>1 DEF OnPlot
  <1>6. Layered(t) /\ HungOnce(t) /\ Linked(t)
    BY <1>1 DEF Stands, Layered, HungOnce, Linked
  <1>7. Placed(t)
    BY <1>1, <1>5 DEF Stands, Placed
  <1> QED BY <1>4, <1>6, <1>7 DEF Stands

LEMMA LinksStand ==
  ASSUME NEW s, NEW t, Stands(s), Others(s, t, {"links", "next"}), t.next \in {s.next, s.next + 1},
         Plots!IdsOnce(t.links, t.next), Linked(t),
         \A k \in t.links : {"id", "element"} \subseteq DOMAIN k
  PROVE  Stands(t)
  <1>1. /\ DOMAIN t = Plots!PlotFields /\ t.plots = s.plots /\ t.layers = s.layers
        /\ t.elements = s.elements /\ t.measures = s.measures /\ t.trusses = s.trusses
    BY DEF Others, Plots!PlotFields
  <1>2. /\ s.next \in Nat /\ t.next \in Nat /\ s.plots \subseteq 0 .. s.next - 1
        /\ \A rows \in {s.layers, s.elements, s.measures, s.trusses} : Plots!IdsOnce(rows, s.next)
    BY DEF Stands, Plots!IsStage
  <1>3. /\ t.plots \subseteq 0 .. t.next - 1
        /\ \A rows \in {t.layers, t.elements, t.measures, t.trusses} : Plots!IdsOnce(rows, t.next)
    BY <1>1, <1>2, MoreIds
  <1>4. Plots!IsStage(t)
    BY <1>1, <1>2, <1>3 DEF Stands, Plots!IsStage
  <1>5. \A row : OnPlot(row, s) => OnPlot(row, t)
    BY <1>1 DEF OnPlot
  <1>6. Layered(t) /\ HungOnce(t)
    BY <1>1 DEF Stands, Layered, HungOnce
  <1>7. Placed(t)
    BY <1>1, <1>5 DEF Stands, Placed
  <1>8. Anchored(t)
    BY <1>1, <1>5 DEF Stands, Anchored
  <1> QED BY <1>4, <1>6, <1>7, <1>8 DEF Stands

LEMMA TrussesStand ==
  ASSUME NEW s, NEW t, Stands(s), Others(s, t, {"trusses", "next"}), t.next \in {s.next, s.next + 1},
         Plots!IdsOnce(t.trusses, t.next), HungOnce(t),
         \A x \in t.trusses : {"id", "hung"} \subseteq DOMAIN x,
         \A x \in s.trusses : \E y \in t.trusses : y.id = x.id
  PROVE  Stands(t)
  <1>1. /\ DOMAIN t = Plots!PlotFields /\ t.plots = s.plots /\ t.layers = s.layers
        /\ t.elements = s.elements /\ t.measures = s.measures /\ t.links = s.links
    BY DEF Others, Plots!PlotFields
  <1>2. /\ s.next \in Nat /\ t.next \in Nat /\ s.plots \subseteq 0 .. s.next - 1
        /\ \A rows \in {s.layers, s.elements, s.measures, s.links} : Plots!IdsOnce(rows, s.next)
    BY DEF Stands, Plots!IsStage
  <1>3. /\ t.plots \subseteq 0 .. t.next - 1
        /\ \A rows \in {t.layers, t.elements, t.measures, t.links} : Plots!IdsOnce(rows, t.next)
    BY <1>1, <1>2, MoreIds
  <1>4. Plots!IsStage(t)
    BY <1>1, <1>2, <1>3 DEF Stands, Plots!IsStage
  <1>5. \A row : OnPlot(row, s) => OnPlot(row, t)
    BY <1>1 DEF OnPlot
  <1>6. Layered(t) /\ Linked(t)
    BY <1>1 DEF Stands, Layered, Linked
  <1>7. Placed(t)
    <2> SUFFICES ASSUME NEW e \in t.elements
                 PROVE  /\ OnPlot(e, t) /\ \A id \in e.truss : \E x \in t.trusses : x.id = id
                        /\ \A x \in t.elements : x.plot = e.plot /\ x.truss = e.truss /\ x.truss # {} => x = e
      BY DEF Placed
    <2>1. /\ OnPlot(e, s) /\ \A id \in e.truss : \E x \in s.trusses : x.id = id
          /\ \A x \in s.elements : x.plot = e.plot /\ x.truss = e.truss /\ x.truss # {} => x = e
      BY <1>1 DEF Stands, Placed
    <2>2. ASSUME NEW id \in e.truss PROVE \E x \in t.trusses : x.id = id
      BY <2>1
    <2> QED BY <1>1, <1>5, <2>1, <2>2
  <1>8. Anchored(t)
    BY <1>1, <1>5 DEF Stands, Anchored
  <1> QED BY <1>4, <1>6, <1>7, <1>8 DEF Stands

\* A plot is put in with its layer.
LEMMA CreatePlotStands ==
  ASSUME NEW req, NEW s, Stands(s), NEW r \in Plots!CreatePlot(s)
  PROVE  Stands(r.store)
  <1> DEFINE row == [id |-> s.next, plot |-> s.next, sort |-> 0, visible |-> TRUE, locked |-> FALSE]
             t == [s EXCEPT !.plots = @ \cup {s.next}, !.heads = (s.next :> Plots!NewHead(s.next)) @@ @,
                            !.layers = @ \cup {row}]
  <1>1. r \in Plots!Made(t)
    BY DEF Plots!CreatePlot
  <1>2. row.id = s.next /\ row.plot = s.next /\ {"id", "plot"} \subseteq DOMAIN row
    OBVIOUS
  <1> HIDE DEF row
  <1>3. /\ DOMAIN s = Plots!PlotFields /\ s.next \in Nat /\ s.plots \subseteq 0 .. s.next - 1
        /\ \A rows \in {s.layers, s.elements, s.measures, s.links, s.trusses} : Plots!IdsOnce(rows, s.next)
    BY DEF Stands, Plots!IsStage
  <1>4. Others(s, t, {"plots", "heads", "layers"}) /\ t.plots = s.plots \cup {s.next} /\ t.layers = s.layers \cup {row}
    BY <1>3 DEF Others, Plots!PlotFields
  <1> HIDE DEF t
  <1>5. /\ DOMAIN r.store = Plots!PlotFields /\ r.store.next = t.next + 1
        /\ \A f \in Plots!PlotFields \ {"next"} : r.store[f] = t[f]
    BY <1>1, <1>4, MadeGives DEF Others
  <1>6. r.store.next = s.next + 1
    BY <1>4, <1>5 DEF Others, Plots!PlotFields
  <1>7. /\ DOMAIN r.store = Plots!PlotFields /\ r.store.plots = s.plots \cup {s.next} /\ r.store.layers = s.layers \cup {row}
        /\ r.store.elements = s.elements /\ r.store.measures = s.measures /\ r.store.links = s.links
        /\ r.store.trusses = s.trusses
    BY <1>4, <1>5 DEF Others, Plots!PlotFields
  <1>8. /\ r.store.plots \subseteq 0 .. r.store.next - 1 /\ r.store.next \in Nat
        /\ \A rows \in {s.elements, s.measures, s.links, s.trusses} : Plots!IdsOnce(rows, r.store.next)
    BY <1>3, <1>6, <1>7, MoreIds
  <1>9. Plots!IdsOnce(r.store.layers, r.store.next)
    BY <1>2, <1>3, <1>6, <1>7, NewId
  <1>10. Plots!IsStage(r.store)
    BY <1>2, <1>3, <1>7, <1>8, <1>9 DEF Stands, Plots!IsStage
  <1>11. \A x : OnPlot(x, s) => OnPlot(x, r.store)
    BY <1>7 DEF OnPlot
  <1>12. Layered(r.store)
    BY <1>2, <1>7 DEF Stands, Layered
  <1>13. Placed(r.store)
    BY <1>7, <1>11 DEF Stands, Placed
  <1>14. Anchored(r.store)
    BY <1>7, <1>11 DEF Stands, Anchored
  <1>15. Linked(r.store) /\ HungOnce(r.store)
    BY <1>7 DEF Stands, Linked, HungOnce
  <1> QED BY <1>10, <1>12, <1>13, <1>14, <1>15 DEF Stands

LEMMA CreateElementStands ==
  ASSUME NEW req, NEW s, Stands(s), NEW r \in Plots!CreateElement(req, s)
  PROVE  Stands(r.store)
  <1> DEFINE e == req.element
             row == Plots!RowOf(e, Plots!ElementFields, req, s)
             t == [s EXCEPT !.elements = @ \cup {row}]
  <1>1. /\ req.plot \in s.plots /\ Plots!Row(Plots!LayersOf(req.plot, s), e.layer) # {}
        /\ e.truss # {} => /\ \E u \in s.trusses : e.truss = {u.id}
                           /\ ~\E x \in s.elements : x.plot = req.plot /\ x.truss = e.truss
        /\ r \in Plots!Made(t)
    BY DEF Plots!CreateElement
  <1>2. /\ DOMAIN s = Plots!PlotFields /\ s.next \in Nat /\ Plots!IdsOnce(s.elements, s.next)
        /\ \A d \in s.elements : {"id", "plot", "layer", "truss"} \subseteq DOMAIN d /\ \A a, b \in d.truss : a = b
    BY DEF Stands, Plots!IsStage
  <1>3. /\ row.id = s.next /\ row.plot = req.plot /\ row.layer = e.layer /\ row.truss = e.truss
        /\ {"id", "plot", "layer", "truss"} \subseteq DOMAIN row
    BY DEF Plots!RowOf, Plots!ElementFields, Plots!ElementPatch
  <1> HIDE DEF row
  <1>4. Others(s, t, {"elements"}) /\ t.elements = s.elements \cup {row}
    BY <1>2 DEF Others, Plots!PlotFields
  <1> HIDE DEF t
  <1>5. /\ DOMAIN r.store = Plots!PlotFields /\ r.store.next = t.next + 1
        /\ \A f \in Plots!PlotFields \ {"next"} : r.store[f] = t[f]
    BY <1>1, <1>4, MadeGives DEF Others
  <1>6. /\ Others(s, r.store, {"elements", "next"}) /\ r.store.next = s.next + 1
        /\ r.store.elements = s.elements \cup {row}
        /\ r.store.plots = s.plots /\ r.store.layers = s.layers /\ r.store.trusses = s.trusses
    BY <1>4, <1>5 DEF Others, Plots!PlotFields
  <1>7. Plots!IdsOnce(r.store.elements, s.next + 1)
    BY <1>2, <1>3, <1>6, NewId
  <1>8. \A x : OnPlot(x, s) => OnPlot(x, r.store)
    BY <1>6 DEF OnPlot
  <1>9. OnPlot(row, s)
    BY <1>1, <1>3 DEF OnPlot, Plots!Row, Plots!LayersOf
  <1> HIDE DEF e
  <1>10. Placed(r.store)
    <2> SUFFICES ASSUME NEW d \in r.store.elements
                 PROVE  /\ OnPlot(d, r.store) /\ \A id \in d.truss : \E u \in r.store.trusses : u.id = id
                        /\ \A x \in r.store.elements : x.plot = d.plot /\ x.truss = d.truss /\ x.truss # {} => x = d
      BY DEF Placed
    <2>1. CASE d = row
      BY <1>1, <1>3, <1>6, <1>8, <1>9, <2>1
    <2>2. CASE d \in s.elements
      <3>1. /\ OnPlot(d, s) /\ \A id \in d.truss : \E u \in s.trusses : u.id = id
            /\ \A x \in s.elements : x.plot = d.plot /\ x.truss = d.truss /\ x.truss # {} => x = d
        BY <2>2 DEF Stands, Placed
      <3>2. row.plot = d.plot /\ row.truss = d.truss => row.truss = {}
        BY <1>1, <1>3, <2>2
      <3> QED BY <1>6, <1>8, <3>1, <3>2
    <2> QED BY <1>6, <2>1, <2>2
  <1>11. \A d \in r.store.elements : {"id", "plot", "layer", "truss"} \subseteq DOMAIN d /\ \A a, b \in d.truss : a = b
    BY <1>1, <1>2, <1>3, <1>6
  <1>12. \A d \in s.elements : \E x \in r.store.elements : x.id = d.id /\ x.plot = d.plot
    BY <1>6
  <1> QED BY <1>6, <1>7, <1>10, <1>11, <1>12, ElementsStand

LEMMA UpdateElementStands ==
  ASSUME NEW req, NEW s, Stands(s), NEW r \in Plots!UpdateElement(req, s)
  PROVE  Stands(r.store)
  <1>1. PICK e \in {x \in Plots!Row(s.elements, req.id) : x.plot = req.plot} :
          /\ "layer" \in DOMAIN req.patch => Plots!Row(Plots!LayersOf(req.plot, s), req.patch.layer) # {}
          /\ r.store = [s EXCEPT !.elements = Plots!Put(@, Plots!Patched(e, req.patch, Plots!ElementPatch))]
    BY DEF Plots!UpdateElement, Plots!Given
  <1> DEFINE row == Plots!Patched(e, req.patch, Plots!ElementPatch)
             rows == Plots!Put(s.elements, row)
  <1>2. /\ DOMAIN s = Plots!PlotFields /\ s.next \in Nat /\ Plots!IdsOnce(s.elements, s.next)
        /\ \A d \in s.elements : {"id", "plot", "layer", "truss"} \subseteq DOMAIN d /\ \A a, b \in d.truss : a = b
    BY DEF Stands, Plots!IsStage
  <1>3. e \in s.elements /\ e.plot = req.plot
    BY <1>1 DEF Plots!Row
  <1>4. /\ row.id = e.id /\ row.plot = e.plot /\ row.truss = e.truss /\ DOMAIN row = DOMAIN e
        /\ row.layer = IF "layer" \in DOMAIN req.patch THEN req.patch.layer ELSE e.layer
    BY <1>2, <1>3 DEF Plots!Patched, Plots!ElementPatch
  <1> HIDE DEF row
  <1>5. /\ Plots!IdsOnce(rows, s.next) /\ row \in rows
        /\ \A x \in rows : x = row \/ (x \in s.elements /\ x # e)
        /\ \A x \in s.elements : x # e => x \in rows
    BY <1>2, <1>3, <1>4, PutOnce
  <1> HIDE DEF rows
  <1>6. Others(s, r.store, {"elements"}) /\ r.store.elements = rows
    BY <1>1, <1>2 DEF Others, Plots!PlotFields, rows, row
  <1>7. /\ Others(s, r.store, {"elements", "next"}) /\ r.store.next = s.next
        /\ r.store.plots = s.plots /\ r.store.layers = s.layers /\ r.store.trusses = s.trusses
    BY <1>6 DEF Others, Plots!PlotFields
  <1>8. \A x : OnPlot(x, s) => OnPlot(x, r.store)
    BY <1>7 DEF OnPlot
  <1>9. OnPlot(e, s)
    BY <1>3 DEF Stands, Placed
  <1>10. OnPlot(row, s)
    BY <1>1, <1>3, <1>4, <1>9 DEF OnPlot, Plots!Row, Plots!LayersOf
  <1>11. Placed(r.store)
    <2> SUFFICES ASSUME NEW d \in rows
                 PROVE  /\ OnPlot(d, r.store) /\ \A id \in d.truss : \E u \in r.store.trusses : u.id = id
                        /\ \A x \in rows : x.plot = d.plot /\ x.truss = d.truss /\ x.truss # {} => x = d
      BY <1>6 DEF Placed
    <2>1. \A c \in s.elements :
            /\ OnPlot(c, s) /\ \A id \in c.truss : \E u \in s.trusses : u.id = id
            /\ \A x \in s.elements : x.plot = c.plot /\ x.truss = c.truss /\ x.truss # {} => x = c
      BY DEF Stands, Placed
    <2>2. OnPlot(d, s)
      BY <1>5, <1>10, <2>1
    <2>3. \A id \in d.truss : \E u \in s.trusses : u.id = id
      BY <1>3, <1>4, <1>5, <2>1
    <2>4. ASSUME NEW x \in rows, x.plot = d.plot, x.truss = d.truss, x.truss # {} PROVE x = d
      BY <1>3, <1>4, <1>5, <2>1, <2>4
    <2> QED BY <1>7, <1>8, <2>2, <2>3, <2>4
  <1>12. \A d \in rows : {"id", "plot", "layer", "truss"} \subseteq DOMAIN d /\ \A a, b \in d.truss : a = b
    BY <1>2, <1>3, <1>4, <1>5
  <1>13. \A d \in s.elements : \E x \in rows : x.id = d.id /\ x.plot = d.plot
    BY <1>4, <1>5
  <1> QED BY <1>5, <1>6, <1>7, <1>11, <1>12, <1>13, ElementsStand

\* A measurement the server takes is on a layer of its plot, and each end it has on an
\* element is on one of the plot's.
LEMMA LegalIsAnchored ==
  ASSUME NEW m, NEW s, Stands(s), Plots!LegalMeasurement(m, s), m.plot \in s.plots
  PROVE  /\ OnPlot(m, s)
         /\ \A id \in m.from.element \cup m.to.element : \E e \in s.elements : e.id = id /\ e.plot = m.plot
  <1> DEFINE here == {Plots!EffectiveElement(e, s) : e \in {x \in s.elements : x.plot = m.plot}}
  <1>1. Plots!LegalEnd(m.from, here, m.view) /\ Plots!LegalEnd(m.to, here, m.view)
    BY DEF Plots!LegalMeasurement, Plots!LegalAmong
  <1>2. \A e \in s.elements : Plots!EffectiveElement(e, s).id = e.id
    <2> SUFFICES ASSUME NEW e \in s.elements PROVE Plots!EffectiveElement(e, s).id = e.id
      OBVIOUS
    <2>1. "id" \in DOMAIN e
      BY DEF Stands, Plots!IsStage
    <2> QED BY <2>1 DEF Plots!EffectiveElement
  <1> HIDE DEF here
  <1>3. \A id \in m.from.element \cup m.to.element : \E x \in here : x.id = id
    BY <1>1 DEF Plots!LegalEnd, Plots!Row
  <1>4. \A x \in here : \E e \in s.elements : e.plot = m.plot /\ e.id = x.id
    BY <1>2 DEF here
  <1>5. OnPlot(m, s)
    BY DEF Plots!LegalMeasurement, OnPlot, Plots!Row, Plots!LayersOf
  <1> QED BY <1>3, <1>4, <1>5

LEMMA CreateMeasurementStands ==
  ASSUME NEW req, NEW s, Stands(s), NEW r \in Plots!CreateMeasurement(req, s)
  PROVE  Stands(r.store)
  <1> DEFINE m == Plots!RowOf(req.measure, Plots!MeasureFields, req, s)
             t == [s EXCEPT !.measures = @ \cup {m}]
  <1>1. req.plot \in s.plots /\ Plots!LegalMeasurement(m, s) /\ r \in Plots!Made(t)
    BY DEF Plots!CreateMeasurement
  <1>2. /\ DOMAIN s = Plots!PlotFields /\ s.next \in Nat /\ Plots!IdsOnce(s.measures, s.next)
        /\ \A x \in s.measures : {"id", "plot", "layer", "from", "to"} \subseteq DOMAIN x
    BY DEF Stands, Plots!IsStage
  <1>3. m.id = s.next /\ m.plot = req.plot /\ {"id", "plot", "layer", "from", "to"} \subseteq DOMAIN m
    BY DEF Plots!RowOf, Plots!MeasureFields, Plots!MeasurePatch
  <1> HIDE DEF m
  <1>4. Others(s, t, {"measures"}) /\ t.measures = s.measures \cup {m}
    BY <1>2 DEF Others, Plots!PlotFields
  <1> HIDE DEF t
  <1>5. /\ DOMAIN r.store = Plots!PlotFields /\ r.store.next = t.next + 1
        /\ \A f \in Plots!PlotFields \ {"next"} : r.store[f] = t[f]
    BY <1>1, <1>4, MadeGives DEF Others
  <1>6. /\ Others(s, r.store, {"measures", "next"}) /\ r.store.next = s.next + 1
        /\ r.store.measures = s.measures \cup {m}
        /\ r.store.plots = s.plots /\ r.store.layers = s.layers /\ r.store.elements = s.elements
    BY <1>4, <1>5 DEF Others, Plots!PlotFields
  <1>7. Plots!IdsOnce(r.store.measures, s.next + 1)
    BY <1>2, <1>3, <1>6, NewId
  <1>8. \A x : OnPlot(x, s) => OnPlot(x, r.store)
    BY <1>6 DEF OnPlot
  <1>9. /\ OnPlot(m, s)
        /\ \A id \in m.from.element \cup m.to.element : \E e \in s.elements : e.id = id /\ e.plot = m.plot
    BY <1>1, <1>3, LegalIsAnchored
  <1>10. Anchored(r.store)
    BY <1>6, <1>8, <1>9 DEF Stands, Anchored
  <1>11. \A x \in r.store.measures : {"id", "plot", "layer", "from", "to"} \subseteq DOMAIN x
    BY <1>2, <1>3, <1>6
  <1> QED BY <1>6, <1>7, <1>10, <1>11, MeasuresStand

LEMMA UpdateMeasurementStands ==
  ASSUME NEW req, NEW s, Stands(s), NEW r \in Plots!UpdateMeasurement(req, s)
  PROVE  Stands(r.store)
  <1>1. PICK m \in {x \in Plots!Row(s.measures, req.id) : x.plot = req.plot} :
          /\ Plots!LegalMeasurement(Plots!Patched(m, req.patch, Plots!MeasurePatch), s)
          /\ r.store = [s EXCEPT !.measures = Plots!Put(@, Plots!Patched(m, req.patch, Plots!MeasurePatch))]
    BY DEF Plots!UpdateMeasurement, Plots!Given
  <1> DEFINE row == Plots!Patched(m, req.patch, Plots!MeasurePatch)
             rows == Plots!Put(s.measures, row)
  <1>2. /\ DOMAIN s = Plots!PlotFields /\ s.next \in Nat /\ Plots!IdsOnce(s.measures, s.next)
        /\ \A x \in s.measures : {"id", "plot", "layer", "from", "to"} \subseteq DOMAIN x
    BY DEF Stands, Plots!IsStage
  <1>3. m \in s.measures
    BY <1>1 DEF Plots!Row
  <1>4. row.id = m.id /\ row.plot = m.plot /\ DOMAIN row = DOMAIN m
    BY <1>2, <1>3 DEF Plots!Patched, Plots!MeasurePatch
  <1>5. Plots!LegalMeasurement(row, s)
    BY <1>1
  <1> HIDE DEF row
  <1>6. /\ Plots!IdsOnce(rows, s.next) /\ \A x \in rows : x = row \/ (x \in s.measures /\ x # m)
    BY <1>2, <1>3, <1>4, PutOnce
  <1> HIDE DEF rows
  <1>7. Others(s, r.store, {"measures"}) /\ r.store.measures = rows
    BY <1>1, <1>2 DEF Others, Plots!PlotFields, rows, row
  <1>8. /\ Others(s, r.store, {"measures", "next"}) /\ r.store.next = s.next
        /\ r.store.plots = s.plots /\ r.store.layers = s.layers /\ r.store.elements = s.elements
    BY <1>7 DEF Others, Plots!PlotFields
  <1>9. \A x : OnPlot(x, s) => OnPlot(x, r.store)
    BY <1>8 DEF OnPlot
  <1>10. m.plot \in s.plots
    BY <1>3 DEF Stands, Anchored, OnPlot
  <1>11. /\ OnPlot(row, s)
         /\ \A id \in row.from.element \cup row.to.element : \E e \in s.elements : e.id = id /\ e.plot = row.plot
    BY <1>4, <1>5, <1>10, LegalIsAnchored
  <1>12. Anchored(r.store)
    <2> SUFFICES ASSUME NEW x \in rows
                 PROVE  /\ OnPlot(x, r.store)
                        /\ \A id \in x.from.element \cup x.to.element : \E e \in s.elements : e.id = id /\ e.plot = x.plot
      BY <1>7, <1>8 DEF Anchored
    <2>1. CASE x = row
      BY <1>9, <1>11, <2>1
    <2>2. CASE x \in s.measures
      BY <1>9, <2>2 DEF Stands, Anchored
    <2> QED BY <1>6, <2>1, <2>2
  <1>13. \A x \in rows : {"id", "plot", "layer", "from", "to"} \subseteq DOMAIN x
    BY <1>2, <1>3, <1>4, <1>6
  <1> QED BY <1>6, <1>7, <1>8, <1>12, <1>13, MeasuresStand

LEMMA DeleteMeasurementStands ==
  ASSUME NEW req, NEW s, Stands(s), NEW r \in Plots!DeleteMeasurement(req, s)
  PROVE  Stands(r.store)
  <1> DEFINE rows == {m \in s.measures : ~(m.id = req.id /\ m.plot = req.plot)}
  <1>1. r.store = [s EXCEPT !.measures = rows]
    BY DEF Plots!DeleteMeasurement, Plots!Done
  <1>2. /\ DOMAIN s = Plots!PlotFields /\ s.next \in Nat /\ Plots!IdsOnce(s.measures, s.next)
        /\ \A x \in s.measures : {"id", "plot", "layer", "from", "to"} \subseteq DOMAIN x
    BY DEF Stands, Plots!IsStage
  <1>3. rows \subseteq s.measures
    OBVIOUS
  <1> HIDE DEF rows
  <1>4. /\ Others(s, r.store, {"measures", "next"}) /\ r.store.next = s.next /\ r.store.measures = rows
        /\ r.store.plots = s.plots /\ r.store.layers = s.layers /\ r.store.elements = s.elements
    BY <1>1, <1>2 DEF Others, Plots!PlotFields
  <1>5. Plots!IdsOnce(rows, s.next)
    BY <1>2, <1>3, FewerIds
  <1>6. \A x : OnPlot(x, s) => OnPlot(x, r.store)
    BY <1>4 DEF OnPlot
  <1>7. Anchored(r.store)
    BY <1>3, <1>4, <1>6 DEF Stands, Anchored
  <1> QED BY <1>2, <1>3, <1>4, <1>5, <1>7, MeasuresStand

LEMMA CreateLinkStands ==
  ASSUME NEW req, NEW s, Stands(s), NEW r \in Plots!CreateLink(req, s)
  PROVE  Stands(r.store)
  <1> DEFINE row == [id |-> s.next, element |-> req.element, role |-> req.role, target |-> req.target, sort |-> req.sort]
             t == [s EXCEPT !.links = @ \cup {row}]
  <1>1. (\E e \in s.elements : e.id = req.element) /\ r \in Plots!Made(t)
    BY DEF Plots!CreateLink
  <1>2. /\ DOMAIN s = Plots!PlotFields /\ s.next \in Nat /\ Plots!IdsOnce(s.links, s.next)
        /\ \A x \in s.links : {"id", "element"} \subseteq DOMAIN x
    BY DEF Stands, Plots!IsStage
  <1>3. row.id = s.next /\ row.element = req.element /\ {"id", "element"} \subseteq DOMAIN row
    OBVIOUS
  <1> HIDE DEF row
  <1>4. Others(s, t, {"links"}) /\ t.links = s.links \cup {row}
    BY <1>2 DEF Others, Plots!PlotFields
  <1> HIDE DEF t
  <1>5. /\ DOMAIN r.store = Plots!PlotFields /\ r.store.next = t.next + 1
        /\ \A f \in Plots!PlotFields \ {"next"} : r.store[f] = t[f]
    BY <1>1, <1>4, MadeGives DEF Others
  <1>6. /\ Others(s, r.store, {"links", "next"}) /\ r.store.next = s.next + 1
        /\ r.store.links = s.links \cup {row} /\ r.store.elements = s.elements
    BY <1>4, <1>5 DEF Others, Plots!PlotFields
  <1>7. Plots!IdsOnce(r.store.links, s.next + 1)
    BY <1>2, <1>3, <1>6, NewId
  <1>8. Linked(r.store)
    BY <1>1, <1>3, <1>6 DEF Stands, Linked
  <1>9. \A x \in r.store.links : {"id", "element"} \subseteq DOMAIN x
    BY <1>2, <1>3, <1>6
  <1> QED BY <1>6, <1>7, <1>8, <1>9, LinksStand

LEMMA UpdateLinkStands ==
  ASSUME NEW req, NEW s, Stands(s), NEW r \in Plots!UpdateLink(req, s)
  PROVE  Stands(r.store)
  <1>1. PICK k \in Plots!LinkOf(req, s) : r \in Plots!Done([s EXCEPT !.links = Plots!Put(@, [k EXCEPT !.sort = req.sort])])
    BY DEF Plots!UpdateLink
  <1> DEFINE row == [k EXCEPT !.sort = req.sort]
             rows == Plots!Put(s.links, row)
  <1>2. /\ DOMAIN s = Plots!PlotFields /\ s.next \in Nat /\ Plots!IdsOnce(s.links, s.next)
        /\ \A x \in s.links : {"id", "element"} \subseteq DOMAIN x
    BY DEF Stands, Plots!IsStage
  <1>3. k \in s.links
    BY <1>1 DEF Plots!LinkOf, Plots!Row
  <1>4. row.id = k.id /\ row.element = k.element /\ DOMAIN row = DOMAIN k
    BY <1>2, <1>3
  <1> HIDE DEF row
  <1>5. Plots!IdsOnce(rows, s.next) /\ \A x \in rows : x = row \/ (x \in s.links /\ x # k)
    BY <1>2, <1>3, <1>4, PutOnce
  <1> HIDE DEF rows
  <1>6. /\ Others(s, r.store, {"links", "next"}) /\ r.store.next = s.next /\ r.store.links = rows
        /\ r.store.elements = s.elements
    <2>1. r.store = [s EXCEPT !.links = rows]
      BY <1>1 DEF Plots!Done, rows, row
    <2> QED BY <1>2, <2>1 DEF Others, Plots!PlotFields
  <1>7. Linked(r.store)
    BY <1>3, <1>4, <1>5, <1>6 DEF Stands, Linked
  <1>8. \A x \in rows : {"id", "element"} \subseteq DOMAIN x
    BY <1>2, <1>3, <1>4, <1>5
  <1> QED BY <1>5, <1>6, <1>7, <1>8, LinksStand

LEMMA DeleteLinkStands ==
  ASSUME NEW req, NEW s, Stands(s), NEW r \in Plots!DeleteLink(req, s)
  PROVE  Stands(r.store)
  <1> DEFINE rows == s.links \ Plots!LinkOf(req, s)
  <1>1. r.store = [s EXCEPT !.links = rows]
    BY DEF Plots!DeleteLink, Plots!Done
  <1>2. /\ DOMAIN s = Plots!PlotFields /\ s.next \in Nat /\ Plots!IdsOnce(s.links, s.next)
        /\ \A x \in s.links : {"id", "element"} \subseteq DOMAIN x
    BY DEF Stands, Plots!IsStage
  <1>3. rows \subseteq s.links
    OBVIOUS
  <1> HIDE DEF rows
  <1>4. /\ Others(s, r.store, {"links", "next"}) /\ r.store.next = s.next /\ r.store.links = rows
        /\ r.store.elements = s.elements
    BY <1>1, <1>2 DEF Others, Plots!PlotFields
  <1>5. Plots!IdsOnce(rows, s.next)
    BY <1>2, <1>3, FewerIds
  <1>6. Linked(r.store)
    BY <1>3, <1>4 DEF Stands, Linked
  <1> QED BY <1>2, <1>3, <1>4, <1>5, <1>6, LinksStand

\* The trusses. All but attaching put a truss, with no more hung on it, in its own place.
LEMMA CreateTrussStands ==
  ASSUME NEW req, NEW s, Stands(s), NEW r \in Plots!CreateTruss(req, s)
  PROVE  Stands(r.store)
  <1> DEFINE row == [id |-> s.next, height |-> req.height, pieces |-> {}, hung |-> {}]
             t == [s EXCEPT !.trusses = @ \cup {row}]
  <1>1. r \in Plots!Made(t)
    BY DEF Plots!CreateTruss
  <1>2. /\ DOMAIN s = Plots!PlotFields /\ s.next \in Nat /\ Plots!IdsOnce(s.trusses, s.next)
        /\ \A x \in s.trusses : {"id", "hung"} \subseteq DOMAIN x
    BY DEF Stands, Plots!IsStage
  <1>3. row.id = s.next /\ row.hung = {} /\ {"id", "hung"} \subseteq DOMAIN row
    OBVIOUS
  <1> HIDE DEF row
  <1>4. Others(s, t, {"trusses"}) /\ t.trusses = s.trusses \cup {row}
    BY <1>2 DEF Others, Plots!PlotFields
  <1> HIDE DEF t
  <1>5. /\ DOMAIN r.store = Plots!PlotFields /\ r.store.next = t.next + 1
        /\ \A f \in Plots!PlotFields \ {"next"} : r.store[f] = t[f]
    BY <1>1, <1>4, MadeGives DEF Others
  <1>6. /\ Others(s, r.store, {"trusses", "next"}) /\ r.store.next = s.next + 1
        /\ r.store.trusses = s.trusses \cup {row}
    BY <1>4, <1>5 DEF Others, Plots!PlotFields
  <1>7. Plots!IdsOnce(r.store.trusses, s.next + 1)
    BY <1>2, <1>3, <1>6, NewId
  <1>8. HungOnce(r.store)
    BY <1>3, <1>6 DEF Stands, HungOnce
  <1>9. \A x \in r.store.trusses : {"id", "hung"} \subseteq DOMAIN x
    BY <1>2, <1>3, <1>6
  <1>10. \A x \in s.trusses : \E y \in r.store.trusses : y.id = x.id
    BY <1>6
  <1> QED BY <1>6, <1>7, <1>8, <1>9, <1>10, TrussesStand

LEMMA TrussPut ==
  ASSUME NEW s, Stands(s), NEW old \in s.trusses, NEW row,
         row.id = old.id, {"id", "hung"} \subseteq DOMAIN row, row.hung \subseteq old.hung,
         NEW t, Others(s, t, {"trusses", "next"}), t.next \in {s.next, s.next + 1}, t.trusses = Plots!Put(s.trusses, row)
  PROVE  Stands(t)
  <1> DEFINE rows == Plots!Put(s.trusses, row)
  <1>1. /\ s.next \in Nat /\ Plots!IdsOnce(s.trusses, s.next)
        /\ \A x \in s.trusses : {"id", "hung"} \subseteq DOMAIN x
    BY DEF Stands, Plots!IsStage
  <1>2. /\ Plots!IdsOnce(rows, s.next) /\ row \in rows
        /\ \A x \in rows : x = row \/ (x \in s.trusses /\ x # old)
        /\ \A x \in s.trusses : x # old => x \in rows
    BY <1>1, PutOnce
  <1>3. t.trusses = rows
    OBVIOUS
  <1> HIDE DEF rows
  <1>4. \A x, y \in rows : \A h \in x.hung : \A i \in y.hung : h.fixture = i.fixture => x = y /\ h = i
    <2>1. \A x, y \in s.trusses : \A h \in x.hung : \A i \in y.hung : h.fixture = i.fixture => x = y /\ h = i
      BY DEF Stands, HungOnce
    <2> SUFFICES ASSUME NEW x \in rows, NEW y \in rows, NEW h \in x.hung, NEW i \in y.hung, h.fixture = i.fixture
                 PROVE  x = y /\ h = i
      OBVIOUS
    <2>2. CASE x = row /\ y = row
      BY <2>1, <2>2
    <2>3. CASE x = row /\ y # row
      BY <1>2, <2>1, <2>3
    <2>4. CASE x # row /\ y = row
      BY <1>2, <2>1, <2>4
    <2>5. CASE x # row /\ y # row
      BY <1>2, <2>1, <2>5
    <2> QED BY <2>2, <2>3, <2>4, <2>5
  <1>5. HungOnce(t)
    BY <1>3, <1>4 DEF HungOnce
  <1>6. \A x \in rows : {"id", "hung"} \subseteq DOMAIN x
    BY <1>1, <1>2
  <1>7. \A x \in s.trusses : \E y \in rows : y.id = x.id
    BY <1>2
  <1>8. Plots!IdsOnce(rows, t.next)
    BY <1>1, <1>2, MoreIds
  <1> QED BY <1>3, <1>5, <1>6, <1>7, <1>8, TrussesStand

\* What is asked of one truss but a fixture hung on it.
OneTruss(req, s) ==
  Plots!UpdateTruss(req, s) \cup Plots!CreateTrussPiece(req, s) \cup Plots!UpdateTrussPiece(req, s)
  \cup Plots!DeleteTrussPiece(req, s) \cup Plots!DetachFixture(req, s)

LEMMA OneTrussStands ==
  ASSUME NEW req, NEW s, Stands(s), NEW r \in OneTruss(req, s)
  PROVE  Stands(r.store)
  <1> DEFINE Takes(x, row) == row.id = x.id /\ {"id", "hung"} \subseteq DOMAIN row /\ row.hung \subseteq x.hung
             With(row) == [s EXCEPT !.trusses = Plots!Put(@, row)]
  <1>1. DOMAIN s = Plots!PlotFields /\ s.next \in Nat /\ \A x \in s.trusses : {"id", "hung"} \subseteq DOMAIN x
    BY DEF Stands, Plots!IsStage
  <1>2. ASSUME NEW x \in s.trusses, NEW row, Takes(x, row), r \in Plots!Done(With(row)) \cup Plots!Made(With(row))
        PROVE  Stands(r.store)
    <2>1. Others(s, With(row), {"trusses"}) /\ With(row).trusses = Plots!Put(s.trusses, row)
      BY <1>1 DEF Others, Plots!PlotFields
    <2> DEFINE t == With(row)
    <2> HIDE DEF t
    <2>2. /\ Others(s, t, {"trusses"}) /\ t.trusses = Plots!Put(s.trusses, row) /\ r \in Plots!Done(t) \cup Plots!Made(t)
      BY <1>2, <2>1 DEF t
    <2>3. CASE r \in Plots!Done(t)
      <3>1. r.store = t
        BY <2>3 DEF Plots!Done
      <3>2. Others(s, t, {"trusses", "next"}) /\ t.next = s.next
        BY <2>2 DEF Others, Plots!PlotFields
      <3>3. Stands(t)
        BY <1>2, <2>2, <3>2, TrussPut
      <3> QED BY <3>1, <3>3
    <2>4. CASE r \in Plots!Made(t)
      <3>1. /\ DOMAIN r.store = Plots!PlotFields /\ r.store.next = t.next + 1
            /\ \A f \in Plots!PlotFields \ {"next"} : r.store[f] = t[f]
        BY <2>2, <2>4, MadeGives DEF Others
      <3>2. /\ Others(s, r.store, {"trusses", "next"}) /\ r.store.next = s.next + 1
            /\ r.store.trusses = Plots!Put(s.trusses, row)
        BY <2>2, <3>1 DEF Others, Plots!PlotFields
      <3> QED BY <1>2, <3>2, TrussPut
    <2> QED BY <2>2, <2>3, <2>4
  <1>3. CASE r \in Plots!UpdateTruss(req, s)
    <2>1. PICK x \in Plots!Row(s.trusses, req.id) : r \in Plots!Done(With([x EXCEPT !.height = req.height]))
      BY <1>3 DEF Plots!UpdateTruss
    <2> DEFINE row == [x EXCEPT !.height = req.height]
    <2>2. x \in s.trusses
      BY DEF Plots!Row
    <2>3. Takes(x, row) /\ r \in Plots!Done(With(row))
      BY <1>1, <2>1, <2>2
    <2> HIDE DEF row, With, Takes
    <2> QED BY <1>2, <2>2, <2>3
  <1>4. CASE r \in Plots!CreateTrussPiece(req, s)
    <2>1. PICK x \in Plots!Row(s.trusses, req.truss) :
            r \in Plots!Made(With([x EXCEPT !.pieces = @ \cup {[id |-> s.next, length |-> req.length]}]))
      BY <1>4 DEF Plots!CreateTrussPiece
    <2> DEFINE row == [x EXCEPT !.pieces = @ \cup {[id |-> s.next, length |-> req.length]}]
    <2>2. x \in s.trusses
      BY DEF Plots!Row
    <2>3. Takes(x, row) /\ r \in Plots!Made(With(row))
      BY <1>1, <2>1, <2>2
    <2> HIDE DEF row, With, Takes
    <2> QED BY <1>2, <2>2, <2>3
  <1>5. CASE r \in Plots!UpdateTrussPiece(req, s)
    <2>1. PICK x \in Plots!Row(s.trusses, req.truss) :
            r \in UNION {Plots!Done(With([x EXCEPT !.pieces = Plots!Put(@, [piece EXCEPT !.length = req.length])]))
                         : piece \in {y \in Plots!Row(x.pieces, req.id) : req.length > 0}}
      BY <1>5 DEF Plots!UpdateTrussPiece
    <2>2. PICK piece \in Plots!Row(x.pieces, req.id) :
            r \in Plots!Done(With([x EXCEPT !.pieces = Plots!Put(@, [piece EXCEPT !.length = req.length])]))
      BY <2>1
    <2> DEFINE row == [x EXCEPT !.pieces = Plots!Put(@, [piece EXCEPT !.length = req.length])]
    <2>3. x \in s.trusses
      BY DEF Plots!Row
    <2>4. Takes(x, row) /\ r \in Plots!Done(With(row))
      BY <1>1, <2>2, <2>3
    <2> HIDE DEF row, With, Takes
    <2> QED BY <1>2, <2>3, <2>4
  <1>6. CASE r \in Plots!DeleteTrussPiece(req, s)
    <2>1. PICK x \in Plots!Row(s.trusses, req.truss) :
            r \in Plots!Done(With([x EXCEPT !.pieces = @ \ Plots!Row(@, req.id)]))
      BY <1>6 DEF Plots!DeleteTrussPiece
    <2> DEFINE row == [x EXCEPT !.pieces = @ \ Plots!Row(@, req.id)]
    <2>2. x \in s.trusses
      BY DEF Plots!Row
    <2>3. Takes(x, row) /\ r \in Plots!Done(With(row))
      BY <1>1, <2>1, <2>2
    <2> HIDE DEF row, With, Takes
    <2> QED BY <1>2, <2>2, <2>3
  <1>7. CASE r \in Plots!DetachFixture(req, s)
    <2>1. PICK x \in Plots!Row(s.trusses, req.truss) :
            r \in Plots!Done(With([x EXCEPT !.hung = {h \in @ : h.fixture # req.fixture}]))
      BY <1>7 DEF Plots!DetachFixture
    <2> DEFINE row == [x EXCEPT !.hung = {h \in @ : h.fixture # req.fixture}]
    <2>2. x \in s.trusses
      BY DEF Plots!Row
    <2>3. Takes(x, row) /\ r \in Plots!Done(With(row))
      BY <1>1, <2>1, <2>2
    <2> HIDE DEF row, With, Takes
    <2> QED BY <1>2, <2>2, <2>3
  <1> QED BY <1>3, <1>4, <1>5, <1>6, <1>7 DEF OneTruss

\* A fixture is taken down from where it hangs before it hangs again.
LEMMA AttachFixtureStands ==
  ASSUME NEW req, NEW s, Stands(s), NEW r \in Plots!AttachFixture(req, s)
  PROVE  Stands(r.store)
  <1> DEFINE down == Plots!TakenDown(req.fixture, s)
             hook == [fixture |-> req.fixture, offset |-> req.offset, side |-> req.side]
  <1>1. PICK x \in Plots!Row(down, req.truss) :
          r \in Plots!Done([s EXCEPT !.trusses = Plots!Put(down, [x EXCEPT !.hung = @ \cup {hook}])])
    BY DEF Plots!AttachFixture
  <1> DEFINE row == [x EXCEPT !.hung = @ \cup {hook}]
             rows == Plots!Put(down, row)
  <1>2. /\ DOMAIN s = Plots!PlotFields /\ s.next \in Nat /\ Plots!IdsOnce(s.trusses, s.next)
        /\ \A y \in s.trusses : {"id", "hung"} \subseteq DOMAIN y
        /\ \A y, z \in s.trusses : \A h \in y.hung : \A i \in z.hung : h.fixture = i.fixture => y = z /\ h = i
    BY DEF Stands, Plots!IsStage, HungOnce
  <1>3. \A y \in down : \E z \in s.trusses :
          y = [z EXCEPT !.hung = {h \in @ : h.fixture # req.fixture}]
    BY DEF Plots!TakenDown
  <1>4. \A z \in s.trusses : [z EXCEPT !.hung = {h \in @ : h.fixture # req.fixture}] \in down
    BY DEF Plots!TakenDown
  <1> HIDE DEF down
  <1>5. \A z \in s.trusses : LET y == [z EXCEPT !.hung = {h \in @ : h.fixture # req.fixture}] IN
          y.id = z.id /\ {"id", "hung"} \subseteq DOMAIN y /\ y.hung = {h \in z.hung : h.fixture # req.fixture}
    BY <1>2
  <1>6. Plots!IdsOnce(down, s.next)
    <2> SUFFICES ASSUME NEW y \in down PROVE y.id \in 0 .. s.next - 1 /\ \A z \in down : z.id = y.id => z = y
      BY DEF Plots!IdsOnce
    <2>1. PICK y0 \in s.trusses : y = [y0 EXCEPT !.hung = {h \in @ : h.fixture # req.fixture}]
      BY <1>3
    <2>2. ASSUME NEW z \in down, z.id = y.id PROVE z = y
      <3>1. PICK z0 \in s.trusses : z = [z0 EXCEPT !.hung = {h \in @ : h.fixture # req.fixture}]
        BY <1>3
      <3>2. z0.id = y0.id
        BY <1>5, <2>1, <2>2, <3>1
      <3>3. z0 = y0
        BY <1>2, <3>2 DEF Plots!IdsOnce
      <3> QED BY <2>1, <3>1, <3>3
    <2>3. y.id \in 0 .. s.next - 1
      BY <1>2, <1>5, <2>1 DEF Plots!IdsOnce
    <2> QED BY <2>2, <2>3
  <1>7. x \in down /\ {"id", "hung"} \subseteq DOMAIN x
    BY <1>3, <1>5 DEF Plots!Row
  <1>8. row.id = x.id /\ {"id", "hung"} \subseteq DOMAIN row /\ row.hung = x.hung \cup {hook} /\ hook.fixture = req.fixture
    BY <1>7
  <1>9. r.store = [s EXCEPT !.trusses = rows]
    BY <1>1 DEF Plots!Done
  <1> HIDE DEF row, hook
  <1>10. /\ Plots!IdsOnce(rows, s.next) /\ row \in rows
         /\ \A y \in rows : y = row \/ (y \in down /\ y # x)
         /\ \A y \in down : y # x => y \in rows
    BY <1>6, <1>7, <1>8, PutOnce
  <1> HIDE DEF rows
  <1>11. Others(s, r.store, {"trusses", "next"}) /\ r.store.next = s.next /\ r.store.trusses = rows
    BY <1>2, <1>9 DEF Others, Plots!PlotFields
  <1>12. \A y, z \in down : \A h \in y.hung : \A i \in z.hung :
           h.fixture # req.fixture /\ (h.fixture = i.fixture => y = z /\ h = i)
    <2> SUFFICES ASSUME NEW y \in down, NEW z \in down, NEW h \in y.hung, NEW i \in z.hung
                 PROVE  h.fixture # req.fixture /\ (h.fixture = i.fixture => y = z /\ h = i)
      OBVIOUS
    <2>1. PICK y0 \in s.trusses : y = [y0 EXCEPT !.hung = {g \in @ : g.fixture # req.fixture}]
      BY <1>3
    <2>2. PICK z0 \in s.trusses : z = [z0 EXCEPT !.hung = {g \in @ : g.fixture # req.fixture}]
      BY <1>3
    <2>3. h \in y0.hung /\ h.fixture # req.fixture /\ i \in z0.hung
      BY <1>5, <2>1, <2>2
    <2>4. h.fixture = i.fixture => y0 = z0 /\ h = i
      BY <1>2, <2>3
    <2> QED BY <2>1, <2>2, <2>3, <2>4
  <1>13. HungOnce(r.store)
    <2> SUFFICES ASSUME NEW y \in rows, NEW z \in rows, NEW h \in y.hung, NEW i \in z.hung, h.fixture = i.fixture
                 PROVE  y = z /\ h = i
      BY <1>11 DEF HungOnce
    <2>1. CASE y = row /\ z = row
      BY <1>7, <1>8, <1>12, <2>1
    <2>2. CASE y = row /\ z # row
      BY <1>7, <1>8, <1>10, <1>12, <2>2
    <2>3. CASE y # row /\ z = row
      BY <1>7, <1>8, <1>10, <1>12, <2>3
    <2>4. CASE y # row /\ z # row
      BY <1>10, <1>12, <2>4
    <2> QED BY <2>1, <2>2, <2>3, <2>4
  <1>14. \A y \in rows : {"id", "hung"} \subseteq DOMAIN y
    BY <1>3, <1>5, <1>8, <1>10
  <1>15. \A z \in s.trusses : \E y \in rows : y.id = z.id
    <2> SUFFICES ASSUME NEW z \in s.trusses PROVE \E y \in rows : y.id = z.id
      OBVIOUS
    <2>1. PICK y \in down : y.id = z.id
      BY <1>4, <1>5
    <2>2. CASE y = x
      BY <1>8, <1>10, <2>1, <2>2
    <2>3. CASE y # x
      BY <1>10, <2>1, <2>3
    <2> QED BY <2>2, <2>3
  <1> QED BY <1>10, <1>11, <1>13, <1>14, <1>15, TrussesStand

\* Whatever is asked of it, the server leaves every row of a plot on rows that are there.
LEMMA ApplyPlotStands ==
  ASSUME NEW req, NEW s, Stands(s), NEW r \in Plots!ApplyPlot(req, s)
  PROVE  Stands(r.store)
  <1>1. \/ r \in Plots!CreatePlot(s) \/ r \in Plots!UpdatePlot(req, s) \/ r \in Plots!DeletePlot(req, s)
        \/ r \in Plots!CreateLayer(req, s) \/ r \in Plots!UpdateLayer(req, s) \/ r \in Plots!DeleteLayer(req, s)
        \/ r \in Plots!CreateElement(req, s) \/ r \in Plots!UpdateElement(req, s) \/ r \in Plots!DeleteElement(req, s)
        \/ r \in Plots!CreateLink(req, s) \/ r \in Plots!UpdateLink(req, s) \/ r \in Plots!DeleteLink(req, s)
        \/ r \in Plots!CreateMeasurement(req, s) \/ r \in Plots!UpdateMeasurement(req, s)
        \/ r \in Plots!DeleteMeasurement(req, s) \/ r \in Plots!CreateTruss(req, s) \/ r \in OneTruss(req, s)
        \/ r \in Plots!DeleteTruss(req, s) \/ r \in Plots!AttachFixture(req, s)
    BY DEF Plots!ApplyPlot, OneTruss
  <1> QED BY <1>1, CreatePlotStands, UpdatePlotStands, DeletePlotStands, CreateLayerStands, UpdateLayerStands, DeleteLayerStands,
             CreateElementStands, UpdateElementStands, DeleteElementStands, CreateLinkStands, UpdateLinkStands,
             DeleteLinkStands, CreateMeasurementStands, UpdateMeasurementStands, DeleteMeasurementStands,
             CreateTrussStands, OneTrussStands, DeleteTrussStands, AttachFixtureStands

\* No step of the page reaches the plots but the server's.
PlotStoreStep == UNCHANGED stored \/ \E req : \E r \in Plots!ApplyPlot(req, stored) : stored' = r.store

LEMMA PlotsStep ==
  ASSUME Plots!Next
  PROVE  PlotStoreStep
  <1> USE DEF Plots!queryVars, Plots!Ask, Plots!UpdateElementOptimistically, Plots!UpdateTheMeasurement, Plots!CreateTheElement,
              Plots!Hang, Plots!LetGo, Plots!Q!Send, Plots!Q!SendShowing, Plots!Q!Answer, Plots!Q!AnswerShowing, Plots!Q!Focus
  <1>1. ASSUME Plots!PlotStep PROVE UNCHANGED stored
    BY <1>1 DEF Plots!PlotStep, Plots!ChoosePlot, Plots!CreateThePlot, Plots!RenamePlot, Plots!AskToDeletePlot,
       Plots!ChangeSettings, Plots!ShowOnPhone
  <1>2. ASSUME Plots!PanelStep PROVE UNCHANGED stored
    BY <1>2, ZenonT(60) DEF Plots!PanelStep, Plots!CreateTheLayer, Plots!ToggleLayer, Plots!SetActiveLayer, Plots!AskToDeleteLayer,
       Plots!SwapLayers, Plots!Place, Plots!DuplicateElement, Plots!AskToDeleteElement, Plots!LinkStep, Plots!SwapLinks,
       Plots!ChangeField, Plots!InspectMeasurement, Plots!DeleteTheMeasurement
  <1>3. ASSUME Plots!CanvasStep PROVE UNCHANGED stored
    <2>1. \A e, way, fields : Plots!UpdateElementOptimistically(e, way, fields) => UNCHANGED stored
      OBVIOUS
    <2>2. \A truss, fixture, at, heads : Plots!Hang(truss, fixture, at, heads) => UNCHANGED stored
      OBVIOUS
    <2>3. Plots!queryVars' = Plots!queryVars => UNCHANGED stored
      OBVIOUS
    <2> USE <2>1, <2>2, <2>3
    <2>4. ASSUME NEW e, Plots!TapElement(e) \/ Plots!PressElement(e) PROVE UNCHANGED stored
      BY <2>4 DEF Plots!TapElement, Plots!PressElement
    <2>5. ASSUME NEW e, NEW hung, Plots!PressMarker(e, hung) PROVE UNCHANGED stored
      BY <2>5 DEF Plots!PressMarker
    <2>6. ASSUME NEW mode, Plots!PressHandle(mode) PROVE UNCHANGED stored
      BY <2>6 DEF Plots!PressHandle
    <2>7. ASSUME Plots!TapFloor \/ Plots!DeleteByKey \/ Plots!LetGoOfNothing PROVE UNCHANGED stored
      BY <2>7 DEF Plots!TapFloor, Plots!DeleteByKey, Plots!LetGoOfNothing
    <2>8. ASSUME NEW point, Plots!DropElement(point) PROVE UNCHANGED stored
      BY <2>8, Zenon DEF Plots!DropElement, Plots!DropAt
    <2>9. ASSUME NEW point, Plots!DropCorner(point) PROVE UNCHANGED stored
      BY <2>9, <2>1, Zenon DEF Plots!DropCorner
    <2>10. ASSUME NEW point, Plots!DropKnob(point) PROVE UNCHANGED stored
      BY <2>10, <2>1, Zenon DEF Plots!DropKnob
    <2>11. ASSUME NEW point, Plots!DropMarker(point) PROVE UNCHANGED stored
      BY <2>11, Zenon DEF Plots!DropMarker
    <2>12. CASE Plots!TapFloor \/ Plots!DeleteByKey \/ Plots!LetGoOfNothing
      BY <2>7, <2>12
    <2>13. CASE \E e : Plots!TapElement(e) \/ Plots!PressElement(e) \/ \E h : Plots!PressMarker(e, h)
      BY <2>4, <2>5, <2>13
    <2>14. CASE \E mode : Plots!PressHandle(mode)
      BY <2>6, <2>14
    <2>15. CASE \E point : \/ Plots!DropElement(point) \/ Plots!DropCorner(point)
                           \/ Plots!DropKnob(point) \/ Plots!DropMarker(point)
      BY <2>8, <2>9, <2>10, <2>11, <2>15
    <2> HIDE <2>1, <2>2, <2>3
    <2> QED BY <1>3, <2>12, <2>13, <2>14, <2>15, Zenon DEF Plots!CanvasStep
  <1>4. ASSUME Plots!MeasureStep PROVE UNCHANGED stored
    BY <1>4 DEF Plots!MeasureStep, Plots!ArmTool, Plots!ToolKey, Plots!EscapeKey, Plots!TakeAnchor, Plots!Pick, Plots!DropEnd,
       Plots!DropOffset, Plots!TapMeasurement, Plots!PressGrip
  <1>5. ASSUME Plots!TrussStep PROVE UNCHANGED stored
    <2>1. ASSUME NEW req, Plots!TrussAsk(req) PROVE UNCHANGED stored
      BY <2>1 DEF Plots!TrussAsk
    <2>2. ASSUME NEW req, Plots!AskAboutTruss(req) PROVE UNCHANGED stored
      BY <2>2 DEF Plots!AskAboutTruss
    <2>3. ASSUME NEW open, Plots!OpenManager(open) PROVE UNCHANGED stored
      BY <2>3 DEF Plots!OpenManager
    <2>4. ASSUME NEW t, NEW field, Plots!TurnTruss(t, field) PROVE UNCHANGED stored
      BY <2>4 DEF Plots!TurnTruss
    <2>5. ASSUME NEW t, NEW at, Plots!PlaceTruss(t, at) PROVE UNCHANGED stored
      BY <2>5 DEF Plots!PlaceTruss
    <2>6. \/ \E req : Plots!TrussAsk(req) \/ Plots!AskAboutTruss(req)
          \/ \E open : Plots!OpenManager(open)
          \/ \E t : \E field : Plots!TurnTruss(t, field) \/ Plots!PlaceTruss(t, field)
      BY <1>5, Zenon DEF Plots!TrussStep, Plots!Reposition
    <2> QED BY <2>1, <2>2, <2>3, <2>4, <2>5, <2>6, Zenon
  <1>6. ASSUME Plots!Confirm \/ Plots!Cancel PROVE UNCHANGED stored
    BY <1>6 DEF Plots!Confirm, Plots!Cancel
  <1>7. ASSUME NEW c, Plots!HearAnswer(c) PROVE UNCHANGED stored
    BY <1>7 DEF Plots!HearAnswer, Plots!HearRefetching, Plots!HearUpdate, Plots!HearSettings, Plots!HearHung
  <1>8. ASSUME Plots!ViewArrives PROVE UNCHANGED stored
    BY <1>8 DEF Plots!ViewArrives, Plots!Q!Arrive, Plots!Q!ArriveShowing
  <1>9. ASSUME Plots!Elsewhere PROVE PlotStoreStep
    BY <1>9 DEF Plots!Elsewhere, Plots!Q!Serve, Plots!Q!Lose, Plots!Q!ReadStore, Plots!Q!LoseRead, Plots!Q!OtherClient,
       PlotStoreStep
  <1> QED BY <1>1, <1>2, <1>3, <1>4, <1>5, <1>6, <1>7, <1>8, <1>9 DEF Plots!Next, PlotStoreStep

\* Inductive on the tab of the plots: beside the claim, that rows have their fields and ids
\* are given once, since a row put in the place of another stands where that one stood.
StageInv == tab = "plots" => Stands(stored)

LEMMA StageInit == Init => StageInv
  <1>1. Plots!Init => \E start \in PlotStarts : stored = start.patch
    BY DEF Plots!Init, Plots!Q!Opened
  <1>2. \A start \in PlotStarts : Stands(start.patch)
    BY StagesAssumption, StandsIsRowsStand
  <1> QED BY <1>1, <1>2 DEF Init, StageInv

LEMMA StageNext == StageInv /\ [Next]_vars => StageInv'
  <1> SUFFICES ASSUME StageInv, [Next]_vars, tab' = "plots" PROVE Stands(stored')
    BY DEF StageInv, Stands, Layered, Placed, Anchored, Linked, HungOnce, OnPlot, Plots!IsStage, Plots!IdsOnce
  <1>1. tab = "plots" /\ Stands(stored)
    BY DEF Next, vars, StageInv
  <1>2. PlotStoreStep
    BY <1>1, PlotsStep DEF Next, vars, PlotStoreStep
  <1>3. ASSUME NEW req, NEW r \in Plots!ApplyPlot(req, stored), stored' = r.store PROVE Stands(stored')
    BY <1>1, <1>3, ApplyPlotStands
  <1> QED BY <1>1, <1>2, <1>3 DEF PlotStoreStep

\* For any stages to open on, any requests of this client and of others, and however late
\* they arrive: no element, measurement or link is left on a row that is gone, no plot is
\* without a layer, no truss is twice on a plot and no fixture hangs twice (the deletes of
\* stage_plots.go and plot_trusses.go cascade, and what is put in is checked).
THEOREM PlotRowsAlwaysStand == Spec => []PlotRowsStand
  <1>1. StageInv => PlotRowsStand
    BY StandsIsRowsStand DEF StageInv, PlotRowsStand
  <1> QED BY <1>1, StageInit, StageNext, PTL DEF Spec
-----------------------------------------------------------------------------
(* What the tab of the plots asks for.                                      *)

\* A fixture is hung in the place of one element at most, and a drag saves the two fields of
\* the view it was made in.
PlotFine(req, then) ==
  /\ then.kind = "hung" => AtMostOne(then.consumed)
  /\ then.kind = "element" /\ then.by = "drag" =>
       LET axes == Plots!ViewAxisFields(then.plane)
       IN req.op = "updateElement" /\ DOMAIN req.patch \subseteq {axes.u, axes.v}
PlotAsks == /\ Asks(Now, Now', MaxCalls) /\ DOMAIN view' = {"data", "at"}
            /\ \A c \in calls' \ calls : PlotFine(c.req, c.then)

LEMMA PlotsSent ==
  ASSUME InOrder, NEW n \in Nat, NEW rs, Len(rs) = n, DOMAIN rs = 1 .. n, made' = made + n, made + n <= MaxCalls,
         calls' \subseteq calls \cup Plots!Q!Sent(rs), \A i \in 1 .. n : PlotFine(rs[i].req, rs[i].then),
         UNCHANGED <<others, written>>, view'.at = view.at, DOMAIN view' = {"data", "at"}, AsksAgain
  PROVE  PlotAsks
  <1> DEFINE new(i) == [n |-> made + i, req |-> rs[i].req, then |-> rs[i].then, state |-> "sent", at |-> 0, id |-> 0, reply |-> {}]
  <1>1. \A c \in calls' : c \in calls \/ \E i \in 1 .. n : c = new(i)
    BY DEF Plots!Q!Sent
  <1>2. made \in Nat
    BY DEF InOrder, Ordered, Now
  <1>3. \A i : new(i).n = made + i /\ new(i).req = rs[i].req /\ new(i).then = rs[i].then
    OBVIOUS
  <1>4. \A c \in calls' : c \in calls \/ \E i \in 1 .. n : \E req, then :
           c = [n |-> made + i, req |-> req, then |-> then, state |-> "sent", at |-> 0, id |-> 0, reply |-> {}]
    BY <1>1
  <1> HIDE DEF new
  <1>5. \A c, d \in calls' \ calls : c.n = d.n => c = d
    BY <1>1, <1>2, <1>3
  <1>6. \A c \in calls' \ calls : PlotFine(c.req, c.then)
    BY <1>1, <1>3
  <1>7. Asks(Now, Now', MaxCalls)
    BY <1>4, <1>5, ManyAsk
  <1> QED BY <1>6, <1>7 DEF PlotAsks

LEMMA PlotsStill ==
  ASSUME InOrder, UNCHANGED <<made, others, written, calls, view>>, AsksAgain
  PROVE  PlotAsks
  <1>1. made \in Nat /\ made + 0 <= MaxCalls /\ made' = made + 0
    BY DEF InOrder, Ordered, Now
  <1>2. Asks(Now, Now', MaxCalls)
    BY <1>1, ManyAsk
  <1> QED BY <1>2 DEF PlotAsks, InOrder

LEMMA PlotsSend ==
  ASSUME InOrder, NEW req, NEW then, PlotFine(req, then), Plots!Q!Send(<<[req |-> req, then |-> then]>>)
  PROVE  PlotAsks
  <1> DEFINE rs == <<[req |-> req, then |-> then]>>
  <1>1. Len(rs) = 1 /\ DOMAIN rs = 1 .. 1 /\ \A i \in 1 .. 1 : rs[i].req = req /\ rs[i].then = then
    OBVIOUS
  <1> HIDE DEF rs
  <1>2. Plots!Q!Send(rs)
    BY DEF rs
  <1> QED BY <1>1, <1>2, PlotsSent DEF Plots!Q!Send, InOrder, AsksAgain

LEMMA PlotsSendTwo ==
  ASSUME InOrder, NEW a, NEW b, PlotFine(a.req, a.then), PlotFine(b.req, b.then), Plots!Q!Send(<<a, b>>)
  PROVE  PlotAsks
  <1> DEFINE rs == <<a, b>>
  <1>1. Len(rs) = 2 /\ DOMAIN rs = 1 .. 2 /\ \A i \in 1 .. 2 : PlotFine(rs[i].req, rs[i].then)
    OBVIOUS
  <1> HIDE DEF rs
  <1>2. Plots!Q!Send(rs)
    BY DEF rs
  <1> QED BY <1>1, <1>2, PlotsSent DEF Plots!Q!Send, InOrder, AsksAgain

LEMMA PlotsShow ==
  ASSUME InOrder, NEW req, NEW then, NEW data, PlotFine(req, then),
         Plots!Q!SendShowing(<<[req |-> req, then |-> then]>>, data)
  PROVE  PlotAsks
  <1> DEFINE rs == <<[req |-> req, then |-> then]>>
  <1>1. Len(rs) = 1 /\ DOMAIN rs = 1 .. 1 /\ \A i \in 1 .. 1 : rs[i].req = req /\ rs[i].then = then
    OBVIOUS
  <1> HIDE DEF rs
  <1>2. Plots!Q!SendShowing(rs, data)
    BY DEF rs
  <1>3. view'.at = view.at /\ DOMAIN view' = {"data", "at"}
    BY <1>2 DEF Plots!Q!SendShowing, InOrder
  <1> QED BY <1>1, <1>2, <1>3, PlotsSent DEF Plots!Q!SendShowing, AsksAgain

LEMMA PlotsAnswer ==
  ASSUME InOrder, NEW c \in calls, NEW asks, NEW rs,
         rs = <<>> \/ \E req, then : PlotFine(req, then) /\ rs = <<[req |-> req, then |-> then]>>, Plots!Q!Answer(c, asks, rs)
  PROVE  PlotAsks
  <1>1. PICK n \in {0, 1} : Len(rs) = n /\ DOMAIN rs = 1 .. n /\ \A i \in 1 .. n : PlotFine(rs[i].req, rs[i].then)
    <2>1. CASE rs = <<>>
      BY <2>1
    <2>2. CASE \E req, then : PlotFine(req, then) /\ rs = <<[req |-> req, then |-> then]>>
      <3>1. PICK req, then : PlotFine(req, then) /\ rs = <<[req |-> req, then |-> then]>>
        BY <2>2
      <3>2. Len(rs) = 1 /\ DOMAIN rs = 1 .. 1 /\ \A i \in 1 .. 1 : rs[i].req = req /\ rs[i].then = then
        BY <3>1
      <3> QED BY <3>1, <3>2
    <2> QED BY <2>1, <2>2
  <1>2. AsksAgain
    BY DEF Plots!Q!Answer, AsksAgain, Plots!Q!Asked
  <1> QED BY <1>1, <1>2, PlotsSent DEF Plots!Q!Answer, InOrder

LEMMA PlotsAnswerShowing ==
  ASSUME InOrder, NEW c \in calls, NEW data, Plots!Q!AnswerShowing(c, data)
  PROVE  PlotAsks
  <1>1. made \in Nat /\ made + 0 <= MaxCalls /\ made' = made + 0
    BY DEF InOrder, Ordered, Now, Plots!Q!AnswerShowing
  <1>2. view'.at = view.at /\ DOMAIN view' = {"data", "at"}
    BY DEF Plots!Q!AnswerShowing, InOrder
  <1>3. calls' \subseteq calls /\ UNCHANGED <<others, written, told, fetch>>
    BY DEF Plots!Q!AnswerShowing
  <1>4. Asks(Now, Now', MaxCalls)
    BY <1>1, <1>2, <1>3, ManyAsk DEF AsksAgain
  <1> QED BY <1>2, <1>3, <1>4 DEF PlotAsks

LEMMA PlotsQuiet ==
  ASSUME InOrder, Plots!Q!Focus \/ UNCHANGED Plots!queryVars
  PROVE  PlotAsks
  BY PlotsStill DEF Plots!Q!Focus, Plots!Q!Asked, Plots!queryVars, AsksAgain

\* What else may come of a request, of the GET and of other clients.
PlotEnds ==
  /\ Counts
  /\ \A c \in calls' : \E d \in calls : c.n = d.n /\ c.req = d.req /\ c.then = d.then
PlotServes == \E c \in calls : /\ c.state = "sent" /\ (stored' = stored \/ \E r \in Plots!ApplyPlot(c.req, stored) : stored' = r.store)
                               /\ \A d \in calls' : d \in calls \/ d.n = c.n
NoneDone == \A d \in calls' : d.state = "done" => d \in calls

LEMMA PlotsElsewhere ==
  ASSUME InOrder, Plots!Elsewhere
  PROVE  PlotAsks \/ (PlotEnds /\ (PlotServes \/ NoneDone))
  <1>1. ASSUME NEW c \in calls, Plots!Q!Serve(c) PROVE PlotEnds /\ PlotServes
    <2> DEFINE refused == [c EXCEPT !.state = "refused"]
               done(r) == [c EXCEPT !.state = "done", !.at = written + 1, !.id = r.id, !.reply = r.reply]
    <2>1. DOMAIN c = CallFields
      BY DEF InOrder, Ordered, Now
    <2>2. /\ DOMAIN refused = CallFields /\ refused.n = c.n /\ refused.req = c.req /\ refused.then = c.then
          /\ refused.state = "refused" /\ refused.at = c.at
      BY <2>1 DEF CallFields
    <2>3. \A r : /\ DOMAIN done(r) = CallFields /\ done(r).n = c.n /\ done(r).req = c.req /\ done(r).then = c.then
                 /\ done(r).state = "done" /\ done(r).at = written + 1
      BY <2>1 DEF CallFields
    <2> HIDE DEF refused
    <2>4. CASE Plots!ApplyPlot(c.req, stored) = {}
      <3>1. /\ c.state = "sent" /\ calls' = (calls \ {c}) \cup {refused}
            /\ UNCHANGED <<stored, made, others, written, told, fetch, view>>
        BY <1>1, <2>4 DEF Plots!Q!Serve, refused
      <3>2. Ends(Now, Now')
        BY <2>2, <3>1 DEF Ends, Now
      <3> QED BY <2>2, <3>1, <3>2 DEF PlotEnds, Counts, Steps, PlotServes, InOrder
    <2>5. CASE Plots!ApplyPlot(c.req, stored) # {}
      <3>1. PICK r \in Plots!ApplyPlot(c.req, stored) :
              /\ c.state = "sent" /\ calls' = (calls \ {c}) \cup {done(r)} /\ stored' = r.store /\ written' = written + 1
              /\ UNCHANGED <<made, others, told, fetch, view>>
        BY <1>1, <2>5 DEF Plots!Q!Serve
      <3> DEFINE d == done(r)
      <3>2. /\ DOMAIN d = CallFields /\ d.n = c.n /\ d.req = c.req /\ d.then = c.then /\ d.state = "done" /\ d.at = written + 1
            /\ calls' = (calls \ {c}) \cup {d}
        BY <2>3, <3>1
      <3> HIDE DEF d, done
      <3>3. Ends(Now, Now')
        BY <3>1, <3>2 DEF Ends, Now
      <3> QED BY <3>1, <3>2, <3>3 DEF PlotEnds, Counts, Steps, PlotServes, InOrder
    <2> QED BY <2>4, <2>5
  <1>2. ASSUME NEW c \in calls, Plots!Q!Lose(c) PROVE PlotEnds /\ NoneDone
    <2> DEFINE lost == [c EXCEPT !.state = "lost"]
    <2>1. DOMAIN c = CallFields
      BY DEF InOrder, Ordered, Now
    <2>2. /\ DOMAIN lost = CallFields /\ lost.n = c.n /\ lost.req = c.req /\ lost.then = c.then
          /\ lost.state = "lost" /\ lost.at = c.at
      BY <2>1 DEF CallFields
    <2> HIDE DEF lost
    <2>3. calls' = (calls \ {c}) \cup {lost} /\ UNCHANGED <<stored, made, others, written, told, fetch, view>>
      BY <1>2 DEF Plots!Q!Lose, lost
    <2>4. Ends(Now, Now')
      BY <2>2, <2>3 DEF Ends, Now
    <2> QED BY <2>2, <2>3, <2>4 DEF PlotEnds, Counts, Steps, NoneDone, InOrder
  <1>3. ASSUME Plots!Q!ReadStore PROVE PlotEnds /\ NoneDone
    <2>1. PICK g \in fetch : fetch' = (fetch \ {g}) \cup {[phase |-> "read", data |-> stored, at |-> written]}
      BY <1>3 DEF Plots!Q!ReadStore
    <2> DEFINE h == [phase |-> "read", data |-> stored, at |-> written]
    <2>2. h.phase = "read" /\ h.at = written /\ fetch' = (fetch \ {g}) \cup {h}
      BY <2>1
    <2> HIDE DEF h
    <2>3. IsRead(Now, Now')
      BY <1>3, <2>2 DEF Plots!Q!ReadStore, IsRead, Now
    <2> QED BY <1>3, <2>3 DEF PlotEnds, Counts, Steps, NoneDone, InOrder, Plots!Q!ReadStore
  <1>4. ASSUME Plots!Q!LoseRead PROVE PlotAsks
    <2>1. fetch' = {[phase |-> "asked"]}
      BY <1>4 DEF Plots!Q!LoseRead, Plots!Q!Asked, InOrder, Ordered, Now
    <2> QED BY <1>4, <2>1, PlotsStill DEF Plots!Q!LoseRead, AsksAgain
  <1>5. ASSUME NEW req, Plots!Q!OtherClient(req) PROVE PlotEnds /\ NoneDone
    <2>1. IsServed(Now, Now', MaxOthers)
      BY <1>5 DEF Plots!Q!OtherClient, IsServed, Now
    <2> QED BY <1>5, <2>1 DEF PlotEnds, Counts, Steps, NoneDone, InOrder, Plots!Q!OtherClient
  <1> QED BY <1>1, <1>2, <1>3, <1>4, <1>5, PlotsQuiet DEF Plots!Elsewhere

LEMMA PlotsArrive ==
  ASSUME InOrder, Plots!Q!Arrive
  PROVE  PlotEnds /\ NoneDone
  <1>1. PICK g \in fetch : g.phase = "read" /\ view' = [data |-> g.data, at |-> g.at] /\ fetch' = fetch \ {g}
    BY DEF Plots!Q!Arrive, Plots!Q!ArriveShowing
  <1>2. UNCHANGED <<stored, made, others, written, told, calls>>
    BY DEF Plots!Q!Arrive, Plots!Q!ArriveShowing
  <1>3. IsShown(Now, Now')
    BY <1>1, <1>2 DEF IsShown, Now
  <1> QED BY <1>1, <1>2, <1>3 DEF PlotEnds, Counts, Steps, NoneDone

-----------------------------------------------------------------------------
(* The steps of the tab of the plots.                                       *)

\* No dialog hangs a fixture or drags an element.
AsksPlainly(dialog) == dialog = Plots!NoDialog \/ dialog.then.kind \notin {"hung", "element"}
PlotPage == "dialog" \in DOMAIN page /\ AsksPlainly(page.dialog)
KeepsDialog == "dialog" \in DOMAIN page' /\ (page'.dialog = page.dialog \/ AsksPlainly(page'.dialog))

LEMMA PlotsAsking ==
  ASSUME InOrder, NEW req, NEW then, then.kind \notin {"hung", "element"}, Plots!Ask(req, then)
  PROVE  PlotAsks
  BY PlotsSend DEF Plots!Ask, PlotFine

LEMMA PlotsUpdating ==
  ASSUME InOrder, NEW e, NEW way, NEW fields, Plots!UpdateElementOptimistically(e, way, fields),
         way = "drag" => \E at : fields = Plots!MovePatch(Plots!ViewAxisFields(Plots!ShownView), at)
  PROVE  PlotAsks
  <1> DEFINE req == [op |-> "updateElement", plot |-> e.plot, id |-> e.id, patch |-> fields]
             then == [kind |-> "element", by |-> way, plane |-> Plots!ShownView]
  <1>1. req.op = "updateElement" /\ req.patch = fields /\ then.kind = "element" /\ then.by = way /\ then.plane = Plots!ShownView
    OBVIOUS
  <1>2. \E data : Plots!Q!SendShowing(<<[req |-> req, then |-> then]>>, data)
    BY DEF Plots!UpdateElementOptimistically
  <1> HIDE DEF req, then
  <1>3. \A at : LET axes == Plots!ViewAxisFields(Plots!ShownView) IN DOMAIN Plots!MovePatch(axes, at) = {axes.u, axes.v}
    BY DEF Plots!MovePatch
  <1>4. PlotFine(req, then)
    BY <1>1, <1>3 DEF PlotFine
  <1> QED BY <1>2, <1>4, PlotsShow

LEMMA PlotsHanging ==
  ASSUME InOrder, NEW truss, NEW fixture, NEW at, NEW heads, AtMostOne(heads), Plots!Hang(truss, fixture, at, heads)
  PROVE  PlotAsks
  <1> DEFINE req == [op |-> "attachFixture", truss |-> truss, fixture |-> fixture, offset |-> {at.offset}, side |-> at.side]
             then == [kind |-> "hung", consumed |-> heads]
  <1>1. then.kind = "hung" /\ then.consumed = heads
    OBVIOUS
  <1>2. Plots!Q!Send(<<[req |-> req, then |-> then]>>)
    BY DEF Plots!Hang, Plots!Ask
  <1> HIDE DEF req, then
  <1> QED BY <1>1, <1>2, PlotsSend DEF PlotFine

LEMMA PlotsPlot ==
  ASSUME InOrder, PlotPage, Plots!PlotStep
  PROVE  PlotAsks /\ KeepsDialog
  <1> USE DEF PlotPage, KeepsDialog, AsksPlainly
  <1>1. ASSUME NEW id, Plots!ChoosePlot(id) PROVE PlotAsks /\ KeepsDialog
    <2>1. PlotAsks
      BY <1>1, PlotsQuiet DEF Plots!ChoosePlot
    <2>2. \A q, plots : "dialog" \in DOMAIN q => "dialog" \in DOMAIN Plots!OnItsCanvas(q, plots) /\ Plots!OnItsCanvas(q, plots).dialog = q.dialog
      BY DEF Plots!OnItsCanvas
    <2> QED BY <1>1, <2>1, <2>2 DEF Plots!ChoosePlot
  <1>2. ASSUME Plots!CreateThePlot \/ Plots!RenamePlot PROVE PlotAsks /\ KeepsDialog
    BY <1>2, PlotsAsking DEF Plots!CreateThePlot, Plots!RenamePlot, Plots!Choosing, Plots!Refetch
  <1>3. ASSUME Plots!AskToDeletePlot PROVE PlotAsks /\ KeepsDialog
    BY <1>3, PlotsQuiet DEF Plots!AskToDeletePlot
  <1>4. ASSUME NEW patch, Plots!ChangeSettings(patch) PROVE PlotAsks /\ KeepsDialog
    BY <1>4, PlotsAsking DEF Plots!ChangeSettings
  <1>5. ASSUME NEW v, Plots!ShowOnPhone(v) PROVE PlotAsks /\ KeepsDialog
    BY <1>5, PlotsQuiet DEF Plots!ShowOnPhone
  <1> QED BY <1>1, <1>2, <1>3, <1>4, <1>5 DEF Plots!PlotStep

LEMMA PlotsPanel ==
  ASSUME InOrder, PlotPage, Plots!PanelStep
  PROVE  PlotAsks /\ KeepsDialog
  <1> USE DEF PlotPage, KeepsDialog, AsksPlainly
  <1>1. ASSUME Plots!CreateTheLayer PROVE PlotAsks /\ KeepsDialog
    BY <1>1, PlotsAsking DEF Plots!CreateTheLayer, Plots!Choosing
  <1>2. ASSUME NEW l, NEW field, Plots!ToggleLayer(l, field) PROVE PlotAsks /\ KeepsDialog
    BY <1>2, PlotsSend DEF Plots!ToggleLayer, Plots!LayerPatch, Plots!Refetch, PlotFine
  <1>3. ASSUME NEW l, Plots!SetActiveLayer(l) \/ Plots!AskToDeleteLayer(l) PROVE PlotAsks /\ KeepsDialog
    BY <1>3, PlotsQuiet DEF Plots!SetActiveLayer, Plots!AskToDeleteLayer, Plots!Refetch
  <1>4. ASSUME NEW a, NEW b, Plots!SwapLayers(a, b) PROVE PlotAsks /\ KeepsDialog
    BY <1>4, PlotsSendTwo DEF Plots!SwapLayers, Plots!LayerPatch, Plots!Refetch, PlotFine
  <1>5. \A e : Plots!CreateTheElement(e) => PlotAsks
    BY PlotsAsking DEF Plots!CreateTheElement
  <1>6. ASSUME NEW template, NEW at, Plots!Place(template, at) PROVE PlotAsks /\ KeepsDialog
    BY <1>5, <1>6 DEF Plots!Place
  <1>7. ASSUME Plots!DuplicateElement PROVE PlotAsks /\ KeepsDialog
    BY <1>5, <1>7 DEF Plots!DuplicateElement
  <1>8. ASSUME Plots!AskToDeleteElement PROVE PlotAsks /\ KeepsDialog
    BY <1>8, PlotsQuiet DEF Plots!AskToDeleteElement
  <1>9. ASSUME NEW e, Plots!LinkStep(e) PROVE PlotAsks /\ KeepsDialog
    <2>1. (\E req : Plots!Ask(req, Plots!Refetch)) /\ UNCHANGED page
      BY <1>9, Zenon DEF Plots!LinkStep
    <2> QED BY <2>1, PlotsAsking DEF Plots!Refetch
  <1>10. ASSUME NEW e, NEW a, NEW b, Plots!SwapLinks(e, a, b) PROVE PlotAsks /\ KeepsDialog
    BY <1>10, PlotsSendTwo DEF Plots!SwapLinks, Plots!OrderLink, Plots!Refetch, PlotFine
  <1>11. ASSUME NEW e, NEW field, NEW value, Plots!ChangeField(e, field, value) PROVE PlotAsks /\ KeepsDialog
    BY <1>11, PlotsUpdating DEF Plots!ChangeField
  <1>12. \A m, patch : Plots!UpdateTheMeasurement(m, patch) => PlotAsks
    BY PlotsAsking DEF Plots!UpdateTheMeasurement
  <1>13. ASSUME NEW patch, Plots!InspectMeasurement(patch) PROVE PlotAsks /\ KeepsDialog
    BY <1>12, <1>13 DEF Plots!InspectMeasurement
  <1>14. ASSUME Plots!DeleteTheMeasurement PROVE PlotAsks /\ KeepsDialog
    BY <1>14, PlotsAsking DEF Plots!DeleteTheMeasurement
  <1> QED BY <1>1, <1>2, <1>3, <1>4, <1>6, <1>7, <1>8, <1>9, <1>10, <1>11, <1>13, <1>14, Zenon DEF Plots!PanelStep

LEMMA PlotsCanvas ==
  ASSUME InOrder, PlotPage, Plots!CanvasStep
  PROVE  PlotAsks /\ KeepsDialog
  <1> USE DEF PlotPage, KeepsDialog, AsksPlainly
  <1>1. Plots!LetGo => KeepsDialog
    BY DEF Plots!LetGo
  <1>2. UNCHANGED Plots!queryVars => PlotAsks
    BY PlotsQuiet
  <1>3. ASSUME NEW e, Plots!TapElement(e) \/ Plots!PressElement(e) PROVE PlotAsks /\ KeepsDialog
    BY <1>2, <1>3 DEF Plots!TapElement, Plots!PressElement
  <1>4. ASSUME NEW e, NEW hung, Plots!PressMarker(e, hung) PROVE PlotAsks /\ KeepsDialog
    BY <1>2, <1>4 DEF Plots!PressMarker
  <1>5. ASSUME NEW mode, Plots!PressHandle(mode) PROVE PlotAsks /\ KeepsDialog
    BY <1>2, <1>5 DEF Plots!PressHandle
  <1>6. ASSUME Plots!TapFloor PROVE PlotAsks /\ KeepsDialog
    BY <1>2, <1>6 DEF Plots!TapFloor
  <1>7. ASSUME Plots!DeleteByKey PROVE PlotAsks /\ KeepsDialog
    BY <1>7, PlotsAsking DEF Plots!DeleteByKey
  <1>8. ASSUME Plots!LetGoOfNothing PROVE PlotAsks /\ KeepsDialog
    BY <1>1, <1>2, <1>8 DEF Plots!LetGoOfNothing
  <1>9. ASSUME NEW origin, NEW at, NEW drops, Plots!DropAt(origin, at, drops) PROVE PlotAsks
    <2>1. CASE \E d \in drops : Plots!Hang(d.truss, Plots!Least(origin.fixture), d.at, {origin})
      BY <2>1, PlotsHanging DEF AtMostOne
    <2>2. CASE Plots!UpdateElementOptimistically(origin, "drag", Plots!MovePatch(Plots!ViewAxisFields(Plots!ShownView), at))
      BY <2>2, PlotsUpdating
    <2> QED BY <1>9, <2>1, <2>2, Zenon DEF Plots!DropAt
  <1>10. ASSUME NEW point, Plots!DropElement(point) PROVE PlotAsks /\ KeepsDialog
    BY <1>1, <1>2, <1>9, <1>10, Zenon DEF Plots!DropElement
  <1>11. \A e, fields : Plots!UpdateElementOptimistically(e, "corner", fields) => PlotAsks
    BY PlotsUpdating
  <1>12. \A e, fields : Plots!UpdateElementOptimistically(e, "knob", fields) => PlotAsks
    BY PlotsUpdating
  <1>13. \A truss, fixture, at : Plots!Hang(truss, fixture, at, {}) => PlotAsks
    BY PlotsHanging DEF AtMostOne
  <1> HIDE DEF PlotPage, KeepsDialog, AsksPlainly
  <1>14. ASSUME NEW point, Plots!DropCorner(point) PROVE PlotAsks /\ KeepsDialog
    BY <1>1, <1>11, <1>14, Zenon DEF Plots!DropCorner
  <1>15. ASSUME NEW point, Plots!DropKnob(point) PROVE PlotAsks /\ KeepsDialog
    BY <1>1, <1>12, <1>15, Zenon DEF Plots!DropKnob
  <1>16. ASSUME NEW point, Plots!DropMarker(point) PROVE PlotAsks /\ KeepsDialog
    BY <1>1, <1>2, <1>13, <1>16, Zenon DEF Plots!DropMarker
  <1>17. CASE Plots!TapFloor \/ Plots!DeleteByKey \/ Plots!LetGoOfNothing
    BY <1>6, <1>7, <1>8, <1>17
  <1>18. CASE \E e : Plots!TapElement(e) \/ Plots!PressElement(e) \/ \E h : Plots!PressMarker(e, h)
    BY <1>3, <1>4, <1>18
  <1>19. CASE \E mode : Plots!PressHandle(mode)
    BY <1>5, <1>19
  <1>20. CASE \E point : \/ Plots!DropElement(point) \/ Plots!DropCorner(point)
                         \/ Plots!DropKnob(point) \/ Plots!DropMarker(point)
    BY <1>10, <1>14, <1>15, <1>16, <1>20
  <1> QED BY <1>17, <1>18, <1>19, <1>20, Zenon DEF Plots!CanvasStep

LEMMA PlotsMeasure ==
  ASSUME InOrder, PlotPage, Plots!MeasureStep
  PROVE  PlotAsks /\ KeepsDialog
  <1> USE DEF PlotPage, KeepsDialog, AsksPlainly
  <1>1. \A m, patch : Plots!UpdateTheMeasurement(m, patch) => PlotAsks
    BY PlotsAsking DEF Plots!UpdateTheMeasurement
  <1>2. UNCHANGED Plots!queryVars => PlotAsks
    BY PlotsQuiet
  <1>3. Plots!LetGo => KeepsDialog
    BY DEF Plots!LetGo
  <1>4. ASSUME NEW tool, Plots!ArmTool(tool) PROVE PlotAsks /\ KeepsDialog
    BY <1>2, <1>4 DEF Plots!ArmTool
  <1>5. ASSUME Plots!ToolKey \/ Plots!EscapeKey PROVE PlotAsks /\ KeepsDialog
    BY <1>2, <1>5 DEF Plots!ToolKey, Plots!EscapeKey
  <1>6. ASSUME NEW at, Plots!Pick(at) PROVE PlotAsks /\ KeepsDialog
    <2>1. CASE Plots!FirstPick = {}
      BY <1>2, <1>6, <2>1 DEF Plots!Pick
    <2>2. CASE Plots!FirstPick # {}
      <3>1. page' = [page EXCEPT !.first = {}]
        BY <1>6, <2>2 DEF Plots!Pick
      <3>2. \E req, seen, in : Plots!Ask(req, [kind |-> "refetch", chooses |-> "measure", seen |-> seen, in |-> in])
        BY <1>6, <2>2, Zenon DEF Plots!Pick
      <3> QED BY <3>1, <3>2, PlotsAsking
    <2> QED BY <2>1, <2>2
  <1>7. ASSUME NEW at, Plots!DropEnd(at) PROVE PlotAsks /\ KeepsDialog
    BY <1>1, <1>3, <1>7 DEF Plots!DropEnd
  <1>8. ASSUME NEW point, Plots!DropOffset(point) PROVE PlotAsks /\ KeepsDialog
    BY <1>1, <1>3, <1>8 DEF Plots!DropOffset
  <1>9. ASSUME NEW m, Plots!TapMeasurement(m) PROVE PlotAsks /\ KeepsDialog
    BY <1>2, <1>9 DEF Plots!TapMeasurement
  <1>10. ASSUME NEW grip, Plots!PressGrip(grip) PROVE PlotAsks /\ KeepsDialog
    BY <1>2, <1>10 DEF Plots!PressGrip
  <1> HIDE DEF PlotPage, KeepsDialog, AsksPlainly
  <1>11. ASSUME Plots!TakeAnchor PROVE PlotAsks /\ KeepsDialog
    BY <1>6, <1>7, <1>11, Zenon DEF Plots!TakeAnchor
  <1> QED BY <1>4, <1>5, <1>8, <1>9, <1>10, <1>11, Zenon DEF Plots!MeasureStep

LEMMA PlotsTruss ==
  ASSUME InOrder, PlotPage, Plots!TrussStep
  PROVE  PlotAsks /\ KeepsDialog
  <1> USE DEF PlotPage, KeepsDialog, AsksPlainly
  <1>1. ASSUME NEW req, Plots!TrussAsk(req) PROVE PlotAsks /\ KeepsDialog
    BY <1>1, PlotsAsking DEF Plots!TrussAsk, Plots!Refetch
  <1>2. ASSUME NEW req, Plots!AskAboutTruss(req) PROVE PlotAsks /\ KeepsDialog
    BY <1>2, PlotsQuiet DEF Plots!AskAboutTruss
  <1>3. ASSUME NEW open, Plots!OpenManager(open) PROVE PlotAsks /\ KeepsDialog
    BY <1>3, PlotsQuiet DEF Plots!OpenManager
  <1>4. ASSUME NEW t, NEW field, Plots!TurnTruss(t, field) PROVE PlotAsks /\ KeepsDialog
    BY <1>4, PlotsUpdating DEF Plots!TurnTruss
  <1>5. ASSUME NEW t, NEW at, Plots!PlaceTruss(t, at) PROVE PlotAsks /\ KeepsDialog
    BY <1>5, PlotsAsking DEF Plots!PlaceTruss, Plots!CreateTheElement
  <1>6. \/ \E req : Plots!TrussAsk(req) \/ Plots!AskAboutTruss(req)
        \/ \E open : Plots!OpenManager(open)
        \/ \E t : \E field : Plots!TurnTruss(t, field) \/ Plots!PlaceTruss(t, field)
    BY Zenon DEF Plots!TrussStep, Plots!Reposition
  <1> QED BY <1>1, <1>2, <1>3, <1>4, <1>5, <1>6, Zenon

\* What is drawn where a fixture hangs is deleted after it, once or not at all.
LEMMA PlotsSeqOfOne ==
  ASSUME NEW x
  PROVE  Plots!SetToSeq({x}) = <<x>>
  <1>1. Plots!Cardinality({x}) = 1
    BY FS_Singleton DEF Plots!Cardinality, Cardinality
  <1> DEFINE fs == [1 .. 1 -> {x}]
  <1>2. \A f \in fs : f = <<x>>
    OBVIOUS
  <1>3. <<x>> \in fs /\ Plots!IsInjective(<<x>>)
    BY DEF Plots!IsInjective
  <1>4. Plots!SetToSeq({x}) = CHOOSE f \in fs : Plots!IsInjective(f)
    BY <1>1 DEF Plots!SetToSeq
  <1> HIDE DEF fs
  <1> QED BY <1>2, <1>3, <1>4

PlotCalls == \A c \in calls : PlotFine(c.req, c.then)

LEMMA PlotsHear ==
  ASSUME InOrder, PlotPage, PlotCalls, NEW c \in calls, Plots!HearAnswer(c)
  PROVE  PlotAsks /\ KeepsDialog
  <1> USE DEF PlotPage, KeepsDialog, AsksPlainly
  <1>1. ASSUME Plots!HearRefetching(c) PROVE PlotAsks /\ KeepsDialog
    <2>1. PlotAsks
      BY <1>1, PlotsAnswer DEF Plots!HearRefetching
    <2>2. \A q, plots : "dialog" \in DOMAIN q => /\ "dialog" \in DOMAIN Plots!OnItsCanvas(q, plots)
                                                 /\ Plots!OnItsCanvas(q, plots).dialog = q.dialog
      BY DEF Plots!OnItsCanvas
    <2>3. /\ "dialog" \in DOMAIN Plots!PageAfter(c)
          /\ Plots!PageAfter(c).dialog = page.dialog \/ Plots!PageAfter(c).dialog = Plots!NoDialog
      BY <1>1 DEF Plots!HearRefetching, Plots!PageAfter
    <2> QED BY <1>1, <2>1, <2>2, <2>3 DEF Plots!HearRefetching
  <1>2. ASSUME Plots!HearUpdate(c) PROVE PlotAsks /\ KeepsDialog
    BY <1>2, PlotsAnswer, PlotsAnswerShowing DEF Plots!HearUpdate
  <1>3. ASSUME Plots!HearSettings(c) PROVE PlotAsks /\ KeepsDialog
    BY <1>3, PlotsAnswerShowing DEF Plots!HearSettings
  <1>4. ASSUME Plots!HearHung(c) PROVE PlotAsks /\ KeepsDialog
    <2> DEFINE follows == {[req |-> [op |-> "deleteElement", plot |-> e.plot, id |-> e.id], then |-> [kind |-> "consumed"]]
                             : e \in c.then.consumed}
    <2>1. PICK asks, rs : /\ Plots!Q!Answer(c, asks, rs)
                          /\ rs = <<>> \/ (c.then.consumed # {} /\ rs = Plots!SetToSeq(follows))
      BY <1>4, Zenon DEF Plots!HearHung
    <2>2. AtMostOne(c.then.consumed)
      BY <1>4 DEF Plots!HearHung, PlotCalls, PlotFine
    <2>3. CASE rs = <<>>
      BY <1>4, <2>1, <2>3, PlotsAnswer DEF Plots!HearHung
    <2>4. CASE c.then.consumed # {} /\ rs = Plots!SetToSeq(follows)
      <3>1. PICK e \in c.then.consumed : c.then.consumed = {e}
        BY <2>2, <2>4 DEF AtMostOne
      <3> DEFINE req == [op |-> "deleteElement", plot |-> e.plot, id |-> e.id]
                 then == [kind |-> "consumed"]
      <3>2. follows = {[req |-> req, then |-> then]}
        BY <3>1
      <3>3. rs = <<[req |-> req, then |-> then]>>
        BY <2>4, <3>2, PlotsSeqOfOne
      <3>4. PlotFine(req, then)
        BY DEF PlotFine
      <3> HIDE DEF req, then
      <3>5. PlotAsks
        BY <2>1, <3>3, <3>4, PlotsAnswer
      <3> QED BY <1>4, <3>5 DEF Plots!HearHung
    <2> QED BY <2>1, <2>3, <2>4
  <1> QED BY <1>1, <1>2, <1>3, <1>4 DEF Plots!HearAnswer

\* A step of the tab sends what is fine, or ends what was sent.
LEMMA PlotsTurn ==
  ASSUME InOrder, PlotPage, PlotCalls, Plots!Next
  PROVE  KeepsDialog /\ (PlotAsks \/ (PlotEnds /\ (PlotServes \/ NoneDone)))
  <1> USE DEF PlotPage, KeepsDialog, AsksPlainly
  <1>1. ASSUME Plots!Confirm PROVE PlotAsks /\ KeepsDialog
    BY <1>1, PlotsAsking DEF Plots!Confirm
  <1>2. ASSUME Plots!Cancel PROVE PlotAsks /\ KeepsDialog
    BY <1>2, PlotsQuiet DEF Plots!Cancel
  <1>3. ASSUME Plots!ViewArrives PROVE KeepsDialog /\ PlotEnds /\ NoneDone
    <2>1. \A q, plots : "dialog" \in DOMAIN q => /\ "dialog" \in DOMAIN Plots!OnItsCanvas(q, plots)
                                                 /\ Plots!OnItsCanvas(q, plots).dialog = q.dialog
      BY DEF Plots!OnItsCanvas
    <2> QED BY <1>3, <2>1, PlotsArrive DEF Plots!ViewArrives
  <1>4. ASSUME Plots!Elsewhere, UNCHANGED page PROVE KeepsDialog /\ (PlotAsks \/ (PlotEnds /\ (PlotServes \/ NoneDone)))
    BY <1>4, PlotsElsewhere
  <1> HIDE DEF PlotPage, KeepsDialog, AsksPlainly
  <1> QED BY <1>1, <1>2, <1>3, <1>4, PlotsPlot, PlotsPanel, PlotsCanvas, PlotsMeasure, PlotsTruss, PlotsHear DEF Plots!Next

-----------------------------------------------------------------------------
(* Inductive on the tab of the plots: its counters are in order, what it     *)
(* asks is fine, and what stands stands.                                     *)

PlotInv == tab = "plots" => StageInv /\ InOrder /\ PlotPage /\ PlotCalls

LEMMA PlotInvInit == Init => PlotInv
  <1> SUFFICES ASSUME Init, tab = "plots" PROVE StageInv /\ InOrder /\ PlotPage /\ PlotCalls
    BY DEF PlotInv
  <1>1. PICK start \in PlotStarts : Plots!Q!Opened(start.patch, start.spent) /\ page = Plots!NewPage(start)
    BY DEF Init, Plots!Init
  <1>2. start.spent \in 0 .. MaxCalls
    BY StagesAssumption
  <1>3. InOrder
    BY <1>1, <1>2, OpensInOrder DEF Plots!Q!Opened, Plots!Q!Idle
  <1>4. PlotPage /\ PlotCalls
    BY <1>1 DEF PlotPage, AsksPlainly, Plots!NewPage, PlotCalls, Plots!Q!Opened
  <1> QED BY <1>3, <1>4, StageInit

LEMMA PlotInvNext == PlotInv /\ [Next]_vars => PlotInv'
  <1> SUFFICES ASSUME PlotInv, [Next]_vars, tab' = "plots" PROVE (StageInv /\ InOrder /\ PlotPage /\ PlotCalls)'
    BY DEF PlotInv
  <1>1. tab = "plots" /\ StageInv /\ InOrder /\ PlotPage /\ PlotCalls
    BY DEF Next, vars, PlotInv
  <1>2. StageInv'
    BY <1>1, StageNext
  <1>3. CASE Plots!Next
    <2>1. KeepsDialog /\ (PlotAsks \/ PlotEnds)
      BY <1>1, <1>3, PlotsTurn
    <2>2. InOrder'
      BY <1>1, <2>1, StepsInOrder DEF PlotAsks, PlotEnds, Counts, Steps
    <2>3. PlotPage'
      BY <1>1, <2>1 DEF PlotPage, KeepsDialog, AsksPlainly, Plots!NoDialog
    <2>4. \A c \in calls' : PlotFine(c.req, c.then)
      <3>1. CASE PlotAsks
        BY <1>1, <3>1 DEF PlotCalls, PlotAsks
      <3>2. CASE PlotEnds
        BY <1>1, <3>2 DEF PlotCalls, PlotEnds
      <3> QED BY <2>1, <3>1, <3>2
    <2>5. PlotCalls'
      BY <2>4 DEF PlotCalls, PlotFine, AtMostOne, Plots!ViewAxisFields
    <2> QED BY <1>2, <2>2, <2>3, <2>5
  <1>4. CASE UNCHANGED vars
    <2>1. UNCHANGED Plots!queryVars /\ UNCHANGED page
      BY <1>4 DEF vars, Plots!queryVars
    <2>2. InOrder'
      BY <1>1, <2>1, PlotsQuiet, StepsInOrder DEF PlotAsks, Counts, Steps
    <2>3. PlotPage' /\ PlotCalls'
      BY <1>1, <2>1 DEF PlotPage, AsksPlainly, PlotCalls, PlotFine, AtMostOne, Plots!ViewAxisFields, Plots!NoDialog, Plots!queryVars
    <2> QED BY <1>2, <2>2, <2>3
  <1> QED BY <1>1, <1>3, <1>4 DEF Next

\* What an update leaves of an element it does not name a field of.
LEMMA UpdateKeepsFields ==
  ASSUME Stands(stored), NEW req, NEW r \in Plots!UpdateElement(req, stored),
         NEW e \in Plots!Row(stored.elements, req.id), NEW x \in Plots!Row(r.store.elements, req.id)
  PROVE  \A f \in DOMAIN e \ DOMAIN req.patch : x[f] = e[f]
  <1>1. PICK d \in {y \in Plots!Row(stored.elements, req.id) : y.plot = req.plot} :
          r.store = [stored EXCEPT !.elements = Plots!Put(@, Plots!Patched(d, req.patch, Plots!ElementPatch))]
    BY DEF Plots!UpdateElement, Plots!Given
  <1> DEFINE row == Plots!Patched(d, req.patch, Plots!ElementPatch)
             rows == Plots!Put(stored.elements, row)
  <1>2. /\ DOMAIN stored = Plots!PlotFields /\ stored.next \in Nat /\ Plots!IdsOnce(stored.elements, stored.next)
        /\ \A y \in stored.elements : {"id", "plot", "layer", "truss"} \subseteq DOMAIN y
    BY DEF Stands, Plots!IsStage
  <1>3. d \in stored.elements /\ e \in stored.elements /\ d.id = e.id /\ d.id = req.id
    BY <1>1 DEF Plots!Row
  <1>4. d = e
    BY <1>2, <1>3 DEF Plots!IdsOnce
  <1>5. row.id = d.id
    BY <1>2, <1>3 DEF Plots!Patched, Plots!ElementPatch
  <1>6. \A f \in DOMAIN d \ DOMAIN req.patch : row[f] = d[f]
    BY DEF Plots!Patched
  <1>7. r.store.elements = rows
    BY <1>1, <1>2 DEF Plots!PlotFields
  <1> HIDE DEF row
  <1>8. \A y \in rows : y = row \/ (y \in stored.elements /\ y # d)
    BY <1>2, <1>3, <1>5, PutOnce
  <1> HIDE DEF rows
  <1>9. x \in rows /\ x.id = d.id
    BY <1>3, <1>7 DEF Plots!Row
  <1>10. x = row
    BY <1>2, <1>3, <1>8, <1>9 DEF Plots!IdsOnce
  <1> QED BY <1>4, <1>6, <1>10

LEMMA DragStep ==
  ASSUME PlotInv, [Next]_vars, tab = "plots"
  PROVE  Plots!DragMovesInItsPlaneStep
  <1> SUFFICES ASSUME NEW c \in calls, c.state = "sent", c.then.kind = "element", c.then.by = "drag",
                      NEW e \in Plots!Row(stored.elements, c.req.id), NEW x \in Plots!Row(stored'.elements, c.req.id),
                      NEW d \in calls', d.n = c.n, d.state = "done"
               PROVE  LET axes == Plots!ViewAxisFields(c.then.plane) IN \A f \in DOMAIN e \ {axes.u, axes.v} : x[f] = e[f]
    BY DEF Plots!DragMovesInItsPlaneStep, Plots!Row
  <1>1. StageInv /\ InOrder /\ PlotPage /\ PlotCalls /\ Stands(stored)
    BY DEF PlotInv, StageInv
  <1>2. made \in Nat /\ \A a, b \in calls : a.n \in 1 .. made /\ (a.n = b.n => a = b)
    BY <1>1 DEF InOrder, Ordered, Now
  <1>3. d \notin calls
    BY <1>2
  <1>4. Plots!Next
    BY <1>3 DEF Next, vars
  <1>5. \E a \in calls : /\ a.state = "sent" /\ (stored' = stored \/ \E r \in Plots!ApplyPlot(a.req, stored) : stored' = r.store)
                         /\ \A b \in calls' : b \in calls \/ b.n = a.n
    <2>1. PlotAsks \/ PlotServes \/ NoneDone
      BY <1>1, <1>4, PlotsTurn
    <2>2. ~NoneDone
      BY <1>3 DEF NoneDone
    <2>3. ~PlotAsks
      BY <1>2, <1>3 DEF PlotAsks, Asks, GoesOut, Now
    <2> QED BY <2>1, <2>2, <2>3 DEF PlotServes
  <1>6. stored' = stored \/ \E r \in Plots!ApplyPlot(c.req, stored) : stored' = r.store
    BY <1>2, <1>3, <1>5
  <1>7. LET axes == Plots!ViewAxisFields(c.then.plane)
        IN c.req.op = "updateElement" /\ DOMAIN c.req.patch \subseteq {axes.u, axes.v}
    BY <1>1 DEF PlotCalls, PlotFine
  <1>8. CASE stored' = stored
    <2>1. x = e
      BY <1>1, <1>8 DEF Stands, Plots!IsStage, Plots!IdsOnce, Plots!Row
    <2> QED BY <2>1
  <1>9. CASE \E r \in Plots!ApplyPlot(c.req, stored) : stored' = r.store
    <2>1. PICK r \in Plots!ApplyPlot(c.req, stored) : stored' = r.store
      BY <1>9
    <2>2. r \in Plots!UpdateElement(c.req, stored)
      BY <1>7, <2>1 DEF Plots!ApplyPlot
    <2>3. \A f \in DOMAIN e \ DOMAIN c.req.patch : x[f] = e[f]
      BY <1>1, <2>1, <2>2, UpdateKeepsFields
    <2> QED BY <1>7, <2>3
  <1> QED BY <1>6, <1>8, <1>9

\* A drag moves an element in the plane of the view it was dragged in.
DragStepInTab == tab = "plots" => Plots!DragMovesInItsPlaneStep
THEOREM DragsAlwaysMoveInTheirPlane == Spec => DragMovesInItsPlane
  <1>1. PlotInv /\ [Next]_vars => DragStepInTab
    BY DragStep DEF DragStepInTab
  <1>2. [DragStepInTab]_vars => [tab = "plots" => Plots!DragMovesInItsPlaneStep]_vars
    BY DEF DragStepInTab
  <1> QED BY <1>1, PlotInvInit, PlotInvNext, PTL DEF Spec, DragMovesInItsPlane, DragStepInTab

-----------------------------------------------------------------------------
(* The counters, on every tab.                                              *)

\* For any starts, drafts, drags and other clients, and whatever is refused or lost: no page
\* is told of a save the server has not done or shows a copy older than one it showed, no
\* answer is taken for another's, one GET is on its way at a time, and no cable has an id
\* that is still to be given (client.ts, the hooks over it, and audio_patch.go).
THEOREM PagesAlwaysTyped == Spec => []TypeOK
  <1>1. Init => tab \in {"inputs", "outputs", "plots"}
    BY DEF Init
  <1>2. tab \in {"inputs", "outputs", "plots"} /\ [Next]_vars => (tab \in {"inputs", "outputs", "plots"})'
    BY DEF Next, vars
  <1>3. tab \in {"inputs", "outputs", "plots"} /\ CountsInv /\ PlotInv => TypeOK
    <2> SUFFICES ASSUME tab \in {"inputs", "outputs", "plots"}, CountsInv, PlotInv PROVE TypeOK
      OBVIOUS
    <2>1. InOrder
      BY DEF CountsInv, PlotInv, OnPatch
    <2>2. Inputs!Q!TypeOK
      BY <2>1, InOrderIsTyped
    <2>3. OnPatch => \A c \in stored.inCables \cup stored.outCables : c.id < stored.next
      <3> SUFFICES ASSUME OnPatch, NEW side \in {"in", "out"}, NEW c \in Cables(side, stored) PROVE c.id < stored.next
        BY DEF Cables
      <3>1. stored.next \in Nat /\ c.id \in 0 .. stored.next - 1
        BY DEF CountsInv, AllThemselves, StillItself
      <3> QED BY <3>1
    <2> QED BY <2>2, <2>3 DEF TypeOK
  <1> QED BY <1>1, <1>2, <1>3, CountsHold, PlotInvInit, PlotInvNext, PTL DEF Spec
=============================================================================

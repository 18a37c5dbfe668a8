-------------------------- MODULE EventPages_proofs --------------------------
(***************************************************************************)
(* What the server keeps of an event's audio patch, whatever pages and     *)
(* other clients ask of it and in whatever order: at most one cable in a   *)
(* jack, every cable of the input graph on rows that are there, and no     *)
(* request of a dialog about a cable other than the one it showed.         *)
(*                                                                         *)
(* First the store: of the requests only one puts a cable in; every other  *)
(* leaves cables of the same ends, and takes a row's cables with the row.  *)
(* Then the pages: no step of a page reaches the store but the server's,   *)
(* and no request it may come to send is assumed of it.  Then the copies   *)
(* of cables the pages hold, from a GET to the request of a dialog; what   *)
(* the phone has left to send, which may be anything its plans can hold;   *)
(* and last the counters of the pages and the counts of a box.             *)
(***************************************************************************)
EXTENDS EventPages, PageCounts, TLAPS, FiniteSetTheorems, WellFoundedInduction

-----------------------------------------------------------------------------
(* The store.                                                               *)

\* No cable of `t` is new or ends elsewhere than in `s`.
NoNewCables(s, t) ==
  \A side \in {"in", "out"} : \A c \in Cables(side, t) :
    \E d \in Cables(side, s) : d.id = c.id /\ d.from = c.from /\ d.to = c.to

LEMMA NoNewCablesKeepsEnds ==
  ASSUME NEW s, NEW t, NoNewCables(s, t), OneCablePerEnd(s)
  PROVE  OneCablePerEnd(t)
  BY DEF NoNewCables, OneCablePerEnd

LEMMA MoreRowsKeepEnds ==
  ASSUME NEW s, NEW t, NoNewCables(s, t), InputNodes(s) \subseteq InputNodes(t), EndOnRows(s)
  PROVE  EndOnRows(t)
  <1>1. \A c \in t.inCables : \E d \in s.inCables : d.from = c.from /\ d.to = c.to
    BY DEF NoNewCables, Cables
  <1> QED BY <1>1 DEF EndOnRows

\* What every request but a cable put in leaves of a patch.
Kept(s, t) == /\ IsPatch(t) /\ t.next \in {s.next, s.next + 1}
              /\ NoNewCables(s, t) /\ (EndOnRows(s) => EndOnRows(t))

RowFields == {"sources", "channels", "inDevices", "outDevices", "boxes", "multis", "desks", "outputs"}

LEMMA RowsReplaced ==
  ASSUME NEW s, IsPatch(s), NEW f \in RowFields, NEW rows,
         \A x \in s[f] : \E y \in rows : y.id = x.id,
         f \in {"sources", "channels", "boxes"} => \A y \in rows : "id" \in DOMAIN y
  PROVE  Kept(s, [s EXCEPT ![f] = rows])
  <1> DEFINE t == [s EXCEPT ![f] = rows]
  <1>1. /\ DOMAIN t = PatchFields /\ t[f] = rows
        /\ \A g \in PatchFields \ {f} : t[g] = s[g]
    BY DEF IsPatch, PatchFields, RowFields
  <1> HIDE DEF t
  <1>2. t.inCables = s.inCables /\ t.outCables = s.outCables
    BY <1>1 DEF PatchFields, RowFields
  <1>3. \A g \in RowFields : \A x \in s[g] : \E y \in t[g] : y.id = x.id
    BY <1>1 DEF PatchFields, RowFields
  <1>4. \A y \in t.sources \cup t.channels \cup t.boxes : "id" \in DOMAIN y
    BY <1>1 DEF IsPatch, PatchFields
  <1>5. IsPatch(t)
    BY <1>1, <1>2, <1>4 DEF IsPatch
  <1>6. NoNewCables(s, t)
    BY <1>2 DEF NoNewCables, Cables
  <1>7. InputNodes(s) \subseteq InputNodes(t)
    BY <1>3 DEF InputNodes, RowFields
  <1>8. Kept(s, t)
    BY <1>1, <1>5, <1>6, <1>7, MoreRowsKeepEnds DEF Kept, PatchFields, RowFields
  <1> QED BY <1>8 DEF t

LEMMA NodeTaken ==
  ASSUME NEW s, NEW t, IsPatch(t), t.next = s.next,
         t.inCables \subseteq s.inCables, t.outCables \subseteq s.outCables,
         NEW lost, InputNodes(s) \subseteq InputNodes(t) \cup {lost},
         \A c \in t.inCables : <<c.from.kind, c.from.id>> # lost /\ <<c.to.kind, c.to.id>> # lost
  PROVE  Kept(s, t)
  <1>1. NoNewCables(s, t)
    BY DEF NoNewCables, Cables
  <1>2. EndOnRows(s) => EndOnRows(t)
    BY DEF EndOnRows
  <1> QED BY <1>1, <1>2 DEF Kept

\* The cables of a row go with it.
LEMMA WithItsCables ==
  ASSUME NEW cables, NEW kinds, NEW kind \in kinds, NEW id
  PROVE  \A c \in cables \ OnNode(cables, kinds, id) :
           <<c.from.kind, c.from.id>> # <<kind, id>> /\ <<c.to.kind, c.to.id>> # <<kind, id>>
  BY DEF OnNode

\* A row put in the place of those with its id.
LEMMA RowPut ==
  ASSUME NEW s, IsPatch(s), NEW f \in RowFields, NEW row,
         f \in {"sources", "channels", "boxes"} => "id" \in DOMAIN row
  PROVE  Kept(s, [s EXCEPT ![f] = Put(s[f], row)])
  <1>1. \A x \in s[f] : \E y \in Put(s[f], row) : y.id = x.id
    BY DEF Put
  <1>2. f \in {"sources", "channels", "boxes"} => \A y \in Put(s[f], row) : "id" \in DOMAIN y
    BY DEF Put, IsPatch
  <1> QED BY <1>1, <1>2, RowsReplaced

LEMMA MadeStore ==
  ASSUME NEW t, NEW r \in Made(t)
  PROVE  r.store = [t EXCEPT !.next = t.next + 1]
  BY DEF Made

\* A row added, which takes the next id.
LEMMA RowAdded ==
  ASSUME NEW s, IsPatch(s), NEW f \in RowFields, NEW row, "id" \in DOMAIN row,
         NEW r \in Made([s EXCEPT ![f] = @ \cup {row}])
  PROVE  Kept(s, r.store)
  <1> DEFINE t == [s EXCEPT ![f] = s[f] \cup {row}]
  <1>1. Kept(s, t)
    <2>1. \A x \in s[f] : \E y \in s[f] \cup {row} : y.id = x.id
      OBVIOUS
    <2>2. f \in {"sources", "channels", "boxes"} => \A y \in s[f] \cup {row} : "id" \in DOMAIN y
      BY DEF IsPatch
    <2> HIDE DEF t
    <2> QED BY <2>1, <2>2, RowsReplaced DEF t
  <1>2. r \in Made(t) /\ t.next = s.next
    BY DEF IsPatch, PatchFields, RowFields
  <1> HIDE DEF t
  <1>3. r.store = [t EXCEPT !.next = t.next + 1]
    BY <1>2, MadeStore
  <1>4. DOMAIN t = PatchFields
    BY <1>1 DEF Kept, IsPatch
  <1>5. DOMAIN r.store = PatchFields /\ \A g \in PatchFields \ {"next"} : r.store[g] = t[g]
    BY <1>3, <1>4
  <1>6. IsPatch(r.store)
    BY <1>1, <1>5 DEF Kept, IsPatch, PatchFields
  <1>7. NoNewCables(s, r.store)
    BY <1>1, <1>5 DEF Kept, NoNewCables, Cables, PatchFields
  <1>8. EndOnRows(t) => EndOnRows(r.store)
    BY <1>5 DEF EndOnRows, InputNodes, PatchFields
  <1>9. r.store.next = s.next + 1
    BY <1>2, <1>3, <1>4 DEF PatchFields
  <1> QED BY <1>1, <1>6, <1>7, <1>8, <1>9 DEF Kept

\* The cables of one graph, some gone or of another item.
LEMMA CablesReplaced ==
  ASSUME NEW s, IsPatch(s), NEW side, NEW new,
         \A x \in new : /\ DOMAIN x = {"id", "from", "to", "item"}
                        /\ \E d \in Cables(side, s) : d.id = x.id /\ d.from = x.from /\ d.to = x.to
  PROVE  Kept(s, WithCables(side, s, new))
  <1> DEFINE t == WithCables(side, s, new)
  <1>1. CASE side = "in"
    <2>1. t = [s EXCEPT !.inCables = new]
      BY <1>1 DEF WithCables
    <2>2. /\ DOMAIN t = PatchFields /\ t.inCables = new
          /\ \A f \in PatchFields \ {"inCables"} : t[f] = s[f]
      BY <2>1 DEF IsPatch, PatchFields
    <2> HIDE DEF t
    <2>3. IsPatch(t) /\ NoNewCables(s, t) /\ InputNodes(s) \subseteq InputNodes(t)
      BY <1>1, <2>2 DEF IsPatch, PatchFields, NoNewCables, InputNodes, Cables
    <2>4. Kept(s, t)
      BY <2>2, <2>3, MoreRowsKeepEnds DEF Kept, PatchFields
    <2> QED BY <2>4 DEF t
  <1>2. CASE side # "in"
    <2>1. t = [s EXCEPT !.outCables = new]
      BY <1>2 DEF WithCables
    <2>2. /\ DOMAIN t = PatchFields /\ t.outCables = new
          /\ \A f \in PatchFields \ {"outCables"} : t[f] = s[f]
      BY <2>1 DEF IsPatch, PatchFields
    <2> HIDE DEF t
    <2>3. IsPatch(t) /\ NoNewCables(s, t) /\ InputNodes(s) \subseteq InputNodes(t)
      BY <1>2, <2>2 DEF IsPatch, PatchFields, NoNewCables, InputNodes, Cables
    <2>4. Kept(s, t)
      BY <2>2, <2>3, MoreRowsKeepEnds DEF Kept, PatchFields
    <2> QED BY <2>4 DEF t
  <1> QED BY <1>1, <1>2

LEMMA UpdateCableKeeps ==
  ASSUME NEW req, NEW s, IsPatch(s), NEW r \in UpdateCable(req, s)
  PROVE  Kept(s, r.store)
  <1> DEFINE old == Cables(req.side, s)
  <1>1. PICK c \in old : r.store = WithCables(req.side, s, Put(old, [c EXCEPT !.item = req.item]))
    BY DEF UpdateCable, Row, Done
  <1>2. DOMAIN c = {"id", "from", "to", "item"}
    BY DEF IsPatch, Cables
  <1>3. \A x \in Put(old, [c EXCEPT !.item = req.item]) :
          /\ DOMAIN x = {"id", "from", "to", "item"}
          /\ \E d \in old : d.id = x.id /\ d.from = x.from /\ d.to = x.to
    BY <1>2 DEF Put, IsPatch, Cables
  <1> QED BY <1>1, <1>3, CablesReplaced

LEMMA DeleteCableKeeps ==
  ASSUME NEW req, NEW s, IsPatch(s), NEW r \in DeleteCable(req, s)
  PROVE  Kept(s, r.store)
  <1> DEFINE old == Cables(req.side, s)
  <1>1. PICK c \in old : r.store = WithCables(req.side, s, old \ {c})
    BY DEF DeleteCable, Row, Done
  <1>2. \A x \in old \ {c} : /\ DOMAIN x = {"id", "from", "to", "item"}
                            /\ \E d \in old : d.id = x.id /\ d.from = x.from /\ d.to = x.to
    BY DEF IsPatch, Cables
  <1> QED BY <1>1, <1>2, CablesReplaced

LEMMA DeleteSourceKeeps ==
  ASSUME NEW req, NEW s, IsPatch(s), NEW r \in DeleteSource(req, s)
  PROVE  Kept(s, r.store)
  <1>1. PICK x \in Row(s.sources, req.id) :
          r \in Done([s EXCEPT !.sources = @ \ {x}, !.inCables = @ \ OnNode(@, {"source"}, x.id)])
    BY DEF DeleteSource
  <1>2. r.store = [s EXCEPT !.sources = @ \ {x}, !.inCables = @ \ OnNode(@, {"source"}, x.id)]
    BY <1>1 DEF Done
  <1>3. /\ DOMAIN r.store = PatchFields /\ r.store.sources = s.sources \ {x}
        /\ r.store.inCables = s.inCables \ OnNode(s.inCables, {"source"}, x.id)
        /\ \A f \in PatchFields \ {"sources", "inCables"} : r.store[f] = s[f]
    BY <1>2 DEF IsPatch, PatchFields
  <1>4. IsPatch(r.store)
    BY <1>3 DEF IsPatch, PatchFields
  <1>5. InputNodes(s) \subseteq InputNodes(r.store) \cup {<<"source", x.id>>}
    BY <1>3 DEF InputNodes, PatchFields
  <1>6. r.store.inCables \subseteq s.inCables /\ r.store.outCables \subseteq s.outCables /\ r.store.next = s.next
    BY <1>3 DEF PatchFields
  <1>7. \A c \in r.store.inCables : /\ <<c.from.kind, c.from.id>> # <<"source", x.id>>
                                    /\ <<c.to.kind, c.to.id>> # <<"source", x.id>>
    BY <1>3, WithItsCables
  <1> QED BY <1>4, <1>5, <1>6, <1>7, NodeTaken

LEMMA DeleteChannelKeeps ==
  ASSUME NEW req, NEW s, IsPatch(s), NEW r \in DeleteChannel(req, s)
  PROVE  Kept(s, r.store)
  <1>1. PICK x \in Row(s.channels, req.id) :
          r \in Done([s EXCEPT !.channels = @ \ {x}, !.inCables = @ \ OnNode(@, {"channel"}, x.id)])
    BY DEF DeleteChannel
  <1>2. r.store = [s EXCEPT !.channels = @ \ {x}, !.inCables = @ \ OnNode(@, {"channel"}, x.id)]
    BY <1>1 DEF Done
  <1>3. /\ DOMAIN r.store = PatchFields /\ r.store.channels = s.channels \ {x}
        /\ r.store.inCables = s.inCables \ OnNode(s.inCables, {"channel"}, x.id)
        /\ \A f \in PatchFields \ {"channels", "inCables"} : r.store[f] = s[f]
    BY <1>2 DEF IsPatch, PatchFields
  <1>4. IsPatch(r.store)
    BY <1>3 DEF IsPatch, PatchFields
  <1>5. InputNodes(s) \subseteq InputNodes(r.store) \cup {<<"channel", x.id>>}
    BY <1>3 DEF InputNodes, PatchFields
  <1>6. r.store.inCables \subseteq s.inCables /\ r.store.outCables \subseteq s.outCables /\ r.store.next = s.next
    BY <1>3 DEF PatchFields
  <1>7. \A c \in r.store.inCables : /\ <<c.from.kind, c.from.id>> # <<"channel", x.id>>
                                    /\ <<c.to.kind, c.to.id>> # <<"channel", x.id>>
    BY <1>3, WithItsCables
  <1> QED BY <1>4, <1>5, <1>6, <1>7, NodeTaken

LEMMA DeleteBoxKeeps ==
  ASSUME NEW req, NEW s, IsPatch(s), NEW r \in DeleteBox(req, s)
  PROVE  Kept(s, r.store)
  <1>1. PICK x \in Row(s.boxes, req.id) :
          r \in Done([s EXCEPT !.boxes = @ \ {x}, !.inCables = @ \ OnNode(@, {"stagebox"}, x.id),
                         !.outCables = @ \ OnNode(@, {"stagebox"}, x.id)])
    BY DEF DeleteBox
  <1>2. r.store = [s EXCEPT !.boxes = @ \ {x}, !.inCables = @ \ OnNode(@, {"stagebox"}, x.id),
                        !.outCables = @ \ OnNode(@, {"stagebox"}, x.id)]
    BY <1>1 DEF Done
  <1>3. /\ DOMAIN r.store = PatchFields /\ r.store.boxes = s.boxes \ {x}
        /\ r.store.inCables = s.inCables \ OnNode(s.inCables, {"stagebox"}, x.id)
        /\ r.store.outCables = s.outCables \ OnNode(s.outCables, {"stagebox"}, x.id)
        /\ \A f \in PatchFields \ {"boxes", "inCables", "outCables"} : r.store[f] = s[f]
    BY <1>2 DEF IsPatch, PatchFields
  <1>4. IsPatch(r.store)
    BY <1>3 DEF IsPatch, PatchFields
  <1>5. InputNodes(s) \subseteq InputNodes(r.store) \cup {<<"stagebox", x.id>>}
    BY <1>3 DEF InputNodes, PatchFields
  <1>6. r.store.inCables \subseteq s.inCables /\ r.store.outCables \subseteq s.outCables /\ r.store.next = s.next
    BY <1>3 DEF PatchFields
  <1>7. \A c \in r.store.inCables : /\ <<c.from.kind, c.from.id>> # <<"stagebox", x.id>>
                                    /\ <<c.to.kind, c.to.id>> # <<"stagebox", x.id>>
    BY <1>3, WithItsCables
  <1> QED BY <1>4, <1>5, <1>6, <1>7, NodeTaken

LEMMA UpdateSourceKeeps ==
  ASSUME NEW req, NEW s, IsPatch(s), NEW r \in UpdateSource(req, s)
  PROVE  Kept(s, r.store)
  <1>1. PICK x \in Row(s.sources, req.id) :
          r \in Done([s EXCEPT !.sources = Put(@, [x EXCEPT !.width = req.width])])
    BY DEF UpdateSource
  <1> DEFINE row == [x EXCEPT !.width = req.width]
  <1>2. r.store = [s EXCEPT !["sources"] = Put(s["sources"], row)]
    BY <1>1 DEF Done
  <1>3. "id" \in DOMAIN row
    BY DEF IsPatch, Row
  <1> HIDE DEF row
  <1> QED BY <1>2, <1>3, RowPut DEF RowFields

LEMMA UpdateChannelKeeps ==
  ASSUME NEW req, NEW s, IsPatch(s), NEW r \in UpdateChannel(req, s)
  PROVE  Kept(s, r.store)
  <1>1. PICK x \in Row(s.channels, req.id) :
          r \in Done([s EXCEPT !.channels = Put(@, [x EXCEPT !.number = req.number, !.width = req.width, !.desk = req.desk])])
    BY DEF UpdateChannel
  <1> DEFINE row == [x EXCEPT !.number = req.number, !.width = req.width, !.desk = req.desk]
  <1>2. r.store = [s EXCEPT !["channels"] = Put(s["channels"], row)]
    BY <1>1 DEF Done
  <1>3. "id" \in DOMAIN row
    BY DEF IsPatch, Row
  <1> HIDE DEF row
  <1> QED BY <1>2, <1>3, RowPut DEF RowFields

LEMMA UpdateBoxKeeps ==
  ASSUME NEW req, NEW s, IsPatch(s), NEW r \in UpdateBox(req, s)
  PROVE  Kept(s, r.store)
  <1>1. PICK x \in Row(s.boxes, req.id) :
          r \in Done([s EXCEPT !.boxes = Put(@, [f \in DOMAIN x |-> IF f \in DOMAIN req.fields THEN req.fields[f] ELSE x[f]])])
    BY DEF UpdateBox
  <1> DEFINE row == [f \in DOMAIN x |-> IF f \in DOMAIN req.fields THEN req.fields[f] ELSE x[f]]
  <1>2. r.store = [s EXCEPT !["boxes"] = Put(s["boxes"], row)]
    BY <1>1 DEF Done
  <1>3. "id" \in DOMAIN row
    BY DEF IsPatch, Row
  <1> HIDE DEF row
  <1> QED BY <1>2, <1>3, RowPut DEF RowFields

LEMMA UpdateMultiKeeps ==
  ASSUME NEW req, NEW s, IsPatch(s), NEW r \in UpdateMulti(req, s)
  PROVE  Kept(s, r.store)
  <1>1. PICK x \in Row(s.multis, req.row.id) :
          r \in Done([s EXCEPT !.multis = Put(@, req.row)])
    BY DEF UpdateMulti
  <1> DEFINE row == req.row
  <1>2. r.store = [s EXCEPT !["multis"] = Put(s["multis"], row)]
    BY <1>1 DEF Done
  <1> HIDE DEF row
  <1> QED BY <1>2, RowPut DEF RowFields

LEMMA SetFedByKeeps ==
  ASSUME NEW req, NEW s, IsPatch(s), NEW r \in SetFedBy(req, s)
  PROVE  Kept(s, r.store)
  <1>1. PICK x \in Row(s.outputs, req.id) :
          r \in Done([s EXCEPT !.outputs = Put(@, [x EXCEPT !.fed = req.fed])])
    BY DEF SetFedBy
  <1> DEFINE row == [x EXCEPT !.fed = req.fed]
  <1>2. r.store = [s EXCEPT !["outputs"] = Put(s["outputs"], row)]
    BY <1>1 DEF Done
  <1> HIDE DEF row
  <1> QED BY <1>2, RowPut DEF RowFields

LEMMA UpdateOutputKeeps ==
  ASSUME NEW req, NEW s, IsPatch(s), NEW r \in UpdateOutput(req, s)
  PROVE  Kept(s, r.store)
  <1>1. PICK o, desk : r \in Done([s EXCEPT !.outputs = Put(@, OutputSent(req, o, desk))])
    BY DEF UpdateOutput
  <1>2. r.store = [s EXCEPT !["outputs"] = Put(s["outputs"], OutputSent(req, o, desk))]
    BY <1>1 DEF Done
  <1> QED BY <1>2, RowPut DEF RowFields

LEMMA UpdateOutputDeviceKeeps ==
  ASSUME NEW req, NEW s, IsPatch(s), NEW r \in UpdateOutputDevice(req, s)
  PROVE  Kept(s, r.store)
  <1>1. r.store = [s EXCEPT !["outDevices"] = Put(s["outDevices"], req.row)]
    BY DEF UpdateOutputDevice, Done
  <1> QED BY <1>1, RowPut DEF RowFields

LEMMA DeleteOutputKeeps ==
  ASSUME NEW req, NEW s, IsPatch(s), NEW r \in DeleteOutput(req, s)
  PROVE  Kept(s, r.store)
  <1>1. PICK x \in Row(s.outputs, req.id) : r \in Done([s EXCEPT !.outputs = @ \ {x}])
    BY DEF DeleteOutput
  <1>2. r.store = [s EXCEPT !.outputs = @ \ {x}]
    BY <1>1 DEF Done
  <1>3. DOMAIN r.store = PatchFields /\ \A f \in PatchFields \ {"outputs"} : r.store[f] = s[f]
    BY <1>2 DEF IsPatch, PatchFields
  <1>4. IsPatch(r.store) /\ NoNewCables(s, r.store) /\ InputNodes(s) \subseteq InputNodes(r.store)
    BY <1>3 DEF IsPatch, PatchFields, NoNewCables, Cables, InputNodes
  <1> QED BY <1>3, <1>4, MoreRowsKeepEnds DEF Kept, PatchFields

LEMMA DeleteOutputDeviceKeeps ==
  ASSUME NEW req, NEW s, IsPatch(s), NEW r \in DeleteOutputDevice(req, s)
  PROVE  Kept(s, r.store)
  <1> DEFINE rest(x) == s.outCables \ OnNode(s.outCables, {"device", "device_link"}, x.id)
  <1>1. PICK x \in Row(s.outDevices, req.id) :
          r \in Done([s EXCEPT !.outDevices = @ \ {x}, !.outCables = rest(x)])
    BY DEF DeleteOutputDevice
  <1>2. r.store = [s EXCEPT !.outDevices = @ \ {x}, !.outCables = rest(x)]
    BY <1>1 DEF Done
  <1>3. /\ DOMAIN r.store = PatchFields /\ r.store.outCables \subseteq s.outCables
        /\ \A f \in PatchFields \ {"outDevices", "outCables"} : r.store[f] = s[f]
    BY <1>2 DEF IsPatch, PatchFields
  <1>4. IsPatch(r.store) /\ NoNewCables(s, r.store) /\ InputNodes(s) \subseteq InputNodes(r.store)
    BY <1>3 DEF IsPatch, PatchFields, NoNewCables, Cables, InputNodes
  <1> QED BY <1>3, <1>4, MoreRowsKeepEnds DEF Kept, PatchFields

LEMMA CreateSourceKeeps ==
  ASSUME NEW req, NEW s, IsPatch(s), NEW r \in CreateSource(req, s)
  PROVE  Kept(s, r.store)
  <1> DEFINE row == [id |-> s.next, width |-> req.width]
  <1>1. r \in Made([s EXCEPT !["sources"] = @ \cup {row}]) /\ "id" \in DOMAIN row
    BY DEF CreateSource
  <1> HIDE DEF row
  <1> QED BY <1>1, RowAdded DEF RowFields

LEMMA CreateChannelKeeps ==
  ASSUME NEW req, NEW s, IsPatch(s), NEW r \in CreateChannel(req, s)
  PROVE  Kept(s, r.store)
  <1> DEFINE strip(n) == [id |-> s.next, number |-> n, width |-> "mono", color |-> NoColor, pool |-> "channel",
                          linked |-> TRUE, desk |-> req.desk]
  <1>1. PICK n : r \in Made([s EXCEPT !["channels"] = @ \cup {strip(n)}])
    BY DEF CreateChannel
  <1> DEFINE row == strip(n)
  <1>2. r \in Made([s EXCEPT !["channels"] = @ \cup {row}]) /\ "id" \in DOMAIN row
    BY <1>1
  <1> HIDE DEF row
  <1> QED BY <1>2, RowAdded DEF RowFields

LEMMA CreateOutputKeeps ==
  ASSUME NEW req, NEW s, IsPatch(s), NEW r \in CreateOutput(req, s)
  PROVE  Kept(s, r.store)
  <1> DEFINE output(desk) == [id |-> s.next, number |-> req.number, width |-> req.width, color |-> req.color,
                              desk |-> desk, fed |-> NoFeed]
  <1>1. PICK desk : r \in Made([s EXCEPT !["outputs"] = @ \cup {output(desk)}])
    BY DEF CreateOutput
  <1> DEFINE row == output(desk)
  <1>2. r \in Made([s EXCEPT !["outputs"] = @ \cup {row}]) /\ "id" \in DOMAIN row
    BY <1>1
  <1> HIDE DEF row
  <1> QED BY <1>2, RowAdded DEF RowFields

-----------------------------------------------------------------------------
(* A cable put in.                                                          *)

\* A port of the input graph is a port of a node that is there.
LEMMA PortsOnNodes ==
  ASSUME NEW s, NEW q \in InputPorts(s)
  PROVE  <<q.kind, q.id>> \in InputNodes(s)
  BY DEF InputPorts, SourcePorts, ChannelPorts, InputDevicePorts, InputStageboxPorts, InputMultiPorts,
         ConsoleLocalInPorts, ConsoleAuxPorts, BothSides, Ports, InputNodes

LEMMA CreateCableKeeps ==
  ASSUME NEW req, NEW s, IsPatch(s), NEW r \in CreateCable(req, s)
  PROVE  /\ IsPatch(r.store)
         /\ OneCablePerEnd(s) => OneCablePerEnd(r.store)
         /\ EndOnRows(s) => EndOnRows(r.store)
  <1> DEFINE old == Cables(req.side, s)
             cable == [id |-> s.next, from |-> req.cable.from, to |-> req.cable.to, item |-> req.cable.item]
             new == old \cup {cable}
             at == IF req.side = "in" THEN "in" ELSE "out"
             t == WithCables(req.side, s, new)
  <1>1. LegalCable(req.side, req.cable, s)
    BY DEF CreateCable
  <1>2. r \in Made(t)
    BY DEF CreateCable
  <1>3. r.store = [t EXCEPT !.next = t.next + 1]
    <2> HIDE DEF t
    <2> QED BY <1>2, MadeStore
  <1>4. /\ \A c \in old : c.to # cable.to
        /\ cable.from.kind = (IF at = "in" THEN "source" ELSE "mixer") \/ \A c \in old : c.from # cable.from
    BY <1>1 DEF LegalCable
  <1>5. req.side = "in" => /\ <<cable.from.kind, cable.from.id>> \in InputNodes(s)
                           /\ <<cable.to.kind, cable.to.id>> \in InputNodes(s)
    <2>1. ASSUME req.side = "in"
          PROVE  \E q, w \in InputPorts(s) : End(q) = cable.from /\ End(w) = cable.to
      BY <1>1, <2>1 DEF LegalCable
    <2>2. \A q : End(q).kind = q.kind /\ End(q).id = q.id
      BY DEF End
    <2> QED BY <2>1, <2>2, PortsOnNodes
  <1>6. /\ DOMAIN t = PatchFields /\ Cables(req.side, t) = new
        /\ \A f \in PatchFields \ {IF req.side = "in" THEN "inCables" ELSE "outCables"} : t[f] = s[f]
    BY DEF WithCables, IsPatch, PatchFields, Cables
  <1>7. DOMAIN cable = {"id", "from", "to", "item"}
    OBVIOUS
  <1> HIDE DEF t, cable
  <1>8. /\ DOMAIN r.store = PatchFields /\ Cables(req.side, r.store) = new
        /\ \A f \in PatchFields \ {"next", IF req.side = "in" THEN "inCables" ELSE "outCables"} : r.store[f] = s[f]
    BY <1>3, <1>6 DEF Cables, PatchFields
  <1>9. IsPatch(r.store)
    BY <1>7, <1>8 DEF IsPatch, PatchFields, Cables
  <1>10. ASSUME OneCablePerEnd(s) PROVE OneCablePerEnd(r.store)
    <2>1. Cables(at, s) = old /\ Cables(at, r.store) = new
      BY <1>8 DEF Cables
    <2>2. \A side \in {"in", "out"} : side # at => Cables(side, r.store) = Cables(side, s)
      BY <1>8 DEF Cables, PatchFields
    <2>3. ASSUME NEW a \in new, NEW b \in new, a.id # b.id
          PROVE  a.to # b.to /\ (a.from = b.from => a.from.kind = IF at = "in" THEN "source" ELSE "mixer")
      BY <1>4, <1>10, <2>1, <2>3 DEF OneCablePerEnd
    <2> HIDE DEF new
    <2>4. \A a, b \in Cables(at, r.store) :
            a.id # b.id => a.to # b.to /\ (a.from = b.from => a.from.kind = IF at = "in" THEN "source" ELSE "mixer")
      BY <2>1, <2>3
    <2> HIDE DEF at
    <2> QED BY <1>10, <2>2, <2>4 DEF OneCablePerEnd
  <1>11. ASSUME EndOnRows(s) PROVE EndOnRows(r.store)
    <2>1. InputNodes(r.store) = InputNodes(s)
      BY <1>8 DEF InputNodes, PatchFields
    <2>2. \A c \in r.store.inCables : c \in s.inCables \/ (req.side = "in" /\ c = cable)
      BY <1>8 DEF Cables, PatchFields
    <2> QED BY <1>5, <1>11, <2>1, <2>2 DEF EndOnRows
  <1> QED BY <1>9, <1>10, <1>11

\* Whatever is asked of it, the server leaves a patch with one cable to a jack, and every
\* cable of the input graph on rows that are there.
LEMMA ApplyKeeps ==
  ASSUME NEW req, NEW s, IsPatch(s), OneCablePerEnd(s), EndOnRows(s), NEW r \in ApplyPatch(req, s)
  PROVE  IsPatch(r.store) /\ OneCablePerEnd(r.store) /\ EndOnRows(r.store)
  <1>1. CASE r \in CreateCable(req, s)
    BY <1>1, CreateCableKeeps
  <1>2. CASE r \notin CreateCable(req, s)
    <2>1. Kept(s, r.store)
      BY <1>2, UpdateCableKeeps, DeleteCableKeeps, CreateSourceKeeps, UpdateSourceKeeps, DeleteSourceKeeps,
         CreateChannelKeeps, UpdateChannelKeeps, DeleteChannelKeeps, UpdateBoxKeeps, DeleteBoxKeeps, UpdateMultiKeeps,
         CreateOutputKeeps, UpdateOutputKeeps, SetFedByKeeps, DeleteOutputKeeps, UpdateOutputDeviceKeeps,
         DeleteOutputDeviceKeeps DEF ApplyPatch
    <2> QED BY <2>1, NoNewCablesKeepsEnds DEF Kept
  <1> QED BY <1>1, <1>2

-----------------------------------------------------------------------------
(* The pages.                                                               *)

\* What a step may do to the store: nothing, or what the server makes of some request.
StoreStep == UNCHANGED stored \/ \E req : \E r \in ApplyPatch(req, stored) : stored' = r.store

\* Each page has the store's definitions under its own name. They read none of the page's
\* variables, so a page's are the store's; every definition they rest on is unfolded here.
LEMMA InputsApplyPatch ==
  ASSUME NEW req, NEW s
  PROVE  Inputs!ApplyPatch(req, s) = ApplyPatch(req, s)
  BY DEF
    Inputs!ApplyPatch, ApplyPatch, Inputs!CreateCable, CreateCable, Inputs!LegalCable, LegalCable,
    Inputs!InputPorts, InputPorts, Inputs!SourcePorts, SourcePorts, Inputs!Ports, Ports,
    Inputs!ChannelPorts, ChannelPorts, Inputs!InputDevicePorts, InputDevicePorts, Inputs!First, First,
    Inputs!InputStageboxPorts, InputStageboxPorts, Inputs!BothSides, BothSides, Inputs!InputMultiPorts,
    InputMultiPorts, Inputs!ConsoleLocalInPorts, ConsoleLocalInPorts, Inputs!ConsoleAuxPorts,
    ConsoleAuxPorts, Inputs!OutputPorts, OutputPorts, Inputs!MixerPorts, MixerPorts,
    Inputs!StageboxPorts, StageboxPorts, Inputs!StageMultiPorts, StageMultiPorts,
    Inputs!ConsoleLocalOutPorts, ConsoleLocalOutPorts, Inputs!OutputDevicePorts, OutputDevicePorts,
    Inputs!LinkPorts, LinkPorts, Inputs!IsCablelessEdge, IsCablelessEdge, Inputs!IsCablelessToKind,
    IsCablelessToKind, Inputs!End, End, Inputs!Cables, Cables, Inputs!Made, Made, Inputs!WithCables,
    WithCables, Inputs!UpdateCable, UpdateCable, Inputs!Done, Done, Inputs!Put, Put, Inputs!Row, Row,
    Inputs!DeleteCable, DeleteCable, Inputs!CreateSource, CreateSource, Inputs!UpdateSource,
    UpdateSource, Inputs!DeleteSource, DeleteSource, Inputs!OnNode, OnNode, Inputs!CreateChannel,
    CreateChannel, Inputs!FreeNumbers, FreeNumbers, Inputs!StripFree, StripFree, Inputs!NoColor,
    NoColor, Inputs!UpdateChannel, UpdateChannel, Inputs!DeleteChannel, DeleteChannel,
    Inputs!UpdateBox, UpdateBox, Inputs!DeleteBox, DeleteBox, Inputs!UpdateMulti, UpdateMulti,
    Inputs!CreateOutput, CreateOutput, Inputs!NoFeed, NoFeed, Inputs!RowDesk, RowDesk,
    Inputs!UpdateOutput, UpdateOutput, Inputs!OutputSent, OutputSent, Inputs!SetFedBy, SetFedBy,
    Inputs!DeleteOutput, DeleteOutput, Inputs!UpdateOutputDevice, UpdateOutputDevice, Inputs!Keeps,
    Keeps, Inputs!DeleteOutputDevice, DeleteOutputDevice, Inputs!Max, Max, Inputs!Min, Min

LEMMA OutputsApplyPatch ==
  ASSUME NEW req, NEW s
  PROVE  Outputs!ApplyPatch(req, s) = ApplyPatch(req, s)
  BY DEF
    Outputs!ApplyPatch, ApplyPatch, Outputs!CreateCable, CreateCable, Outputs!LegalCable, LegalCable,
    Outputs!InputPorts, InputPorts, Outputs!SourcePorts, SourcePorts, Outputs!Ports, Ports,
    Outputs!ChannelPorts, ChannelPorts, Outputs!InputDevicePorts, InputDevicePorts, Outputs!First,
    First, Outputs!InputStageboxPorts, InputStageboxPorts, Outputs!BothSides, BothSides,
    Outputs!InputMultiPorts, InputMultiPorts, Outputs!ConsoleLocalInPorts, ConsoleLocalInPorts,
    Outputs!ConsoleAuxPorts, ConsoleAuxPorts, Outputs!OutputPorts, OutputPorts, Outputs!MixerPorts,
    MixerPorts, Outputs!StageboxPorts, StageboxPorts, Outputs!StageMultiPorts, StageMultiPorts,
    Outputs!ConsoleLocalOutPorts, ConsoleLocalOutPorts, Outputs!OutputDevicePorts, OutputDevicePorts,
    Outputs!LinkPorts, LinkPorts, Outputs!IsCablelessEdge, IsCablelessEdge, Outputs!IsCablelessToKind,
    IsCablelessToKind, Outputs!End, End, Outputs!Cables, Cables, Outputs!Made, Made,
    Outputs!WithCables, WithCables, Outputs!UpdateCable, UpdateCable, Outputs!Done, Done, Outputs!Put,
    Put, Outputs!Row, Row, Outputs!DeleteCable, DeleteCable, Outputs!CreateSource, CreateSource,
    Outputs!UpdateSource, UpdateSource, Outputs!DeleteSource, DeleteSource, Outputs!OnNode, OnNode,
    Outputs!CreateChannel, CreateChannel, Outputs!FreeNumbers, FreeNumbers, Outputs!StripFree,
    StripFree, Outputs!NoColor, NoColor, Outputs!UpdateChannel, UpdateChannel, Outputs!DeleteChannel,
    DeleteChannel, Outputs!UpdateBox, UpdateBox, Outputs!DeleteBox, DeleteBox, Outputs!UpdateMulti,
    UpdateMulti, Outputs!CreateOutput, CreateOutput, Outputs!NoFeed, NoFeed, Outputs!RowDesk, RowDesk,
    Outputs!UpdateOutput, UpdateOutput, Outputs!OutputSent, OutputSent, Outputs!SetFedBy, SetFedBy,
    Outputs!DeleteOutput, DeleteOutput, Outputs!UpdateOutputDevice, UpdateOutputDevice, Outputs!Keeps,
    Keeps, Outputs!DeleteOutputDevice, DeleteOutputDevice, Outputs!Max, Max, Outputs!Min, Min

LEMMA InputsStep ==
  ASSUME Inputs!Next
  PROVE  StoreStep
  <1> USE DEF Inputs!queryVars, Inputs!Ask, Inputs!Q!Send, Inputs!Q!Answer
  <1>1. ASSUME Inputs!SheetStep PROVE UNCHANGED stored
    BY <1>1 DEF Inputs!SheetStep, Inputs!SelectDesk, Inputs!AddToDesk, Inputs!OpenSheetRow, Inputs!EditorSteps,
       Inputs!TypeDraft, Inputs!SaveRow, Inputs!SaveAndNextRow, Inputs!CloseRow, Inputs!AskToDeleteRow,
       Inputs!OpenHop, Inputs!EditHopInFlow
  <1>2. ASSUME Inputs!CanvasStep PROVE UNCHANGED stored
    BY <1>2 DEF Inputs!CanvasStep, Inputs!Select, Inputs!CloseInspector, Inputs!ClickPort, Inputs!DragCable,
       Inputs!Connect, Inputs!AttemptConnect, Inputs!MoveNode, Inputs!AddSource, Inputs!DuplicateSource,
       Inputs!AskToDeleteSource, Inputs!SaveSource
  <1>3. ASSUME Inputs!DialogStep PROVE UNCHANGED stored
    BY <1>3 DEF Inputs!DialogStep, Inputs!PickCable, Inputs!ChangeCableItem, Inputs!Disconnect, Inputs!ConfirmDelete, Inputs!Cancel
  <1>4. ASSUME Inputs!PhoneStep PROVE UNCHANGED stored
    BY <1>4 DEF Inputs!PhoneStep, Inputs!OpenPhone, Inputs!ChooseRouting, Inputs!SavePhone, Inputs!ClosePhone
  <1>5. ASSUME NEW view1, Inputs!ShowView(view1) PROVE UNCHANGED stored
    BY <1>5 DEF Inputs!ShowView
  <1>6. ASSUME NEW c, Inputs!HearAnswer(c) PROVE UNCHANGED stored
    BY <1>6 DEF Inputs!HearAnswer, Inputs!HearPhone, Inputs!HearRow, Inputs!HearOther
  <1>7. ASSUME Inputs!ViewArrives PROVE UNCHANGED stored
    BY <1>7 DEF Inputs!ViewArrives, Inputs!Q!Arrive, Inputs!Q!ArriveShowing
  <1>8. ASSUME Inputs!Elsewhere PROVE StoreStep
    <2>1. UNCHANGED stored \/ \E req : \E r \in Inputs!ApplyPatch(req, stored) : stored' = r.store
      BY <1>8 DEF Inputs!Elsewhere, Inputs!Q!Serve, Inputs!Q!Lose, Inputs!Q!ReadStore, Inputs!Q!LoseRead,
         Inputs!Q!Focus, Inputs!Q!OtherClient
    <2> QED BY <2>1, InputsApplyPatch DEF StoreStep
  <1> QED BY <1>1, <1>2, <1>3, <1>4, <1>5, <1>6, <1>7, <1>8 DEF Inputs!Next, StoreStep

LEMMA OutputsStep ==
  ASSUME Outputs!Next
  PROVE  StoreStep
  <1> USE DEF Outputs!queryVars, Outputs!Ask, Outputs!Q!Send, Outputs!Q!Answer
  <1>1. ASSUME Outputs!SheetStep PROVE UNCHANGED stored
    BY <1>1 DEF Outputs!SheetStep, Outputs!SelectDesk, Outputs!AddOutputRow, Outputs!OpenSheetRow, Outputs!EditorSteps,
       Outputs!TypeDraft, Outputs!SaveRow, Outputs!SaveAndNextRow, Outputs!CloseRow, Outputs!AskToDeleteRow,
       Outputs!EditRowInFlow, Outputs!OpenInFlow, Outputs!OpenHop, Outputs!EditHopInFlow
  <1>2. ASSUME Outputs!CanvasStep PROVE UNCHANGED stored
    BY <1>2, ZenonT(60) DEF Outputs!CanvasStep, Outputs!Select, Outputs!CloseInspector, Outputs!ClickPort, Outputs!DragCable,
       Outputs!Connect, Outputs!AttemptConnect, Outputs!MoveNode, Outputs!DeleteDevice, Outputs!DuplicateOutput,
       Outputs!AskToDeleteOutput, Outputs!SaveField
  <1>3. ASSUME Outputs!DialogStep PROVE UNCHANGED stored
    BY <1>3 DEF Outputs!DialogStep, Outputs!PickCable, Outputs!ChangeCableItem, Outputs!Disconnect,
       Outputs!ConfirmDelete, Outputs!Cancel
  <1>4. ASSUME Outputs!PhoneStep PROVE UNCHANGED stored
    BY <1>4 DEF Outputs!PhoneStep, Outputs!OpenPhone, Outputs!ChooseOnPhone, Outputs!SavePhone, Outputs!ClosePhone
  <1>5. ASSUME NEW view1, Outputs!ShowView(view1) PROVE UNCHANGED stored
    BY <1>5 DEF Outputs!ShowView
  <1>6. ASSUME NEW c, Outputs!HearAnswer(c) PROVE UNCHANGED stored
    BY <1>6 DEF Outputs!HearAnswer, Outputs!HearPhone, Outputs!HearRow, Outputs!HearOther
  <1>7. ASSUME Outputs!ViewArrives PROVE UNCHANGED stored
    BY <1>7 DEF Outputs!ViewArrives, Outputs!Q!Arrive, Outputs!Q!ArriveShowing
  <1>8. ASSUME Outputs!Elsewhere PROVE StoreStep
    <2>1. UNCHANGED stored \/ \E req : \E r \in Outputs!ApplyPatch(req, stored) : stored' = r.store
      BY <1>8 DEF Outputs!Elsewhere, Outputs!Q!Serve, Outputs!Q!Lose, Outputs!Q!ReadStore, Outputs!Q!LoseRead,
         Outputs!Q!Focus, Outputs!Q!OtherClient
    <2> QED BY <2>1, OutputsApplyPatch DEF StoreStep
  <1> QED BY <1>1, <1>2, <1>3, <1>4, <1>5, <1>6, <1>7, <1>8 DEF Outputs!Next, StoreStep

-----------------------------------------------------------------------------
(* The theorems.                                                            *)

\* Inductive on a tab of the patch: the rows of a patch beside the two claims, since what
\* an update leaves of a row or a cable is known only of one that has its fields.
IInv == OnPatch => IsPatch(stored) /\ OneCablePerEnd(stored) /\ EndOnRows(stored)

LEMMA InitInv == Init => IInv
  <1>1. ASSUME NEW start \in InputStarts \cup OutputStarts, stored = start.patch PROVE IInv
    BY <1>1, StartsAssumption DEF IInv
  <1>2. Inputs!Init => \E start \in InputStarts : stored = start.patch
    BY DEF Inputs!Init, Inputs!Q!Opened
  <1>3. Outputs!Init => \E start \in OutputStarts : stored = start.patch
    BY DEF Outputs!Init, Outputs!Q!Opened
  <1>4. tab = "plots" => IInv
    BY DEF IInv, OnPatch
  <1> QED BY <1>1, <1>2, <1>3, <1>4 DEF Init

LEMMA NextInv == IInv /\ [Next]_vars => IInv'
  <1> SUFFICES ASSUME IInv, [Next]_vars, OnPatch'
               PROVE  (IsPatch(stored) /\ OneCablePerEnd(stored) /\ EndOnRows(stored))'
    BY DEF IInv
  <1>1. UNCHANGED tab
    BY DEF Next, vars
  <1>2. IsPatch(stored) /\ OneCablePerEnd(stored) /\ EndOnRows(stored)
    BY <1>1 DEF IInv, OnPatch
  <1>3. StoreStep
    <2>1. CASE Next
      <3>1. (tab = "inputs" /\ Inputs!Next) \/ (tab = "outputs" /\ Outputs!Next)
        BY <1>1, <2>1 DEF Next, OnPatch
      <3> QED BY <3>1, InputsStep, OutputsStep
    <2>2. CASE UNCHANGED vars
      BY <2>2 DEF vars, StoreStep
    <2> QED BY <2>1, <2>2
  <1>4. CASE UNCHANGED stored
    BY <1>2, <1>4
  <1>5. CASE \E req : \E r \in ApplyPatch(req, stored) : stored' = r.store
    <2>1. PICK req : \E r \in ApplyPatch(req, stored) : stored' = r.store
      BY <1>5
    <2>2. PICK r \in ApplyPatch(req, stored) : stored' = r.store
      BY <2>1
    <2>3. IsPatch(stored') /\ OneCablePerEnd(stored') /\ EndOnRows(stored')
      BY <1>2, <2>2, ApplyKeeps
    <2> QED BY <2>3
  <1> QED BY <1>3, <1>4, <1>5 DEF StoreStep

LEMMA InvHolds == Spec => []IInv
  BY InitInv, NextInv, PTL DEF Spec

\* For any patches to open on, any requests of other clients and however many: never two
\* cables in one jack of either graph (audio_patch.go, validInputCable, validOutputCable),
\* though each page aims at jacks it saw free a while ago.
THEOREM OneCableToAJackAlways == Spec => []OneCableToAJack
  <1>1. IInv => OneCableToAJack
    BY DEF IInv, OneCableToAJack
  <1> QED BY <1>1, InvHolds, PTL

\* And no cable of the input graph ever ends on a row that is gone (the deletes of
\* audio_patch.go, against createInputCable of a page that still shows the row).
THEOREM InputCablesAlwaysEndOnRows == Spec => []InputCablesEndOnRows
  <1>1. IInv => InputCablesEndOnRows
    BY DEF IInv, InputCablesEndOnRows
  <1> QED BY <1>1, InvHolds, PTL
-----------------------------------------------------------------------------
(* A cable keeps its ends all its life.                                     *)

\* The id of `x` was given, and a cable of this graph that has it has the ends of `x`.
StillItself(x, side, s) ==
  /\ x.id \in 0 .. s.next - 1
  /\ \A c \in Cables(side, s) : c.id = x.id => c.from = x.from /\ c.to = x.to
AllThemselves(cables, side, s) == \A x \in cables : StillItself(x, side, s)

\* What is put in has an id no cable had.
LEMMA CreateCableGives ==
  ASSUME NEW req, NEW s, IsPatch(s), NEW r \in CreateCable(req, s)
  PROVE  /\ r.store.next = s.next + 1
         /\ \E w : /\ w.id = s.next
                   /\ \A side \in {"in", "out"} : Cables(side, r.store) \subseteq Cables(side, s) \cup {w}
  <1> DEFINE w == [id |-> s.next, from |-> req.cable.from, to |-> req.cable.to, item |-> req.cable.item]
             new == Cables(req.side, s) \cup {w}
             t == WithCables(req.side, s, new)
  <1>1. r \in Made(t)
    BY DEF CreateCable
  <1>2. /\ DOMAIN t = PatchFields /\ t.next = s.next
        /\ \A side \in {"in", "out"} : Cables(side, t) \subseteq Cables(side, s) \cup {w}
    BY DEF WithCables, Cables, IsPatch, PatchFields
  <1>3. w.id = s.next
    OBVIOUS
  <1> HIDE DEF t, w
  <1>4. r.store = [t EXCEPT !.next = t.next + 1]
    BY <1>1, MadeStore
  <1>5. r.store.next = s.next + 1 /\ r.store.inCables = t.inCables /\ r.store.outCables = t.outCables
    BY <1>2, <1>4 DEF PatchFields
  <1>6. \A side \in {"in", "out"} : Cables(side, r.store) \subseteq Cables(side, s) \cup {w}
    BY <1>2, <1>5 DEF Cables
  <1> QED BY <1>3, <1>5, <1>6

\* Whatever is asked of the server, a cable that was itself is, and a new one is one.
LEMMA EndsStay ==
  ASSUME NEW req, NEW s, IsPatch(s), s.next \in Nat, NEW side \in {"in", "out"},
         AllThemselves(Cables(side, s), side, s), NEW r \in ApplyPatch(req, s)
  PROVE  /\ r.store.next \in Nat
         /\ AllThemselves(Cables(side, r.store), side, r.store)
         /\ \A x : StillItself(x, side, s) => StillItself(x, side, r.store)
  <1>1. CASE r \in CreateCable(req, s)
    <2>1. PICK w : /\ w.id = s.next
                   /\ Cables(side, r.store) \subseteq Cables(side, s) \cup {w}
      BY <1>1, CreateCableGives
    <2>2. r.store.next = s.next + 1
      BY <1>1, CreateCableGives
    <2>3. \A x : StillItself(x, side, s) => StillItself(x, side, r.store)
      BY <2>1, <2>2 DEF StillItself
    <2>4. StillItself(w, side, r.store)
      BY <2>1, <2>2 DEF StillItself, AllThemselves
    <2> QED BY <2>1, <2>2, <2>3, <2>4 DEF AllThemselves
  <1>2. CASE r \notin CreateCable(req, s)
    <2>1. Kept(s, r.store)
      BY <1>2, UpdateCableKeeps, DeleteCableKeeps, CreateSourceKeeps, UpdateSourceKeeps, DeleteSourceKeeps,
         CreateChannelKeeps, UpdateChannelKeeps, DeleteChannelKeeps, UpdateBoxKeeps, DeleteBoxKeeps, UpdateMultiKeeps,
         CreateOutputKeeps, UpdateOutputKeeps, SetFedByKeeps, DeleteOutputKeeps, UpdateOutputDeviceKeeps,
         DeleteOutputDeviceKeeps DEF ApplyPatch
    <2>2. r.store.next \in Nat /\ s.next <= r.store.next
      BY <2>1 DEF Kept
    <2>3. \A c \in Cables(side, r.store) : \E d \in Cables(side, s) : d.id = c.id /\ d.from = c.from /\ d.to = c.to
      BY <2>1 DEF Kept, NoNewCables
    <2>4. \A x : StillItself(x, side, s) => StillItself(x, side, r.store)
      BY <2>2, <2>3 DEF StillItself
    <2>5. AllThemselves(Cables(side, r.store), side, r.store)
      BY <2>2, <2>3 DEF AllThemselves, StillItself
    <2> QED BY <2>2, <2>4, <2>5
  <1> QED BY <1>1, <1>2

\* The rows stay the rows of a patch.
LEMMA PatchStays ==
  ASSUME NEW req, NEW s, IsPatch(s), NEW r \in ApplyPatch(req, s)
  PROVE  IsPatch(r.store)
  <1>1. r \in CreateCable(req, s) => IsPatch(r.store)
    BY CreateCableKeeps
  <1>2. r \notin CreateCable(req, s) => Kept(s, r.store)
    BY UpdateCableKeeps, DeleteCableKeeps, CreateSourceKeeps, UpdateSourceKeeps, DeleteSourceKeeps,
       CreateChannelKeeps, UpdateChannelKeeps, DeleteChannelKeeps, UpdateBoxKeeps, DeleteBoxKeeps, UpdateMultiKeeps,
       CreateOutputKeeps, UpdateOutputKeeps, SetFedByKeeps, DeleteOutputKeeps, UpdateOutputDeviceKeeps,
       DeleteOutputDeviceKeeps DEF ApplyPatch
  <1> QED BY <1>1, <1>2 DEF Kept

\* A dialog's request takes out or changes cables of the id it names, and no others.
LEMMA OnlyThatCable ==
  ASSUME NEW req, req.op \in {"updateCable", "deleteCable"}, req.side \in {"in", "out"},
         NEW s, IsPatch(s), NEW r \in ApplyPatch(req, s)
  PROVE  \A side \in {"in", "out"} : \A c \in Cables(side, s) :
           c \notin Cables(side, r.store) => side = req.side /\ c.id = req.id
  <1> DEFINE old == Cables(req.side, s)
  <1>1. PICK new : /\ r.store = WithCables(req.side, s, new)
                    /\ \A x \in old : x.id # req.id => x \in new
    <2>1. CASE r \in UpdateCable(req, s)
      <3>1. PICK c \in Row(old, req.id) : r.store = WithCables(req.side, s, Put(old, [c EXCEPT !.item = req.item]))
        BY <2>1 DEF UpdateCable, Done
      <3>2. DOMAIN c = {"id", "from", "to", "item"}
        BY DEF IsPatch, Cables, Row
      <3> DEFINE new == Put(old, [c EXCEPT !.item = req.item])
      <3>3. \A x \in old : x.id # req.id => x \in new
        BY <3>2 DEF Put, Row
      <3> HIDE DEF new
      <3> QED BY <3>1, <3>3 DEF new
    <2>2. CASE r \in DeleteCable(req, s)
      <3>1. PICK c \in Row(old, req.id) : r.store = WithCables(req.side, s, old \ {c})
        BY <2>2 DEF DeleteCable, Done
      <3>2. \A x \in old : x.id # req.id => x \in old \ {c}
        BY DEF Row
      <3> DEFINE new == old \ {c}
      <3> HIDE DEF new
      <3> QED BY <3>1, <3>2 DEF new
    <2> QED BY <2>1, <2>2 DEF ApplyPatch
  <1>2. /\ Cables(req.side, r.store) = new
        /\ \A side \in {"in", "out"} : side # req.side => Cables(side, r.store) = Cables(side, s)
    BY <1>1 DEF WithCables, Cables, IsPatch, PatchFields
  <1> QED BY <1>1, <1>2
-----------------------------------------------------------------------------
(* The counters of a page, as PageCounts has them.                          *)

\* A page as PageCounts has it.
Now == [made |-> made, others |-> others, written |-> written, told |-> told,
        calls |-> calls, fetch |-> fetch, at |-> view.at]
InOrder == Ordered(Now, MaxCalls, MaxOthers) /\ DOMAIN view = {"data", "at"}

\* The page asks for a GET in the place of any other and is told of what it heard, or not.
AsksAgain == \/ UNCHANGED <<fetch, told>>
             \/ fetch' = {[phase |-> "asked"]} /\ (told' = told \/ \E c \in calls : told' = c.at /\ c.at > told)

\* Its counters move as a page's do.
Counts == Steps(Now, Now', MaxCalls, MaxOthers) /\ DOMAIN view' = {"data", "at"}

\* Requests that go out together are numbered on from those that did.
LEMMA ManyAsk ==
  ASSUME InOrder, NEW n \in Nat, made' = made + n, made + n <= MaxCalls,
         \A c \in calls' : c \in calls \/ \E i \in 1 .. n : \E req, then :
           c = [n |-> made + i, req |-> req, then |-> then, state |-> "sent", at |-> 0, id |-> 0, reply |-> {}],
         \A c, d \in calls' \ calls : c.n = d.n => c = d,
         UNCHANGED <<others, written>>, view'.at = view.at, AsksAgain
  PROVE  Asks(Now, Now', MaxCalls)
  <1>1. made \in Nat
    BY DEF InOrder, Ordered, Now
  <1>2. \A c \in calls' : c \in calls \/ GoesOut(c, Now, Now')
    <2> SUFFICES ASSUME NEW i \in 1 .. n, NEW req, NEW then, NEW c,
                        c = [n |-> made + i, req |-> req, then |-> then, state |-> "sent", at |-> 0, id |-> 0, reply |-> {}]
                 PROVE  GoesOut(c, Now, Now')
      OBVIOUS
    <2>1. DOMAIN c = CallFields /\ c.n = made + i /\ c.at = 0 /\ c.state = "sent"
      BY DEF CallFields
    <2> QED BY <1>1, <2>1 DEF GoesOut, Now
  <1>3. made' \in made .. MaxCalls
    BY <1>1 DEF InOrder, Ordered, Now
  <1> QED BY <1>2, <1>3 DEF Asks, Now, AsksAgain

LEMMA OpensInOrder ==
  ASSUME NEW s, NEW spent \in 0 .. MaxCalls, made = spent, others = 0, written = 0, told = 0, calls = {}, fetch = {},
         view = [data |-> s, at |-> 0]
  PROVE  InOrder
  <1>1. Undone(Now) = {}
    BY DEF Undone, Now
  <1>2. Cardinality(Undone(Now)) = 0
    BY <1>1, FS_EmptySet
  <1>3. MaxCalls \in Nat /\ MaxOthers \in Nat
    BY BoundsAssumption
  <1> QED BY <1>2, <1>3 DEF InOrder, Ordered, Now

LEMMA InOrderIsTyped == InOrder => Inputs!Q!TypeOK
  <1> SUFFICES ASSUME InOrder PROVE Inputs!Q!TypeOK
    OBVIOUS
  <1>1. made \in Nat /\ \A c \in Now.calls : c.n \in 1 .. Now.made
    BY DEF InOrder, Ordered, Now
  <1>2. Cardinality(Undone(Now)) \in Nat
    BY <1>1, UndoneCounted DEF Now
  <1>3. written \in Nat /\ written + Cardinality(Undone(Now)) <= made
    BY DEF InOrder, Ordered, Now
  <1>4. written <= made
    BY <1>1, <1>2, <1>3
  <1> QED BY <1>4, BoundsAssumption DEF InOrder, Ordered, Now, Inputs!Q!TypeOK, States

LEMMA StepsInOrder ==
  ASSUME InOrder, Counts
  PROVE  InOrder'
  <1>1. Ordered(Now', MaxCalls, MaxOthers)
    BY BoundsAssumption, StepsStayOrdered DEF InOrder, Counts
  <1> QED BY <1>1 DEF InOrder, Counts

-----------------------------------------------------------------------------
(* The saves of the phone, each a row and then a list of a few cables.      *)

AtMostOne(set) == set = {} \/ \E x : set = {x}
\* Of an input a jack or none is chosen, and a source or none.
RoutingFits(d) ==
  /\ DOMAIN d = {"panel", "port", "source"} /\ AtMostOne(d.source)
  /\ \/ d.panel = {} /\ d.port = {}
     \/ \E kind \in JackPanelKinds : \E id, n : d.panel = {[kind |-> kind, id |-> id]} /\ d.port = {n}
\* A list of requests, none of which is of a box's place and of its jacks.
Listed(plan) == \E reqs : plan \in Seq(reqs) /\ \A r \in reqs : MovesAlone(r)
Few(set) == \E a, b, c : set \subseteq {a, b, c}

LEMMA FewOfThree ==
  ASSUME NEW set, NEW a, NEW b, NEW c, set \subseteq {a, b, c}
  PROVE  Few(set)
  BY DEF Few

LEMMA FewAreFinite ==
  ASSUME NEW set, Few(set)
  PROVE  IsFiniteSet(set)
  <1>1. PICK a, b, c : set \subseteq {a, b, c}
    BY DEF Few
  <1>2. IsFiniteSet({a, b, c})
    <2>1. IsFiniteSet({a})
      BY FS_Singleton
    <2>2. IsFiniteSet({a} \cup {b})
      BY <2>1, FS_AddElement
    <2>3. IsFiniteSet(({a} \cup {b}) \cup {c})
      BY <2>2, FS_AddElement
    <2>4. {a, b, c} = ({a} \cup {b}) \cup {c}
      OBVIOUS
    <2> QED BY <2>3, <2>4
  <1> QED BY <1>1, <1>2, FS_Subset

\* A finite set as a list: each of its elements, and nothing else.
LEMMA SetToSeqLists ==
  ASSUME NEW set, IsFiniteSet(set)
  PROVE  /\ SetToSeq(set) \in Seq(set)
         /\ \A x \in set : \E i \in DOMAIN SetToSeq(set) : SetToSeq(set)[i] = x
  <1> DEFINE n == Cardinality(set)
             fs == [1 .. n -> set]
  <1>1. n \in Nat /\ ExistsBijection(1 .. n, set)
    BY FS_CardinalityType
  <1>2. PICK g \in fs : IsInjective(g)
    <2>1. PICK g \in Bijection(1 .. n, set) : TRUE
      BY <1>1 DEF ExistsBijection
    <2> QED BY <2>1 DEF Bijection, Injection, IsInjective, IsInjective
  <1>3. SetToSeq(set) = CHOOSE f \in fs : IsInjective(f)
    BY DEF SetToSeq
  <1> DEFINE f == SetToSeq(set)
  <1>4. f \in fs /\ IsInjective(f)
    BY <1>2, <1>3
  <1>5. f \in Injection(1 .. n, set)
    BY <1>4 DEF Injection, IsInjective
  <1>6. f \in Surjection(1 .. n, set)
    <2>1. Cardinality(1 .. n) = n
      BY <1>1, FS_Interval
    <2> QED BY <1>5, <2>1, FS_Injection
  <1>7. f \in Seq(set)
    BY <1>1, <1>4
  <1> QED BY <1>4, <1>6, <1>7 DEF Surjection

LEMMA SameLists ==
  /\ \A set : Inputs!SetToSeq(set) = SetToSeq(set)
  /\ \A set : Outputs!SetToSeq(set) = SetToSeq(set)
  BY DEF Inputs!SetToSeq, Outputs!SetToSeq, SetToSeq, Inputs!IsInjective, Outputs!IsInjective, IsInjective,
         Inputs!Cardinality, Outputs!Cardinality, Cardinality

LEMMA FirstIsAlone ==
  ASSUME NEW rows
  PROVE  AtMostOne(FirstById(rows))
  BY DEF AtMostOne, FirstById

LEMMA RoutingSaveIsShort ==
  ASSUME NEW id, NEW cables, NEW desired, RoutingFits(desired)
  PROVE  Few(ComputeRoutingSave(id, cables, desired).delete) /\ Few(ComputeRoutingSave(id, cables, desired).create)
  <1> DEFINE channel == [kind |-> "channel", id |-> id, port |-> 0]
             into(end) == FirstById({c \in cables : c.to = end})
             now == into(channel)
             source == {[kind |-> "source", id |-> s, port |-> 0] : s \in desired.source}
             jack == {[kind |-> k.kind, id |-> k.id, port |-> n] : k \in desired.panel, n \in desired.port}
             left == {c \in now : \A j \in jack : c.from # j}
             vacated == UNION {into(c.from) : c \in {x \in left : x.from.kind \in JackPanelKinds}}
             wrong(end) == {c \in into(end) : \E s \in source : ~(c.from.kind = "source" /\ c.from.id = s.id)}
             unfed(end) == {s \in source : ~\E c \in into(end) : c.from.kind = "source" /\ c.from.id = s.id}
             j == CHOOSE x \in jack : TRUE
             ops == ComputeRoutingSave(id, cables, desired)
  <1>1. ops = IF jack # {}
              THEN [delete |-> {c.id : c \in left \cup vacated \cup wrong(j)},
                    create |-> {NewCable(j, channel) : x \in IF now = {} \/ left # {} THEN {1} ELSE {}}
                               \cup {NewCable(s, j) : s \in unfed(j)}]
              ELSE [delete |-> {c.id : c \in wrong(channel)}, create |-> {NewCable(s, channel) : s \in unfed(channel)}]
    BY DEF ComputeRoutingSave
  <1>2. \A end : \E x : into(end) \subseteq {x}
    BY FirstIsAlone DEF AtMostOne
  <1>3. \E s : source \subseteq {s}
    BY DEF RoutingFits, AtMostOne
  <1> HIDE DEF into, source, jack, ops
  <1>4. PICK a : now \subseteq {a}
    BY <1>2
  <1>5. PICK b : into(a.from) \subseteq {b}
    BY <1>2
  <1>6. \A x \in vacated : x \in {b}
    BY <1>4, <1>5
  <1>7. \A end : \E x : wrong(end) \subseteq {x}
    BY <1>2
  <1>8. \A end : \E s : unfed(end) \subseteq {s}
    BY <1>3
  <1>9. CASE jack # {}
    <2>1. PICK w : wrong(j) \subseteq {w}
      BY <1>7
    <2>2. PICK s : unfed(j) \subseteq {s}
      BY <1>8
    <2>3. \A x \in left \cup vacated \cup wrong(j) : x \in {a, b, w}
      BY <1>4, <1>6, <2>1
    <2> HIDE DEF left, vacated, wrong, unfed, j
    <2>4. {c.id : c \in left \cup vacated \cup wrong(j)} \subseteq {a.id, b.id, w.id}
      BY <2>3
    <2>5. {NewCable(j, channel) : x \in IF now = {} \/ left # {} THEN {1} ELSE {}} \cup {NewCable(x, j) : x \in unfed(j)}
            \subseteq {NewCable(j, channel), NewCable(s, j), NewCable(s, j)}
      BY <2>2
    <2>6. Few({c.id : c \in left \cup vacated \cup wrong(j)})
      BY <2>4, FewOfThree
    <2>7. Few({NewCable(j, channel) : x \in IF now = {} \/ left # {} THEN {1} ELSE {}} \cup {NewCable(x, j) : x \in unfed(j)})
      BY <2>5, FewOfThree
    <2>8. /\ ops.delete = {c.id : c \in left \cup vacated \cup wrong(j)}
          /\ ops.create = {NewCable(j, channel) : x \in IF now = {} \/ left # {} THEN {1} ELSE {}} \cup {NewCable(x, j) : x \in unfed(j)}
      BY <1>1, <1>9
    <2>9. Few(ops.delete) /\ Few(ops.create)
      BY <2>6, <2>7, <2>8
    <2> QED BY <2>9 DEF ops
  <1>10. CASE jack = {}
    <2>1. PICK w : wrong(channel) \subseteq {w}
      BY <1>7
    <2>2. PICK s : unfed(channel) \subseteq {s}
      BY <1>8
    <2> HIDE DEF left, vacated, wrong, unfed, channel
    <2>3. {c.id : c \in wrong(channel)} \subseteq {w.id, w.id, w.id}
      BY <2>1
    <2>4. {NewCable(x, channel) : x \in unfed(channel)} \subseteq {NewCable(s, channel), NewCable(s, channel), NewCable(s, channel)}
      BY <2>2
    <2>5. Few({c.id : c \in wrong(channel)})
      BY <2>3, FewOfThree
    <2>6. Few({NewCable(x, channel) : x \in unfed(channel)})
      BY <2>4, FewOfThree
    <2>7. ops.delete = {c.id : c \in wrong(channel)} /\ ops.create = {NewCable(x, channel) : x \in unfed(channel)}
      BY <1>1, <1>10
    <2>8. Few(ops.delete) /\ Few(ops.create)
      BY <2>5, <2>6, <2>7
    <2> QED BY <2>8 DEF ops
  <1> QED BY <1>9, <1>10

LEMMA OutputSaveIsShort ==
  ASSUME NEW id, NEW cables, NEW jack, AtMostOne(jack)
  PROVE  Few(ComputeOutputRoutingSave(id, cables, jack).delete) /\ Few(ComputeOutputRoutingSave(id, cables, jack).create)
  <1> DEFINE mixer == [kind |-> "mixer", id |-> id, port |-> 0]
             now == FirstById({c \in cables : c.from = mixer})
             kept == {c \in now : jack = {c.to}}
             ops == ComputeOutputRoutingSave(id, cables, jack)
  <1>1. ops = [delete |-> IF jack = {} THEN {} ELSE {c.id : c \in now \ kept},
               create |-> IF kept # {} THEN {} ELSE {NewCable(mixer, j) : j \in jack}]
    BY DEF ComputeOutputRoutingSave
  <1>2. PICK a : now \subseteq {a}
    BY FirstIsAlone DEF AtMostOne
  <1>3. PICK b : jack \subseteq {b}
    BY DEF AtMostOne
  <1> HIDE DEF now, ops, mixer
  <1>4. {c.id : c \in now \ kept} \subseteq {a.id, a.id, a.id}
    BY <1>2
  <1>5. {NewCable(mixer, j) : j \in jack} \subseteq {NewCable(mixer, b), NewCable(mixer, b), NewCable(mixer, b)}
    BY <1>3
  <1>6. Few({})
    BY DEF Few
  <1>7. Few({c.id : c \in now \ kept}) /\ Few({NewCable(mixer, j) : j \in jack})
    BY <1>4, <1>5, FewOfThree
  <1>8. Few(ops.delete) /\ Few(ops.create)
    BY <1>1, <1>6, <1>7
  <1> QED BY <1>8 DEF ops

LEMMA FewGone ==
  ASSUME NEW set, Few(set), NEW side
  PROVE  LET gone == {[op |-> "deleteCable", side |-> side, id |-> x] : x \in set}
         IN IsFiniteSet(gone) /\ \A r \in gone : MovesAlone(r)
  <1> DEFINE ask(x) == [op |-> "deleteCable", side |-> side, id |-> x]
             gone == {ask(x) : x \in set}
  <1>1. PICK a, b, c : set \subseteq {a, b, c}
    BY DEF Few
  <1>2. \A x : MovesAlone(ask(x))
    BY DEF MovesAlone
  <1> HIDE DEF ask
  <1>3. gone \subseteq {ask(a), ask(b), ask(c)}
    BY <1>1
  <1>4. IsFiniteSet(gone)
    BY <1>3, FewOfThree, FewAreFinite
  <1>5. \A r \in gone : MovesAlone(r)
    BY <1>2
  <1> QED BY <1>4, <1>5 DEF ask

LEMMA FewPut ==
  ASSUME NEW set, Few(set), NEW side
  PROVE  LET new == {[op |-> "createCable", side |-> side, cable |-> x] : x \in set}
         IN IsFiniteSet(new) /\ \A r \in new : MovesAlone(r)
  <1> DEFINE ask(x) == [op |-> "createCable", side |-> side, cable |-> x]
             new == {ask(x) : x \in set}
  <1>1. PICK a, b, c : set \subseteq {a, b, c}
    BY DEF Few
  <1>2. \A x : MovesAlone(ask(x))
    BY DEF MovesAlone
  <1> HIDE DEF ask
  <1>3. new \subseteq {ask(a), ask(b), ask(c)}
    BY <1>1
  <1>4. IsFiniteSet(new)
    BY <1>3, FewOfThree, FewAreFinite
  <1>5. \A r \in new : MovesAlone(r)
    BY <1>2
  <1> QED BY <1>4, <1>5 DEF ask

LEMMA ListsWiden ==
  ASSUME NEW small, NEW large, small \subseteq large, NEW list \in Seq(small)
  PROVE  list \in Seq(large)
  <1>1. Len(list) \in Nat /\ list = [i \in 1 .. Len(list) |-> list[i]] /\ \A i \in 1 .. Len(list) : list[i] \in small
    OBVIOUS
  <1>2. list \in [1 .. Len(list) -> large]
    BY <1>1
  <1> QED BY <1>1, <1>2

LEMMA ListsJoin ==
  ASSUME NEW as, NEW bs, IsFiniteSet(as), IsFiniteSet(bs), \A r \in as \cup bs : MovesAlone(r)
  PROVE  Listed(SetToSeq(as) \o SetToSeq(bs)) /\ SetToSeq(as) \o SetToSeq(bs) \in Seq(as \cup bs)
  <1> DEFINE all == as \cup bs
             a == SetToSeq(as)
             b == SetToSeq(bs)
  <1>1. a \in Seq(as) /\ b \in Seq(bs)
    BY SetToSeqLists
  <1>2. as \subseteq all /\ bs \subseteq all /\ \A r \in all : MovesAlone(r)
    OBVIOUS
  <1> HIDE DEF all, a, b
  <1>3. a \in Seq(all) /\ b \in Seq(all)
    BY <1>1, <1>2, ListsWiden
  <1>4. a \o b \in Seq(all)
    BY <1>3
  <1>5. Listed(a \o b)
    BY <1>2, <1>4 DEF Listed
  <1> QED BY <1>4, <1>5 DEF all, a, b

LEMMA InputPlansListed ==
  ASSUME NEW id, NEW then, RoutingFits(then.desired)
  PROVE  Listed(Inputs!PhonePlan(id, then))
  <1> DEFINE ops == ComputeRoutingSave(id, then.cables, then.desired)
             gone == {[op |-> "deleteCable", side |-> "in", id |-> c] : c \in ops.delete}
             new == {[op |-> "createCable", side |-> "in", cable |-> c] : c \in ops.create}
  <1>1. Inputs!ComputeRoutingSave(id, then.cables, then.desired) = ops
    BY DEF Inputs!ComputeRoutingSave, ComputeRoutingSave, Inputs!FirstById, FirstById, Inputs!NewCable, NewCable,
           Inputs!JackPanelKinds, JackPanelKinds
  <1>2. Inputs!PhonePlan(id, then) = SetToSeq(gone) \o SetToSeq(new)
    BY <1>1, SameLists DEF Inputs!PhonePlan
  <1>3. Few(ops.delete) /\ Few(ops.create)
    BY RoutingSaveIsShort
  <1> HIDE DEF ops
  <1>4. IsFiniteSet(gone) /\ IsFiniteSet(new) /\ \A r \in gone \cup new : MovesAlone(r)
    BY <1>3, FewGone, FewPut
  <1> HIDE DEF gone, new
  <1> QED BY <1>2, <1>4, ListsJoin

LEMMA OutputPlansListed ==
  ASSUME NEW id, NEW then, AtMostOne(then.desired), AtMostOne(then.feed)
  PROVE  Listed(Outputs!PhonePlan(id, then))
  <1> DEFINE ops == ComputeOutputRoutingSave(id, then.cables, then.desired)
             gone == {[op |-> "deleteCable", side |-> "out", id |-> c] : c \in ops.delete}
             new == {[op |-> "createCable", side |-> "out", cable |-> c] : c \in ops.create}
             fed == {[op |-> "setFedBy", id |-> id, fed |-> f] : f \in then.feed}
  <1>1. Outputs!ComputeOutputRoutingSave(id, then.cables, then.desired) = ops
    BY DEF Outputs!ComputeOutputRoutingSave, ComputeOutputRoutingSave, Outputs!FirstById, FirstById, Outputs!NewCable, NewCable
  <1>2. Outputs!PhonePlan(id, then) = SetToSeq(gone) \o SetToSeq(new) \o SetToSeq(fed)
    BY <1>1, SameLists DEF Outputs!PhonePlan
  <1>3. Few(ops.delete) /\ Few(ops.create)
    BY OutputSaveIsShort
  <1> HIDE DEF ops
  <1>4. IsFiniteSet(gone) /\ IsFiniteSet(new) /\ \A r \in gone \cup new : MovesAlone(r)
    BY <1>3, FewGone, FewPut
  <1>5. IsFiniteSet(fed) /\ \A r \in fed : MovesAlone(r)
    <2>1. PICK f : then.feed \subseteq {f}
      BY DEF AtMostOne
    <2> DEFINE ask == [op |-> "setFedBy", id |-> id, fed |-> f]
    <2>2. fed \subseteq {ask}
      BY <2>1
    <2>3. MovesAlone(ask)
      BY DEF MovesAlone
    <2> HIDE DEF ask, fed
    <2>4. IsFiniteSet({ask})
      BY FS_Singleton
    <2>5. IsFiniteSet(fed)
      BY <2>2, <2>4, FS_Subset
    <2> QED BY <2>2, <2>3, <2>5
  <1> HIDE DEF gone, new, fed
  <1>6. SetToSeq(gone) \o SetToSeq(new) \in Seq(gone \cup new) /\ SetToSeq(fed) \in Seq(fed)
    BY <1>4, <1>5, ListsJoin, SetToSeqLists
  <1>7. SetToSeq(gone) \o SetToSeq(new) \o SetToSeq(fed) \in Seq(gone \cup new \cup fed)
    <2> DEFINE a == SetToSeq(gone) \o SetToSeq(new)
               b == SetToSeq(fed)
               all == gone \cup new \cup fed
    <2>1. a \in Seq(all) /\ b \in Seq(all)
      BY <1>6
    <2> HIDE DEF a, b, all
    <2>2. a \o b \in Seq(all)
      BY <2>1
    <2> QED BY <2>2 DEF a, b, all
  <1> QED BY <1>2, <1>4, <1>5, <1>7 DEF Listed

LEMMA NothingListed == Listed(<<>>)
  <1> DEFINE none == {}
  <1>1. <<>> \in Seq(none) /\ \A r \in none : MovesAlone(r)
    OBVIOUS
  <1> HIDE DEF none
  <1> QED BY <1>1 DEF Listed

LEMMA NextOfPlan ==
  ASSUME NEW plan, Listed(plan), plan # <<>>
  PROVE  MovesAlone(Head(plan)) /\ Listed(Tail(plan))
  <1>1. PICK reqs : plan \in Seq(reqs) /\ \A r \in reqs : MovesAlone(r)
    BY DEF Listed
  <1>2. Head(plan) \in reqs /\ Tail(plan) \in Seq(reqs)
    BY <1>1
  <1> QED BY <1>1, <1>2 DEF Listed

\* What a phone reads or offers is one jack at most and one source at most.
LEMMA RoutingsFit ==
  ASSUME NEW id, NEW cables
  PROVE  RoutingFits(Inputs!ResolveChannelRouting(id, cables)) /\ AtMostOne(Outputs!ResolveOutputRouting(id, cables))
  <1> DEFINE to(end) == Inputs!FirstById({c \in cables : c.to = end})
             sourcesOf(cs) == {c.from.id : c \in {x \in cs : x.from.kind = "source"}}
             into == to([kind |-> "channel", id |-> id, port |-> 0])
             jack == (CHOOSE c \in into : TRUE).from
             routing == Inputs!ResolveChannelRouting(id, cables)
  <1>1. \A end : AtMostOne(to(end))
    BY DEF AtMostOne, Inputs!FirstById
  <1>2. routing = IF \E c \in into : c.from.kind \in JackPanelKinds
                  THEN [panel |-> {[kind |-> jack.kind, id |-> jack.id]}, port |-> {jack.port}, source |-> sourcesOf(to(jack))]
                  ELSE [panel |-> {}, port |-> {}, source |-> sourcesOf(into)]
    <2>1. \A s : [Inputs!NoRouting EXCEPT !.source = s] = [panel |-> {}, port |-> {}, source |-> s]
      BY DEF Inputs!NoRouting
    <2>2. routing = IF \E c \in into : c.from.kind \in JackPanelKinds
                    THEN [panel |-> {[kind |-> jack.kind, id |-> jack.id]}, port |-> {jack.port}, source |-> sourcesOf(to(jack))]
                    ELSE [Inputs!NoRouting EXCEPT !.source = sourcesOf(into)]
      BY DEF Inputs!ResolveChannelRouting, Inputs!JackPanelKinds, JackPanelKinds
    <2> QED BY <2>1, <2>2
  <1>3. AtMostOne(into) /\ AtMostOne(to(jack))
    BY <1>1
  <1> HIDE DEF to, into, routing
  <1>4. AtMostOne(sourcesOf(into)) /\ AtMostOne(sourcesOf(to(jack)))
    <2>1. ASSUME NEW cs, AtMostOne(cs) PROVE AtMostOne(sourcesOf(cs))
      <3> DEFINE of == {x \in cs : x.from.kind = "source"}
      <3>1. of = {} \/ \E x : of = {x}
        BY <2>1 DEF AtMostOne
      <3> HIDE DEF of
      <3>2. {c.from.id : c \in of} = {} \/ \E x : {c.from.id : c \in of} = {x}
        BY <3>1
      <3> QED BY <3>2 DEF AtMostOne, of
    <2> QED BY <1>3, <2>1
  <1>5. ASSUME \E c \in into : c.from.kind \in JackPanelKinds PROVE RoutingFits(routing)
    <2>1. jack.kind \in JackPanelKinds
      BY <1>3, <1>5 DEF AtMostOne
    <2> HIDE DEF jack, sourcesOf
    <2>2. routing = [panel |-> {[kind |-> jack.kind, id |-> jack.id]}, port |-> {jack.port}, source |-> sourcesOf(to(jack))]
      BY <1>2, <1>5
    <2>3. DOMAIN routing = {"panel", "port", "source"} /\ routing.panel = {[kind |-> jack.kind, id |-> jack.id]}
          /\ routing.port = {jack.port} /\ AtMostOne(routing.source)
      BY <1>4, <2>2
    <2>4. \E kind \in JackPanelKinds : \E i, n : routing.panel = {[kind |-> kind, id |-> i]} /\ routing.port = {n}
      <3> DEFINE kind == jack.kind
                 i == jack.id
                 n == jack.port
      <3>1. kind \in JackPanelKinds /\ routing.panel = {[kind |-> kind, id |-> i]} /\ routing.port = {n}
        BY <2>1, <2>3
      <3> HIDE DEF kind, i, n
      <3> QED BY <3>1
    <2> QED BY <2>3, <2>4 DEF RoutingFits
  <1>6. ASSUME ~\E c \in into : c.from.kind \in JackPanelKinds PROVE RoutingFits(routing)
    <2> HIDE DEF jack, sourcesOf
    <2>1. routing = [panel |-> {}, port |-> {}, source |-> sourcesOf(into)]
      BY <1>2, <1>6
    <2>2. DOMAIN routing = {"panel", "port", "source"} /\ routing.panel = {} /\ routing.port = {} /\ AtMostOne(routing.source)
      BY <1>4, <2>1
    <2> QED BY <2>2 DEF RoutingFits
  <1>7. RoutingFits(routing)
    <2> HIDE DEF jack, sourcesOf
    <2> QED BY <1>5, <1>6
  <1>8. AtMostOne(Outputs!ResolveOutputRouting(id, cables))
    <2> DEFINE rows == {x \in cables : x.from = [kind |-> "mixer", id |-> id, port |-> 0] /\ x.to.kind = "stagebox"}
               first == Outputs!FirstById(rows)
    <2>1. first = {} \/ \E x : first = {x}
      BY DEF Outputs!FirstById
    <2>2. Outputs!ResolveOutputRouting(id, cables) = {c.to : c \in first}
      BY DEF Outputs!ResolveOutputRouting
    <2> HIDE DEF first
    <2>3. {c.to : c \in first} = {} \/ \E x : {c.to : c \in first} = {x}
      BY <2>1
    <2> QED BY <2>2, <2>3 DEF AtMostOne
  <1> QED BY <1>7, <1>8 DEF routing

LEMMA OfferedFit ==
  /\ \A routing \in Inputs!Routings : RoutingFits(routing)
  /\ \A socket \in Outputs!Sockets : AtMostOne(socket)
  <1>1. ASSUME NEW routing \in Inputs!Routings PROVE RoutingFits(routing)
    <2>1. \A k \in Inputs!Panels : k.kind \in JackPanelKinds
      BY DEF Inputs!Panels, JackPanelKinds
    <2> DEFINE fed == {{}} \cup {{s.id} : s \in Inputs!p.sources}
    <2>2. \A s \in fed : AtMostOne(s)
      BY DEF AtMostOne
    <2>3. \/ \E s \in fed : routing = [panel |-> {}, port |-> {}, source |-> s]
          \/ \E k \in Inputs!Panels : \E n, s : s \in fed /\ routing = [panel |-> {[kind |-> k.kind, id |-> k.id]}, port |-> {n}, source |-> s]
      BY DEF Inputs!Routings
    <2> HIDE DEF fed
    <2>4. ASSUME NEW s \in fed, routing = [panel |-> {}, port |-> {}, source |-> s] PROVE RoutingFits(routing)
      BY <2>2, <2>4 DEF RoutingFits
    <2>5. ASSUME NEW k \in Inputs!Panels, NEW n, NEW s \in fed,
                 routing = [panel |-> {[kind |-> k.kind, id |-> k.id]}, port |-> {n}, source |-> s]
          PROVE  RoutingFits(routing)
      BY <2>1, <2>2, <2>5 DEF RoutingFits
    <2> QED BY <2>3, <2>4, <2>5
  <1>2. \A socket \in Outputs!Sockets : AtMostOne(socket)
    BY DEF AtMostOne, Outputs!Sockets
  <1> QED BY <1>1, <1>2

-----------------------------------------------------------------------------
(* The tabs of the patch, handler by handler.                               *)

\* Calls as they are sent and answered: numbered once, and what a dialog asks for is about
\* the cable it shows.
Side == IF tab = "inputs" THEN "in" ELSE "out"
\* What the phone has chosen, of an input or of an output.
Chosen(d) == IF tab = "inputs" THEN RoutingFits(d) ELSE AtMostOne(d)
\* A save of the phone that is on its way: what it is for and what is left to send.
PlanFits(then) == /\ {"plan", "desired"} \subseteq DOMAIN then /\ Listed(then.plan) /\ Chosen(then.desired)
                  /\ tab = "outputs" => "feed" \in DOMAIN then /\ AtMostOne(then.feed)
\* A request and what its callbacks need, as the pages send them.
Called(c) ==
  /\ DOMAIN c = {"n", "req", "then", "state", "at", "id", "reply"} /\ "kind" \in DOMAIN c.then
  /\ MovesAlone(c.req)
  /\ c.then.kind = "row" => AtMostOne(c.then.feed) /\ \A r \in c.then.feed : MovesAlone(r)
  /\ c.then.kind = "phone" => PlanFits(c.then)
  /\ c.then.kind = "cable" =>
       c.req.op \in {"updateCable", "deleteCable"} /\ c.req.side = Side /\ c.req.id = c.then.cable.id
CallsOnce == /\ made \in Nat
             /\ \A c, d \in calls : c.n = d.n => c = d
             /\ \A c \in calls : c.n \in 1 .. made /\ Called(c)
OnDialog(cable) == page.dialog.kind \in {"info", "hop"} /\ cable = page.dialog.cable

\* What a step may do to what is asked and shown. Requests go out, and an answer may be heard:
Talks ==
  \E new : /\ calls' \subseteq calls \cup new /\ made' \in Nat /\ made <= made'
           /\ \A c, d \in new : c.n = d.n => c = d
           /\ \A c \in new : /\ c.n \in made + 1 .. made' /\ c.state = "sent" /\ Called(c)
                             /\ c.then.kind = "cable" => OnDialog(c.then.cable)
           /\ \A g \in fetch' : g \in fetch \/ g.phase = "asked"
           /\ UNCHANGED <<stored, view>>
           /\ InOrder => Counts
\* a call is done, refused or lost:
Settles ==
  \E c \in calls : \E d :
    /\ calls' = (calls \ {c}) \cup {d} /\ DOMAIN d = DOMAIN c /\ d.n = c.n /\ d.req = c.req /\ d.then = c.then
    /\ UNCHANGED <<made, fetch, view>>
    /\ \/ UNCHANGED stored /\ d.state # "done"
       \/ c.state = "sent" /\ \E r \in ApplyPatch(c.req, stored) : stored' = r.store
\* the store is read, what was read is shown, another client is served:
Reads == /\ \A g \in fetch' : g \in fetch \/ g.phase = "asked" \/ g.data = stored
         /\ UNCHANGED <<stored, made, calls, view>>
Shows == /\ \E g \in fetch : g.phase = "read" /\ view'.data = g.data
         /\ fetch' \subseteq fetch /\ UNCHANGED <<stored, made, calls>>
ServesAnother == /\ \E req : MovesAlone(req) /\ \E r \in ApplyPatch(req, stored) : stored' = r.store
                 /\ UNCHANGED <<made, calls, fetch, view>>
Quiet == UNCHANGED <<stored, made, others, written, told, calls, fetch, view>>
\* And to the dialog: it stays, or is on a cable the page shows, or is not on a cable; and
\* to the phone's sheet.
Paged == {"dialog", "phone"} \subseteq DOMAIN page
Fits(phone) == "desired" \in DOMAIN phone /\ Chosen(phone.desired)
AsItIs(pg) == {"dialog", "phone"} \subseteq DOMAIN pg /\ pg.dialog = page.dialog /\ pg.phone = page.phone
DialogSteps ==
  /\ Paged'
  /\ page'.phone = page.phone \/ (Fits(page.phone) => Fits(page'.phone))
  /\ \/ page'.dialog = page.dialog
     \/ page'.dialog.kind \in {"info", "hop"} => page'.dialog.cable \in Cables(Side, view.data)

\* What is sent alone, or for an answer.
Fine(req, then) ==
  /\ "kind" \in DOMAIN then
  /\ MovesAlone(req)
  /\ then.kind = "row" => AtMostOne(then.feed) /\ \A r \in then.feed : MovesAlone(r)
  /\ then.kind = "phone" => PlanFits(then)
  /\ then.kind = "cable" => /\ OnDialog(then.cable)
                            /\ req.op \in {"updateCable", "deleteCable"} /\ req.side = Side /\ req.id = then.cable.id
CallOf(req, then) == [n |-> made + 1, req |-> req, then |-> then, state |-> "sent", at |-> 0, id |-> 0, reply |-> {}]

\* A call that goes out alone.
LEMMA OneTalks ==
  ASSUME NEW req, NEW then, Fine(req, then), CallsOnce, made' = made + 1,
         calls' \subseteq calls \cup {CallOf(req, then)},
         made' <= MaxCalls, AsksAgain, UNCHANGED <<stored, others, written, view>>
  PROVE  Talks
  <1> DEFINE c == CallOf(req, then)
  <1>1. c.n = made + 1 /\ c.state = "sent" /\ c.req = req /\ c.then = then
    BY DEF CallOf
  <1>2. DOMAIN c = {"n", "req", "then", "state", "at", "id", "reply"}
    BY DEF CallOf
  <1> HIDE DEF c
  <1>3. Called(c) /\ (c.then.kind = "cable" => OnDialog(c.then.cable))
    BY <1>1, <1>2 DEF Fine, Called
  <1>4. made \in Nat /\ made' = made + 1 /\ c.n \in made + 1 .. made'
    BY <1>1 DEF CallsOnce
  <1>5. calls' \subseteq calls \cup {c}
    BY DEF c
  <1> DEFINE new == {c}
  <1>6. /\ \A a, b \in new : a.n = b.n => a = b
        /\ \A a \in new : /\ a.n \in made + 1 .. made' /\ a.state = "sent" /\ Called(a)
                          /\ a.then.kind = "cable" => OnDialog(a.then.cable)
    BY <1>1, <1>3, <1>4
  <1>7. calls' \subseteq calls \cup new /\ made' \in Nat /\ made <= made'
    BY <1>4, <1>5
  <1> HIDE DEF new
  <1>8. InOrder => Counts
    <2> SUFFICES ASSUME InOrder PROVE Counts
      OBVIOUS
    <2>1. \A x \in calls' : x \in calls \/ \E i \in 1 .. 1 : \E r, after :
             x = [n |-> made + i, req |-> r, then |-> after, state |-> "sent", at |-> 0, id |-> 0, reply |-> {}]
      <3>1. \A x \in calls' : x \in calls \/ x = CallOf(req, then)
        OBVIOUS
      <3> QED BY <3>1 DEF CallOf
    <2>2. Asks(Now, Now', MaxCalls)
      BY <1>4, <1>5, <2>1, ManyAsk
    <2> QED BY <2>2 DEF Counts, Steps, InOrder
  <1> QED BY <1>6, <1>7, <1>8 DEF Talks, AsksAgain

\* A form that opens, or closes with nothing sent.
LEMMA StillCounts ==
  ASSUME InOrder, UNCHANGED <<made, others, written, view>>, calls' \subseteq calls, AsksAgain
  PROVE  Counts
  <1>1. made \in Nat /\ made + 0 <= MaxCalls /\ made' = made + 0
    BY DEF InOrder, Ordered, Now
  <1>2. Asks(Now, Now', MaxCalls)
    BY <1>1, ManyAsk
  <1> QED BY <1>2 DEF Counts, Steps, InOrder

LEMMA NoneTalks ==
  ASSUME CallsOnce, made' = made, calls' \subseteq calls, AsksAgain, UNCHANGED <<stored, others, written, view>>
  PROVE  Talks
  <1> DEFINE new == {}
  <1>1. calls' \subseteq calls \cup new /\ made' \in Nat /\ made <= made'
    BY DEF CallsOnce
  <1>2. \A c \in new : FALSE
    OBVIOUS
  <1> HIDE DEF new
  <1>3. InOrder => Counts
    BY StillCounts
  <1>4. \A g \in fetch' : g \in fetch \/ g.phase = "asked"
    BY DEF AsksAgain
  <1> QED BY <1>1, <1>2, <1>3, <1>4 DEF Talks

\* The pages' words for it: the inputs tab, handler by handler.
LEMMA InputsAsk ==
  ASSUME NEW req, NEW then, Fine(req, then), CallsOnce, Inputs!Ask(req, then)
  PROVE  Talks
  <1>1. Inputs!Q!Sent(<<[req |-> req, then |-> then]>>) = {CallOf(req, then)}
    BY DEF Inputs!Q!Sent, CallOf
  <1>2. /\ made' = made + 1 /\ made' <= MaxCalls /\ calls' = calls \cup {CallOf(req, then)}
        /\ UNCHANGED <<stored, others, written, told, view, fetch>>
    BY <1>1 DEF Inputs!Ask, Inputs!Q!Send, CallsOnce
  <1> QED BY <1>2, OneTalks DEF AsksAgain

LEMMA InputsAnswer ==
  ASSUME NEW c \in calls, NEW asks, NEW then, CallsOnce, Inputs!Q!Answer(c, asks, then),
         \/ then = <<>>
         \/ \E req, after : then = <<[req |-> req, then |-> after]>> /\ Fine(req, after)
  PROVE  Talks
  <1>1. AsksAgain /\ UNCHANGED <<stored, others, written, view>>
    BY DEF Inputs!Q!Answer, Inputs!Q!Asked, AsksAgain
  <1>2. CASE then = <<>>
    <2>1. Inputs!Q!Sent(<<>>) = {}
      BY DEF Inputs!Q!Sent
    <2>2. made' = made /\ calls' \subseteq calls
      BY <1>2, <2>1 DEF Inputs!Q!Answer, CallsOnce
    <2> QED BY <1>1, <2>2, NoneTalks
  <1>3. CASE \E req, after : then = <<[req |-> req, then |-> after]>> /\ Fine(req, after)
    <2>1. PICK req, after : then = <<[req |-> req, then |-> after]>> /\ Fine(req, after)
      BY <1>3
    <2>2. Inputs!Q!Sent(<<[req |-> req, then |-> after]>>) = {CallOf(req, after)}
      BY DEF Inputs!Q!Sent, CallOf
    <2>3. made' = made + 1 /\ made' <= MaxCalls /\ calls' \subseteq calls \cup {CallOf(req, after)}
      BY <2>1, <2>2 DEF Inputs!Q!Answer, CallsOnce
    <2> QED BY <1>1, <2>1, <2>3, OneTalks
  <1> QED BY <1>2, <1>3

LEMMA InputsEditor ==
  ASSUME NEW step, NEW pg, tab = "inputs", CallsOnce, Inputs!EditorSteps(step, pg), AsItIs(pg),
         step.writes = <<>> \/ \E w : step.writes = <<w>>
  PROVE  (Talks \/ Quiet) /\ DialogSteps
  <1>1. DialogSteps
    BY DEF Inputs!EditorSteps, AsItIs, DialogSteps, Paged
  <1>2. CASE step.writes = <<>>
    BY <1>1, <1>2 DEF Inputs!EditorSteps, Inputs!queryVars, Quiet
  <1>3. CASE \E w : step.writes = <<w>>
    <2>1. PICK w : step.writes = <<w>>
      BY <1>3
    <2> DEFINE then == [kind |-> "saved", write |-> w]
               sent == [i \in DOMAIN step.writes |-> [req |-> Inputs!RowRequest(step.writes[i]),
                                                     then |-> [kind |-> "saved", write |-> step.writes[i]]]]
    <2>2. sent = <<[req |-> Inputs!RowRequest(w), then |-> then]>>
      BY <2>1
    <2>3. Inputs!Q!Send(sent)
      BY <2>1 DEF Inputs!EditorSteps
    <2>4. Fine(Inputs!RowRequest(w), then)
      BY DEF Fine, MovesAlone, Inputs!RowRequest
    <2> HIDE DEF then, sent
    <2> QED BY <1>1, <2>2, <2>3, <2>4, InputsAsk DEF Inputs!Ask
  <1> QED BY <1>1, <1>2, <1>3

LEMMA InputsWrites ==
  ASSUME NEW editor, NEW rows
  PROVE  LET writes == Inputs!Commit(editor, rows) IN writes = <<>> \/ \E w : writes = <<w>>
  BY DEF Inputs!Commit

LEMMA InputsSheet ==
  ASSUME tab = "inputs", CallsOnce, Paged, Inputs!SheetStep
  PROVE  (Talks \/ Quiet) /\ DialogSteps
  <1> USE DEF Inputs!queryVars, Quiet
  <1>1. ASSUME NEW desk, Inputs!SelectDesk(desk) PROVE Quiet /\ DialogSteps
    BY <1>1 DEF Inputs!SelectDesk, Inputs!LeaveSheet, Inputs!NoDialog, DialogSteps, Paged, AsItIs
  <1>2. ASSUME Inputs!AddToDesk PROVE (Talks \/ Quiet) /\ DialogSteps
    <2>1. DialogSteps
      BY <1>2 DEF Inputs!AddToDesk, DialogSteps, Paged, AsItIs
    <2> DEFINE req == [op |-> "createChannel", number |-> 0, desk |-> Inputs!ListedDesk]
    <2>2. Quiet \/ Inputs!Ask(req, [kind |-> "added"])
      BY <1>2 DEF Inputs!AddToDesk
    <2>3. Fine(req, [kind |-> "added"])
      BY DEF Fine, MovesAlone
    <2> HIDE DEF req
    <2> QED BY <2>1, <2>2, <2>3, InputsAsk
  <1>3. ASSUME NEW c, Inputs!OpenSheetRow(c) PROVE (Talks \/ Quiet) /\ DialogSteps
    <2> DEFINE step == Inputs!OpenRow(page.editor, c, Inputs!DraftOf(c), Inputs!Listed)
               pg == [page EXCEPT !.refused = {}]
    <2>1. step.writes = <<>> \/ \E w : step.writes = <<w>>
      BY InputsWrites DEF Inputs!OpenRow, Inputs!Step
    <2>2. Inputs!EditorSteps(step, pg) /\ AsItIs(pg)
      BY <1>3 DEF Inputs!OpenSheetRow, AsItIs, Paged
    <2> HIDE DEF step, pg
    <2> QED BY <2>1, <2>2, InputsEditor DEF DialogSteps, Paged, AsItIs
  <1>4. ASSUME NEW draft, Inputs!TypeDraft(draft) PROVE Quiet /\ DialogSteps
    BY <1>4 DEF Inputs!TypeDraft, DialogSteps, Paged, AsItIs
  <1>5. ASSUME Inputs!SaveRow PROVE (Talks \/ Quiet) /\ DialogSteps
    <2> DEFINE step == Inputs!Save(page.editor, Inputs!Listed)
    <2>1. step.writes = <<>> \/ \E w : step.writes = <<w>>
      BY InputsWrites DEF Inputs!Save, Inputs!Step
    <2>2. Inputs!EditorSteps(step, page) \/ (Quiet /\ DialogSteps)
      BY <1>5 DEF Inputs!SaveRow, DialogSteps, Paged, AsItIs
    <2> HIDE DEF step
    <2> QED BY <2>1, <2>2, InputsEditor DEF DialogSteps, Paged, AsItIs
  <1>6. ASSUME Inputs!SaveAndNextRow PROVE (Talks \/ Quiet) /\ DialogSteps
    <2>1. PICK id : Inputs!EditorSteps(Inputs!SaveAndNext(page.editor,
                      {[row |-> r.id, draft |-> Inputs!DraftOf(r)] : r \in Inputs!NextRow(id)}, Inputs!Listed), page)
      BY <1>6 DEF Inputs!SaveAndNextRow
    <2> DEFINE step == Inputs!SaveAndNext(page.editor,
                         {[row |-> r.id, draft |-> Inputs!DraftOf(r)] : r \in Inputs!NextRow(id)}, Inputs!Listed)
    <2>2. step.writes = <<>> \/ \E w : step.writes = <<w>>
      BY InputsWrites DEF Inputs!SaveAndNext, Inputs!Step
    <2>3. Inputs!EditorSteps(step, page)
      BY <2>1
    <2> HIDE DEF step
    <2> QED BY <2>2, <2>3, InputsEditor DEF DialogSteps, Paged, AsItIs
  <1>7. ASSUME Inputs!CloseRow \/ Inputs!AskToDeleteRow PROVE Quiet /\ DialogSteps
    BY <1>7 DEF Inputs!CloseRow, Inputs!AskToDeleteRow, DialogSteps, Paged, AsItIs
  <1>8. ASSUME NEW c \in Inputs!p.inCables, Inputs!OpenHop(c) PROVE Quiet /\ DialogSteps
    BY <1>8 DEF Inputs!OpenHop, Inputs!p, Cables, Side, DialogSteps, Paged, AsItIs
  <1>9. ASSUME Inputs!EditHopInFlow PROVE Quiet /\ DialogSteps
    BY <1>9 DEF Inputs!EditHopInFlow, Inputs!OpenInFlow, Inputs!LeaveSheet, Inputs!NoDialog, DialogSteps, Paged, AsItIs
  <1> QED BY <1>1, <1>2, <1>3, <1>4, <1>5, <1>6, <1>7, <1>8, <1>9 DEF Inputs!SheetStep

\* The cable a port shows is one of the page's: of those at the port there is a first.
LEMMA FirstIsOne ==
  ASSUME NEW cables, NEW rows, rows \subseteq cables, rows # {}, \A c \in cables : c.id \in Nat,
         NEW c, c = CHOOSE x \in FirstById(rows) : TRUE
  PROVE  c \in cables
  <1> DEFINE ids == {r.id : r \in rows}
  <1>1. PICK i \in ids : \A j \in ids : ~(<<j, i>> \in OpToRel(<, Nat))
    <2>1. ids \subseteq Nat /\ ids # {}
      OBVIOUS
    <2> HIDE DEF ids
    <2> QED BY <2>1, NatLessThanWellFounded, WFMin
  <1>2. OpToRel(<, Nat) = {q \in Nat \X Nat : q[1] < q[2]}
    BY DEF OpToRel
  <1>3. ASSUME NEW j \in ids PROVE i <= j
    <2>1. j < i => <<j, i>> \in {q \in Nat \X Nat : q[1] < q[2]}
      OBVIOUS
    <2>2. i \in Nat /\ j \in Nat
      OBVIOUS
    <2>3. ~(<<j, i>> \in {q \in Nat \X Nat : q[1] < q[2]})
      BY <1>1, <1>2
    <2> HIDE DEF ids
    <2> QED BY <2>1, <2>2, <2>3
  <1>4. PICK r \in rows : r.id = i
    OBVIOUS
  <1>5. \A o \in rows : r.id <= o.id
    BY <1>3, <1>4
  <1>6. (CHOOSE x \in rows : \A o \in rows : x.id <= o.id) \in rows
    BY <1>5
  <1> QED BY <1>6 DEF FirstById

IdsKnown == \A c \in Cables(Side, view.data) : c.id \in Nat

LEMMA InputsConnect ==
  ASSUME NEW a, NEW b, NEW pg, CallsOnce, AsItIs(pg),
         Inputs!Connect(a, b, pg)
  PROVE  (Talks \/ Quiet) /\ DialogSteps
  <1>1. PICK from, to : Inputs!AttemptConnect(from, to, pg)
    BY DEF Inputs!Connect
  <1>2. DialogSteps
    BY <1>1 DEF Inputs!AttemptConnect, DialogSteps, Paged, AsItIs
  <1> DEFINE req == [op |-> "createCable", side |-> "in", cable |-> Inputs!NewCable(from, to)]
  <1>3. Quiet \/ Inputs!Ask(req, Inputs!Silently)
    BY <1>1 DEF Inputs!AttemptConnect, Quiet, Inputs!queryVars
  <1>4. Fine(req, Inputs!Silently)
    BY DEF Fine, MovesAlone, Inputs!Silently
  <1> HIDE DEF req
  <1> QED BY <1>2, <1>3, <1>4, InputsAsk

LEMMA InputsCanvas ==
  ASSUME tab = "inputs", CallsOnce, IdsKnown, Paged, Inputs!CanvasStep
  PROVE  (Talks \/ Quiet) /\ DialogSteps
  <1> USE DEF Inputs!queryVars, Quiet
  <1>1. ASSUME NEW node, Inputs!Select(node) PROVE Quiet /\ DialogSteps
    BY <1>1 DEF Inputs!Select, DialogSteps, Paged, AsItIs
  <1>2. ASSUME Inputs!CloseInspector \/ Inputs!AskToDeleteSource PROVE Quiet /\ DialogSteps
    BY <1>2 DEF Inputs!CloseInspector, Inputs!AskToDeleteSource, DialogSteps, Paged, AsItIs
  <1>3. ASSUME NEW q, Inputs!ClickPort(q) PROVE (Talks \/ Quiet) /\ DialogSteps
    <2> DEFINE shown == CHOOSE c \in Inputs!InputCableAtPort(q, Inputs!p.inCables) : TRUE
    <2>1. CASE Inputs!TakenPort(q) /\ page' = [page EXCEPT !.dialog = [kind |-> "info", cable |-> shown]]
               /\ UNCHANGED Inputs!queryVars
      <3> DEFINE rows == Inputs!InputCablesAtPort(q, Inputs!p.inCables)
      <3>1. rows # {} /\ rows \subseteq Inputs!p.inCables
        BY <2>1 DEF Inputs!TakenPort, Inputs!IsInputPortConnected, Inputs!InputCablesAtPort
      <3>2. \A c \in Inputs!p.inCables : c.id \in Nat
        BY DEF IdsKnown, Cables, Side, Inputs!p
      <3>3. shown = CHOOSE c \in FirstById(rows) : TRUE
        BY DEF Inputs!InputCableAtPort, Inputs!FirstById, FirstById
      <3> HIDE DEF rows, shown
      <3>4. shown \in Inputs!p.inCables
        BY <3>1, <3>2, <3>3, FirstIsOne
      <3> QED BY <2>1, <3>4 DEF DialogSteps, Cables, Side, Inputs!p, Paged, AsItIs
    <2>2. CASE \E w \in page.pending : Inputs!Connect(w, q, [page EXCEPT !.pending = {}])
      <3>1. PICK w : Inputs!Connect(w, q, [page EXCEPT !.pending = {}])
        BY <2>2
      <3> DEFINE pg == [page EXCEPT !.pending = {}]
      <3>2. AsItIs(pg) /\ Inputs!Connect(w, q, pg)
        BY <3>1 DEF AsItIs, Paged
      <3> HIDE DEF pg
      <3> QED BY <3>2, InputsConnect
    <2>3. CASE page' = [page EXCEPT !.pending = IF @ = {q} THEN {} ELSE {q}] /\ UNCHANGED Inputs!queryVars
      BY <2>3 DEF DialogSteps, Paged, AsItIs
    <2> QED BY <1>3, <2>1, <2>2, <2>3 DEF Inputs!ClickPort
  <1>4. ASSUME NEW q, NEW target, Inputs!DragCable(q, target) PROVE (Talks \/ Quiet) /\ DialogSteps
    BY <1>4, InputsConnect DEF Inputs!DragCable, AsItIs, Paged
  <1>5. ASSUME NEW node, NEW pos, Inputs!MoveNode(node, pos) PROVE (Talks \/ Quiet) /\ DialogSteps
    <2>1. MovesAlone(Inputs!MoveRequest(node, pos))
      BY <1>5 DEF Inputs!MoveNode, Inputs!MoveRequest, MovesAlone
    <2>2. Fine(Inputs!MoveRequest(node, pos), Inputs!Silently)
      BY <2>1 DEF Fine, Inputs!Silently
    <2> QED BY <1>5, <2>2, InputsAsk DEF Inputs!MoveNode, DialogSteps, Paged, AsItIs
  <1>6. ASSUME Inputs!AddSource PROVE (Talks \/ Quiet) /\ DialogSteps
    <2>1. Fine([op |-> "createSource", width |-> "mono"], [kind |-> "select"])
      BY DEF Fine, MovesAlone
    <2> QED BY <1>6, <2>1, InputsAsk DEF Inputs!AddSource, DialogSteps, Paged, AsItIs
  <1>7. ASSUME NEW width, Inputs!SaveSource(width) PROVE (Talks \/ Quiet) /\ DialogSteps
    <2>1. PICK req : Inputs!Ask(req, Inputs!Silently) /\ req.op # "updateBox"
      BY <1>7 DEF Inputs!SaveSource
    <2>2. Fine(req, Inputs!Silently)
      BY <2>1 DEF Fine, MovesAlone, Inputs!Silently
    <2> QED BY <1>7, <2>1, <2>2, InputsAsk DEF Inputs!SaveSource, DialogSteps, Paged, AsItIs
  <1>8. ASSUME Inputs!DuplicateSource PROVE (Talks \/ Quiet) /\ DialogSteps
    <2>1. PICK req : Inputs!Ask(req, Inputs!Silently) /\ req.op # "updateBox"
      BY <1>8 DEF Inputs!DuplicateSource
    <2>2. Fine(req, Inputs!Silently)
      BY <2>1 DEF Fine, MovesAlone, Inputs!Silently
    <2> QED BY <1>8, <2>1, <2>2, InputsAsk DEF Inputs!DuplicateSource, DialogSteps, Paged, AsItIs
  <1> QED BY <1>1, <1>2, <1>3, <1>4, <1>5, <1>6, <1>7, <1>8 DEF Inputs!CanvasStep

LEMMA InputsDialogs ==
  ASSUME tab = "inputs", CallsOnce, Paged, Inputs!DialogStep
  PROVE  (Talks \/ Quiet) /\ DialogSteps
  <1> USE DEF Inputs!queryVars, Inputs!NoDialog
  <1>1. ASSUME NEW item, Inputs!PickCable(item) PROVE Talks /\ DialogSteps
    <2>1. PICK req : Inputs!Ask(req, Inputs!Silently) /\ req.op # "updateBox"
      BY <1>1 DEF Inputs!PickCable
    <2>2. Fine(req, Inputs!Silently)
      BY <2>1 DEF Fine, MovesAlone, Inputs!Silently
    <2> QED BY <1>1, <2>1, <2>2, InputsAsk DEF Inputs!PickCable, DialogSteps, Paged, AsItIs
  <1>2. ASSUME NEW item, Inputs!ChangeCableItem(item) PROVE Talks /\ DialogSteps
    <2> DEFINE req == [op |-> "updateCable", side |-> "in", id |-> page.dialog.cable.id, item |-> item]
    <2>1. Inputs!Ask(req, Inputs!AboutCable) /\ DialogSteps
      BY <1>2 DEF Inputs!ChangeCableItem, DialogSteps, Paged, AsItIs
    <2>2. Fine(req, Inputs!AboutCable)
      BY <1>2 DEF Fine, MovesAlone, Inputs!ChangeCableItem, Inputs!AboutCable, OnDialog, Side
    <2> HIDE DEF req
    <2> QED BY <2>1, <2>2, InputsAsk
  <1>3. ASSUME Inputs!Disconnect PROVE Talks /\ DialogSteps
    <2> DEFINE req == [op |-> "deleteCable", side |-> "in", id |-> page.dialog.cable.id]
    <2>1. Inputs!Ask(req, Inputs!AboutCable) /\ DialogSteps
      BY <1>3 DEF Inputs!Disconnect, DialogSteps, Paged, AsItIs
    <2>2. Fine(req, Inputs!AboutCable)
      BY <1>3 DEF Fine, MovesAlone, Inputs!Disconnect, Inputs!AboutCable, OnDialog, Side
    <2> HIDE DEF req
    <2> QED BY <2>1, <2>2, InputsAsk
  <1>4. ASSUME Inputs!ConfirmDelete PROVE Talks /\ DialogSteps
    <2>1. PICK req : Inputs!Ask(req, Inputs!Silently) /\ req.op # "updateBox"
      BY <1>4 DEF Inputs!ConfirmDelete
    <2>2. Fine(req, Inputs!Silently)
      BY <2>1 DEF Fine, MovesAlone, Inputs!Silently
    <2>3. page'.dialog = [kind |-> "none"] /\ page'.phone = page.phone /\ Paged'
      BY <1>4 DEF Inputs!ConfirmDelete, Inputs!NoDialog, Paged
    <2>4. DialogSteps
      BY <2>3 DEF DialogSteps, Paged, AsItIs
    <2> QED BY <2>1, <2>2, <2>4, InputsAsk
  <1>5. ASSUME Inputs!Cancel PROVE Quiet /\ DialogSteps
    BY <1>5 DEF Inputs!Cancel, DialogSteps, Quiet, Paged, AsItIs
  <1> QED BY <1>1, <1>2, <1>3, <1>4, <1>5 DEF Inputs!DialogStep

LEMMA InputsPhone ==
  ASSUME tab = "inputs", CallsOnce, Paged, Fits(page.phone), Inputs!PhoneStep
  PROVE  (Talks \/ Quiet) /\ DialogSteps
  <1> USE DEF Inputs!queryVars
  <1>1. ASSUME NEW id, Inputs!OpenPhone(id) PROVE Quiet /\ DialogSteps
    <2> DEFINE desired == Inputs!ResolveChannelRouting(id, Inputs!p.inCables)
    <2>1. Chosen(desired)
      BY RoutingsFit DEF Chosen
    <2> HIDE DEF desired
    <2>2. page' = [page EXCEPT !.phone = page'.phone] /\ "desired" \in DOMAIN page'.phone /\ page'.phone.desired = desired
      BY <1>1 DEF Inputs!OpenPhone, Inputs!NoPhone, Paged, desired
    <2>3. DialogSteps
      BY <2>1, <2>2 DEF DialogSteps, Paged, Fits
    <2> QED BY <1>1, <2>3 DEF Inputs!OpenPhone, Quiet
  <1>2. ASSUME NEW routing \in Inputs!Routings, Inputs!ChooseRouting(routing) PROVE Quiet /\ DialogSteps
    <2>1. Chosen(routing)
      BY OfferedFit DEF Chosen
    <2>2. page' = [page EXCEPT !.phone.desired = routing]
      BY <1>2 DEF Inputs!ChooseRouting
    <2>3. DialogSteps
      BY <2>1, <2>2 DEF DialogSteps, Paged, Fits
    <2> QED BY <1>2, <2>3 DEF Inputs!ChooseRouting, Quiet
  <1>3. ASSUME Inputs!SavePhone PROVE Talks /\ DialogSteps
    <2> DEFINE then == [kind |-> "phone", sheet |-> page.phone.sheet, plan |-> <<>>, cables |-> Inputs!p.inCables,
                        fresh |-> stored.inCables = Inputs!p.inCables, desired |-> page.phone.desired]
    <2>1. PICK req : Inputs!Ask(req, then) /\ req.op # "updateBox"
      <3> DEFINE new == [op |-> "createChannel", number |-> 0, desk |-> Inputs!ListedDesk]
                 old(c) == [op |-> "updateChannel", id |-> c.id, number |-> c.number, width |-> c.width, desk |-> c.desk]
      <3>1. Inputs!Ask(new, then) \/ \E c : Inputs!Ask(old(c), then)
        BY <1>3 DEF Inputs!SavePhone
      <3>2. new.op = "createChannel" /\ \A c : old(c).op = "updateChannel"
        OBVIOUS
      <3> HIDE DEF new, old, then
      <3> QED BY <3>1, <3>2
    <2>2. Fine(req, then)
      <3>1. then.kind = "phone" /\ {"kind", "plan", "desired"} \subseteq DOMAIN then /\ then.plan = <<>> /\ then.desired = page.phone.desired
        OBVIOUS
      <3>2. Listed(<<>>)
        BY NothingListed
      <3> HIDE DEF then
      <3>4. PlanFits(then)
        BY <3>1, <3>2 DEF PlanFits, Fits
      <3> QED BY <2>1, <3>1, <3>4 DEF Fine, MovesAlone
    <2> HIDE DEF then
    <2>3. DialogSteps
      <3>1. page' = [page EXCEPT !.phone.saving = TRUE, !.phone.failed = FALSE]
        BY <1>3 DEF Inputs!SavePhone
      <3> QED BY <3>1 DEF DialogSteps, Paged, Fits
    <2> QED BY <2>1, <2>2, <2>3, InputsAsk
  <1>4. ASSUME Inputs!ClosePhone PROVE Quiet /\ DialogSteps
    <2>1. Fits(Inputs!NoPhone)
      BY DEF Fits, Chosen, Inputs!NoPhone, Inputs!NoRouting, RoutingFits, AtMostOne
    <2>2. page' = [page EXCEPT !.phone = Inputs!NoPhone] /\ Quiet
      BY <1>4 DEF Inputs!ClosePhone, Quiet
    <2> QED BY <2>1, <2>2 DEF DialogSteps, Paged
  <1> QED BY <1>1, <1>2, <1>3, <1>4 DEF Inputs!PhoneStep

LEMMA InputsHear ==
  ASSUME tab = "inputs", CallsOnce, Paged, Fits(page.phone), NEW c \in calls, Inputs!HearAnswer(c)
  PROVE  Talks /\ DialogSteps
  <1>1. ASSUME c.then.kind = "phone", Inputs!HearPhone(c) PROVE Talks /\ DialogSteps
    <2> DEFINE plan == CASE c.req.op = "createChannel" -> Inputs!PhonePlan(c.id, c.then)
                         [] c.req.op = "updateChannel" -> Inputs!PhonePlan(c.req.id, c.then)
                         [] OTHER -> c.then.plan
               rest == [c.then EXCEPT !.plan = Tail(plan)]
    <2>1. DialogSteps
      <3>1. \/ page' = page
            \/ page' = [page EXCEPT !.phone.saving = FALSE, !.phone.failed = TRUE]
            \/ page' = [page EXCEPT !.phone.ending = TRUE]
        BY <1>1 DEF Inputs!HearPhone
      <3> QED BY <3>1 DEF DialogSteps, Paged, Fits
    <2>2. \/ \E asks : Inputs!Q!Answer(c, asks, <<>>)
          \/ plan # <<>> /\ Inputs!Q!Answer(c, FALSE, <<[req |-> Head(plan), then |-> rest]>>)
      BY <1>1 DEF Inputs!HearPhone
    <2>3. PlanFits(c.then) /\ "kind" \in DOMAIN c.then
      BY <1>1 DEF CallsOnce, Called
    <2>4. Listed(c.then.plan) /\ \A id : Listed(Inputs!PhonePlan(id, c.then))
      BY <2>3, InputPlansListed DEF PlanFits, Chosen
    <2>5. Listed(plan)
      BY <2>4
    <2> HIDE DEF plan
    <2>6. plan # <<>> => MovesAlone(Head(plan)) /\ Listed(Tail(plan))
      BY <2>5, NextOfPlan
    <2>7. /\ DOMAIN rest = DOMAIN c.then /\ rest.kind = "phone" /\ rest.plan = Tail(plan)
          /\ rest.desired = c.then.desired /\ ("feed" \in DOMAIN c.then => rest.feed = c.then.feed)
      BY <1>1, <2>3 DEF PlanFits
    <2> HIDE DEF rest
    <2>8. plan # <<>> => Fine(Head(plan), rest)
      BY <2>3, <2>6, <2>7 DEF Fine, PlanFits
    <2> QED BY <2>1, <2>2, <2>8, InputsAnswer
  <1>2. ASSUME Inputs!HearRow(c) PROVE Talks /\ DialogSteps
    <2>1. DialogSteps
      BY <1>2 DEF Inputs!HearRow, DialogSteps, Paged, AsItIs
    <2>2. Inputs!Q!Answer(c, c.state = "done", <<>>)
      BY <1>2 DEF Inputs!HearRow
    <2> QED BY <2>1, <2>2, InputsAnswer
  <1>3. ASSUME Inputs!HearOther(c) PROVE Talks /\ DialogSteps
    <2>1. DialogSteps
      BY <1>3 DEF Inputs!HearOther, DialogSteps, Paged, AsItIs
    <2>2. Inputs!Q!Answer(c, c.state = "done", <<>>)
      BY <1>3 DEF Inputs!HearOther
    <2> QED BY <2>1, <2>2, InputsAnswer
  <1> QED BY <1>1, <1>2, <1>3 DEF Inputs!HearAnswer

LEMMA InputsElsewhere ==
  ASSUME CallsOnce, Inputs!Elsewhere
  PROVE  (Talks \/ Settles \/ Reads \/ ServesAnother) /\ (InOrder => Counts)
  <1>1. ASSUME NEW c \in calls, Inputs!Q!Serve(c) PROVE Settles /\ (InOrder => Counts)
    <2> DEFINE refused == [c EXCEPT !.state = "refused"]
               done(r) == [c EXCEPT !.state = "done", !.at = written + 1, !.id = r.id, !.reply = r.reply]
    <2>1. DOMAIN c = {"n", "req", "then", "state", "at", "id", "reply"}
      BY DEF CallsOnce, Called
    <2>2. DOMAIN refused = DOMAIN c /\ refused.n = c.n /\ refused.req = c.req /\ refused.then = c.then
          /\ refused.state = "refused" /\ refused.at = c.at
      BY <2>1
    <2>3. \A r : /\ DOMAIN done(r) = DOMAIN c /\ done(r).n = c.n /\ done(r).req = c.req /\ done(r).then = c.then
                 /\ done(r).state = "done" /\ done(r).at = written + 1
      BY <2>1
    <2>4. c.state = "sent" /\ UNCHANGED <<made, others, told, fetch, view>>
      BY <1>1 DEF Inputs!Q!Serve
    <2>5. \/ calls' = (calls \ {c}) \cup {refused} /\ UNCHANGED <<stored, written>>
          \/ \E r \in ApplyPatch(c.req, stored) :
               calls' = (calls \ {c}) \cup {done(r)} /\ stored' = r.store /\ written' = written + 1
      BY <1>1, InputsApplyPatch DEF Inputs!Q!Serve
    <2> HIDE DEF refused, done
    <2>6. InOrder => Ends(Now, Now')
      BY <2>1, <2>2, <2>3, <2>4, <2>5 DEF Ends, Now, CallFields
    <2> QED BY <2>2, <2>3, <2>4, <2>5, <2>6 DEF Settles, Counts, Steps, InOrder
  <1>2. ASSUME NEW c \in calls, Inputs!Q!Lose(c) PROVE Settles /\ (InOrder => Counts)
    <2> DEFINE lost == [c EXCEPT !.state = "lost"]
    <2>1. DOMAIN lost = DOMAIN c /\ lost.n = c.n /\ lost.req = c.req /\ lost.then = c.then
          /\ lost.state = "lost" /\ lost.at = c.at
      BY DEF CallsOnce, Called
    <2>2. calls' = (calls \ {c}) \cup {lost} /\ UNCHANGED <<stored, made, others, written, told, fetch, view>>
      BY <1>2 DEF Inputs!Q!Lose
    <2> HIDE DEF lost
    <2>3. Ends(Now, Now')
      BY <2>1, <2>2 DEF Ends, Now, CallFields, CallsOnce, Called
    <2> QED BY <2>1, <2>2, <2>3 DEF Settles, Counts, Steps, InOrder
  <1>3. ASSUME Inputs!Q!ReadStore \/ Inputs!Q!LoseRead \/ Inputs!Q!Focus PROVE Reads /\ (InOrder => Counts)
    <2>1. Reads
      BY <1>3 DEF Inputs!Q!ReadStore, Inputs!Q!LoseRead, Inputs!Q!Focus, Inputs!Q!Asked, Reads
    <2>2. UNCHANGED <<stored, made, others, written, told, calls, view>>
      BY <1>3 DEF Inputs!Q!ReadStore, Inputs!Q!LoseRead, Inputs!Q!Focus
    <2>3. InOrder /\ Inputs!Q!ReadStore => IsRead(Now, Now')
      <3> SUFFICES ASSUME Inputs!Q!ReadStore PROVE IsRead(Now, Now')
        OBVIOUS
      <3>1. PICK g \in fetch : fetch' = (fetch \ {g}) \cup {[phase |-> "read", data |-> stored, at |-> written]}
        BY DEF Inputs!Q!ReadStore
      <3> DEFINE h == [phase |-> "read", data |-> stored, at |-> written]
      <3>2. h.phase = "read" /\ h.at = written /\ fetch' = (fetch \ {g}) \cup {h}
        BY <3>1
      <3> HIDE DEF h
      <3> QED BY <2>2, <3>2 DEF IsRead, Now
    <2>4. InOrder /\ (Inputs!Q!LoseRead \/ Inputs!Q!Focus) => AsksAgain
      BY DEF Inputs!Q!LoseRead, Inputs!Q!Focus, Inputs!Q!Asked, InOrder, Ordered, Now, AsksAgain
    <2> QED BY <1>3, <2>1, <2>2, <2>3, <2>4, StillCounts DEF Counts, Steps, InOrder
  <1>4. ASSUME NEW req \in PatchOthers, Inputs!Q!OtherClient(req) PROVE ServesAnother /\ (InOrder => Counts)
    <2>1. ServesAnother
      BY <1>4, InputsApplyPatch, OthersAssumption DEF Inputs!Q!OtherClient, ServesAnother
    <2>2. IsServed(Now, Now', MaxOthers)
      BY <1>4 DEF Inputs!Q!OtherClient, IsServed, Now
    <2> QED BY <1>4, <2>1, <2>2 DEF Counts, Steps, InOrder, Inputs!Q!OtherClient
  <1> QED BY <1>1, <1>2, <1>3, <1>4 DEF Inputs!Elsewhere

\* What a step does to what is asked, shown and stored.
QueryStep == Talks \/ Settles \/ Reads \/ Shows \/ ServesAnother \/ Quiet

LEMMA InputsNext ==
  ASSUME tab = "inputs", CallsOnce, IdsKnown, Paged, Fits(page.phone), Inputs!Next
  PROVE  QueryStep /\ DialogSteps /\ (InOrder => Counts)
  <1>1. ASSUME NEW view1, Inputs!ShowView(view1) PROVE Quiet /\ DialogSteps
    BY <1>1 DEF Inputs!ShowView, Inputs!LeaveSheet, Inputs!LeaveCanvas, Inputs!NoDialog, DialogSteps, Quiet, Inputs!queryVars, Paged, AsItIs
  <1>2. ASSUME Inputs!ViewArrives PROVE Shows /\ DialogSteps /\ (InOrder => Counts)
    <2>1. DialogSteps
      <3>1. page' = page \/ page' = [page EXCEPT !.phone = Inputs!NoPhone]
        BY <1>2 DEF Inputs!ViewArrives
      <3>2. Fits(Inputs!NoPhone)
        BY DEF Fits, Chosen, Inputs!NoPhone, Inputs!NoRouting, RoutingFits, AtMostOne
      <3> QED BY <3>1, <3>2 DEF DialogSteps, Paged
    <2>2. Shows
      BY <1>2 DEF Inputs!ViewArrives, Inputs!Q!Arrive, Inputs!Q!ArriveShowing, Shows
    <2>3. /\ \E g \in fetch : g.phase = "read" /\ view' = [data |-> g.data, at |-> g.at] /\ fetch' = fetch \ {g}
          /\ UNCHANGED <<stored, made, others, written, told, calls>>
      BY <1>2 DEF Inputs!ViewArrives, Inputs!Q!Arrive, Inputs!Q!ArriveShowing
    <2>4. IsShown(Now, Now') /\ DOMAIN view' = {"data", "at"}
      BY <2>3 DEF IsShown, Now
    <2> QED BY <2>1, <2>2, <2>4 DEF Counts, Steps
  <1>3. ASSUME Inputs!Elsewhere, UNCHANGED page PROVE QueryStep /\ DialogSteps /\ (InOrder => Counts)
    BY <1>3, InputsElsewhere DEF QueryStep, DialogSteps, Paged, AsItIs
  <1>4. (Talks \/ Quiet) /\ InOrder => Counts
    BY StillCounts DEF Talks, Quiet, AsksAgain
  <1> QED BY <1>1, <1>2, <1>3, <1>4, InputsSheet, InputsCanvas, InputsDialogs, InputsPhone, InputsHear DEF Inputs!Next, QueryStep

\* The outputs tab, handler by handler.
LEMMA OutputsAsk ==
  ASSUME NEW req, NEW then, Fine(req, then), CallsOnce, Outputs!Ask(req, then)
  PROVE  Talks
  <1>1. Outputs!Q!Sent(<<[req |-> req, then |-> then]>>) = {CallOf(req, then)}
    BY DEF Outputs!Q!Sent, CallOf
  <1>2. /\ made' = made + 1 /\ made' <= MaxCalls /\ calls' = calls \cup {CallOf(req, then)}
        /\ UNCHANGED <<stored, others, written, told, view, fetch>>
    BY <1>1 DEF Outputs!Ask, Outputs!Q!Send, CallsOnce
  <1> QED BY <1>2, OneTalks DEF AsksAgain

LEMMA OutputsAnswer ==
  ASSUME NEW c \in calls, NEW asks, NEW then, CallsOnce, Outputs!Q!Answer(c, asks, then),
         \/ then = <<>>
         \/ \E req, after : then = <<[req |-> req, then |-> after]>> /\ Fine(req, after)
  PROVE  Talks
  <1>1. AsksAgain /\ UNCHANGED <<stored, others, written, view>>
    BY DEF Outputs!Q!Answer, Outputs!Q!Asked, AsksAgain
  <1>2. CASE then = <<>>
    <2>1. Outputs!Q!Sent(<<>>) = {}
      BY DEF Outputs!Q!Sent
    <2>2. made' = made /\ calls' \subseteq calls
      BY <1>2, <2>1 DEF Outputs!Q!Answer, CallsOnce
    <2> QED BY <1>1, <2>2, NoneTalks
  <1>3. CASE \E req, after : then = <<[req |-> req, then |-> after]>> /\ Fine(req, after)
    <2>1. PICK req, after : then = <<[req |-> req, then |-> after]>> /\ Fine(req, after)
      BY <1>3
    <2>2. Outputs!Q!Sent(<<[req |-> req, then |-> after]>>) = {CallOf(req, after)}
      BY DEF Outputs!Q!Sent, CallOf
    <2>3. made' = made + 1 /\ made' <= MaxCalls /\ calls' \subseteq calls \cup {CallOf(req, after)}
      BY <2>1, <2>2 DEF Outputs!Q!Answer, CallsOnce
    <2> QED BY <1>1, <2>1, <2>3, OneTalks
  <1> QED BY <1>2, <1>3

LEMMA OutputsEditor ==
  ASSUME NEW step, NEW pg, tab = "outputs", CallsOnce, Outputs!EditorSteps(step, pg), AsItIs(pg),
         step.writes = <<>> \/ \E w : step.writes = <<w>>
  PROVE  (Talks \/ Quiet) /\ DialogSteps
  <1>1. DialogSteps
    BY DEF Outputs!EditorSteps, AsItIs, DialogSteps, Paged
  <1>2. CASE step.writes = <<>>
    BY <1>1, <1>2 DEF Outputs!EditorSteps, Outputs!queryVars, Quiet
  <1>3. CASE \E w : step.writes = <<w>>
    <2>1. PICK w : step.writes = <<w>>
      BY <1>3
    <2> DEFINE sent == [i \in DOMAIN step.writes |-> Outputs!RowSave(step.writes[i])]
    <2>2. sent = <<Outputs!RowSave(w)>>
      BY <2>1
    <2>3. Outputs!Q!Send(sent)
      BY <2>1 DEF Outputs!EditorSteps
    <2> DEFINE fed == [op |-> "setFedBy", id |-> w.row, fed |-> w.draft.fed]
               feed == {fed : o \in {x \in Outputs!Row(Outputs!Listed, w.row) : Outputs!FedByChanged(x, w.draft)}}
               req == [op |-> "updateOutput", id |-> w.row, number |-> w.draft.number, width |-> w.draft.width,
                       desk |-> w.draft.desk]
               then == [kind |-> "row", feed |-> feed]
    <2>4. Outputs!RowSave(w) = [req |-> req, then |-> then]
      BY DEF Outputs!RowSave
    <2>5. feed = {} \/ feed = {fed}
      <3> HIDE DEF fed
      <3> QED OBVIOUS
    <2>6. Fine(req, then)
      <3>1. MovesAlone(req) /\ MovesAlone(fed)
        BY DEF MovesAlone
      <3> HIDE DEF fed, req
      <3>2. then.feed = feed /\ then.kind = "row" /\ "kind" \in DOMAIN then
        OBVIOUS
      <3> HIDE DEF then, feed
      <3>3. AtMostOne(feed) /\ \A r \in feed : MovesAlone(r)
        BY <2>5, <3>1 DEF AtMostOne
      <3> QED BY <3>1, <3>2, <3>3 DEF Fine
    <2> HIDE DEF sent, req, then
    <2> QED BY <1>1, <2>2, <2>3, <2>4, <2>6, OutputsAsk DEF Outputs!Ask
  <1> QED BY <1>1, <1>2, <1>3

LEMMA OutputsWrites ==
  ASSUME NEW editor, NEW rows
  PROVE  LET writes == Outputs!Commit(editor, rows) IN writes = <<>> \/ \E w : writes = <<w>>
  BY DEF Outputs!Commit

LEMMA OutputsSheet ==
  ASSUME tab = "outputs", CallsOnce, Paged, Outputs!SheetStep
  PROVE  (Talks \/ Quiet) /\ DialogSteps
  <1> USE DEF Outputs!queryVars, Quiet
  <1>1. ASSUME NEW desk, Outputs!SelectDesk(desk) PROVE Quiet /\ DialogSteps
    BY <1>1 DEF Outputs!SelectDesk, Outputs!LeaveSheet, Outputs!NoDialog, DialogSteps, Paged, AsItIs
  <1>2. ASSUME Outputs!AddOutputRow PROVE (Talks \/ Quiet) /\ DialogSteps
    <2>1. DialogSteps
      BY <1>2 DEF Outputs!AddOutputRow, DialogSteps, Paged, AsItIs
    <2> DEFINE req == [op |-> "createOutput", number |-> Outputs!NextOutputNumber(Outputs!Listed), width |-> "mono",
                       color |-> Outputs!NoColor, desk |-> Outputs!ListedDesk]
    <2>2. Quiet \/ Outputs!Ask(req, [kind |-> "added"])
      BY <1>2 DEF Outputs!AddOutputRow
    <2>3. Fine(req, [kind |-> "added"])
      BY DEF Fine, MovesAlone
    <2> HIDE DEF req
    <2> QED BY <2>1, <2>2, <2>3, OutputsAsk
  <1>3. ASSUME NEW c, Outputs!OpenSheetRow(c) PROVE (Talks \/ Quiet) /\ DialogSteps
    <2> DEFINE step == Outputs!OpenRow(page.editor, c, Outputs!DraftOf(c), Outputs!Listed)
               pg == [page EXCEPT !.refused = {}]
    <2>1. step.writes = <<>> \/ \E w : step.writes = <<w>>
      BY OutputsWrites DEF Outputs!OpenRow, Outputs!Step
    <2>2. Outputs!EditorSteps(step, pg) /\ AsItIs(pg)
      BY <1>3 DEF Outputs!OpenSheetRow, AsItIs, Paged
    <2> HIDE DEF step, pg
    <2> QED BY <2>1, <2>2, OutputsEditor DEF DialogSteps, Paged, AsItIs
  <1>4. ASSUME NEW draft, Outputs!TypeDraft(draft) PROVE Quiet /\ DialogSteps
    BY <1>4 DEF Outputs!TypeDraft, DialogSteps, Paged, AsItIs
  <1>5. ASSUME Outputs!SaveRow PROVE (Talks \/ Quiet) /\ DialogSteps
    <2> DEFINE step == Outputs!Save(page.editor, Outputs!Listed)
    <2>1. step.writes = <<>> \/ \E w : step.writes = <<w>>
      BY OutputsWrites DEF Outputs!Save, Outputs!Step
    <2> DEFINE pg == [page EXCEPT !.refused = {}]
    <2>2. Outputs!EditorSteps(step, pg) \/ (Quiet /\ DialogSteps)
      BY <1>5 DEF Outputs!SaveRow, DialogSteps, Paged, AsItIs
    <2>3. AsItIs(pg)
      BY DEF AsItIs, Paged
    <2> HIDE DEF step, pg
    <2> QED BY <2>1, <2>2, <2>3, OutputsEditor DEF DialogSteps, Paged, AsItIs
  <1>6. ASSUME Outputs!SaveAndNextRow PROVE (Talks \/ Quiet) /\ DialogSteps
    <2>1. PICK id : Outputs!EditorSteps(Outputs!SaveAndNext(page.editor,
                      {[row |-> r.id, draft |-> Outputs!DraftOf(r)] : r \in Outputs!RowAfter(id)}, Outputs!Listed), page)
      BY <1>6 DEF Outputs!SaveAndNextRow
    <2> DEFINE step == Outputs!SaveAndNext(page.editor,
                         {[row |-> r.id, draft |-> Outputs!DraftOf(r)] : r \in Outputs!RowAfter(id)}, Outputs!Listed)
    <2>2. step.writes = <<>> \/ \E w : step.writes = <<w>>
      BY OutputsWrites DEF Outputs!SaveAndNext, Outputs!Step
    <2>3. Outputs!EditorSteps(step, page)
      BY <2>1
    <2> HIDE DEF step
    <2> QED BY <2>2, <2>3, OutputsEditor DEF DialogSteps, Paged, AsItIs
  <1>7. ASSUME Outputs!CloseRow \/ Outputs!AskToDeleteRow PROVE Quiet /\ DialogSteps
    BY <1>7 DEF Outputs!CloseRow, Outputs!AskToDeleteRow, DialogSteps, Paged, AsItIs
  <1>8. ASSUME NEW c \in Outputs!p.outCables, Outputs!OpenHop(c) PROVE Quiet /\ DialogSteps
    BY <1>8 DEF Outputs!OpenHop, Outputs!p, Cables, Side, DialogSteps, Paged, AsItIs
  <1>9. ASSUME Outputs!EditHopInFlow \/ Outputs!EditRowInFlow PROVE Quiet /\ DialogSteps
    <2>1. PICK selected : Outputs!OpenInFlow(selected)
      BY <1>9 DEF Outputs!EditHopInFlow, Outputs!EditRowInFlow
    <2> QED BY <2>1 DEF Outputs!OpenInFlow, Outputs!LeaveSheet, Outputs!NoDialog, DialogSteps, Paged, AsItIs
  <1> QED BY <1>1, <1>2, <1>3, <1>4, <1>5, <1>6, <1>7, <1>8, <1>9 DEF Outputs!SheetStep

LEMMA OutputsConnect ==
  ASSUME NEW a, NEW b, NEW pg, CallsOnce, AsItIs(pg),
         Outputs!Connect(a, b, pg)
  PROVE  (Talks \/ Quiet) /\ DialogSteps
  <1>1. PICK from, to : Outputs!AttemptConnect(from, to, pg)
    BY DEF Outputs!Connect
  <1>2. DialogSteps
    BY <1>1 DEF Outputs!AttemptConnect, DialogSteps, Paged, AsItIs
  <1> DEFINE req == [op |-> "createCable", side |-> "out", cable |-> Outputs!NewCable(from, to)]
  <1>3. Quiet \/ Outputs!Ask(req, Outputs!Silently)
    BY <1>1 DEF Outputs!AttemptConnect, Quiet, Outputs!queryVars
  <1>4. Fine(req, Outputs!Silently)
    BY DEF Fine, MovesAlone, Outputs!Silently
  <1> HIDE DEF req
  <1> QED BY <1>2, <1>3, <1>4, OutputsAsk

LEMMA OutputsCanvas ==
  ASSUME tab = "outputs", CallsOnce, IdsKnown, Paged, Outputs!CanvasStep
  PROVE  (Talks \/ Quiet) /\ DialogSteps
  <1> USE DEF Outputs!queryVars, Quiet
  <1>1. ASSUME NEW node, Outputs!Select(node) PROVE Quiet /\ DialogSteps
    BY <1>1 DEF Outputs!Select, DialogSteps, Paged, AsItIs
  <1>2. ASSUME Outputs!CloseInspector \/ Outputs!AskToDeleteOutput PROVE Quiet /\ DialogSteps
    BY <1>2 DEF Outputs!CloseInspector, Outputs!AskToDeleteOutput, DialogSteps, Paged, AsItIs
  <1>3. ASSUME NEW q, Outputs!ClickPort(q) PROVE (Talks \/ Quiet) /\ DialogSteps
    <2> DEFINE shown == CHOOSE c \in Outputs!OutputCableAtPort(q, Outputs!p.outCables) : TRUE
    <2>1. CASE Outputs!TakenPort(q) /\ page' = [page EXCEPT !.dialog = [kind |-> "info", cable |-> shown]]
               /\ UNCHANGED Outputs!queryVars
      <3> DEFINE rows == Outputs!OutputCablesAtPort(q, Outputs!p.outCables)
      <3>1. rows # {} /\ rows \subseteq Outputs!p.outCables
        BY <2>1 DEF Outputs!TakenPort, Outputs!IsOutputPortConnected, Outputs!OutputCablesAtPort
      <3>2. \A c \in Outputs!p.outCables : c.id \in Nat
        BY DEF IdsKnown, Cables, Side, Outputs!p
      <3>3. shown = CHOOSE c \in FirstById(rows) : TRUE
        BY DEF Outputs!OutputCableAtPort, Outputs!FirstById, FirstById
      <3> HIDE DEF rows, shown
      <3>4. shown \in Outputs!p.outCables
        BY <3>1, <3>2, <3>3, FirstIsOne
      <3> QED BY <2>1, <3>4 DEF DialogSteps, Cables, Side, Outputs!p, Paged, AsItIs
    <2>2. CASE \E w \in page.pending : Outputs!Connect(w, q, [page EXCEPT !.pending = {}])
      <3>1. PICK w : Outputs!Connect(w, q, [page EXCEPT !.pending = {}])
        BY <2>2
      <3> DEFINE pg == [page EXCEPT !.pending = {}]
      <3>2. AsItIs(pg) /\ Outputs!Connect(w, q, pg)
        BY <3>1 DEF AsItIs, Paged
      <3> HIDE DEF pg
      <3> QED BY <3>2, OutputsConnect
    <2>3. CASE page' = [page EXCEPT !.pending = IF @ = {q} THEN {} ELSE {q}] /\ UNCHANGED Outputs!queryVars
      BY <2>3 DEF DialogSteps, Paged, AsItIs
    <2> QED BY <1>3, <2>1, <2>2, <2>3 DEF Outputs!ClickPort
  <1>4. ASSUME NEW q, NEW target, Outputs!DragCable(q, target) PROVE (Talks \/ Quiet) /\ DialogSteps
    BY <1>4, OutputsConnect DEF Outputs!DragCable, AsItIs, Paged
  <1>5. ASSUME NEW node, NEW pos, Outputs!MoveNode(node, pos) PROVE (Talks \/ Quiet) /\ DialogSteps
    <2>1. MovesAlone(Outputs!MoveRequest(node, pos))
      BY <1>5 DEF Outputs!MoveNode, Outputs!MoveRequest, MovesAlone
    <2>2. Fine(Outputs!MoveRequest(node, pos), Outputs!Silently)
      BY <2>1 DEF Fine, Outputs!Silently
    <2> QED BY <1>5, <2>2, OutputsAsk DEF Outputs!MoveNode, DialogSteps, Paged, AsItIs
  <1>6. ASSUME NEW node, Outputs!DeleteDevice(node) PROVE (Talks \/ Quiet) /\ DialogSteps
    <2>1. Fine([op |-> "deleteOutputDevice", id |-> node.id], Outputs!Silently)
      BY DEF Fine, MovesAlone, Outputs!Silently
    <2> QED BY <1>6, <2>1, OutputsAsk DEF Outputs!DeleteDevice, DialogSteps, Paged, AsItIs
  <1>7. ASSUME NEW draft, Outputs!SaveField(draft) PROVE (Talks \/ Quiet) /\ DialogSteps
    <2>1. PICK req : Outputs!Ask(req, Outputs!Silently) /\ req.op # "updateBox"
      BY <1>7 DEF Outputs!SaveField
    <2>2. Fine(req, Outputs!Silently)
      BY <2>1 DEF Fine, MovesAlone, Outputs!Silently
    <2> QED BY <1>7, <2>1, <2>2, OutputsAsk DEF Outputs!SaveField, DialogSteps, Paged, AsItIs
  <1>8. ASSUME Outputs!DuplicateOutput PROVE (Talks \/ Quiet) /\ DialogSteps
    <2>1. PICK req : Outputs!Ask(req, [kind |-> "select"]) /\ req.op # "updateBox"
      BY <1>8 DEF Outputs!DuplicateOutput
    <2>2. Fine(req, [kind |-> "select"])
      BY <2>1 DEF Fine, MovesAlone
    <2> QED BY <1>8, <2>1, <2>2, OutputsAsk DEF Outputs!DuplicateOutput, DialogSteps, Paged, AsItIs
  <1> QED BY <1>1, <1>2, <1>3, <1>4, <1>5, <1>6, <1>7, <1>8 DEF Outputs!CanvasStep

LEMMA OutputsDialogs ==
  ASSUME tab = "outputs", CallsOnce, Paged, Outputs!DialogStep
  PROVE  (Talks \/ Quiet) /\ DialogSteps
  <1> USE DEF Outputs!queryVars, Outputs!NoDialog
  <1>1. ASSUME NEW item, Outputs!PickCable(item) PROVE Talks /\ DialogSteps
    <2>1. PICK req : Outputs!Ask(req, Outputs!Silently) /\ req.op # "updateBox"
      BY <1>1 DEF Outputs!PickCable
    <2>2. Fine(req, Outputs!Silently)
      BY <2>1 DEF Fine, MovesAlone, Outputs!Silently
    <2> QED BY <1>1, <2>1, <2>2, OutputsAsk DEF Outputs!PickCable, DialogSteps, Paged, AsItIs
  <1>2. ASSUME NEW item, Outputs!ChangeCableItem(item) PROVE Talks /\ DialogSteps
    <2> DEFINE req == [op |-> "updateCable", side |-> "out", id |-> page.dialog.cable.id, item |-> item]
    <2>1. Outputs!Ask(req, Outputs!AboutCable) /\ DialogSteps
      BY <1>2 DEF Outputs!ChangeCableItem, DialogSteps, Paged, AsItIs
    <2>2. Fine(req, Outputs!AboutCable)
      BY <1>2 DEF Fine, MovesAlone, Outputs!ChangeCableItem, Outputs!AboutCable, OnDialog, Side
    <2> HIDE DEF req
    <2> QED BY <2>1, <2>2, OutputsAsk
  <1>3. ASSUME Outputs!Disconnect PROVE Talks /\ DialogSteps
    <2> DEFINE req == [op |-> "deleteCable", side |-> "out", id |-> page.dialog.cable.id]
    <2>1. Outputs!Ask(req, Outputs!AboutCable) /\ DialogSteps
      BY <1>3 DEF Outputs!Disconnect, DialogSteps, Paged, AsItIs
    <2>2. Fine(req, Outputs!AboutCable)
      BY <1>3 DEF Fine, MovesAlone, Outputs!Disconnect, Outputs!AboutCable, OnDialog, Side
    <2> HIDE DEF req
    <2> QED BY <2>1, <2>2, OutputsAsk
  <1>4. ASSUME Outputs!ConfirmDelete PROVE Talks /\ DialogSteps
    <2>1. PICK req : Outputs!Ask(req, Outputs!Silently) /\ req.op # "updateBox"
      BY <1>4 DEF Outputs!ConfirmDelete
    <2>2. Fine(req, Outputs!Silently)
      BY <2>1 DEF Fine, MovesAlone, Outputs!Silently
    <2>3. page'.dialog = [kind |-> "none"] /\ page'.phone = page.phone /\ Paged'
      BY <1>4 DEF Outputs!ConfirmDelete, Outputs!NoDialog, Paged
    <2>4. DialogSteps
      BY <2>3 DEF DialogSteps, Paged, AsItIs
    <2> QED BY <2>1, <2>2, <2>4, OutputsAsk
  <1>5. ASSUME Outputs!Cancel PROVE Quiet /\ DialogSteps
    BY <1>5 DEF Outputs!Cancel, DialogSteps, Quiet, Paged, AsItIs
  <1> QED BY <1>1, <1>2, <1>3, <1>4, <1>5 DEF Outputs!DialogStep

LEMMA OutputsPhone ==
  ASSUME tab = "outputs", CallsOnce, Paged, Fits(page.phone), Outputs!PhoneStep
  PROVE  (Talks \/ Quiet) /\ DialogSteps
  <1> USE DEF Outputs!queryVars
  <1>1. ASSUME NEW id, Outputs!OpenPhone(id) PROVE Quiet /\ DialogSteps
    <2> DEFINE desired == Outputs!ResolveOutputRouting(id, Outputs!p.outCables)
    <2>1. Chosen(desired)
      BY RoutingsFit DEF Chosen
    <2> HIDE DEF desired
    <2>2. page' = [page EXCEPT !.phone = page'.phone] /\ "desired" \in DOMAIN page'.phone /\ page'.phone.desired = desired
      BY <1>1 DEF Outputs!OpenPhone, Outputs!NoPhone, Paged, desired
    <2>3. DialogSteps
      BY <2>1, <2>2 DEF DialogSteps, Paged, Fits
    <2> QED BY <1>1, <2>3 DEF Outputs!OpenPhone, Quiet
  <1>2. ASSUME NEW socket \in Outputs!Sockets, NEW fed, Outputs!ChooseOnPhone(socket, fed) PROVE Quiet /\ DialogSteps
    <2>1. Chosen(socket)
      BY OfferedFit DEF Chosen
    <2>2. page' = [page EXCEPT !.phone.desired = socket, !.phone.fed = fed]
      BY <1>2 DEF Outputs!ChooseOnPhone
    <2>3. DialogSteps
      BY <2>1, <2>2 DEF DialogSteps, Paged, Fits
    <2> QED BY <1>2, <2>3 DEF Outputs!ChooseOnPhone, Quiet
  <1>3. ASSUME Outputs!SavePhone PROVE Talks /\ DialogSteps
    <2> DEFINE rows == UNION {Outputs!Row(Outputs!p.outputs, id) : id \in page.phone.open}
               then == [kind |-> "phone", sheet |-> page.phone.sheet, plan |-> <<>>, cables |-> Outputs!p.outCables,
                        fresh |-> stored.outCables = Outputs!p.outCables, desired |-> page.phone.desired,
                        feed |-> {page.phone.fed : o \in {x \in rows : x.fed # page.phone.fed}}]
    <2>1. PICK req : Outputs!Ask(req, then) /\ req.op # "updateBox"
      <3> DEFINE new == [op |-> "createOutput", number |-> Outputs!NextOutputNumber(Outputs!Listed), width |-> "mono", color |-> Outputs!NoColor, desk |-> Outputs!ListedDesk]
                 old(c) == [op |-> "updateOutput", id |-> c.id, number |-> c.number, width |-> c.width, desk |-> c.desk]
      <3>1. Outputs!Ask(new, then) \/ \E c : Outputs!Ask(old(c), then)
        BY <1>3 DEF Outputs!SavePhone
      <3>2. new.op = "createOutput" /\ \A c : old(c).op = "updateOutput"
        OBVIOUS
      <3> HIDE DEF new, old, then
      <3> QED BY <3>1, <3>2
    <2>2. Fine(req, then)
      <3>1. then.kind = "phone" /\ {"kind", "plan", "desired"} \subseteq DOMAIN then /\ then.plan = <<>> /\ then.desired = page.phone.desired
        OBVIOUS
      <3>2. Listed(<<>>)
        BY NothingListed
      <3>3. "feed" \in DOMAIN then /\ AtMostOne(then.feed)
        BY DEF AtMostOne
      <3> HIDE DEF then
      <3>4. PlanFits(then)
        BY <3>1, <3>2, <3>3 DEF PlanFits, Fits
      <3> QED BY <2>1, <3>1, <3>4 DEF Fine, MovesAlone
    <2> HIDE DEF then
    <2>3. DialogSteps
      <3>1. page' = [page EXCEPT !.phone.saving = TRUE, !.phone.failed = FALSE]
        BY <1>3 DEF Outputs!SavePhone
      <3> QED BY <3>1 DEF DialogSteps, Paged, Fits
    <2> QED BY <2>1, <2>2, <2>3, OutputsAsk
  <1>4. ASSUME Outputs!ClosePhone PROVE Quiet /\ DialogSteps
    <2>1. Fits(Outputs!NoPhone)
      BY DEF Fits, Chosen, Outputs!NoPhone, AtMostOne
    <2>2. page' = [page EXCEPT !.phone = Outputs!NoPhone] /\ Quiet
      BY <1>4 DEF Outputs!ClosePhone, Quiet
    <2> QED BY <2>1, <2>2 DEF DialogSteps, Paged
  <1> QED BY <1>1, <1>2, <1>3, <1>4 DEF Outputs!PhoneStep

\* What feeds an output is sent after its row, once or not at all.
LEMMA SetToSeqOfOne ==
  ASSUME NEW x
  PROVE  Outputs!SetToSeq({x}) = <<x>>
  <1>1. Outputs!Cardinality({x}) = 1
    BY FS_Singleton DEF Outputs!Cardinality, Cardinality
  <1> DEFINE fs == [1 .. 1 -> {x}]
  <1>2. \A f \in fs : f = <<x>> 
    OBVIOUS
  <1>3. <<x>> \in fs /\ Outputs!IsInjective(<<x>>)
    BY DEF Outputs!IsInjective
  <1>4. Outputs!SetToSeq({x}) = CHOOSE f \in fs : Outputs!IsInjective(f)
    BY <1>1 DEF Outputs!SetToSeq
  <1> HIDE DEF fs
  <1> QED BY <1>2, <1>3, <1>4

LEMMA SetToSeqOfNone == Outputs!SetToSeq({}) = <<>>
  <1>1. Outputs!Cardinality({}) = 0
    BY FS_EmptySet DEF Outputs!Cardinality, Cardinality
  <1> DEFINE fs == [1 .. 0 -> {}]
  <1>2. \A f \in fs : f = <<>> 
    OBVIOUS
  <1>3. <<>> \in fs /\ Outputs!IsInjective(<<>>)
    BY DEF Outputs!IsInjective
  <1>4. Outputs!SetToSeq({}) = CHOOSE f \in fs : Outputs!IsInjective(f)
    BY <1>1 DEF Outputs!SetToSeq
  <1> HIDE DEF fs
  <1> QED BY <1>2, <1>3, <1>4

LEMMA OutputsHear ==
  ASSUME tab = "outputs", CallsOnce, Paged, Fits(page.phone), NEW c \in calls, Outputs!HearAnswer(c)
  PROVE  Talks /\ DialogSteps
  <1>1. ASSUME c.then.kind = "phone", Outputs!HearPhone(c) PROVE Talks /\ DialogSteps
    <2> DEFINE plan == CASE c.req.op = "createOutput" -> Outputs!PhonePlan(c.id, c.then)
                         [] c.req.op = "updateOutput" -> Outputs!PhonePlan(c.req.id, c.then)
                         [] OTHER -> c.then.plan
               rest == [c.then EXCEPT !.plan = Tail(plan)]
    <2>1. DialogSteps
      <3>1. \/ page' = page
            \/ page' = [page EXCEPT !.phone.saving = FALSE, !.phone.failed = TRUE]
            \/ page' = [page EXCEPT !.phone.ending = TRUE]
        BY <1>1 DEF Outputs!HearPhone
      <3> QED BY <3>1 DEF DialogSteps, Paged, Fits
    <2>2. \/ \E asks : Outputs!Q!Answer(c, asks, <<>>)
          \/ plan # <<>> /\ Outputs!Q!Answer(c, FALSE, <<[req |-> Head(plan), then |-> rest]>>)
      BY <1>1 DEF Outputs!HearPhone
    <2>3. PlanFits(c.then) /\ "kind" \in DOMAIN c.then
      BY <1>1 DEF CallsOnce, Called
    <2>4. Listed(c.then.plan) /\ \A id : Listed(Outputs!PhonePlan(id, c.then))
      BY <2>3, OutputPlansListed DEF PlanFits, Chosen
    <2>5. Listed(plan)
      BY <2>4
    <2> HIDE DEF plan
    <2>6. plan # <<>> => MovesAlone(Head(plan)) /\ Listed(Tail(plan))
      BY <2>5, NextOfPlan
    <2>7. /\ DOMAIN rest = DOMAIN c.then /\ rest.kind = "phone" /\ rest.plan = Tail(plan)
          /\ rest.desired = c.then.desired /\ ("feed" \in DOMAIN c.then => rest.feed = c.then.feed)
      BY <1>1, <2>3 DEF PlanFits
    <2> HIDE DEF rest
    <2>8. plan # <<>> => Fine(Head(plan), rest)
      BY <2>3, <2>6, <2>7 DEF Fine, PlanFits
    <2> QED BY <2>1, <2>2, <2>8, OutputsAnswer
  <1>2. ASSUME c.then.kind = "row", Outputs!HearRow(c) PROVE Talks /\ DialogSteps
    <2>1. DialogSteps
      BY <1>2 DEF Outputs!HearRow, DialogSteps, Paged, AsItIs
    <2> DEFINE feeds == {[req |-> r, then |-> Outputs!Silently] : r \in c.then.feed}
    <2>2. PICK sent : /\ Outputs!Q!Answer(c, c.state = "done", sent)
                      /\ sent = <<>> \/ sent = Outputs!SetToSeq(feeds)
      BY <1>2 DEF Outputs!HearRow
    <2>3. AtMostOne(c.then.feed) /\ \A r \in c.then.feed : MovesAlone(r)
      BY <1>2 DEF CallsOnce, Called
    <2>4. CASE feeds = {}
      BY <2>1, <2>2, <2>4, SetToSeqOfNone, OutputsAnswer
    <2>5. CASE feeds # {}
      <3>1. PICK req : req \in c.then.feed /\ feeds = {[req |-> req, then |-> Outputs!Silently]}
        BY <2>3, <2>5 DEF AtMostOne
      <3>2. sent = <<>> \/ sent = <<[req |-> req, then |-> Outputs!Silently]>>
        BY <2>2, <3>1, SetToSeqOfOne
      <3>3. Fine(req, Outputs!Silently)
        BY <2>3, <3>1 DEF Fine, Outputs!Silently
      <3> HIDE DEF feeds
      <3> QED BY <2>1, <2>2, <3>2, <3>3, OutputsAnswer
    <2> QED BY <2>4, <2>5
  <1>3. ASSUME Outputs!HearOther(c) PROVE Talks /\ DialogSteps
    <2>1. DialogSteps
      BY <1>3 DEF Outputs!HearOther, DialogSteps, Paged, AsItIs
    <2>2. Outputs!Q!Answer(c, c.state = "done", <<>>)
      BY <1>3 DEF Outputs!HearOther
    <2> QED BY <2>1, <2>2, OutputsAnswer
  <1> QED BY <1>1, <1>2, <1>3 DEF Outputs!HearAnswer

LEMMA OutputsElsewhere ==
  ASSUME CallsOnce, Outputs!Elsewhere
  PROVE  (Talks \/ Settles \/ Reads \/ ServesAnother) /\ (InOrder => Counts)
  <1>1. ASSUME NEW c \in calls, Outputs!Q!Serve(c) PROVE Settles /\ (InOrder => Counts)
    <2> DEFINE refused == [c EXCEPT !.state = "refused"]
               done(r) == [c EXCEPT !.state = "done", !.at = written + 1, !.id = r.id, !.reply = r.reply]
    <2>1. DOMAIN c = {"n", "req", "then", "state", "at", "id", "reply"}
      BY DEF CallsOnce, Called
    <2>2. DOMAIN refused = DOMAIN c /\ refused.n = c.n /\ refused.req = c.req /\ refused.then = c.then
          /\ refused.state = "refused" /\ refused.at = c.at
      BY <2>1
    <2>3. \A r : /\ DOMAIN done(r) = DOMAIN c /\ done(r).n = c.n /\ done(r).req = c.req /\ done(r).then = c.then
                 /\ done(r).state = "done" /\ done(r).at = written + 1
      BY <2>1
    <2>4. c.state = "sent" /\ UNCHANGED <<made, others, told, fetch, view>>
      BY <1>1 DEF Outputs!Q!Serve
    <2>5. \/ calls' = (calls \ {c}) \cup {refused} /\ UNCHANGED <<stored, written>>
          \/ \E r \in ApplyPatch(c.req, stored) :
               calls' = (calls \ {c}) \cup {done(r)} /\ stored' = r.store /\ written' = written + 1
      BY <1>1, OutputsApplyPatch DEF Outputs!Q!Serve
    <2> HIDE DEF refused, done
    <2>6. InOrder => Ends(Now, Now')
      BY <2>1, <2>2, <2>3, <2>4, <2>5 DEF Ends, Now, CallFields
    <2> QED BY <2>2, <2>3, <2>4, <2>5, <2>6 DEF Settles, Counts, Steps, InOrder
  <1>2. ASSUME NEW c \in calls, Outputs!Q!Lose(c) PROVE Settles /\ (InOrder => Counts)
    <2> DEFINE lost == [c EXCEPT !.state = "lost"]
    <2>1. DOMAIN lost = DOMAIN c /\ lost.n = c.n /\ lost.req = c.req /\ lost.then = c.then
          /\ lost.state = "lost" /\ lost.at = c.at
      BY DEF CallsOnce, Called
    <2>2. calls' = (calls \ {c}) \cup {lost} /\ UNCHANGED <<stored, made, others, written, told, fetch, view>>
      BY <1>2 DEF Outputs!Q!Lose
    <2> HIDE DEF lost
    <2>3. Ends(Now, Now')
      BY <2>1, <2>2 DEF Ends, Now, CallFields, CallsOnce, Called
    <2> QED BY <2>1, <2>2, <2>3 DEF Settles, Counts, Steps, InOrder
  <1>3. ASSUME Outputs!Q!ReadStore \/ Outputs!Q!LoseRead \/ Outputs!Q!Focus PROVE Reads /\ (InOrder => Counts)
    <2>1. Reads
      BY <1>3 DEF Outputs!Q!ReadStore, Outputs!Q!LoseRead, Outputs!Q!Focus, Outputs!Q!Asked, Reads
    <2>2. UNCHANGED <<stored, made, others, written, told, calls, view>>
      BY <1>3 DEF Outputs!Q!ReadStore, Outputs!Q!LoseRead, Outputs!Q!Focus
    <2>3. InOrder /\ Outputs!Q!ReadStore => IsRead(Now, Now')
      <3> SUFFICES ASSUME Outputs!Q!ReadStore PROVE IsRead(Now, Now')
        OBVIOUS
      <3>1. PICK g \in fetch : fetch' = (fetch \ {g}) \cup {[phase |-> "read", data |-> stored, at |-> written]}
        BY DEF Outputs!Q!ReadStore
      <3> DEFINE h == [phase |-> "read", data |-> stored, at |-> written]
      <3>2. h.phase = "read" /\ h.at = written /\ fetch' = (fetch \ {g}) \cup {h}
        BY <3>1
      <3> HIDE DEF h
      <3> QED BY <2>2, <3>2 DEF IsRead, Now
    <2>4. InOrder /\ (Outputs!Q!LoseRead \/ Outputs!Q!Focus) => AsksAgain
      BY DEF Outputs!Q!LoseRead, Outputs!Q!Focus, Outputs!Q!Asked, InOrder, Ordered, Now, AsksAgain
    <2> QED BY <1>3, <2>1, <2>2, <2>3, <2>4, StillCounts DEF Counts, Steps, InOrder
  <1>4. ASSUME NEW req \in PatchOthers, Outputs!Q!OtherClient(req) PROVE ServesAnother /\ (InOrder => Counts)
    <2>1. ServesAnother
      BY <1>4, OutputsApplyPatch, OthersAssumption DEF Outputs!Q!OtherClient, ServesAnother
    <2>2. IsServed(Now, Now', MaxOthers)
      BY <1>4 DEF Outputs!Q!OtherClient, IsServed, Now
    <2> QED BY <1>4, <2>1, <2>2 DEF Counts, Steps, InOrder, Outputs!Q!OtherClient
  <1> QED BY <1>1, <1>2, <1>3, <1>4 DEF Outputs!Elsewhere

LEMMA OutputsNext ==
  ASSUME tab = "outputs", CallsOnce, IdsKnown, Paged, Fits(page.phone), Outputs!Next
  PROVE  QueryStep /\ DialogSteps /\ (InOrder => Counts)
  <1>1. ASSUME NEW view1, Outputs!ShowView(view1) PROVE Quiet /\ DialogSteps
    BY <1>1 DEF Outputs!ShowView, Outputs!LeaveSheet, Outputs!LeaveCanvas, Outputs!NoDialog, DialogSteps, Quiet, Outputs!queryVars, Paged, AsItIs
  <1>2. ASSUME Outputs!ViewArrives PROVE Shows /\ DialogSteps /\ (InOrder => Counts)
    <2>1. DialogSteps
      <3>1. page' = page \/ page' = [page EXCEPT !.phone = Outputs!NoPhone]
        BY <1>2 DEF Outputs!ViewArrives
      <3>2. Fits(Outputs!NoPhone)
        BY DEF Fits, Chosen, Outputs!NoPhone, AtMostOne
      <3> QED BY <3>1, <3>2 DEF DialogSteps, Paged
    <2>2. Shows
      BY <1>2 DEF Outputs!ViewArrives, Outputs!Q!Arrive, Outputs!Q!ArriveShowing, Shows
    <2>3. /\ \E g \in fetch : g.phase = "read" /\ view' = [data |-> g.data, at |-> g.at] /\ fetch' = fetch \ {g}
          /\ UNCHANGED <<stored, made, others, written, told, calls>>
      BY <1>2 DEF Outputs!ViewArrives, Outputs!Q!Arrive, Outputs!Q!ArriveShowing
    <2>4. IsShown(Now, Now') /\ DOMAIN view' = {"data", "at"}
      BY <2>3 DEF IsShown, Now
    <2> QED BY <2>1, <2>2, <2>4 DEF Counts, Steps
  <1>3. ASSUME Outputs!Elsewhere, UNCHANGED page PROVE QueryStep /\ DialogSteps /\ (InOrder => Counts)
    BY <1>3, OutputsElsewhere DEF QueryStep, DialogSteps, Paged, AsItIs
  <1>4. (Talks \/ Quiet) /\ InOrder => Counts
    BY StillCounts DEF Talks, Quiet, AsksAgain
  <1> QED BY <1>1, <1>2, <1>3, <1>4, OutputsSheet, OutputsCanvas, OutputsDialogs, OutputsPhone, OutputsHear DEF Outputs!Next, QueryStep
-----------------------------------------------------------------------------
(* Inductive on a tab of the patch: whatever copy of a cable a page has, in  *)
(* what it shows, in a GET on its way, in a dialog or in a request of one,   *)
(* is of a cable that is gone for good or still has those ends.              *)

DialogInv == OnPatch =>
  /\ IsPatch(stored) /\ stored.next \in Nat
  /\ AllThemselves(Cables(Side, stored), Side, stored)
  /\ AllThemselves(Cables(Side, view.data), Side, stored)
  /\ \A g \in fetch : g.phase = "read" => AllThemselves(Cables(Side, g.data), Side, stored)
  /\ Paged /\ Fits(page.phone)
  /\ page.dialog.kind \in {"info", "hop"} => StillItself(page.dialog.cable, Side, stored)
  /\ CallsOnce
  /\ \A c \in calls : c.then.kind = "cable" => StillItself(c.then.cable, Side, stored)

\* Every graph opened on gives each id once.
LEMMA DialogInit == Init => DialogInv
  <1>1. ASSUME NEW start \in InputStarts \cup OutputStarts, stored = start.patch, view.data = start.patch, fetch = {},
               calls = {}, made = start.spent, page.dialog = [kind |-> "none"], Paged, Fits(page.phone)
        PROVE  DialogInv
    <2>1. IsPatch(stored) /\ stored.next \in Nat /\ made \in Nat
      BY <1>1, StartsAssumption
    <2>2. Side \in {"in", "out"}
      BY DEF Side
    <2>3. IdsGivenOnce(Cables(Side, stored), stored.next)
      BY <1>1, <2>2, StartsAssumption
    <2>4. AllThemselves(Cables(Side, stored), Side, stored)
      BY <2>3 DEF IdsGivenOnce, AllThemselves, StillItself
    <2>5. CallsOnce
      BY <1>1, <2>1 DEF CallsOnce
    <2> QED BY <1>1, <2>1, <2>4, <2>5 DEF DialogInv
  <1>2. tab = "inputs" /\ Inputs!Init => DialogInv
    <2> SUFFICES ASSUME tab = "inputs", Inputs!Init PROVE DialogInv
      BY DEF DialogInv, OnPatch
    <2>1. PICK start \in InputStarts : Inputs!Q!Opened(start.patch, start.spent) /\ page = Inputs!NewPage(start.views, start.readOnly)
      BY DEF Inputs!Init
    <2>2. Paged /\ page.phone = Inputs!NoPhone /\ page.dialog = [kind |-> "none"]
      BY <2>1 DEF Inputs!NewPage, Inputs!NoDialog, Paged
    <2>3. Fits(page.phone)
      BY <2>2 DEF Fits, Chosen, Inputs!NoPhone, Inputs!NoRouting, RoutingFits, AtMostOne
    <2> QED BY <1>1, <2>1, <2>2, <2>3 DEF Inputs!Q!Opened, Inputs!Q!Idle
  <1>3. tab = "outputs" /\ Outputs!Init => DialogInv
    <2> SUFFICES ASSUME tab = "outputs", Outputs!Init PROVE DialogInv
      BY DEF DialogInv, OnPatch
    <2>1. PICK start \in OutputStarts : Outputs!Q!Opened(start.patch, start.spent) /\ page = Outputs!NewPage(start.views, start.readOnly)
      BY DEF Outputs!Init
    <2>2. Paged /\ page.phone = Outputs!NoPhone /\ page.dialog = [kind |-> "none"]
      BY <2>1 DEF Outputs!NewPage, Outputs!NoDialog, Paged
    <2>3. Fits(page.phone)
      BY <2>2 DEF Fits, Chosen, Outputs!NoPhone, AtMostOne
    <2> QED BY <1>1, <2>1, <2>2, <2>3 DEF Outputs!Q!Opened, Outputs!Q!Idle
  <1>4. tab = "plots" => DialogInv
    BY DEF DialogInv, OnPatch
  <1> QED BY <1>2, <1>3, <1>4 DEF Init

\* A step on a tab of the patch, in the words above.
LEMMA PatchStep ==
  ASSUME DialogInv, OnPatch, [Next]_vars
  PROVE  QueryStep /\ DialogSteps /\ UNCHANGED tab /\ (InOrder => Counts)
  <1>1. CallsOnce /\ IdsKnown /\ Paged /\ Fits(page.phone)
    BY DEF DialogInv, IdsKnown, AllThemselves, StillItself
  <1>2. CASE Next
    <2>1. (tab = "inputs" /\ Inputs!Next) \/ (tab = "outputs" /\ Outputs!Next)
      BY <1>2 DEF Next, OnPatch
    <2> QED BY <1>1, <1>2, <2>1, InputsNext, OutputsNext DEF Next
  <1>3. CASE UNCHANGED vars
    BY <1>1, <1>3, StillCounts DEF vars, QueryStep, Quiet, DialogSteps, AsksAgain, Paged, AsItIs
  <1> QED BY <1>2, <1>3

\* Calls keep their numbers, and a call that was not there is of a dialog or of none.
LEMMA CallsStep ==
  ASSUME CallsOnce, QueryStep, UNCHANGED tab
  PROVE  /\ CallsOnce'
         /\ \A c \in calls' : c.then.kind = "cable" =>
              OnDialog(c.then.cable) \/ \E d \in calls : d.then = c.then
  <1>1. \A c : Called(c)' <=> Called(c)
    BY DEF Called, Side, PlanFits, Chosen
  <1>2. CASE Talks
    <2>1. PICK new : /\ calls' \subseteq calls \cup new /\ made' \in Nat /\ made <= made'
                     /\ \A c, d \in new : c.n = d.n => c = d
                     /\ \A c \in new : /\ c.n \in made + 1 .. made' /\ Called(c)
                                       /\ c.then.kind = "cable" => OnDialog(c.then.cable)
      BY <1>2 DEF Talks
    <2>2. \A c \in calls : c.n \in 1 .. made'
      BY <2>1 DEF CallsOnce
    <2>3. \A c, d \in calls' : c.n = d.n => c = d
      BY <2>1 DEF CallsOnce
    <2>4. \A c \in calls' : c.n \in 1 .. made' /\ Called(c)
      BY <2>1, <2>2 DEF CallsOnce
    <2>5. CallsOnce'
      BY <1>1, <2>1, <2>3, <2>4 DEF CallsOnce
    <2> QED BY <2>1, <2>5
  <1>3. CASE Settles
    <2>1. PICK c \in calls : \E d : /\ calls' = (calls \ {c}) \cup {d} /\ DOMAIN d = DOMAIN c /\ d.n = c.n
                                    /\ d.req = c.req /\ d.then = c.then /\ UNCHANGED made
      BY <1>3 DEF Settles
    <2>2. PICK d : /\ calls' = (calls \ {c}) \cup {d} /\ DOMAIN d = DOMAIN c /\ d.n = c.n
                   /\ d.req = c.req /\ d.then = c.then /\ UNCHANGED made
      BY <2>1
    <2>3. Called(d) /\ d.n \in 1 .. made
      BY <2>2 DEF CallsOnce, Called
    <2>4. \A a, b \in calls' : a.n = b.n => a = b
      BY <2>2 DEF CallsOnce
    <2>5. \A a \in calls' : a.n \in 1 .. made /\ Called(a)
      BY <2>2, <2>3 DEF CallsOnce
    <2>6. CallsOnce'
      BY <1>1, <2>2, <2>4, <2>5 DEF CallsOnce
    <2> QED BY <2>2, <2>6
  <1>4. CASE Reads \/ Shows \/ ServesAnother \/ Quiet
    <2>1. UNCHANGED <<made, calls>>
      BY <1>4 DEF Reads, Shows, ServesAnother, Quiet
    <2>2. CallsOnce'
      BY <1>1, <2>1 DEF CallsOnce
    <2> QED BY <2>1, <2>2
  <1> QED BY <1>2, <1>3, <1>4 DEF QueryStep

\* A copy of a cable is made of what is shown, read or asked with, and keeps what it had.
LEMMA DialogNext == DialogInv /\ [Next]_vars => DialogInv'
  <1> SUFFICES ASSUME DialogInv, [Next]_vars, OnPatch'
               PROVE  DialogInv'
    BY DEF DialogInv
  <1>1. UNCHANGED tab
    BY DEF Next, vars
  <1>2. OnPatch
    BY <1>1 DEF OnPatch
  <1>3. QueryStep /\ DialogSteps
    BY <1>2, PatchStep
  <1>4. Side' = Side /\ Side \in {"in", "out"}
    BY <1>1 DEF Side
  <1>5. /\ IsPatch(stored) /\ stored.next \in Nat
        /\ AllThemselves(Cables(Side, stored), Side, stored)
        /\ AllThemselves(Cables(Side, view.data), Side, stored)
        /\ \A g \in fetch : g.phase = "read" => AllThemselves(Cables(Side, g.data), Side, stored)
        /\ Paged /\ Fits(page.phone)
        /\ page.dialog.kind \in {"info", "hop"} => StillItself(page.dialog.cable, Side, stored)
        /\ CallsOnce
        /\ \A c \in calls : c.then.kind = "cable" => StillItself(c.then.cable, Side, stored)
    BY <1>2 DEF DialogInv
  <1>6. /\ stored'.next \in Nat
        /\ AllThemselves(Cables(Side, stored'), Side, stored')
        /\ \A x : StillItself(x, Side, stored) => StillItself(x, Side, stored')
    <2>1. UNCHANGED stored \/ \E req : \E r \in ApplyPatch(req, stored) : stored' = r.store
      BY <1>3 DEF QueryStep, Talks, Settles, Reads, Shows, ServesAnother, Quiet
    <2> QED BY <1>4, <1>5, <2>1, EndsStay
  <1>7. IsPatch(stored')
    <2>1. UNCHANGED stored \/ \E req : \E r \in ApplyPatch(req, stored) : stored' = r.store
      BY <1>3 DEF QueryStep, Talks, Settles, Reads, Shows, ServesAnother, Quiet
    <2> QED BY <1>5, <2>1, PatchStays
  <1>8. view' = view \/ \E g \in fetch : g.phase = "read" /\ view'.data = g.data
    BY <1>3 DEF QueryStep, Talks, Settles, Reads, Shows, ServesAnother, Quiet
  <1>9. AllThemselves(Cables(Side, view'.data), Side, stored')
    BY <1>5, <1>6, <1>8 DEF AllThemselves
  <1>10. \A g \in fetch' : g \in fetch \/ g.phase = "asked" \/ g.data = stored
    BY <1>3 DEF QueryStep, Talks, Settles, Reads, Shows, ServesAnother, Quiet
  <1>11. \A g \in fetch' : g.phase = "read" => AllThemselves(Cables(Side, g.data), Side, stored')
    BY <1>5, <1>6, <1>10 DEF AllThemselves
  <1>12. /\ Paged' /\ Fits(page'.phone)
         /\ page'.dialog.kind \in {"info", "hop"} => StillItself(page'.dialog.cable, Side, stored')
    BY <1>3, <1>5, <1>6 DEF DialogSteps, AllThemselves, Paged, AsItIs
  <1>13. /\ CallsOnce'
         /\ \A c \in calls' : c.then.kind = "cable" => StillItself(c.then.cable, Side, stored')
    <2>1. /\ CallsOnce'
          /\ \A c \in calls' : c.then.kind = "cable" =>
               OnDialog(c.then.cable) \/ \E d \in calls : d.then = c.then
      BY <1>1, <1>3, <1>5, CallsStep
    <2> QED BY <1>5, <1>6, <2>1 DEF OnDialog
  <1>14. Fits(page.phone)'
    BY <1>1, <1>12 DEF Fits, Chosen
  <1> QED BY <1>4, <1>6, <1>7, <1>9, <1>11, <1>12, <1>13, <1>14 DEF DialogInv

\* So what a request of a dialog finds by the id is the cable the dialog showed.
LEMMA OnlyItsCable ==
  ASSUME DialogInv, [Next]_vars
  PROVE  DialogsTouchTheirCableStep
  <1> SUFFICES ASSUME OnPatch, NEW call \in Served, call.then.kind = "cable",
                      NEW c \in stored.inCables \cup stored.outCables, c \notin (stored.inCables \cup stored.outCables)'
               PROVE  c.from = call.then.cable.from /\ c.to = call.then.cable.to
    BY DEF DialogsTouchTheirCableStep
  <1>1. QueryStep
    BY PatchStep
  <1>2. /\ call \in calls /\ call.state = "sent"
        /\ \E d \in calls' : d.n = call.n /\ d.state = "done"
    BY DEF Served
  <1>3. IsPatch(stored) /\ CallsOnce /\ StillItself(call.then.cable, Side, stored)
    BY <1>2 DEF DialogInv
  <1>4. /\ call.req.op \in {"updateCable", "deleteCable"} /\ call.req.side = Side
        /\ call.req.id = call.then.cable.id
    BY <1>2, <1>3 DEF CallsOnce, Called
  <1>5. \E r \in ApplyPatch(call.req, stored) : stored' = r.store
    <2>1. stored' # stored
      OBVIOUS
    <2>2. CASE Settles
      <3>1. PICK b \in calls : \E d : /\ calls' = (calls \ {b}) \cup {d} /\ d.n = b.n
                                      /\ UNCHANGED stored \/ \E r \in ApplyPatch(b.req, stored) : stored' = r.store
        BY <2>2 DEF Settles
      <3>2. \E r \in ApplyPatch(b.req, stored) : stored' = r.store
        BY <2>1, <3>1
      <3>3. b = call
        <4>1. PICK d \in calls' : d.n = call.n /\ d.state = "done"
          BY <1>2
        <4>2. d \in calls => d = call
          BY <1>2, <1>3, <4>1 DEF CallsOnce
        <4>3. d \notin calls
          BY <1>2, <4>1, <4>2
        <4> QED BY <1>2, <1>3, <3>1, <4>1, <4>3 DEF CallsOnce
      <3> QED BY <3>2, <3>3
    <2>3. CASE ServesAnother
      BY <1>2, <1>3, <2>3 DEF ServesAnother, CallsOnce
    <2> QED BY <1>1, <2>1, <2>2, <2>3 DEF QueryStep, Talks, Reads, Shows, Quiet
  <1>6. PICK r \in ApplyPatch(call.req, stored) : stored' = r.store
    BY <1>5
  <1>7. PICK side \in {"in", "out"} : c \in Cables(side, stored) /\ c \notin Cables(side, r.store)
    BY <1>6 DEF Cables
  <1>8. Side \in {"in", "out"}
    BY DEF Side
  <1>9. side = Side /\ c.id = call.then.cable.id
    BY <1>3, <1>4, <1>7, <1>8, OnlyThatCable
  <1> QED BY <1>3, <1>7, <1>9 DEF StillItself

\* For any patches, any drafts and any other clients: a request of a dialog changes or takes
\* out none but the cable the dialog showed, however long it was open and whatever was put
\* in meanwhile (InputGraphCanvas.tsx and ChainCell.tsx ask by the id of a cable, and no id
\* is given again).
THEOREM DialogsAlwaysTouchTheirCable == Spec => DialogsTouchTheirCable
  <1>1. DialogInv /\ [Next]_vars => DialogsTouchTheirCableStep
    BY OnlyItsCable
  <1>2. UNCHANGED vars => DialogsTouchTheirCableStep
    BY DEF vars, DialogsTouchTheirCableStep
  <1> QED BY <1>1, <1>2, DialogInit, DialogNext, PTL DEF Spec, DialogsTouchTheirCable
-----------------------------------------------------------------------------
(* Inductive on the tabs of the patch: the counters are in order, and every *)
(* cable of either graph was given its id.                                  *)

CountsInv == OnPatch => /\ InOrder /\ stored.next \in Nat
                        /\ \A side \in {"in", "out"} : AllThemselves(Cables(side, stored), side, stored)

LEMMA CountsInit == Init => CountsInv
  <1>1. ASSUME NEW start \in InputStarts \cup OutputStarts, made = start.spent, others = 0, written = 0, told = 0,
               calls = {}, fetch = {}, stored = start.patch, view = [data |-> start.patch, at |-> 0]
        PROVE  CountsInv
    <2>1. InOrder
      BY <1>1, StartsAssumption, OpensInOrder
    <2>2. stored.next \in Nat /\ \A side \in {"in", "out"} : IdsGivenOnce(Cables(side, stored), stored.next)
      BY <1>1, StartsAssumption
    <2>3. \A side \in {"in", "out"} : AllThemselves(Cables(side, stored), side, stored)
      BY <2>2 DEF IdsGivenOnce, AllThemselves, StillItself
    <2> QED BY <2>1, <2>2, <2>3 DEF CountsInv
  <1>2. Inputs!Init => CountsInv
    BY <1>1 DEF Inputs!Init, Inputs!Q!Opened, Inputs!Q!Idle
  <1>3. Outputs!Init => CountsInv
    BY <1>1 DEF Outputs!Init, Outputs!Q!Opened, Outputs!Q!Idle
  <1>4. tab = "plots" => CountsInv
    BY DEF CountsInv, OnPatch
  <1> QED BY <1>2, <1>3, <1>4 DEF Init

LEMMA CountsNext == CountsInv /\ DialogInv /\ [Next]_vars => CountsInv'
  <1> SUFFICES ASSUME CountsInv, DialogInv, [Next]_vars, OnPatch' PROVE CountsInv'
    BY DEF CountsInv
  <1>1. OnPatch
    BY DEF OnPatch, Next, vars
  <1>2. QueryStep /\ (InOrder => Counts)
    BY <1>1, PatchStep
  <1>3. /\ InOrder /\ stored.next \in Nat /\ IsPatch(stored)
        /\ \A side \in {"in", "out"} : AllThemselves(Cables(side, stored), side, stored)
    BY <1>1 DEF CountsInv, DialogInv
  <1>4. InOrder'
    BY <1>2, <1>3, StepsInOrder
  <1>5. UNCHANGED stored \/ \E req : \E r \in ApplyPatch(req, stored) : stored' = r.store
    BY <1>2 DEF QueryStep, Talks, Settles, Reads, Shows, ServesAnother, Quiet
  <1>6. /\ stored'.next \in Nat
        /\ \A side \in {"in", "out"} : AllThemselves(Cables(side, stored'), side, stored')
    BY <1>3, <1>5, EndsStay
  <1> QED BY <1>4, <1>6 DEF CountsInv

LEMMA CountsHold == Spec => []CountsInv
  BY CountsInit, CountsNext, DialogInit, DialogNext, PTL DEF Spec
-----------------------------------------------------------------------------
(* The counts of a box.  Its row is changed by one request alone, and that  *)
(* one carries a place or counts, never both: what moves a box leaves its   *)
(* counts where the server has them.                                        *)

\* From `s` to `t` the boxes stay rows by their ids, and those that moved have their counts.
BoxesMove(s, t) ==
  /\ BoxesStand(t)
  /\ \A b \in s.boxes : \A d \in t.boxes : d.id = b.id /\ d.pos # b.pos => d.ins = b.ins /\ d.outs = b.outs

LEMMA NoNewBoxes ==
  ASSUME NEW s, BoxesStand(s), NEW t, t.boxes \subseteq s.boxes
  PROVE  BoxesMove(s, t)
  BY DEF BoxesStand, BoxesMove

LEMMA UpdateBoxMoves ==
  ASSUME NEW req, req.op = "updateBox", MovesAlone(req), NEW s, IsPatch(s), BoxesStand(s),
         NEW r \in UpdateBox(req, s)
  PROVE  BoxesMove(s, r.store)
  <1>1. PICK x \in Row(s.boxes, req.id) :
          r \in Done([s EXCEPT !.boxes = Put(@, [f \in DOMAIN x |-> IF f \in DOMAIN req.fields THEN req.fields[f] ELSE x[f]])])
    BY DEF UpdateBox
  <1> DEFINE row == [f \in DOMAIN x |-> IF f \in DOMAIN req.fields THEN req.fields[f] ELSE x[f]]
  <1>2. r.store = [s EXCEPT !.boxes = Put(s.boxes, row)]
    BY <1>1 DEF Done
  <1>3. x \in s.boxes /\ {"id", "pos", "ins", "outs"} \subseteq DOMAIN x /\ \A d \in s.boxes : d.id = x.id => d = x
    BY DEF Row, BoxesStand
  <1>4. DOMAIN row = DOMAIN x
    OBVIOUS
  <1>5. row.id = x.id /\ (row.pos # x.pos => row.ins = x.ins /\ row.outs = x.outs)
    <2>1. CASE DOMAIN req.fields = {"pos"}
      BY <1>3, <2>1
    <2>2. CASE DOMAIN req.fields \cap {"id", "pos"} = {}
      <3>1. "id" \notin DOMAIN req.fields /\ "pos" \notin DOMAIN req.fields
        BY <2>2
      <3>2. row.id = x.id /\ row.pos = x.pos
        BY <1>3, <3>1
      <3> HIDE DEF row
      <3> QED BY <3>2
    <2> QED BY <2>1, <2>2 DEF MovesAlone
  <1> HIDE DEF row
  <1>6. r.store.boxes = Put(s.boxes, row)
    BY <1>2 DEF IsPatch, PatchFields
  <1>7. \A d \in r.store.boxes : (d \in s.boxes /\ d.id # x.id) \/ d = row
    BY <1>5, <1>6 DEF Put
  <1>8. BoxesStand(r.store)
    <2>1. \A d \in r.store.boxes : {"id", "pos", "ins", "outs"} \subseteq DOMAIN d
      BY <1>3, <1>4, <1>7 DEF BoxesStand
    <2>2. \A b, d \in r.store.boxes : d.id = b.id => d = b
      BY <1>5, <1>7 DEF BoxesStand
    <2> QED BY <2>1, <2>2 DEF BoxesStand
  <1>9. ASSUME NEW b \in s.boxes, NEW d \in r.store.boxes, d.id = b.id, d.pos # b.pos
        PROVE  d.ins = b.ins /\ d.outs = b.outs
    <2>1. CASE d \in s.boxes
      BY <1>9, <2>1 DEF BoxesStand
    <2>2. CASE d = row
      BY <1>3, <1>5, <1>9, <2>2
    <2> QED BY <1>7, <2>1, <2>2
  <1> QED BY <1>8, <1>9 DEF BoxesMove

\* A store made of `s` by other rows than those of boxes.
SameBoxes(s, r) == \E t : /\ DOMAIN t = PatchFields /\ t.boxes \subseteq s.boxes
                          /\ r \in Done(t) \cup Made(t)

LEMMA OfSameBoxes ==
  ASSUME NEW s, NEW r, SameBoxes(s, r)
  PROVE  r.store.boxes \subseteq s.boxes
  <1>1. PICK t : DOMAIN t = PatchFields /\ t.boxes \subseteq s.boxes /\ r \in Done(t) \cup Made(t)
    BY DEF SameBoxes
  <1>2. r.store = t \/ r.store = [t EXCEPT !.next = t.next + 1]
    BY <1>1, MadeStore DEF Done
  <1>3. r.store.boxes = t.boxes
    BY <1>1, <1>2 DEF PatchFields
  <1> QED BY <1>1, <1>3

LEMMA RowsElsewhere ==
  ASSUME NEW s, IsPatch(s), NEW f \in PatchFields \ {"boxes"}, NEW rows, NEW r,
         r \in Done([s EXCEPT ![f] = rows]) \cup Made([s EXCEPT ![f] = rows])
  PROVE  SameBoxes(s, r)
  <1> DEFINE t == [s EXCEPT ![f] = rows]
  <1>1. DOMAIN t = PatchFields /\ t.boxes = s.boxes
    BY DEF IsPatch, PatchFields
  <1>2. r \in Done(t) \cup Made(t)
    OBVIOUS
  <1> HIDE DEF t
  <1> QED BY <1>1, <1>2 DEF SameBoxes

LEMMA CablesElsewhere ==
  ASSUME NEW s, IsPatch(s), NEW side, NEW new, NEW r,
         r \in Done(WithCables(side, s, new)) \cup Made(WithCables(side, s, new))
  PROVE  SameBoxes(s, r)
  <1>1. DOMAIN WithCables(side, s, new) = PatchFields /\ WithCables(side, s, new).boxes = s.boxes
    BY DEF WithCables, IsPatch, PatchFields
  <1> QED BY <1>1 DEF SameBoxes

\* A row that goes with its cables, a box among them.
LEMMA RowsGone ==
  ASSUME NEW s, IsPatch(s), NEW t, DOMAIN t = PatchFields, t.boxes \subseteq s.boxes, NEW r \in Done(t)
  PROVE  SameBoxes(s, r)
  BY DEF SameBoxes

\* Every request but one leaves the boxes, or takes one out.
LEMMA OthersMakeNoBoxes ==
  ASSUME NEW req, NEW s, IsPatch(s), NEW r \in ApplyPatch(req, s), req.op # "updateBox"
  PROVE  SameBoxes(s, r)
  <1>1. CASE r \in CreateCable(req, s)
    BY <1>1, CablesElsewhere DEF CreateCable
  <1>2. CASE r \in UpdateCable(req, s)
    <2>1. PICK c \in Row(Cables(req.side, s), req.id) :
            r \in Done(WithCables(req.side, s, Put(Cables(req.side, s), [c EXCEPT !.item = req.item])))
      BY <1>2 DEF UpdateCable
    <2> DEFINE new == Put(Cables(req.side, s), [c EXCEPT !.item = req.item])
    <2> HIDE DEF new
    <2> QED BY <2>1, CablesElsewhere DEF new
  <1>3. CASE r \in DeleteCable(req, s)
    BY <1>3, CablesElsewhere DEF DeleteCable
  <1>4. CASE r \in CreateSource(req, s)
    <2>1. PICK rows : r \in Done([s EXCEPT !["sources"] = rows]) \cup Made([s EXCEPT !["sources"] = rows])
      BY <1>4 DEF CreateSource
    <2> QED BY <2>1, RowsElsewhere DEF PatchFields
  <1>5. CASE r \in UpdateSource(req, s)
    <2>1. PICK rows : r \in Done([s EXCEPT !["sources"] = rows]) \cup Made([s EXCEPT !["sources"] = rows])
      BY <1>5 DEF UpdateSource
    <2> QED BY <2>1, RowsElsewhere DEF PatchFields
  <1>6. CASE r \in CreateChannel(req, s)
    <2>1. PICK rows : r \in Done([s EXCEPT !["channels"] = rows]) \cup Made([s EXCEPT !["channels"] = rows])
      BY <1>6 DEF CreateChannel
    <2> QED BY <2>1, RowsElsewhere DEF PatchFields
  <1>7. CASE r \in UpdateChannel(req, s)
    <2>1. PICK rows : r \in Done([s EXCEPT !["channels"] = rows]) \cup Made([s EXCEPT !["channels"] = rows])
      BY <1>7 DEF UpdateChannel
    <2> QED BY <2>1, RowsElsewhere DEF PatchFields
  <1>8. CASE r \in UpdateMulti(req, s)
    <2>1. PICK rows : r \in Done([s EXCEPT !["multis"] = rows]) \cup Made([s EXCEPT !["multis"] = rows])
      BY <1>8 DEF UpdateMulti
    <2> QED BY <2>1, RowsElsewhere DEF PatchFields
  <1>9. CASE r \in CreateOutput(req, s)
    <2>1. PICK rows : r \in Done([s EXCEPT !["outputs"] = rows]) \cup Made([s EXCEPT !["outputs"] = rows])
      BY <1>9 DEF CreateOutput
    <2> QED BY <2>1, RowsElsewhere DEF PatchFields
  <1>10. CASE r \in UpdateOutput(req, s)
    <2>1. PICK o \in Row(s.outputs, req.id) : \E desk : r \in Done([s EXCEPT !.outputs = Put(@, OutputSent(req, o, desk))])
      BY <1>10 DEF UpdateOutput
    <2>2. PICK desk : r \in Done([s EXCEPT !["outputs"] = Put(s.outputs, OutputSent(req, o, desk))])
      BY <2>1
    <2> QED BY <2>2, RowsElsewhere DEF PatchFields
  <1>11. CASE r \in SetFedBy(req, s)
    <2>1. PICK rows : r \in Done([s EXCEPT !["outputs"] = rows]) \cup Made([s EXCEPT !["outputs"] = rows])
      BY <1>11 DEF SetFedBy
    <2> QED BY <2>1, RowsElsewhere DEF PatchFields
  <1>12. CASE r \in DeleteOutput(req, s)
    <2>1. PICK rows : r \in Done([s EXCEPT !["outputs"] = rows]) \cup Made([s EXCEPT !["outputs"] = rows])
      BY <1>12 DEF DeleteOutput
    <2> QED BY <2>1, RowsElsewhere DEF PatchFields
  <1>13. CASE r \in UpdateOutputDevice(req, s)
    <2>1. PICK rows : r \in Done([s EXCEPT !["outDevices"] = rows]) \cup Made([s EXCEPT !["outDevices"] = rows])
      BY <1>13 DEF UpdateOutputDevice
    <2> QED BY <2>1, RowsElsewhere DEF PatchFields
  <1>14. CASE r \in DeleteSource(req, s)
    <2>1. PICK x \in Row(s.sources, req.id) :
            r \in Done([s EXCEPT !.sources = @ \ {x}, !.inCables = @ \ OnNode(@, {"source"}, x.id)])
      BY <1>14 DEF DeleteSource
    <2> DEFINE t == [s EXCEPT !.sources = @ \ {x}, !.inCables = @ \ OnNode(@, {"source"}, x.id)]
    <2>2. DOMAIN t = PatchFields /\ t.boxes \subseteq s.boxes
      BY DEF IsPatch, PatchFields
    <2> HIDE DEF t
    <2> QED BY <2>1, <2>2, RowsGone DEF t
  <1>15. CASE r \in DeleteChannel(req, s)
    <2>1. PICK x \in Row(s.channels, req.id) :
            r \in Done([s EXCEPT !.channels = @ \ {x}, !.inCables = @ \ OnNode(@, {"channel"}, x.id)])
      BY <1>15 DEF DeleteChannel
    <2> DEFINE t == [s EXCEPT !.channels = @ \ {x}, !.inCables = @ \ OnNode(@, {"channel"}, x.id)]
    <2>2. DOMAIN t = PatchFields /\ t.boxes \subseteq s.boxes
      BY DEF IsPatch, PatchFields
    <2> HIDE DEF t
    <2> QED BY <2>1, <2>2, RowsGone DEF t
  <1>16. CASE r \in DeleteBox(req, s)
    <2>1. PICK x \in Row(s.boxes, req.id) :
            r \in Done([s EXCEPT !.boxes = @ \ {x}, !.inCables = @ \ OnNode(@, {"stagebox"}, x.id),
                                 !.outCables = @ \ OnNode(@, {"stagebox"}, x.id)])
      BY <1>16 DEF DeleteBox
    <2> DEFINE t == [s EXCEPT !.boxes = @ \ {x}, !.inCables = @ \ OnNode(@, {"stagebox"}, x.id),
                                 !.outCables = @ \ OnNode(@, {"stagebox"}, x.id)]
    <2>2. DOMAIN t = PatchFields /\ t.boxes \subseteq s.boxes
      BY DEF IsPatch, PatchFields
    <2> HIDE DEF t
    <2> QED BY <2>1, <2>2, RowsGone DEF t
  <1>17. CASE r \in DeleteOutputDevice(req, s)
    <2>1. PICK x \in Row(s.outDevices, req.id) :
            r \in Done([s EXCEPT !.outDevices = @ \ {x}, !.outCables = @ \ OnNode(@, {"device", "device_link"}, x.id)])
      BY <1>17 DEF DeleteOutputDevice
    <2> DEFINE t == [s EXCEPT !.outDevices = @ \ {x}, !.outCables = @ \ OnNode(@, {"device", "device_link"}, x.id)]
    <2>2. DOMAIN t = PatchFields /\ t.boxes \subseteq s.boxes
      BY DEF IsPatch, PatchFields
    <2> HIDE DEF t
    <2> QED BY <2>1, <2>2, RowsGone DEF t
  <1> QED BY <1>1, <1>2, <1>3, <1>4, <1>5, <1>6, <1>7, <1>8, <1>9, <1>10, <1>11, <1>12, <1>13,
            <1>14, <1>15, <1>16, <1>17 DEF ApplyPatch

LEMMA RequestsMoveAlone ==
  ASSUME NEW req, MovesAlone(req), NEW s, IsPatch(s), BoxesStand(s), NEW r \in ApplyPatch(req, s)
  PROVE  BoxesMove(s, r.store)
  <1>1. CASE req.op = "updateBox"
    <2>1. r \in UpdateBox(req, s)
      BY <1>1 DEF ApplyPatch
    <2> QED BY <1>1, <2>1, UpdateBoxMoves
  <1>2. CASE req.op # "updateBox"
    BY <1>2, OthersMakeNoBoxes, OfSameBoxes, NoNewBoxes
  <1> QED BY <1>1, <1>2

\* Inductive on the tabs of the patch, beside what the pages come to send.
BoxInv == OnPatch => BoxesStand(stored)

LEMMA BoxInit == Init => BoxInv
  <1>1. ASSUME NEW start \in InputStarts \cup OutputStarts, stored = start.patch PROVE BoxInv
    BY <1>1, StartsAssumption DEF BoxInv
  <1>2. Inputs!Init => BoxInv
    BY <1>1 DEF Inputs!Init, Inputs!Q!Opened
  <1>3. Outputs!Init => BoxInv
    BY <1>1 DEF Outputs!Init, Outputs!Q!Opened
  <1>4. tab = "plots" => BoxInv
    BY DEF BoxInv, OnPatch
  <1> QED BY <1>2, <1>3, <1>4 DEF Init

LEMMA BoxNext ==
  ASSUME BoxInv, DialogInv, [Next]_vars, OnPatch
  PROVE  BoxesMove(stored, stored')
  <1>1. QueryStep
    BY PatchStep
  <1>2. IsPatch(stored) /\ BoxesStand(stored) /\ CallsOnce
    BY DEF BoxInv, DialogInv
  <1>3. UNCHANGED stored \/ \E req : MovesAlone(req) /\ \E r \in ApplyPatch(req, stored) : stored' = r.store
    <2>1. CASE Settles
      <3>1. PICK c \in calls : UNCHANGED stored \/ \E r \in ApplyPatch(c.req, stored) : stored' = r.store
        BY <2>1 DEF Settles
      <3>2. MovesAlone(c.req)
        BY <1>2 DEF CallsOnce, Called
      <3> QED BY <3>1, <3>2
    <2>2. CASE ServesAnother
      BY <2>2 DEF ServesAnother
    <2> QED BY <1>1, <2>1, <2>2 DEF QueryStep, Talks, Reads, Shows, Quiet
  <1>4. CASE UNCHANGED stored
    <2>1. BoxesMove(stored, stored)
      BY <1>2, NoNewBoxes
    <2> QED BY <1>4, <2>1
  <1>5. CASE \E req : MovesAlone(req) /\ \E r \in ApplyPatch(req, stored) : stored' = r.store
    BY <1>2, <1>5, RequestsMoveAlone
  <1> QED BY <1>3, <1>4, <1>5

\* For any patches, any drafts and other clients that are this program: no step leaves a box
\* in another place with other counts, so dragging one never brings back counts its page had
\* from before (InputGraphCanvas.tsx and AudioOutputsTab.tsx persistPosition send the place
\* alone, StageboxSection.tsx the counts alone, and the server changes what it is sent).
THEOREM BoxMovesAlwaysKeepCounts == Spec => BoxMovesKeepCounts
  <1> DEFINE Step == OnPatch => \A b \in stored.boxes : \A d \in stored'.boxes :
                       d.id = b.id /\ d.pos # b.pos => d.ins = b.ins /\ d.outs = b.outs
  <1>1. BoxInv /\ DialogInv /\ [Next]_vars => BoxInv'
    <2> SUFFICES ASSUME BoxInv, DialogInv, [Next]_vars, OnPatch' PROVE BoxesStand(stored)'
      BY DEF BoxInv
    <2>1. OnPatch
      BY DEF OnPatch, Next, vars
    <2> QED BY <2>1, BoxNext DEF BoxesMove, BoxesStand
  <1>2. BoxInv /\ DialogInv /\ [Next]_vars => Step
    BY BoxNext DEF BoxesMove
  <1>3. BoxMovesKeepCounts <=> [][Step]_vars
    BY DEF BoxMovesKeepCounts
  <1> HIDE DEF Step
  <1> QED BY <1>1, <1>2, <1>3, BoxInit, DialogInit, DialogNext, PTL DEF Spec
=============================================================================

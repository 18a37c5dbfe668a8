------------------------- MODULE EventSheets_proofs --------------------------
(***************************************************************************)
(* The rig, the desks and the lights of an event, whatever the sheets and  *)
(* other clients ask and in whatever order.                                *)
(*                                                                         *)
(* The rig: every cable on a device ends at a port the device has, and on  *)
(* a device that is there.  A request that leaves the devices alone and    *)
(* brings no cable cannot take a port from under one; five are left, of    *)
(* which one is looked at for every cable.  Nothing is assumed of what the *)
(* drawer sends.                                                           *)
(*                                                                         *)
(* The desks: the two programs that say what may be routed say the same,   *)
(* so that a square on offer is not refused; and a table of tracks loses   *)
(* none past the count.                                                    *)
(*                                                                         *)
(* Every sheet: its counters stay in order, handler by handler.  The       *)
(* lights, whose requests may wait for others: room is made first.         *)
(***************************************************************************)
EXTENDS EventSheets, PageCounts, WellFoundedInduction

-----------------------------------------------------------------------------
(* The store.                                                               *)

Sides == {"in", "out"}
CableFields == {"id", "from", "to", "item"}
Kept(s, t) == IsRig(t) /\ (Rig!CablesKeepPorts(s) => Rig!CablesKeepPorts(t))

\* No cable of `new` ends elsewhere than one of `old`.
SameEnds(old, new) ==
  \A c \in new : DOMAIN c = CableFields /\ \E d \in old : d.from = c.from /\ d.to = c.to

LEMMA FewerCables ==
  ASSUME NEW s, IsRig(s), NEW old \in {s.inCables, s.outCables}, NEW new, new \subseteq old
  PROVE  SameEnds(old, new)
  BY DEF IsRig, SameEnds, CableFields

\* Fewer cables and the devices there were.
LEMMA DevicesLeftAlone ==
  ASSUME NEW s, NEW t, IsRig(s), DOMAIN t = RigFields, t.next \in Nat, s.next <= t.next,
         t.inDevices = s.inDevices, t.outDevices = s.outDevices,
         SameEnds(s.inCables, t.inCables), SameEnds(s.outCables, t.outCables)
  PROVE  Kept(s, t)
  <1>1. IdsGivenOnce(t.inDevices, t.next) /\ IdsGivenOnce(t.outDevices, t.next)
    BY DEF IsRig, IdsGivenOnce
  <1>2. IsRig(t)
    BY <1>1 DEF IsRig, SameEnds, CableFields
  <1>3. ASSUME NEW side \in Sides, NEW c \in Rig!Cables(side, t)
        PROVE  \E d \in Rig!Cables(side, s) : d.from = c.from /\ d.to = c.to
    BY <1>3 DEF SameEnds, Rig!Cables
  <1>4. \A side \in Sides : Rig!Devices(side, t) = Rig!Devices(side, s)
    BY DEF Rig!Devices
  <1>5. ASSUME Rig!CablesKeepPorts(s) PROVE Rig!CablesKeepPorts(t)
    BY <1>3, <1>4, <1>5 DEF Rig!CablesKeepPorts, Rig!Keeps, Sides
  <1> QED BY <1>2, <1>5 DEF Kept

\* The fields of a rig that no cable ends on by its ports' number.
OtherFields == RigFields \ {"inDevices", "outDevices", "inCables", "outCables", "next"}

\* What leaves every field but `changed` as it was.
Same(s, t, changed) == DOMAIN t = RigFields /\ \A f \in RigFields \ changed : t[f] = s[f]

LEMMA OthersChanged ==
  ASSUME NEW s, NEW t, IsRig(s), Same(s, t, OtherFields)
  PROVE  Kept(s, t)
  <1>1. /\ t.inDevices = s.inDevices /\ t.outDevices = s.outDevices /\ t.next = s.next
        /\ t.inCables = s.inCables /\ t.outCables = s.outCables
    BY DEF Same, OtherFields, RigFields
  <1>2. SameEnds(s.inCables, t.inCables) /\ SameEnds(s.outCables, t.outCables)
    BY <1>1, FewerCables
  <1> QED BY <1>1, <1>2, DevicesLeftAlone DEF Same, IsRig

\* As above with cables taken out, of either graph.
LEMMA OthersAndCables ==
  ASSUME NEW s, NEW t, IsRig(s), Same(s, t, OtherFields \cup {"inCables", "outCables"}),
         t.inCables \subseteq s.inCables, t.outCables \subseteq s.outCables
  PROVE  Kept(s, t)
  <1>1. t.inDevices = s.inDevices /\ t.outDevices = s.outDevices /\ t.next = s.next
    BY DEF Same, OtherFields, RigFields
  <1>2. SameEnds(s.inCables, t.inCables) /\ SameEnds(s.outCables, t.outCables)
    BY FewerCables
  <1> QED BY <1>1, <1>2, DevicesLeftAlone DEF Same, IsRig

LEMMA MadeStore ==
  ASSUME NEW t, NEW r \in Rig!Made(t)
  PROVE  r.store = [t EXCEPT !.next = t.next + 1]
  BY DEF Rig!Made

\* A row of another kind put in.
LEMMA OthersMade ==
  ASSUME NEW s, NEW t, IsRig(s), Same(s, t, OtherFields), NEW r \in Rig!Made(t)
  PROVE  Kept(s, r.store)
  <1>1. r.store = [t EXCEPT !.next = t.next + 1]
    BY MadeStore
  <1>2. t.next = s.next /\ s.next \in Nat
    BY DEF Same, OtherFields, RigFields, IsRig
  <1>3. DOMAIN r.store = RigFields /\ r.store.next = s.next + 1 /\ \A f \in RigFields \ {"next"} : r.store[f] = t[f]
    BY <1>1, <1>2 DEF Same, RigFields
  <1>4. /\ r.store.inDevices = s.inDevices /\ r.store.outDevices = s.outDevices
        /\ r.store.inCables = s.inCables /\ r.store.outCables = s.outCables
    BY <1>3 DEF Same, OtherFields, RigFields
  <1>5. SameEnds(s.inCables, r.store.inCables) /\ SameEnds(s.outCables, r.store.outCables)
    BY <1>4, FewerCables
  <1>6. r.store.next \in Nat /\ s.next <= r.store.next
    BY <1>2, <1>3
  <1> QED BY <1>3, <1>4, <1>5, <1>6, DevicesLeftAlone

LEMMA OneField ==
  ASSUME NEW s, IsRig(s), NEW f \in OtherFields, NEW rows
  PROVE  Same(s, [s EXCEPT ![f] = rows], OtherFields)
  BY DEF IsRig, Same, OtherFields, RigFields

\* A request that writes rows of another kind, or takes one out that no cable ends on.
LEMMA OneFieldWritten ==
  ASSUME NEW s, IsRig(s), NEW f \in OtherFields, NEW rows, NEW r \in Rig!Done([s EXCEPT ![f] = rows])
  PROVE  Kept(s, r.store)
  <1>1. r.store = [s EXCEPT ![f] = rows]
    BY DEF Rig!Done
  <1> QED BY <1>1, OneField, OthersChanged

LEMMA OneFieldMade ==
  ASSUME NEW s, IsRig(s), NEW f \in OtherFields, NEW rows, NEW r \in Rig!Made([s EXCEPT ![f] = rows])
  PROVE  Kept(s, r.store)
  BY OneField, OthersMade

LEMMA RowsWritten ==
  ASSUME NEW req, NEW s, IsRig(s), NEW r,
         \/ r \in Rig!UpdateSource(req, s) \/ r \in Rig!UpdateChannel(req, s) \/ r \in Rig!UpdateBox(req, s)
         \/ r \in Rig!UpdateMulti(req, s) \/ r \in Rig!UpdateOutput(req, s) \/ r \in Rig!SetFedBy(req, s)
         \/ r \in Rig!DeleteOutput(req, s)
  PROVE  Kept(s, r.store)
  <1> USE DEF OtherFields, RigFields
  <1>1. CASE r \in Rig!UpdateSource(req, s)
    <2>1. PICK rows : r \in Rig!Done([s EXCEPT !["sources"] = rows])
      BY <1>1 DEF Rig!UpdateSource
    <2> QED BY <2>1, OneFieldWritten
  <1>2. CASE r \in Rig!UpdateChannel(req, s)
    <2>1. PICK c : r \in Rig!Done([s EXCEPT !.channels = Rig!Put(@, [c EXCEPT !.number = req.number, !.width = req.width,
                                                                           !.desk = req.desk])])
      BY <1>2 DEF Rig!UpdateChannel
    <2>2. PICK rows : r \in Rig!Done([s EXCEPT !["channels"] = rows])
      BY <2>1
    <2> QED BY <2>2, OneFieldWritten
  <1>3. CASE r \in Rig!UpdateBox(req, s)
    <2>1. PICK rows : r \in Rig!Done([s EXCEPT !["boxes"] = rows])
      BY <1>3 DEF Rig!UpdateBox
    <2> QED BY <2>1, OneFieldWritten
  <1>4. CASE r \in Rig!UpdateMulti(req, s)
    <2>1. PICK rows : r \in Rig!Done([s EXCEPT !["multis"] = rows])
      BY <1>4 DEF Rig!UpdateMulti
    <2> QED BY <2>1, OneFieldWritten
  <1>5. CASE r \in Rig!UpdateOutput(req, s)
    <2>1. PICK o, desk : r \in Rig!Done([s EXCEPT !.outputs = Rig!Put(@, Rig!OutputSent(req, o, desk))])
      BY <1>5 DEF Rig!UpdateOutput
    <2>2. PICK rows : r \in Rig!Done([s EXCEPT !["outputs"] = rows])
      BY <2>1
    <2> QED BY <2>2, OneFieldWritten
  <1>6. CASE r \in Rig!SetFedBy(req, s)
    <2>1. PICK rows : r \in Rig!Done([s EXCEPT !["outputs"] = rows])
      BY <1>6 DEF Rig!SetFedBy
    <2> QED BY <2>1, OneFieldWritten
  <1>7. CASE r \in Rig!DeleteOutput(req, s)
    <2>1. PICK rows : r \in Rig!Done([s EXCEPT !["outputs"] = rows])
      BY <1>7 DEF Rig!DeleteOutput
    <2> QED BY <2>1, OneFieldWritten
  <1> QED BY <1>1, <1>2, <1>3, <1>4, <1>5, <1>6, <1>7

LEMMA RowsMade ==
  ASSUME NEW req, NEW s, IsRig(s), NEW r,
         \/ r \in Rig!CreateSource(req, s) \/ r \in Rig!CreateChannel(req, s) \/ r \in Rig!CreateOutput(req, s)
         \/ r \in Rig!CreateBox(req, s) \/ r \in Rig!CreateMulti(req, s) \/ r \in Rig!CreateDesk(req, s)
  PROVE  Kept(s, r.store)
  <1> USE DEF OtherFields, RigFields
  <1>1. CASE r \in Rig!CreateSource(req, s)
    <2>1. PICK rows : r \in Rig!Made([s EXCEPT !["sources"] = rows])
      BY <1>1 DEF Rig!CreateSource
    <2> QED BY <2>1, OneFieldMade
  <1>2. CASE r \in Rig!CreateChannel(req, s)
    <2>1. PICK rows : r \in Rig!Made([s EXCEPT !["channels"] = rows])
      BY <1>2 DEF Rig!CreateChannel
    <2> QED BY <2>1, OneFieldMade
  <1>3. CASE r \in Rig!CreateOutput(req, s)
    <2>1. PICK rows : r \in Rig!Made([s EXCEPT !["outputs"] = rows])
      BY <1>3 DEF Rig!CreateOutput
    <2> QED BY <2>1, OneFieldMade
  <1>4. CASE r \in Rig!CreateBox(req, s)
    <2>1. PICK rows : r \in Rig!Made([s EXCEPT !["boxes"] = rows])
      BY <1>4 DEF Rig!CreateBox
    <2> QED BY <2>1, OneFieldMade
  <1>5. CASE r \in Rig!CreateMulti(req, s)
    <2>1. PICK rows : r \in Rig!Made([s EXCEPT !["multis"] = rows])
      BY <1>5 DEF Rig!CreateMulti
    <2> QED BY <2>1, OneFieldMade
  <1>6. CASE r \in Rig!CreateDesk(req, s)
    <2>1. PICK rows : r \in Rig!Made([s EXCEPT !["desks"] = rows])
      BY <1>6 DEF Rig!CreateDesk
    <2> QED BY <2>1, OneFieldMade
  <1> QED BY <1>1, <1>2, <1>3, <1>4, <1>5, <1>6

\* What a desk is, its counts, its model and its recorder, is nothing to a device.
LEMMA DesksWritten ==
  ASSUME NEW req, NEW s, IsRig(s), NEW r,
         r \in Rig!UpdateDesk(req, s) \/ r \in Rig!SwitchDesk(req, s) \/ r \in Rig!SetRecorder(req, s)
  PROVE  Kept(s, r.store)
  <1> USE DEF OtherFields, RigFields
  <1>1. CASE r \in Rig!UpdateDesk(req, s)
    <2>1. PICK rows : r \in Rig!Done([s EXCEPT !["desks"] = rows])
      BY <1>1 DEF Rig!UpdateDesk
    <2> QED BY <2>1, OneFieldWritten
  <1>2. CASE r \in Rig!SwitchDesk(req, s)
    <2>1. r \in Rig!Done(s) \/ \E rows : r \in Rig!Done([s EXCEPT !["desks"] = rows])
      BY <1>2 DEF Rig!SwitchDesk
    <2>2. CASE r \in Rig!Done(s)
      BY <2>2, OthersChanged DEF Rig!Done, Same, IsRig
    <2> QED BY <2>1, <2>2, OneFieldWritten
  <1>3. CASE r \in Rig!SetRecorder(req, s)
    <2>1. PICK rows : r \in Rig!Done([s EXCEPT !["desks"] = rows])
      BY <1>3 DEF Rig!SetRecorder
    <2> QED BY <2>1, OneFieldWritten
  <1> QED BY <1>1, <1>2, <1>3

\* A row taken out together with its cables.
LEMMA RowsTakenOut ==
  ASSUME NEW req, NEW s, IsRig(s), NEW r,
         \/ r \in Rig!DeleteSource(req, s) \/ r \in Rig!DeleteChannel(req, s) \/ r \in Rig!DeleteBox(req, s)
         \/ r \in Rig!DeleteMulti(req, s) \/ r \in Rig!DeleteDesk(req, s)
  PROVE  Kept(s, r.store)
  <1> DEFINE Fewer == /\ Same(s, r.store, OtherFields \cup {"inCables", "outCables"})
                      /\ r.store.inCables \subseteq s.inCables /\ r.store.outCables \subseteq s.outCables
  <1> USE DEF OtherFields, RigFields, Same, IsRig
  <1>1. CASE r \in Rig!DeleteSource(req, s)
    <2>0. PICK x : r \in Rig!Done([s EXCEPT !.sources = @ \ {x}, !.inCables = @ \ Rig!OnNode(@, {"source"}, x.id)])
      BY <1>1 DEF Rig!DeleteSource
    <2>1. r.store = [s EXCEPT !.sources = @ \ {x}, !.inCables = @ \ Rig!OnNode(@, {"source"}, x.id)]
      BY <2>0 DEF Rig!Done
    <2>2. Fewer
      BY <2>1
    <2> QED BY <2>2, OthersAndCables
  <1>2. CASE r \in Rig!DeleteChannel(req, s)
    <2>0. PICK x : r \in Rig!Done([s EXCEPT !.channels = @ \ {x}, !.inCables = @ \ Rig!OnNode(@, {"channel"}, x.id)])
      BY <1>2 DEF Rig!DeleteChannel
    <2>1. r.store = [s EXCEPT !.channels = @ \ {x}, !.inCables = @ \ Rig!OnNode(@, {"channel"}, x.id)]
      BY <2>0 DEF Rig!Done
    <2>2. Fewer
      BY <2>1
    <2> QED BY <2>2, OthersAndCables
  <1>3. CASE r \in Rig!DeleteBox(req, s)
    <2>0. PICK x : r \in Rig!Done([s EXCEPT !.boxes = @ \ {x}, !.inCables = @ \ Rig!OnNode(@, {"stagebox"}, x.id),
                                !.outCables = @ \ Rig!OnNode(@, {"stagebox"}, x.id)])
      BY <1>3 DEF Rig!DeleteBox
    <2>1. r.store = [s EXCEPT !.boxes = @ \ {x}, !.inCables = @ \ Rig!OnNode(@, {"stagebox"}, x.id),
                                !.outCables = @ \ Rig!OnNode(@, {"stagebox"}, x.id)]
      BY <2>0 DEF Rig!Done
    <2>2. Fewer
      BY <2>1
    <2> QED BY <2>2, OthersAndCables
  <1>4. CASE r \in Rig!DeleteMulti(req, s)
    <2>0. PICK x : r \in Rig!Done([s EXCEPT !.multis = @ \ {x}, !.inCables = @ \ Rig!OnNode(@, {"stage_multi"}, x.id),
                                !.outCables = @ \ Rig!OnNode(@, {"stage_multi"}, x.id)])
      BY <1>4 DEF Rig!DeleteMulti
    <2>1. r.store = [s EXCEPT !.multis = @ \ {x}, !.inCables = @ \ Rig!OnNode(@, {"stage_multi"}, x.id),
                                !.outCables = @ \ Rig!OnNode(@, {"stage_multi"}, x.id)]
      BY <2>0 DEF Rig!Done
    <2>2. Fewer
      BY <2>1
    <2> QED BY <2>2, OthersAndCables
  <1>5. CASE r \in Rig!DeleteDesk(req, s)
    <2> DEFINE channels(x) == {IF c.desk = x.id THEN [c EXCEPT !.desk = 0] ELSE c : c \in s.channels}
               outputs(x) == {IF o.desk = x.id THEN [o EXCEPT !.desk = 0, !.fed = Rig!NoFeed] ELSE o : o \in s.outputs}
               left(x) == [s EXCEPT !.desks = @ \ {x}, !.inCables = @ \ Rig!OnNode(@, {"console_local", "console_aux"}, x.id),
                                    !.outCables = @ \ Rig!OnNode(@, {"console_local", "console_aux"}, x.id),
                                    !.channels = channels(x), !.outputs = outputs(x)]
    <2>0. PICK x : r \in Rig!Done(left(x))
      BY <1>5 DEF Rig!DeleteDesk
    <2>1. r.store = left(x)
      BY <2>0 DEF Rig!Done
    <2> HIDE DEF channels, outputs
    <2>2. Fewer
      BY <2>1
    <2> QED BY <2>2, OthersAndCables
  <1> QED BY <1>1, <1>2, <1>3, <1>4, <1>5

-----------------------------------------------------------------------------
(* Devices put in, changed and taken out.                                   *)

DeviceKinds == {"device", "device_link"}
DevicesIn(side) == IF side = "in" THEN "inDevices" ELSE "outDevices"
CablesIn(side) == IF side = "in" THEN "inCables" ELSE "outCables"
Good(s) == IsRig(s) /\ Rig!CablesKeepPorts(s)
Graph(side) == IF side = "in" THEN "in" ELSE "out"

\* One device of one graph, `id`, is new, changed or gone, and so are cables of that graph.
LEMMA OneDeviceChanged ==
  ASSUME NEW s, NEW t, Good(s), NEW at \in Sides, NEW id,
         DOMAIN t = RigFields, t.next \in Nat, s.next <= t.next,
         \A f \in RigFields \ {DevicesIn(at), CablesIn(at), "next"} : t[f] = s[f],
         SameEnds(s[CablesIn(at)], t[CablesIn(at)]),
         IdsGivenOnce(t[DevicesIn(at)], t.next),
         \A d \in t[DevicesIn(at)] : d.id # id => d \in s[DevicesIn(at)],
         \A c \in t[CablesIn(at)] : \A d \in t[DevicesIn(at)] : d.id = id => Rig!Keeps(c, id, Rig!DevicePorts(at, d)),
         \A c \in t[CablesIn(at)] : \A e \in {c.from, c.to} :
           e.kind \in DeviceKinds => \E d \in t[DevicesIn(at)] : d.id = e.id
  PROVE  Good(t)
  <1> USE DEF Sides
  <1>0. \A side \in Sides : /\ Rig!Cables(side, s) = s[CablesIn(side)] /\ Rig!Cables(side, t) = t[CablesIn(side)]
                            /\ Rig!Devices(side, s) = s[DevicesIn(side)] /\ Rig!Devices(side, t) = t[DevicesIn(side)]
    BY DEF Rig!Cables, Rig!Devices, CablesIn, DevicesIn
  <1>1. \A side \in Sides : side # at => t[CablesIn(side)] = s[CablesIn(side)] /\ t[DevicesIn(side)] = s[DevicesIn(side)]
    BY DEF CablesIn, DevicesIn, RigFields
  <1>2. ASSUME NEW side \in Sides PROVE IdsGivenOnce(t[DevicesIn(side)], t.next)
    <2>1. IdsGivenOnce(s[DevicesIn(side)], s.next)
      BY DEF Good, IsRig, DevicesIn
    <2>2. CASE side # at
      BY <1>1, <2>1, <2>2 DEF IdsGivenOnce, Good, IsRig
    <2> QED BY <2>2
  <1>3. ASSUME NEW side \in Sides, NEW c \in t[CablesIn(side)] PROVE DOMAIN c = CableFields
    <2>1. CASE side # at
      BY <1>1, <2>1 DEF Good, IsRig, CablesIn, CableFields
    <2> QED BY <2>1 DEF SameEnds
  <1>4. IsRig(t)
    <2>1. IdsGivenOnce(t.inDevices, t.next) /\ IdsGivenOnce(t.outDevices, t.next)
      BY <1>2 DEF DevicesIn
    <2>2. \A c \in t.inCables \cup t.outCables : DOMAIN c = CableFields
      BY <1>3 DEF CablesIn
    <2> QED BY <2>1, <2>2 DEF IsRig, CableFields
  <1>5. ASSUME NEW side \in Sides, NEW c \in t[CablesIn(side)], NEW d \in t[DevicesIn(side)]
        PROVE  Rig!Keeps(c, d.id, Rig!DevicePorts(side, d))
    <2>1. \A b \in s[CablesIn(side)] : \A x \in s[DevicesIn(side)] : Rig!Keeps(b, x.id, Rig!DevicePorts(side, x))
      BY <1>0 DEF Good, Rig!CablesKeepPorts
    <2>2. CASE side # at
      BY <1>1, <2>1, <2>2
    <2>3. CASE side = at /\ d.id # id
      <3>1. PICK b \in s[CablesIn(side)] : b.from = c.from /\ b.to = c.to
        BY <2>3 DEF SameEnds
      <3>2. Rig!Keeps(b, d.id, Rig!DevicePorts(side, d))
        BY <2>1, <2>3
      <3> QED BY <3>1, <3>2 DEF Rig!Keeps
    <2> QED BY <2>2, <2>3
  <1>6. ASSUME NEW side \in Sides, NEW c \in t[CablesIn(side)], NEW e \in {c.from, c.to}, e.kind \in DeviceKinds
        PROVE  \E d \in t[DevicesIn(side)] : d.id = e.id
    <2>1. CASE side # at
      BY <1>0, <1>1, <1>6, <2>1 DEF Good, Rig!CablesKeepPorts, DeviceKinds
    <2> QED BY <1>6, <2>1
  <1>7. Rig!CablesKeepPorts(t)
    BY <1>0, <1>5, <1>6 DEF Rig!CablesKeepPorts, DeviceKinds
  <1> QED BY <1>4, <1>7 DEF Good

LEMMA WithDevicesShape ==
  ASSUME NEW s, IsRig(s), NEW side, NEW rows
  PROVE  LET t == Rig!WithDevices(side, s, rows)
         IN /\ DOMAIN t = RigFields /\ t[DevicesIn(Graph(side))] = rows
            /\ \A f \in RigFields \ {DevicesIn(Graph(side))} : t[f] = s[f]
  BY DEF Rig!WithDevices, IsRig, RigFields, Graph, DevicesIn

LEMMA DevicesOf ==
  ASSUME NEW s, NEW side
  PROVE  Rig!Devices(side, s) = s[DevicesIn(Graph(side))] /\ Rig!Cables(side, s) = s[CablesIn(Graph(side))]
         /\ Graph(side) \in Sides
  BY DEF Rig!Devices, Rig!Cables, DevicesIn, CablesIn, Graph, Sides

LEMMA PortsOf ==
  ASSUME NEW side, NEW d
  PROVE  Rig!DevicePorts(side, d) = Rig!DevicePorts(Graph(side), d)
  BY DEF Rig!DevicePorts, Graph

\* The cables that were there end on devices that were there.
LEMMA EndsOnDevices ==
  ASSUME NEW s, Good(s), NEW at \in Sides, NEW c \in s[CablesIn(at)], NEW e \in {c.from, c.to}, e.kind \in DeviceKinds
  PROVE  \E d \in s[DevicesIn(at)] : d.id = e.id
  BY DEF Good, Rig!CablesKeepPorts, DeviceKinds, Sides, CablesIn, DevicesIn, Rig!Cables, Rig!Devices

LEMMA IdsOf ==
  ASSUME NEW s, IsRig(s), NEW at \in Sides
  PROVE  s.next \in Nat /\ IdsGivenOnce(s[DevicesIn(at)], s.next)
         /\ \A c \in s[CablesIn(at)] : DOMAIN c = CableFields
  BY DEF IsRig, Sides, DevicesIn, CablesIn, CableFields

\* No cable names an id that has not been given.
LEMMA CreateDeviceKeeps ==
  ASSUME NEW req, NEW s, Good(s), NEW r \in Rig!CreateDevice(req, s)
  PROVE  Good(r.store)
  <1> DEFINE at == Graph(req.side)
             row == Rig!NewRow(req.row, s)
             t == Rig!WithDevices(req.side, s, s[DevicesIn(at)] \cup {row})
  <1>0. at \in Sides /\ IsRig(s) /\ Rig!Devices(req.side, s) = s[DevicesIn(at)]
    BY DevicesOf DEF Good
  <1>1. r \in Rig!Made(t)
    BY <1>0 DEF Rig!CreateDevice
  <1>2. r.store = [t EXCEPT !.next = t.next + 1]
    <2> HIDE DEF t
    <2> QED BY <1>1, MadeStore
  <1>3. /\ DOMAIN t = RigFields /\ t[DevicesIn(at)] = s[DevicesIn(at)] \cup {row}
        /\ \A f \in RigFields \ {DevicesIn(at)} : t[f] = s[f]
    BY <1>0, WithDevicesShape
  <1>4. row.id = s.next
    BY DEF Rig!NewRow
  <1>5. s.next \in Nat /\ IdsGivenOnce(s[DevicesIn(at)], s.next) /\ \A c \in s[CablesIn(at)] : DOMAIN c = CableFields
    BY <1>0, IdsOf
  <1> HIDE DEF t, row, at
  <1>6. DevicesIn(at) \in RigFields \ {"next"} /\ CablesIn(at) \in RigFields \ {"next", DevicesIn(at)}
    BY DEF DevicesIn, CablesIn, RigFields
  <1>7. /\ DOMAIN r.store = RigFields /\ r.store.next = s.next + 1
        /\ r.store[DevicesIn(at)] = s[DevicesIn(at)] \cup {row}
        /\ \A f \in RigFields \ {DevicesIn(at), "next"} : r.store[f] = s[f]
    BY <1>2, <1>3, <1>6 DEF RigFields
  <1>8. IdsGivenOnce(r.store[DevicesIn(at)], r.store.next)
    BY <1>4, <1>5, <1>7 DEF IdsGivenOnce
  <1>9. SameEnds(s[CablesIn(at)], r.store[CablesIn(at)]) /\ r.store[CablesIn(at)] = s[CablesIn(at)]
    BY <1>5, <1>6, <1>7 DEF SameEnds
  <1>10. \A c \in s[CablesIn(at)] : \A e \in {c.from, c.to} : e.kind \in DeviceKinds => e.id # s.next
    BY <1>0, <1>5, EndsOnDevices DEF IdsGivenOnce
  <1>11. \A c \in r.store[CablesIn(at)] : \A ports : Rig!Keeps(c, s.next, ports)
    BY <1>9, <1>10 DEF Rig!Keeps, DeviceKinds
  <1>12. \A c \in r.store[CablesIn(at)] : \A e \in {c.from, c.to} :
           e.kind \in DeviceKinds => \E d \in r.store[DevicesIn(at)] : d.id = e.id
    BY <1>0, <1>7, <1>9, EndsOnDevices
  <1>13. \A d \in r.store[DevicesIn(at)] : d.id # s.next => d \in s[DevicesIn(at)]
    BY <1>4, <1>7
  <1>14. r.store.next \in Nat /\ s.next <= r.store.next
    BY <1>5, <1>7
  <1> QED BY <1>0, <1>7, <1>8, <1>9, <1>11, <1>12, <1>13, <1>14, OneDeviceChanged

\* What a device becomes is looked at for every cable of its graph.
LEMMA DevicePut ==
  ASSUME NEW s, Good(s), NEW side, NEW row, NEW d \in Rig!Row(Rig!Devices(side, s), row.id),
         \A c \in Rig!Cables(side, s) : Rig!Keeps(c, row.id, Rig!DevicePorts(side, row))
  PROVE  Good(Rig!WithDevices(side, s, Rig!Put(Rig!Devices(side, s), row)))
  <1> DEFINE at == Graph(side)
             rows == Rig!Put(Rig!Devices(side, s), row)
             t == Rig!WithDevices(side, s, rows)
  <1>0. at \in Sides /\ IsRig(s) /\ Rig!Devices(side, s) = s[DevicesIn(at)] /\ Rig!Cables(side, s) = s[CablesIn(at)]
    BY DevicesOf DEF Good
  <1>1. DOMAIN t = RigFields /\ t[DevicesIn(at)] = rows /\ \A f \in RigFields \ {DevicesIn(at)} : t[f] = s[f]
    BY <1>0, WithDevicesShape
  <1>2. s.next \in Nat /\ IdsGivenOnce(s[DevicesIn(at)], s.next) /\ \A c \in s[CablesIn(at)] : DOMAIN c = CableFields
    BY <1>0, IdsOf
  <1>3. rows = {x \in s[DevicesIn(at)] : x.id # row.id} \cup {row} /\ d \in s[DevicesIn(at)] /\ d.id = row.id
    BY <1>0 DEF Rig!Put, Rig!Row
  <1>4. \A c \in s[CablesIn(at)] : Rig!Keeps(c, row.id, Rig!DevicePorts(at, row))
    BY <1>0, PortsOf
  <1> HIDE DEF t, rows, at
  <1>5. CablesIn(at) \in RigFields \ {DevicesIn(at)} /\ "next" \in RigFields \ {DevicesIn(at)}
    BY DEF DevicesIn, CablesIn, RigFields
  <1>6. t.next = s.next /\ t[CablesIn(at)] = s[CablesIn(at)]
    BY <1>1, <1>5
  <1>7. IdsGivenOnce(t[DevicesIn(at)], t.next)
    BY <1>1, <1>2, <1>3, <1>6 DEF IdsGivenOnce
  <1>8. SameEnds(s[CablesIn(at)], t[CablesIn(at)])
    BY <1>2, <1>6 DEF SameEnds
  <1>9. \A x \in t[DevicesIn(at)] : x.id # row.id => x \in s[DevicesIn(at)]
    BY <1>1, <1>3
  <1>10. \A c \in t[CablesIn(at)] : \A x \in t[DevicesIn(at)] :
           x.id = row.id => Rig!Keeps(c, row.id, Rig!DevicePorts(at, x))
    BY <1>1, <1>3, <1>4, <1>6
  <1>11. \A c \in t[CablesIn(at)] : \A e \in {c.from, c.to} :
           e.kind \in DeviceKinds => \E x \in t[DevicesIn(at)] : x.id = e.id
    BY <1>0, <1>1, <1>3, <1>6, EndsOnDevices
  <1>12. t.next \in Nat /\ s.next <= t.next
    BY <1>2, <1>6
  <1>13. Good(t)
    BY <1>0, <1>1, <1>7, <1>8, <1>9, <1>10, <1>11, <1>12, OneDeviceChanged
  <1> QED BY <1>13 DEF t, rows

\* A device goes with its cables.
LEMMA DeviceTaken ==
  ASSUME NEW s, Good(s), NEW at \in Sides, NEW d \in s[DevicesIn(at)], NEW t,
         DOMAIN t = RigFields, t[DevicesIn(at)] = s[DevicesIn(at)] \ {d},
         t[CablesIn(at)] = s[CablesIn(at)] \ Rig!OnNode(s[CablesIn(at)], DeviceKinds, d.id),
         \A f \in RigFields \ {DevicesIn(at), CablesIn(at)} : t[f] = s[f]
  PROVE  Good(t)
  <1>1. s.next \in Nat /\ IdsGivenOnce(s[DevicesIn(at)], s.next) /\ \A c \in s[CablesIn(at)] : DOMAIN c = CableFields
    BY IdsOf DEF Good
  <1>2. t.next = s.next
    BY DEF DevicesIn, CablesIn, RigFields
  <1>3. IdsGivenOnce(t[DevicesIn(at)], t.next) /\ \A x \in t[DevicesIn(at)] : x.id # d.id
    BY <1>1, <1>2 DEF IdsGivenOnce
  <1>4. SameEnds(s[CablesIn(at)], t[CablesIn(at)])
    BY <1>1 DEF SameEnds
  <1>5. \A c \in t[CablesIn(at)] : \A e \in {c.from, c.to} : e.kind \in DeviceKinds => e.id # d.id
    BY DEF Rig!OnNode
  <1>6. \A c \in t[CablesIn(at)] : \A e \in {c.from, c.to} :
          e.kind \in DeviceKinds => \E x \in t[DevicesIn(at)] : x.id = e.id
    BY <1>5, EndsOnDevices
  <1>7. t.next \in Nat /\ s.next <= t.next
    BY <1>1, <1>2
  <1>8. \A f \in RigFields \ {DevicesIn(at), CablesIn(at), "next"} : t[f] = s[f]
    OBVIOUS
  <1>9. /\ \A x \in t[DevicesIn(at)] : x.id # d.id => x \in s[DevicesIn(at)]
        /\ \A c \in t[CablesIn(at)] : \A x \in t[DevicesIn(at)] :
             x.id = d.id => Rig!Keeps(c, d.id, Rig!DevicePorts(at, x))
    BY <1>3
  <1> QED BY <1>3, <1>4, <1>6, <1>7, <1>8, <1>9, OneDeviceChanged

LEMMA UpdateDeviceKeeps ==
  ASSUME NEW req, NEW s, Good(s), NEW r \in Rig!UpdateDevice(req, s)
  PROVE  Good(r.store)
  <1>1. \A c \in Rig!Cables(req.side, s) : Rig!Keeps(c, req.row.id, Rig!DevicePorts(req.side, req.row))
    BY DEF Rig!UpdateDevice
  <1>2. PICK d \in Rig!Row(Rig!Devices(req.side, s), req.row.id) :
          r \in Rig!Done(Rig!WithDevices(req.side, s, Rig!Put(Rig!Devices(req.side, s), req.row)))
    BY DEF Rig!UpdateDevice
  <1>3. r.store = Rig!WithDevices(req.side, s, Rig!Put(Rig!Devices(req.side, s), req.row))
    BY <1>2 DEF Rig!Done
  <1> QED BY <1>1, <1>3, DevicePut

LEMMA UpdateOutputDeviceKeeps ==
  ASSUME NEW req, NEW s, Good(s), NEW r \in Rig!UpdateOutputDevice(req, s)
  PROVE  Good(r.store)
  <1>1. Rig!Row(s.outDevices, req.row.id) # {}
    BY DEF Rig!UpdateOutputDevice
  <1>2. \A c \in s.outCables : Rig!Keeps(c, req.row.id, Rig!OutputDevicePorts(req.row) \cup Rig!LinkPorts(req.row))
    BY DEF Rig!UpdateOutputDevice
  <1>3. r.store = [s EXCEPT !.outDevices = Rig!Put(@, req.row)]
    BY DEF Rig!UpdateOutputDevice, Rig!Done
  <1>4. Rig!Devices("out", s) = s.outDevices /\ Rig!Cables("out", s) = s.outCables
    BY DEF Rig!Devices, Rig!Cables
  <1>5. r.store = Rig!WithDevices("out", s, Rig!Put(Rig!Devices("out", s), req.row))
    BY <1>3, <1>4 DEF Rig!WithDevices
  <1>6. \A c \in Rig!Cables("out", s) : Rig!Keeps(c, req.row.id, Rig!DevicePorts("out", req.row))
    BY <1>2, <1>4 DEF Rig!DevicePorts
  <1>7. PICK d : d \in Rig!Row(Rig!Devices("out", s), req.row.id)
    BY <1>1, <1>4
  <1> QED BY <1>5, <1>6, <1>7, DevicePut

LEMMA DeleteOutputDeviceKeeps ==
  ASSUME NEW req, NEW s, Good(s), NEW r \in Rig!DeleteOutputDevice(req, s)
  PROVE  Good(r.store)
  <1> DEFINE rest(x) == s.outCables \ Rig!OnNode(s.outCables, DeviceKinds, x.id)
  <1>1. PICK x \in s.outDevices : r \in Rig!Done([s EXCEPT !.outDevices = @ \ {x}, !.outCables = rest(x)])
    BY DEF Rig!DeleteOutputDevice, Rig!Row, DeviceKinds
  <1>2. r.store = [s EXCEPT !.outDevices = @ \ {x}, !.outCables = rest(x)]
    BY <1>1 DEF Rig!Done
  <1>3. /\ DOMAIN r.store = RigFields /\ r.store.outDevices = s.outDevices \ {x} /\ r.store.outCables = rest(x)
        /\ \A f \in RigFields \ {"outDevices", "outCables"} : r.store[f] = s[f]
    BY <1>2 DEF Good, IsRig, RigFields
  <1> HIDE DEF rest
  <1>4. "out" \in Sides /\ DevicesIn("out") = "outDevices" /\ CablesIn("out") = "outCables"
    BY DEF Sides, DevicesIn, CablesIn
  <1> QED BY <1>3, <1>4, DeviceTaken DEF rest

LEMMA DeleteDeviceKeeps ==
  ASSUME NEW req, NEW s, Good(s), NEW r \in Rig!DeleteDevice(req, s)
  PROVE  Good(r.store)
  <1> DEFINE at == Graph(req.side)
             rest(x) == Rig!Cables(req.side, s) \ Rig!OnNode(Rig!Cables(req.side, s), DeviceKinds, x.id)
             bare(x) == Rig!WithDevices(req.side, s, Rig!Devices(req.side, s) \ {x})
  <1>0. at \in Sides /\ IsRig(s) /\ Rig!Devices(req.side, s) = s[DevicesIn(at)]
        /\ Rig!Cables(req.side, s) = s[CablesIn(at)]
    BY DevicesOf DEF Good
  <1>1. PICK x \in s[DevicesIn(at)] : r \in Rig!Done(Rig!WithCables(req.side, bare(x), rest(x)))
    BY <1>0 DEF Rig!DeleteDevice, Rig!Row, DeviceKinds
  <1>2. r.store = Rig!WithCables(req.side, bare(x), rest(x))
    BY <1>1 DEF Rig!Done
  <1>3. /\ DOMAIN bare(x) = RigFields /\ bare(x)[DevicesIn(at)] = s[DevicesIn(at)] \ {x}
        /\ \A f \in RigFields \ {DevicesIn(at)} : bare(x)[f] = s[f]
    BY <1>0, WithDevicesShape
  <1> HIDE DEF bare, rest
  <1>4. /\ DOMAIN r.store = RigFields /\ r.store[CablesIn(at)] = rest(x)
        /\ \A f \in RigFields \ {CablesIn(at)} : r.store[f] = bare(x)[f]
    BY <1>2, <1>3 DEF Rig!WithCables, RigFields, Graph, CablesIn
  <1>5. DevicesIn(at) # CablesIn(at) /\ DevicesIn(at) \in RigFields
    BY DEF DevicesIn, CablesIn, RigFields
  <1>6. r.store[DevicesIn(at)] = s[DevicesIn(at)] \ {x}
        /\ \A f \in RigFields \ {DevicesIn(at), CablesIn(at)} : r.store[f] = s[f]
    BY <1>3, <1>4, <1>5
  <1>7. rest(x) = s[CablesIn(at)] \ Rig!OnNode(s[CablesIn(at)], DeviceKinds, x.id)
    BY <1>0 DEF rest
  <1> HIDE DEF at
  <1> QED BY <1>0, <1>4, <1>6, <1>7, DeviceTaken

-----------------------------------------------------------------------------
(* A cable put in, and the requests on cables.                              *)

\* A port of the input graph at which a device is on is a port of that device, and a port
\* of the output graph likewise.
LEMMA InputPortOfDevice ==
  ASSUME NEW s, NEW q \in Rig!InputPorts(s), q.kind \in DeviceKinds
  PROVE  \E d \in s.inDevices : d.id = q.id /\ q \in Rig!InputDevicePorts(d)
  BY DEF Rig!InputPorts, Rig!SourcePorts, Rig!ChannelPorts, Rig!InputDevicePorts, Rig!InputStageboxPorts,
         Rig!InputMultiPorts, Rig!ConsoleLocalInPorts, Rig!ConsoleAuxPorts, Rig!BothSides, Rig!Ports, DeviceKinds

LEMMA OutputPortOfDevice ==
  ASSUME NEW s, NEW q \in Rig!OutputPorts(s), q.kind \in DeviceKinds
  PROVE  \E d \in s.outDevices : d.id = q.id /\ q \in Rig!OutputDevicePorts(d) \cup Rig!LinkPorts(d)
  BY DEF Rig!OutputPorts, Rig!MixerPorts, Rig!StageboxPorts, Rig!StageMultiPorts, Rig!ConsoleLocalOutPorts,
         Rig!OutputDevicePorts, Rig!LinkPorts, Rig!BothSides, Rig!Ports, DeviceKinds

\* What the server takes for a port is one, of a device that is there when it is of a device.
LEMMA LegalEnds ==
  ASSUME NEW s, NEW side, NEW cable, Rig!LegalCable(side, cable, s)
  PROVE  LET devices == s[DevicesIn(Graph(side))]
             ports(d) == Rig!DevicePorts(Graph(side), d)
         IN /\ cable.from.kind \in DeviceKinds =>
                 \E d \in devices : d.id = cable.from.id /\ \E q \in ports(d) : q.dir = "out" /\ Rig!End(q) = cable.from
            /\ cable.to.kind \in DeviceKinds =>
                 \E d \in devices : d.id = cable.to.id /\ \E q \in ports(d) : q.dir = "in" /\ Rig!End(q) = cable.to
  <1>0. \A q : Rig!End(q).kind = q.kind /\ Rig!End(q).id = q.id
    BY DEF Rig!End
  <1>1. CASE side = "in"
    <2>1. /\ \E q \in Rig!InputPorts(s) : q.dir = "out" /\ Rig!End(q) = cable.from
          /\ \E q \in Rig!InputPorts(s) : q.dir = "in" /\ Rig!End(q) = cable.to
      BY <1>1 DEF Rig!LegalCable
    <2>2. s[DevicesIn(Graph(side))] = s.inDevices /\ \A d : Rig!DevicePorts(Graph(side), d) = Rig!InputDevicePorts(d)
      BY <1>1 DEF DevicesIn, Graph, Rig!DevicePorts
    <2> QED BY <1>0, <2>1, <2>2, InputPortOfDevice
  <1>2. CASE side # "in"
    <2>1. /\ \E q \in Rig!OutputPorts(s) : q.dir = "out" /\ Rig!End(q) = cable.from
          /\ \E q \in Rig!OutputPorts(s) : q.dir = "in" /\ Rig!End(q) = cable.to
      BY <1>2 DEF Rig!LegalCable
    <2>2. /\ s[DevicesIn(Graph(side))] = s.outDevices
          /\ \A d : Rig!DevicePorts(Graph(side), d) = Rig!OutputDevicePorts(d) \cup Rig!LinkPorts(d)
      BY <1>2 DEF DevicesIn, Graph, Rig!DevicePorts
    <2> QED BY <1>0, <2>1, <2>2, OutputPortOfDevice
  <1> QED BY <1>1, <1>2

\* Cables of one graph replaced by others that are right.
LEMMA CablesReplaced ==
  ASSUME NEW s, Good(s), NEW at \in Sides, NEW t, DOMAIN t = RigFields, t.next \in Nat, s.next <= t.next,
         \A f \in RigFields \ {CablesIn(at), "next"} : t[f] = s[f],
         \A c \in t[CablesIn(at)] :
           /\ DOMAIN c = CableFields
           /\ \A d \in s[DevicesIn(at)] : Rig!Keeps(c, d.id, Rig!DevicePorts(at, d))
           /\ \A e \in {c.from, c.to} : e.kind \in DeviceKinds => \E d \in s[DevicesIn(at)] : d.id = e.id
  PROVE  Good(t)
  <1> USE DEF Sides
  <1>0. \A side \in Sides : /\ Rig!Cables(side, s) = s[CablesIn(side)] /\ Rig!Cables(side, t) = t[CablesIn(side)]
                            /\ Rig!Devices(side, s) = s[DevicesIn(side)] /\ Rig!Devices(side, t) = t[DevicesIn(side)]
    BY DEF Rig!Cables, Rig!Devices, CablesIn, DevicesIn
  <1>1. \A side \in Sides : t[DevicesIn(side)] = s[DevicesIn(side)] /\ (side # at => t[CablesIn(side)] = s[CablesIn(side)])
    BY DEF CablesIn, DevicesIn, RigFields
  <1>2. ASSUME NEW side \in Sides PROVE IdsGivenOnce(t[DevicesIn(side)], t.next)
    <2>1. IdsGivenOnce(s[DevicesIn(side)], s.next)
      BY DEF Good, IsRig, DevicesIn
    <2> QED BY <1>1, <2>1 DEF IdsGivenOnce, Good, IsRig
  <1>3. ASSUME NEW side \in Sides, NEW c \in t[CablesIn(side)] PROVE DOMAIN c = CableFields
    <2>1. CASE side # at
      BY <1>1, <2>1 DEF Good, IsRig, CablesIn, CableFields
    <2> QED BY <2>1
  <1>4. IsRig(t)
    <2>1. IdsGivenOnce(t.inDevices, t.next) /\ IdsGivenOnce(t.outDevices, t.next)
      BY <1>2 DEF DevicesIn
    <2>2. \A c \in t.inCables \cup t.outCables : DOMAIN c = CableFields
      BY <1>3 DEF CablesIn
    <2> QED BY <2>1, <2>2 DEF IsRig, CableFields
  <1>5. ASSUME NEW side \in Sides, NEW c \in t[CablesIn(side)]
        PROVE  /\ \A d \in t[DevicesIn(side)] : Rig!Keeps(c, d.id, Rig!DevicePorts(side, d))
               /\ \A e \in {c.from, c.to} : e.kind \in DeviceKinds => \E d \in t[DevicesIn(side)] : d.id = e.id
    <2>1. CASE side # at
      BY <1>0, <1>1, <2>1 DEF Good, Rig!CablesKeepPorts, DeviceKinds
    <2>2. CASE side = at
      BY <1>1, <2>2
    <2> QED BY <2>1, <2>2
  <1>7. Rig!CablesKeepPorts(t)
    BY <1>0, <1>5 DEF Rig!CablesKeepPorts, DeviceKinds
  <1> QED BY <1>4, <1>7 DEF Good

\* The cables there are, and any that end where one of them does, are right.
LEMMA CablesThere ==
  ASSUME NEW s, Good(s), NEW at \in Sides, NEW c, NEW b \in s[CablesIn(at)], c.from = b.from, c.to = b.to
  PROVE  /\ \A d \in s[DevicesIn(at)] : Rig!Keeps(c, d.id, Rig!DevicePorts(at, d))
         /\ \A e \in {c.from, c.to} : e.kind \in DeviceKinds => \E d \in s[DevicesIn(at)] : d.id = e.id
  <1>1. Rig!Cables(at, s) = s[CablesIn(at)] /\ Rig!Devices(at, s) = s[DevicesIn(at)]
    BY DEF Sides, CablesIn, DevicesIn, Rig!Cables, Rig!Devices
  <1>2. /\ \A d \in s[DevicesIn(at)] : Rig!Keeps(b, d.id, Rig!DevicePorts(at, d))
        /\ \A e \in {b.from, b.to} : e.kind \in DeviceKinds => \E d \in s[DevicesIn(at)] : d.id = e.id
    BY <1>1 DEF Good, Rig!CablesKeepPorts, Sides, DeviceKinds
  <1> QED BY <1>2 DEF Rig!Keeps

LEMMA WithCablesShape ==
  ASSUME NEW s, IsRig(s), NEW side, NEW cables
  PROVE  LET t == Rig!WithCables(side, s, cables)
         IN /\ DOMAIN t = RigFields /\ t[CablesIn(Graph(side))] = cables
            /\ \A f \in RigFields \ {CablesIn(Graph(side))} : t[f] = s[f]
  BY DEF Rig!WithCables, IsRig, RigFields, Graph, CablesIn

\* Of two cables of other ends none is right for it, so the ids of devices must be told apart.
LEMMA CreateCableKeeps ==
  ASSUME NEW req, NEW s, Good(s), NEW r \in Rig!CreateCable(req, s)
  PROVE  Good(r.store)
  <1> DEFINE at == Graph(req.side)
             cable == [id |-> s.next, from |-> req.cable.from, to |-> req.cable.to, item |-> req.cable.item]
             t == Rig!WithCables(req.side, s, s[CablesIn(at)] \cup {cable})
  <1>0. at \in Sides /\ IsRig(s) /\ Rig!Cables(req.side, s) = s[CablesIn(at)]
    BY DevicesOf DEF Good
  <1>1. r \in Rig!Made(t) /\ Rig!LegalCable(req.side, req.cable, s)
    BY <1>0 DEF Rig!CreateCable
  <1>2. r.store = [t EXCEPT !.next = t.next + 1]
    <2> HIDE DEF t
    <2> QED BY <1>1, MadeStore
  <1>3. /\ DOMAIN t = RigFields /\ t[CablesIn(at)] = s[CablesIn(at)] \cup {cable}
        /\ \A f \in RigFields \ {CablesIn(at)} : t[f] = s[f]
    BY <1>0, WithCablesShape
  <1>4. cable.from = req.cable.from /\ cable.to = req.cable.to /\ DOMAIN cable = CableFields
    BY DEF CableFields
  <1>5. s.next \in Nat /\ IdsGivenOnce(s[DevicesIn(at)], s.next) /\ \A c \in s[CablesIn(at)] : DOMAIN c = CableFields
    BY <1>0, IdsOf
  <1>6. /\ cable.from.kind \in DeviceKinds =>
             \E d \in s[DevicesIn(at)] : /\ d.id = cable.from.id
                                         /\ \E q \in Rig!DevicePorts(at, d) : q.dir = "out" /\ Rig!End(q) = cable.from
        /\ cable.to.kind \in DeviceKinds =>
             \E d \in s[DevicesIn(at)] : /\ d.id = cable.to.id
                                         /\ \E q \in Rig!DevicePorts(at, d) : q.dir = "in" /\ Rig!End(q) = cable.to
    BY <1>1, <1>4, LegalEnds
  <1> HIDE DEF t, cable, at
  <1>7. \A d \in s[DevicesIn(at)] : Rig!Keeps(cable, d.id, Rig!DevicePorts(at, d))
    BY <1>5, <1>6 DEF Rig!Keeps, IdsGivenOnce, DeviceKinds
  <1>8. CablesIn(at) \in RigFields \ {"next"} /\ "next" \in RigFields \ {CablesIn(at)}
    BY DEF CablesIn, RigFields
  <1>9. /\ DOMAIN r.store = RigFields /\ r.store.next = s.next + 1
        /\ r.store[CablesIn(at)] = s[CablesIn(at)] \cup {cable}
        /\ \A f \in RigFields \ {CablesIn(at), "next"} : r.store[f] = s[f]
    BY <1>2, <1>3, <1>8
  <1>10. ASSUME NEW c \in r.store[CablesIn(at)]
         PROVE  /\ DOMAIN c = CableFields
                /\ \A d \in s[DevicesIn(at)] : Rig!Keeps(c, d.id, Rig!DevicePorts(at, d))
                /\ \A e \in {c.from, c.to} : e.kind \in DeviceKinds => \E d \in s[DevicesIn(at)] : d.id = e.id
    <2>1. CASE c \in s[CablesIn(at)]
      BY <1>0, <1>5, <2>1, CablesThere
    <2>2. CASE c = cable
      BY <1>4, <1>6, <1>7, <2>2
    <2> QED BY <1>9, <2>1, <2>2
  <1>11. r.store.next \in Nat /\ s.next <= r.store.next
    BY <1>5, <1>9
  <1> QED BY <1>0, <1>9, <1>10, <1>11, CablesReplaced

\* A cable of another item, or none of it.
LEMMA SameEndsPut ==
  ASSUME NEW s, Good(s), NEW side, NEW new, SameEnds(s[CablesIn(Graph(side))], new)
  PROVE  Good(Rig!WithCables(side, s, new))
  <1> DEFINE at == Graph(side)
             t == Rig!WithCables(side, s, new)
  <1>0. at \in Sides /\ IsRig(s) /\ s.next \in Nat
    BY DevicesOf DEF Good, IsRig
  <1>1. DOMAIN t = RigFields /\ t[CablesIn(at)] = new /\ \A f \in RigFields \ {CablesIn(at)} : t[f] = s[f]
    BY <1>0, WithCablesShape
  <1>2. SameEnds(s[CablesIn(at)], new)
    OBVIOUS
  <1> HIDE DEF at, t
  <1>3. t.next = s.next /\ t.next \in Nat /\ s.next <= t.next
    BY <1>0, <1>1 DEF CablesIn, RigFields
  <1>4. ASSUME NEW c \in new
        PROVE  /\ DOMAIN c = CableFields
               /\ \A d \in s[DevicesIn(at)] : Rig!Keeps(c, d.id, Rig!DevicePorts(at, d))
               /\ \A e \in {c.from, c.to} : e.kind \in DeviceKinds => \E d \in s[DevicesIn(at)] : d.id = e.id
    <2>1. DOMAIN c = CableFields
      BY <1>2 DEF SameEnds
    <2>2. PICK b \in s[CablesIn(at)] : c.from = b.from /\ c.to = b.to
      BY <1>2 DEF SameEnds
    <2> QED BY <1>0, <2>1, <2>2, CablesThere
  <1>5. Good(t)
    BY <1>0, <1>1, <1>3, <1>4, CablesReplaced
  <1> QED BY <1>5 DEF t

LEMMA CablesWritten ==
  ASSUME NEW req, NEW s, Good(s), NEW r, r \in Rig!UpdateCable(req, s) \/ r \in Rig!DeleteCable(req, s)
  PROVE  Good(r.store)
  <1> DEFINE old == s[CablesIn(Graph(req.side))]
  <1>0. Rig!Cables(req.side, s) = old /\ \A c \in old : DOMAIN c = CableFields
    BY DevicesOf, IdsOf DEF Good
  <1>1. CASE r \in Rig!UpdateCable(req, s)
    <2>1. PICK c \in old : r.store = Rig!WithCables(req.side, s, Rig!Put(old, [c EXCEPT !.item = req.item]))
      BY <1>0, <1>1 DEF Rig!UpdateCable, Rig!Row, Rig!Done
    <2> DEFINE row == [c EXCEPT !.item = req.item]
    <2>2. DOMAIN row = CableFields /\ row.from = c.from /\ row.to = c.to
      BY <1>0 DEF CableFields
    <2> HIDE DEF row, old
    <2>3. SameEnds(old, Rig!Put(old, row))
      BY <1>0, <2>2 DEF SameEnds, Rig!Put
    <2> QED BY <2>1, <2>3, SameEndsPut DEF row, old
  <1>2. CASE r \in Rig!DeleteCable(req, s)
    <2>1. PICK c : r \in Rig!Done(Rig!WithCables(req.side, s, old \ {c}))
      BY <1>0, <1>2 DEF Rig!DeleteCable
    <2>2. r.store = Rig!WithCables(req.side, s, old \ {c})
      BY <2>1 DEF Rig!Done
    <2> HIDE DEF old
    <2>3. SameEnds(old, old \ {c})
      BY <1>0 DEF SameEnds
    <2> QED BY <2>2, <2>3, SameEndsPut DEF old
  <1> QED BY <1>1, <1>2

\* Whatever is asked of it, the server leaves a rig whose devices have the ports of their cables.
LEMMA ApplyRigKeeps ==
  ASSUME NEW req, NEW s, Good(s), NEW r \in Rig!ApplyRig(req, s)
  PROVE  Good(r.store)
  <1>0. Kept(s, r.store) => Good(r.store)
    BY DEF Kept, Good
  <1>1. IsRig(s)
    BY DEF Good
  <1>2. CASE r \in Rig!ApplyPatch(req, s)
    BY <1>0, <1>1, <1>2, RowsWritten, RowsMade, RowsTakenOut, CreateCableKeeps, CablesWritten, UpdateOutputDeviceKeeps,
       DeleteOutputDeviceKeeps DEF Rig!ApplyPatch
  <1>3. CASE r \notin Rig!ApplyPatch(req, s)
    BY <1>0, <1>1, <1>3, RowsMade, RowsTakenOut, DesksWritten, CreateDeviceKeeps, UpdateDeviceKeeps,
       DeleteDeviceKeeps DEF Rig!ApplyRig
  <1> QED BY <1>2, <1>3

-----------------------------------------------------------------------------
(* The drawer.                                                              *)

\* What a step may do to the store: nothing, or what the server makes of some request.
RigStoreStep == UNCHANGED stored \/ \E req : \E r \in Rig!ApplyRig(req, stored) : stored' = r.store

LEMMA DrawerStep ==
  ASSUME Rig!Next
  PROVE  RigStoreStep
  <1> USE DEF Rig!queryVars, Rig!Ask, Rig!Q!Send, Rig!Q!Answer
  <1>1. ASSUME Rig!OpenDrawer \/ Rig!CloseDrawer \/ Rig!SaveLate PROVE UNCHANGED stored
    BY <1>1 DEF Rig!OpenDrawer, Rig!CloseDrawer, Rig!SaveLate
  <1>2. ASSUME Rig!CardStep PROVE UNCHANGED stored
    <2>1. ASSUME NEW section, NEW row, Rig!ToggleCard(section, row) PROVE UNCHANGED stored
      BY <2>1 DEF Rig!ToggleCard
    <2>2. ASSUME NEW side, NEW text, Rig!CommitCount(side) \/ Rig!TypeCount(side, text) PROVE UNCHANGED stored
      BY <2>2 DEF Rig!CommitCount, Rig!TypeCount
    <2>3. ASSUME NEW x, NEW y, Rig!EditDesk(x, y) \/ Rig!EditDeskFrom(x) \/ Rig!EditRecorder(x, y) \/ Rig!EditBoxItem(x)
          PROVE  UNCHANGED stored
      BY <2>3 DEF Rig!EditDesk, Rig!EditDeskFrom, Rig!EditRecorder, Rig!EditBoxItem
    <2>4. ASSUME Rig!EditMultiField PROVE UNCHANGED stored
      <3>1. ASSUME NEW row, Rig!EditMulti(row) PROVE UNCHANGED stored
        BY <3>1 DEF Rig!EditMulti
      <3> QED BY <2>4, <3>1 DEF Rig!EditMultiField
    <2>5. ASSUME NEW section, Rig!EditDeviceField(section) PROVE UNCHANGED stored
      <3>1. ASSUME NEW row, Rig!SaveField(section, row) PROVE UNCHANGED stored
        BY <3>1 DEF Rig!SaveField
      <3> QED BY <2>5, <3>1 DEF Rig!EditDeviceField
    <2>6. ASSUME NEW section, Rig!AskToDelete(section) \/ Rig!ConfirmDelete \/ Rig!CancelDelete PROVE UNCHANGED stored
      BY <2>6 DEF Rig!AskToDelete, Rig!ConfirmDelete, Rig!CancelDelete
    <2> QED BY <1>2, <2>1, <2>2, <2>3, <2>4, <2>5, <2>6 DEF Rig!CardStep
  <1>3. ASSUME Rig!FormStep PROVE UNCHANGED stored
    BY <1>3 DEF Rig!FormStep, Rig!ToggleForm, Rig!Add, Rig!FillForm
  <1>4. ASSUME Rig!SwitchStep PROVE UNCHANGED stored
    BY <1>4 DEF Rig!SwitchStep, Rig!StartSwitch, Rig!ConfirmSwitch, Rig!CancelSwitch
  <1>5. ASSUME NEW c, Rig!HearAnswer(c) PROVE UNCHANGED stored
    BY <1>5 DEF Rig!HearAnswer, Rig!HearField, Rig!HearCreation, Rig!HearRemoval, Rig!HearPreview, Rig!HearSwitch
  <1>6. ASSUME Rig!ViewArrives PROVE UNCHANGED stored
    BY <1>6 DEF Rig!ViewArrives, Rig!Q!Arrive, Rig!Q!ArriveShowing
  <1>7. ASSUME Rig!Elsewhere PROVE RigStoreStep
    BY <1>7 DEF Rig!Elsewhere, Rig!Q!Serve, Rig!Q!Lose, Rig!Q!ReadStore, Rig!Q!LoseRead, Rig!Q!Focus,
       Rig!Q!OtherClient, RigStoreStep
  <1> QED BY <1>1, <1>2, <1>3, <1>4, <1>5, <1>6, <1>7 DEF Rig!Next, RigStoreStep

-----------------------------------------------------------------------------
(* The theorem.                                                             *)

\* Inductive on the drawer: the shape of a rig and the ids given once beside the claim, since
\* a device under an id given before would find the other one's cables on it.
IInv == tab = "rig" => Good(stored)

LEMMA InitInv == Init => IInv
  BY RigsAssumption DEF Init, IInv, Good, Rig!Init, Rig!Q!Opened

LEMMA NextInv == IInv /\ [Next]_vars => IInv'
  <1> SUFFICES ASSUME IInv, [Next]_vars, (tab = "rig")'
               PROVE  Good(stored)'
    BY DEF IInv
  <1>1. tab = "rig" /\ Good(stored)
    BY DEF Next, vars, IInv
  <1>2. RigStoreStep
    <2>1. CASE Next
      BY <1>1, <2>1, DrawerStep DEF Next
    <2>2. CASE UNCHANGED vars
      BY <2>2 DEF vars, RigStoreStep
    <2> QED BY <2>1, <2>2
  <1>3. CASE UNCHANGED stored
    BY <1>1, <1>3
  <1>4. CASE \E req : \E r \in Rig!ApplyRig(req, stored) : stored' = r.store
    <2>1. PICK req : \E r \in Rig!ApplyRig(req, stored) : stored' = r.store
      BY <1>4
    <2>2. PICK r \in Rig!ApplyRig(req, stored) : stored' = r.store
      BY <2>1
    <2>3. Good(stored')
      BY <1>1, <2>2, ApplyRigKeeps
    <2> QED BY <2>3
  <1> QED BY <1>2, <1>3, <1>4 DEF RigStoreStep

\* For any rigs to open on, anything typed in a count, any models, any requests of other
\* clients and however many: every cable on a device ends at a port the device has
\* (audio_patch.go, validInputDevicePorts and validOutputDevicePorts), and on a device that
\* is there.
THEOREM CablesAlwaysKeepTheirPorts == Spec => []CablesKeepTheirPorts
  <1>1. IInv => CablesKeepTheirPorts
    BY DEF IInv, Good, CablesKeepTheirPorts, Rig!CablesKeepTheirPorts
  <1> QED BY <1>1, InitInv, NextInv, PTL DEF Spec

-----------------------------------------------------------------------------
(* What may be routed.  Two programs decide it, the one in TypeScript from a *)
(* table of yes, no and forward per pair of kinds, the one in Go from the   *)
(* kinds and the slots: they agree for every model, kind and slot, so a     *)
(* square is offered when and only when the route is one the desk makes.    *)

\* Only the slots of two groups matter to a route, and only which is the lower.
LEMMA SlotsOfGroups ==
  ASSUME NEW m, NEW src, NEW dst, NEW a, NEW b
  PROVE  Routing!RouteAllowed(m, src, a, dst, b) <=>
           /\ Routing!RouteAllowed(m, src, 1, dst, 2)
           /\ src = "subgroup" /\ dst = "subgroup" => a < b
  BY DEF Routing!RouteAllowed, Routing!MixSources, Routing!MixKinds, Routing!UserMixKinds, Routing!Buses

\* `consoles.go`, routeRules, read by `deskRouting.ts`, ruleOf: "yes" whatever the slots,
\* "forward" to a higher slot, "no" never; which is what the save is checked against.
THEOREM RulesServed ==
  ASSUME NEW m, NEW src, NEW dst, NEW a, NEW b
  PROVE  Routing!RouteAllowed(m, src, a, dst, b) <=>
           \/ Routing!RuleOf(m, src, dst) = "yes"
           \/ Routing!RuleOf(m, src, dst) = "forward" /\ a < b
  <1>1. Routing!RouteAllowed(m, src, 2, dst, 1) <=>
          Routing!RouteAllowed(m, src, 1, dst, 2) /\ ~(src = "subgroup" /\ dst = "subgroup")
    BY SlotsOfGroups
  <1>2. Routing!RouteAllowed(m, src, a, dst, b) <=>
          Routing!RouteAllowed(m, src, 1, dst, 2) /\ (src = "subgroup" /\ dst = "subgroup" => a < b)
    BY SlotsOfGroups
  <1> QED BY <1>1, <1>2 DEF Routing!RuleOf

\* A square that is offered is a route the save takes; and a route the save would take, of a
\* source that is not the column itself, is offered.
THEOREM OfferedIsAllowed ==
  ASSUME NEW m, NEW row, NEW mix
  PROVE  Routing!CellAllowed(m, row, mix) <=>
           /\ row.kind = "channel" \/ row.id # mix.id
           /\ Routing!RouteAllowed(m, row.kind, row.slot, mix.kind, mix.slot)
  BY RulesServed DEF Routing!CellAllowed

-----------------------------------------------------------------------------
(* The column save.                                                         *)

\* What the page offers for a column: a source that feeds it as stored, or a square.
OfferedSource(s, d, m, key) ==
  LET there == \E r \in Routing!Into(Routing!RoutesOn(s, d.id), "mix", m.id) : r.src = Routing!Port(key.kind, key.id, 0)
  IN \/ /\ key.kind = "channel"
        /\ \E c \in Routing!OfId(s.channels, key.id) :
             c.desk = d.id /\ (there \/ Routing!CellAllowed(d.model, [kind |-> "channel", id |-> c.id, slot |-> 0], m))
     \/ /\ key.kind = "mix"
        /\ \E x \in Routing!OfId(s.mixes, key.id) :
             /\ x.desk = d.id
             /\ there \/ Routing!CellAllowed(d.model, [kind |-> x.kind, id |-> x.id, slot |-> x.slot], m)

LEMMA OfferedSourceFits ==
  ASSUME NEW s, NEW d, NEW m, m.desk = d.id, NEW key, OfferedSource(s, d, m, key)
  PROVE  Routing!SourceFits(d.model, m, key, s)
  <1> DEFINE there == \E r \in Routing!Into(Routing!RoutesOn(s, d.id), "mix", m.id) : r.src = Routing!Port(key.kind, key.id, 0)
  <1>1. CASE key.kind = "channel"
    <2>1. PICK c \in Routing!OfId(s.channels, key.id) :
            c.desk = d.id /\ (there \/ Routing!CellAllowed(d.model, [kind |-> "channel", id |-> c.id, slot |-> 0], m))
      BY <1>1 DEF OfferedSource
    <2>2. CASE there
      BY <1>1, <2>1, <2>2 DEF Routing!SourceFits
    <2>3. CASE Routing!CellAllowed(d.model, [kind |-> "channel", id |-> c.id, slot |-> 0], m)
      <3> DEFINE row == [kind |-> "channel", id |-> c.id, slot |-> 0]
      <3>1. Routing!RouteAllowed(d.model, row.kind, row.slot, m.kind, m.slot)
        BY <2>3, OfferedIsAllowed
      <3> QED BY <1>1, <2>1, <3>1 DEF Routing!SourceFits
    <2> QED BY <2>1, <2>2, <2>3
  <1>2. CASE key.kind = "mix"
    <2>1. PICK x \in Routing!OfId(s.mixes, key.id) :
            /\ x.desk = d.id
            /\ there \/ Routing!CellAllowed(d.model, [kind |-> x.kind, id |-> x.id, slot |-> x.slot], m)
      BY <1>2 DEF OfferedSource
    <2>2. CASE there
      BY <1>2, <2>1, <2>2 DEF Routing!SourceFits
    <2>3. CASE Routing!CellAllowed(d.model, [kind |-> x.kind, id |-> x.id, slot |-> x.slot], m)
      <3> DEFINE row == [kind |-> x.kind, id |-> x.id, slot |-> x.slot]
      <3>1. Routing!RouteAllowed(d.model, row.kind, row.slot, m.kind, m.slot)
        BY <2>3, OfferedIsAllowed
      <3> QED BY <1>2, <2>1, <3>1 DEF Routing!SourceFits
    <2> QED BY <2>1, <2>2, <2>3
  <1> QED BY <1>1, <1>2 DEF OfferedSource

\* "A cell is never offered that the save would refuse" (`deskRouting.ts`, ruleOf), for every
\* plan: a column sent with the slot and the width it has, all of whose sources are stored or
\* offered, is saved, unless it is an LV1 matrix with more of them than one takes: the squares
\* do not look at that limit (RoutingGrid.tsx, cell) and the save does (desk_mixes.go:222).
THEOREM OfferedColumnIsSaved ==
  ASSUME NEW s, NEW d \in s.desks, \A e \in s.desks : e.id = d.id => e = d,
         NEW m \in s.mixes, m.desk = d.id, IsMix(m), Routing!StoredWidth(d.model, m.kind, m.width) = m.width,
         NEW req, req.id = m.id, req.slot = m.slot, req.width = m.width,
         \A key \in req.sources : OfferedSource(s, d, m, key), ~Routing!PastMatrixLimit(d.model, m, req)
  PROVE  Routing!UpdateMix(req, s) # {}
  <1>1. (CHOOSE e \in s.desks : e.id = m.desk) = d
    OBVIOUS
  <1>2. Routing!Renumbered(d.model, m, req) = m
    BY DEF Routing!Renumbered, IsMix
  <1>3. \A key \in req.sources : Routing!SourceFits(d.model, m, key, s)
    BY OfferedSourceFits
  <1>5. m \in Routing!OfId(s.mixes, req.id)
    BY DEF Routing!OfId
  <1>6. Routing!SaveMix(m, req, s) # {}
    BY <1>1, <1>2, <1>3 DEF Routing!SaveMix, Routing!RoutingDone
  <1> QED BY <1>5, <1>6 DEF Routing!UpdateMix

-----------------------------------------------------------------------------
(* The desks the server keeps.                                              *)

\* Widths are stored as the desk has them.
LEMMA StoredWidthStands ==
  ASSUME NEW m, NEW kind, NEW width
  PROVE  Routing!StoredWidth(m, kind, Routing!StoredWidth(m, kind, width)) = Routing!StoredWidth(m, kind, width)
  BY DEF Routing!StoredWidth

\* What leaves every mix one of the same id and desk keeps what feeds on its desk.
LEMMA StillFeeds ==
  ASSUME NEW s, NEW t, NEW r, Feeds(r, s), t.channels = s.channels,
         \A m \in s.mixes : r.src = Routing!Port("mix", m.id, 0) => \E n \in t.mixes : n.id = m.id /\ n.desk = m.desk
  PROVE  Feeds(r, t)
  BY DEF Feeds

LEMMA CreateMixKeeps ==
  ASSUME NEW s, NEW req, IsRouting(s), NEW res \in Routing!CreateMix(req, s)
  PROVE  IsRouting(res.store)
  <1>1. PICK d \in s.desks : \E mix : /\ mix.desk = d.id /\ IsMix(mix)
                                      /\ mix.width = Routing!StoredWidth(d.model, mix.kind, "mono")
                                      /\ res.store = [s EXCEPT !.mixes = @ \cup {mix}, !.next = @ + 1]
    <2>1. PICK d \in Routing!OfId(s.desks, req.desk) :
            LET width == Routing!StoredWidth(d.model, req.kind, "mono")
                free == Routing!FreeSlots(d.model, req.kind, width,
                          Routing!SlotRange(d.model, req.kind, Routing!MixesOn(s, d.id)), Routing!MixesOn(s, d.id))
                mix == [id |-> s.next, desk |-> d.id, kind |-> req.kind, slot |-> Routing!Least(free), width |-> width]
            IN res \in IF req.kind \notin Routing!UserMixKinds \/ free = {} THEN {}
                       ELSE {[store |-> [s EXCEPT !.mixes = @ \cup {mix}, !.next = @ + 1], id |-> s.next, reply |-> {mix}]}
      BY Zenon DEF Routing!CreateMix
    <2> DEFINE width == Routing!StoredWidth(d.model, req.kind, "mono")
               free == Routing!FreeSlots(d.model, req.kind, width,
                         Routing!SlotRange(d.model, req.kind, Routing!MixesOn(s, d.id)), Routing!MixesOn(s, d.id))
               mix == [id |-> s.next, desk |-> d.id, kind |-> req.kind, slot |-> Routing!Least(free), width |-> width]
    <2>2. d \in s.desks
      BY DEF Routing!OfId
    <2>6. req.kind \in Routing!UserMixKinds
      BY <2>1
    <2>3. mix.desk = d.id /\ IsMix(mix) /\ mix.width = Routing!StoredWidth(d.model, mix.kind, "mono")
      BY <2>6 DEF IsMix, Routing!MixKinds
    <2>4. res \in IF free = {} THEN {}
                  ELSE {[store |-> [s EXCEPT !.mixes = @ \cup {mix}, !.next = @ + 1], id |-> s.next, reply |-> {mix}]}
      BY <2>1
    <2> HIDE DEF mix, free
    <2>5. res.store = [s EXCEPT !.mixes = @ \cup {mix}, !.next = @ + 1]
      BY <2>4
    <2> QED BY <2>2, <2>3, <2>5
  <1>2. PICK mix : /\ mix.desk = d.id /\ IsMix(mix) /\ mix.width = Routing!StoredWidth(d.model, mix.kind, "mono")
                   /\ res.store = [s EXCEPT !.mixes = @ \cup {mix}, !.next = @ + 1]
    BY <1>1
  <1> DEFINE t == res.store
  <1>3. /\ DOMAIN t = DOMAIN s /\ t.desks = s.desks /\ t.channels = s.channels /\ t.routes = s.routes
        /\ t.mixes = s.mixes \cup {mix}
    BY <1>2 DEF IsRouting
  <1>4. mix.width = Routing!StoredWidth(d.model, mix.kind, mix.width)
    BY <1>2, StoredWidthStands
  <1> HIDE DEF t
  <1>5. \A r \in s.routes : Feeds(r, s) => Feeds(r, t)
    BY <1>3, StillFeeds
  <1>6. IsRouting(t)
    BY <1>1, <1>2, <1>3, <1>4, <1>5 DEF IsRouting
  <1> QED BY <1>6 DEF t

LEMMA FitsFeeds ==
  ASSUME NEW s, NEW model, NEW mix, NEW key, Routing!SourceFits(model, mix, key, s)
  PROVE  Feeds(Routing!Joined(mix.desk, Routing!Port(key.kind, key.id, 0), Routing!Port("mix", mix.id, 0), ""), s)
  BY DEF Routing!SourceFits, Feeds, Routing!Joined, Routing!OfId

LEMMA UpdateMixKeeps ==
  ASSUME NEW s, NEW req, IsRouting(s), NEW res \in Routing!UpdateMix(req, s)
  PROVE  IsRouting(res.store)
  <1>1. PICK m \in s.mixes : res \in Routing!SaveMix(m, req, s)
    BY DEF Routing!UpdateMix, Routing!OfId
  <1>2. PICK d \in s.desks : d.id = m.desk /\ m.width = Routing!StoredWidth(d.model, m.kind, m.width)
    BY DEF IsRouting
  <1>3. (CHOOSE e \in s.desks : e.id = m.desk) = d
    BY <1>2 DEF IsRouting
  <1> DEFINE next == Routing!Renumbered(d.model, m, req)
             route(k) == Routing!Joined(m.desk, Routing!Port(k.kind, k.id, 0), Routing!Port("mix", m.id, 0), "")
             t == res.store
  <1>4. IsMix(m)
    BY DEF IsRouting
  <1>5. /\ IsMix(next) /\ next.id = m.id /\ next.desk = m.desk /\ next.kind = m.kind
        /\ next.width = Routing!StoredWidth(d.model, next.kind, next.width)
    <2>1. CASE m.kind = "main"
      <3>1. next = m
        BY <2>1 DEF Routing!Renumbered
      <3> QED BY <1>2, <1>4, <3>1
    <2>2. CASE m.kind # "main"
      <3> DEFINE width == Routing!StoredWidth(d.model, m.kind, req.width)
      <3>1. next = [m EXCEPT !.slot = req.slot, !.width = width]
        BY <2>2 DEF Routing!Renumbered
      <3>2. width = Routing!StoredWidth(d.model, m.kind, width)
        BY StoredWidthStands
      <3> HIDE DEF next, width
      <3>3. IsMix(next) /\ next.id = m.id /\ next.desk = m.desk /\ next.kind = m.kind /\ next.width = width
        BY <1>4, <3>1 DEF IsMix
      <3> QED BY <3>2, <3>3
    <2> QED BY <2>1, <2>2
  <1> HIDE DEF next
  <1>6. /\ \A key \in req.sources : Routing!SourceFits(d.model, next, key, s)
        /\ res = [store |-> [s EXCEPT !.mixes = (@ \ {m}) \cup {next},
                                      !.routes = (@ \ Routing!Into(@, "mix", m.id)) \cup {route(k) : k \in req.sources}],
                  id |-> 0, reply |-> {}]
    BY <1>1, <1>3 DEF Routing!SaveMix, Routing!RoutingDone, next
  <1>7. /\ DOMAIN t = DOMAIN s /\ t.desks = s.desks /\ t.channels = s.channels
        /\ t.mixes = (s.mixes \ {m}) \cup {next}
        /\ \A r \in t.routes : r \in s.routes \/ \E k \in req.sources : r = route(k)
    <2> HIDE DEF route
    <2> QED BY <1>6 DEF IsRouting
  <1>8. \A k \in req.sources : Feeds(route(k), s)
    BY <1>5, <1>6, FitsFeeds
  <1> HIDE DEF t, route
  <1>9. \A r : Feeds(r, s) => Feeds(r, t)
    BY <1>5, <1>7, StillFeeds
  <1>10. IsRouting(t)
    BY <1>2, <1>5, <1>7, <1>8, <1>9 DEF IsRouting
  <1> QED BY <1>10 DEF t

LEMMA DeleteMixKeeps ==
  ASSUME NEW s, NEW req, IsRouting(s), NEW res \in Routing!DeleteMix(req, s)
  PROVE  IsRouting(res.store)
  <1>1. PICK m \in s.mixes :
          res = [store |-> [s EXCEPT !.mixes = @ \ {m}, !.routes = Routing!WithoutPort(@, "mix", m.id)], id |-> 0, reply |-> {}]
    BY DEF Routing!DeleteMix, Routing!OfId, Routing!RoutingDone
  <1> DEFINE t == res.store
  <1>2. /\ DOMAIN t = DOMAIN s /\ t.desks = s.desks /\ t.channels = s.channels /\ t.mixes = s.mixes \ {m}
        /\ t.routes = Routing!WithoutPort(s.routes, "mix", m.id)
    BY <1>1 DEF IsRouting
  <1> HIDE DEF t
  <1>3. ASSUME NEW r \in t.routes, Feeds(r, s) PROVE Feeds(r, t)
    <2>1. ~(r.src.kind = "mix" /\ r.src.id = m.id)
      BY <1>2, <1>3 DEF Routing!WithoutPort
    <2>2. \A x \in s.mixes : r.src = Routing!Port("mix", x.id, 0) => x \in t.mixes
      BY <1>2, <2>1 DEF Routing!Port
    <2> QED BY <1>2, <1>3, <2>2, StillFeeds
  <1>4. t.routes \subseteq s.routes
    BY <1>2 DEF Routing!WithoutPort
  <1>5. IsRouting(t)
    BY <1>2, <1>3, <1>4 DEF IsRouting
  <1> QED BY <1>5 DEF t

\* Routes that end on no mix are no mix's.
LEMMA TracksKeep ==
  ASSUME NEW s, IsRouting(s), NEW t, DOMAIN t = DOMAIN s, t.channels = s.channels, t.mixes = s.mixes, t.desks = s.desks,
         \A r \in t.routes : r \in s.routes \/ r.dst.kind # "mix"
  PROVE  IsRouting(t)
  <1>1. \A r : Feeds(r, s) => Feeds(r, t)
    BY DEF Feeds
  <1> QED BY <1>1 DEF IsRouting

LEMMA PutKeeps ==
  ASSUME NEW s, IsRouting(s), NEW desk, NEW routes, \A r \in routes : r \in s.routes \/ r.dst.kind # "mix",
         NEW res \in Routing!PutRecorderRoutes(s, desk, routes)
  PROVE  IsRouting(res.store)
  <1>1. res.store = [s EXCEPT !.routes = Routing!WithoutPort(@, "recorder", desk) \cup routes]
    BY DEF Routing!PutRecorderRoutes, Routing!RoutingDone
  <1> DEFINE t == res.store
  <1>2. /\ DOMAIN t = DOMAIN s /\ t.desks = s.desks /\ t.channels = s.channels /\ t.mixes = s.mixes
        /\ t.routes = Routing!WithoutPort(s.routes, "recorder", desk) \cup routes
    BY <1>1 DEF IsRouting
  <1> HIDE DEF t
  <1>3. \A r \in t.routes : r \in s.routes \/ r.dst.kind # "mix"
    BY <1>2 DEF Routing!WithoutPort
  <1>4. IsRouting(t)
    BY <1>2, <1>3, TracksKeep
  <1> QED BY <1>4 DEF t

LEMMA SetTracksKeeps ==
  ASSUME NEW s, NEW req, IsRouting(s), NEW res \in Routing!SetTracks(req, s)
  PROVE  IsRouting(res.store)
  <1> DEFINE sent == ({"rows"} \X req.rows) \cup ({"kept"} \X req.kept)
  <1>1. PICK d \in s.desks :
          /\ \A x \in sent : Routing!RecorderSourceFits(s, d.id, x[2])
          /\ res \in Routing!PutRecorderRoutes(s, d.id, req.rows \cup req.kept)
    BY DEF Routing!SetTracks, Routing!OfId
  <1>2. \A r \in req.rows \cup req.kept : r.dst.kind # "mix"
    <2> SUFFICES ASSUME NEW r \in req.rows \cup req.kept PROVE r.dst.kind # "mix"
      OBVIOUS
    <2>1. PICK x \in sent : x[2] = r
      <3>1. CASE r \in req.rows
        <4>1. <<"rows", r>> \in sent
          BY <3>1
        <4> QED BY <4>1
      <3>2. CASE r \in req.kept
        <4>1. <<"kept", r>> \in sent
          BY <3>2
        <4> QED BY <4>1
      <3> QED BY <3>1, <3>2
    <2> QED BY <1>1, <2>1 DEF Routing!RecorderSourceFits
  <1> QED BY <1>1, <1>2, PutKeeps

LEMMA EndsOfRoutes ==
  ASSUME NEW desk, NEW src, NEW kind, NEW id, NEW port, NEW mode
  PROVE  Routing!Joined(desk, src, Routing!Port(kind, id, port), mode).dst.kind = kind
  BY DEF Routing!Joined, Routing!Port

LEMMA TracksEnd ==
  ASSUME NEW desk, NEW src, NEW n, NEW mode
  PROVE  Routing!Joined(desk, src, Routing!Recorder(desk, n), mode).dst.kind = "recorder"
  BY EndsOfRoutes DEF Routing!Recorder

LEMMA FillRecorderKeeps ==
  ASSUME NEW s, NEW req, IsRouting(s), NEW res \in Routing!FillRecorder(req, s)
  PROVE  IsRouting(res.store)
  <1>1. PICK d \in Routing!OfId(s.desks, req.desk) :
          LET there == Routing!RecorderRoutes(s, d.id)
              free == 1 .. Routing!TracksOf(d) \ {Routing!TrackOf(r) : r \in there}
              heard == {r.src.id : r \in {x \in there : Routing!Recording(x) /\ x.src.kind = "channel"}}
              todo == {c.id : c \in {x \in s.channels : x.desk = d.id /\ x.patched}} \ heard
              track == [c \in todo |-> Routing!Nth(free, Routing!Cardinality({b \in todo : b < c}))]
          IN res \in IF ~d.recorder \/ Routing!Cardinality(todo) > Routing!Cardinality(free) THEN {}
             ELSE Routing!PutRecorderRoutes(s, d.id, there
                    \cup {Routing!Joined(d.id, Routing!Port("channel", c, 0), Routing!Recorder(d.id, track[c]), "") : c \in todo}
                    \cup {Routing!Joined(d.id, Routing!Recorder(d.id, track[c]), Routing!Port("channel", c, 0), "soundcheck")
                            : c \in {x \in todo : ~\E r \in there : Routing!Playing(r) /\ r.dst.id = x}})
    BY Zenon DEF Routing!FillRecorder
  <1> DEFINE there == Routing!RecorderRoutes(s, d.id)
             free == 1 .. Routing!TracksOf(d) \ {Routing!TrackOf(r) : r \in there}
             heard == {r.src.id : r \in {x \in there : Routing!Recording(x) /\ x.src.kind = "channel"}}
             todo == {c.id : c \in {x \in s.channels : x.desk = d.id /\ x.patched}} \ heard
             track == [c \in todo |-> Routing!Nth(free, Routing!Cardinality({b \in todo : b < c}))]
             recorded == {Routing!Joined(d.id, Routing!Port("channel", c, 0), Routing!Recorder(d.id, track[c]), "") : c \in todo}
             played == {Routing!Joined(d.id, Routing!Recorder(d.id, track[c]), Routing!Port("channel", c, 0), "soundcheck")
                          : c \in {x \in todo : ~\E r \in there : Routing!Playing(r) /\ r.dst.id = x}}
  <1>2. res \in Routing!PutRecorderRoutes(s, d.id, there \cup recorded \cup played)
    BY <1>1, Zenon
  <1>3. \A r \in there : r \in s.routes
    BY DEF Routing!RecorderRoutes, Routing!RoutesOn
  <1> HIDE DEF track, todo, there
  <1>4. \A r \in recorded : r.dst.kind = "recorder"
    <2> SUFFICES ASSUME NEW c \in todo, NEW mode
                 PROVE  Routing!Joined(d.id, Routing!Port("channel", c, 0), Routing!Recorder(d.id, track[c]), mode).dst.kind = "recorder"
      BY Zenon
    <2> HIDE DEF recorded, played, free, heard
    <2> QED BY TracksEnd
  <1>5. \A r \in played : r.dst.kind = "channel"
    <2> SUFFICES ASSUME NEW c \in todo
                 PROVE  Routing!Joined(d.id, Routing!Recorder(d.id, track[c]), Routing!Port("channel", c, 0), "soundcheck").dst.kind = "channel"
      BY Zenon
    <2> HIDE DEF recorded, played, free, heard
    <2> QED BY EndsOfRoutes
  <1> HIDE DEF recorded, played
  <1> QED BY <1>2, <1>3, <1>4, <1>5, PutKeeps

LEMMA SetRecorderKeeps ==
  ASSUME NEW s, NEW req, IsRouting(s), NEW res \in Routing!SetRecorder(req, s)
  PROVE  IsRouting(res.store)
  <1> DEFINE after(d) == [d EXCEPT !.recorder = req.on, !.tracks = req.tracks]
             kept(d) == IF req.on THEN s.routes ELSE Routing!WithoutPort(s.routes, "recorder", d.id)
  <1>1. PICK d \in s.desks : res.store = [s EXCEPT !.desks = (s.desks \ {d}) \cup {after(d)}, !.routes = kept(d)]
    <2> SUFFICES ASSUME NEW d \in s.desks,
                        res \in Routing!RoutingDone([s EXCEPT !.desks = (s.desks \ {d}) \cup {after(d)}, !.routes = kept(d)])
                 PROVE  res.store = [s EXCEPT !.desks = (s.desks \ {d}) \cup {after(d)}, !.routes = kept(d)]
      BY Zenon DEF Routing!SetRecorder, Routing!OfId
    <2> HIDE DEF after, kept
    <2> QED BY DEF Routing!RoutingDone
  <1> DEFINE e == after(d)
             t == res.store
  <1>2. IsDesk(e) /\ e.id = d.id /\ e.model = d.model
    <2>1. d = [id |-> d.id, model |-> d.model, recorder |-> d.recorder, tracks |-> d.tracks] /\ d.id \in Nat
      BY DEF IsRouting, IsDesk
    <2> DEFINE row(i, m, r, k) == [id |-> i, model |-> m, recorder |-> r, tracks |-> k]
    <2>2. e = row(d.id, d.model, req.on, req.tracks)
      <3>1. DOMAIN d = {"id", "model", "recorder", "tracks"}
        BY <2>1
      <3>2. e = [x \in {"id", "model", "recorder", "tracks"} |-> IF x = "tracks" THEN req.tracks ELSE IF x = "recorder" THEN req.on ELSE d[x]]
        BY <3>1
      <3> HIDE DEF e
      <3>3. /\ DOMAIN e = {"id", "model", "recorder", "tracks"}
            /\ e["id"] = d.id /\ e["model"] = d.model /\ e["recorder"] = req.on /\ e["tracks"] = req.tracks
            /\ e = [x \in DOMAIN e |-> e[x]]
        BY <3>2
      <3> QED BY <3>3
    <2> HIDE DEF e
    <2> QED BY <2>1, <2>2 DEF IsDesk
  <1>8. kept(d) \subseteq s.routes
    BY DEF Routing!WithoutPort
  <1> HIDE DEF e, after, kept
  <1>3. /\ DOMAIN t = DOMAIN s /\ t.channels = s.channels /\ t.mixes = s.mixes /\ t.routes \subseteq s.routes
        /\ t.desks = (s.desks \ {d}) \cup {e}
    BY <1>1, <1>8 DEF IsRouting, e
  <1> HIDE DEF t
  <1>4. \A r : Feeds(r, s) => Feeds(r, t)
    BY <1>3 DEF Feeds
  <1>5. \A m \in t.mixes : \E x \in t.desks : x.id = m.desk /\ m.width = Routing!StoredWidth(x.model, m.kind, m.width)
    BY <1>2, <1>3 DEF IsRouting
  <1>6. IsRouting(t)
    BY <1>2, <1>3, <1>4, <1>5 DEF IsRouting
  <1> QED BY <1>6 DEF t

LEMMA ApplyRoutingKeeps ==
  ASSUME NEW s, NEW req, req.op \in RoutingOps, IsRouting(s), NEW res \in Routing!ApplyRouting(req, s)
  PROVE  IsRouting(res.store)
  BY CreateMixKeeps, UpdateMixKeeps, DeleteMixKeeps, SetTracksKeeps, FillRecorderKeeps, SetRecorderKeeps
     DEF Routing!ApplyRouting, RoutingOps

-----------------------------------------------------------------------------
(* What is offered.                                                         *)

\* Mixes and channels are told apart by their kind.
LEMMA KindsOfMixes ==
  ASSUME NEW x, IsMix(x)
  PROVE  x.kind # "channel" /\ x = [id |-> x.id, desk |-> x.desk, kind |-> x.kind, slot |-> x.slot, width |-> x.width]
  BY DEF IsMix, Routing!MixKinds, Routing!UserMixKinds, Routing!Buses

\* The desk the tab shows is the one its mixes are on.
LEMMA DeskShown ==
  ASSUME NEW s, IsRouting(s), NEW chosen, NEW d \in s.desks, d.id = Routing!resolveDeskSelection(chosen, s.desks).id
  PROVE  Routing!resolveDeskSelection(chosen, s.desks) = d
  <1> DEFINE shown == Routing!resolveDeskSelection(chosen, s.desks)
  <1>1. CASE \E e \in s.desks : e.id = chosen
    BY <1>1 DEF Routing!resolveDeskSelection, IsRouting
  <1>2. CASE ~\E e \in s.desks : e.id = chosen
    <2> DEFINE Ids == {e.id : e \in s.desks}
    <2>1. Ids \subseteq Nat /\ Ids # {}
      BY DEF IsRouting, IsDesk
    <2>2. PICK n \in Ids : \A k \in Ids : <<k, n>> \notin OpToRel(<, Nat)
      BY <2>1, NatLessThanWellFounded, WFMin
    <2>3. PICK e \in s.desks : e.id = n
      BY <2>2
    <2>4. ASSUME NEW x \in s.desks PROVE e.id <= x.id
      <3>1. x.id \in Ids /\ e.id \in Nat /\ x.id \in Nat
        BY <2>1, <2>3
      <3>2. OpToRel(<, Nat) = {p \in Nat \X Nat : p[1] < p[2]}
        BY DEF OpToRel
      <3>3. x.id < n => <<x.id, n>> \in {p \in Nat \X Nat : p[1] < p[2]}
        BY <2>3, <3>1
      <3>4. ~(x.id < n)
        BY <2>2, <3>1, <3>2, <3>3
      <3> QED BY <2>3, <3>1, <3>4
    <2>5. shown = CHOOSE x \in s.desks : \A y \in s.desks : x.id <= y.id
      BY <1>2 DEF Routing!resolveDeskSelection
    <2>6. shown \in s.desks
      BY <2>3, <2>4, <2>5
    <2> QED BY <2>6 DEF IsRouting
  <1> QED BY <1>1, <1>2

\* What a column stores is saveable as it is.
LEMMA StoredSource ==
  ASSUME NEW s, IsRouting(s), NEW d, NEW m,
         NEW r \in Routing!Into(Routing!RoutesOn(s, d.id), "mix", m.id),
         NEW key, key.kind = r.src.kind, key.id = r.src.id
  PROVE  OfferedSource(s, d, m, key)
  <1>1. r \in s.routes /\ r.desk = d.id /\ r.dst.kind = "mix"
    BY DEF Routing!Into, Routing!RoutesOn
  <1>2. Feeds(r, s)
    BY <1>1 DEF IsRouting
  <1>3. CASE \E c \in s.channels : c.desk = r.desk /\ r.src = Routing!Port("channel", c.id, 0)
    <2>1. PICK c \in s.channels : c.desk = r.desk /\ r.src = Routing!Port("channel", c.id, 0)
      BY <1>3
    <2>2. key.kind = "channel" /\ key.id = c.id
      BY <2>1 DEF Routing!Port
    <2> QED BY <1>1, <2>1, <2>2 DEF OfferedSource, Routing!OfId
  <1>4. CASE \E x \in s.mixes : x.desk = r.desk /\ r.src = Routing!Port("mix", x.id, 0)
    <2>1. PICK x \in s.mixes : x.desk = r.desk /\ r.src = Routing!Port("mix", x.id, 0)
      BY <1>4
    <2>2. key.kind = "mix" /\ key.id = x.id
      BY <2>1 DEF Routing!Port
    <2> QED BY <1>1, <2>1, <2>2 DEF OfferedSource, Routing!OfId
  <1> QED BY <1>2, <1>3, <1>4 DEF Feeds

\* A square is a source of the column.
LEMMA SquareSource ==
  ASSUME IsRouting(stored), stored = Routing!shown, NEW m, NEW row \in Routing!candidates(m), NEW key, Routing!Key(row) = key
  PROVE  OfferedSource(stored, Routing!desk, m, key)
  <1>1. Routing!CellAllowed(Routing!desk.model, row, m)
    BY DEF Routing!candidates
  <1>2. CASE \E c \in Routing!channels : row = Routing!ChannelRow(c.id)
    <2>1. PICK c \in stored.channels : c.desk = Routing!desk.id /\ row = Routing!ChannelRow(c.id)
      BY <1>2 DEF Routing!channels
    <2>2. row = [kind |-> "channel", id |-> c.id, slot |-> 0]
      BY <2>1 DEF Routing!ChannelRow
    <2>3. key.kind = "channel" /\ key.id = c.id
      BY <2>2 DEF Routing!Key
    <2> QED BY <1>1, <2>1, <2>2, <2>3 DEF OfferedSource, Routing!OfId
  <1>3. CASE \E x \in Routing!mixes : row = [kind |-> x.kind, id |-> x.id, slot |-> x.slot]
    <2>1. PICK x \in stored.mixes : x.desk = Routing!desk.id /\ row = [kind |-> x.kind, id |-> x.id, slot |-> x.slot]
      BY <1>3 DEF Routing!mixes, Routing!MixesOn
    <2>2. x.kind # "channel"
      BY KindsOfMixes DEF IsRouting
    <2>3. key.kind = "mix" /\ key.id = x.id
      BY <2>1, <2>2 DEF Routing!Key
    <2> QED BY <1>1, <2>1, <2>3 DEF OfferedSource, Routing!OfId
  <1> QED BY <1>2, <1>3 DEF Routing!candidates

LEMMA OfferedOfShown ==
  ASSUME IsRouting(stored), NEW req, req.op = "updateMix", NEW m \in Routing!OfId(Routing!mixes, req.id),
         Routing!OffersSent(m, req), ~Routing!PastMatrixLimit(Routing!desk.model, m, req)
  PROVE  Routing!ApplyRouting(req, stored) # {}
  <1>0. /\ req.op = "updateMix" /\ stored = Routing!shown /\ m.slot = req.slot /\ m.width = req.width
        /\ \A key \in req.sources :
             key \in Routing!SourcesOf(m) \/ \E row \in Routing!candidates(m) : Routing!Key(row) = key
    BY DEF Routing!OffersSent, Routing!Offered
  <1>1. m \in stored.mixes /\ m.id = req.id /\ m.desk = Routing!desk.id
    BY <1>0 DEF Routing!OfId, Routing!mixes, Routing!MixesOn
  <1>2. PICK d \in stored.desks : d.id = m.desk /\ m.width = Routing!StoredWidth(d.model, m.kind, m.width)
    BY <1>1 DEF IsRouting
  <1>3. Routing!desk = d
    BY <1>0, <1>1, <1>2, DeskShown DEF Routing!desk
  <1>4. \A key \in req.sources : OfferedSource(stored, d, m, key)
    <2> SUFFICES ASSUME NEW key \in req.sources PROVE OfferedSource(stored, d, m, key)
      OBVIOUS
    <2>1. CASE key \in Routing!SourcesOf(m)
      <3>1. PICK r \in Routing!Into(Routing!RoutesOn(stored, d.id), "mix", m.id) : key = [kind |-> r.src.kind, id |-> r.src.id]
        BY <1>0, <1>3, <2>1 DEF Routing!SourcesOf, Routing!deskRoutes
      <3>2. key.kind = r.src.kind /\ key.id = r.src.id
        BY <3>1
      <3> QED BY <3>2, StoredSource
    <2>2. CASE \E row \in Routing!candidates(m) : Routing!Key(row) = key
      BY <1>0, <1>3, <2>2, SquareSource
    <2> QED BY <1>0, <2>1, <2>2
  <1>5. IsMix(m) /\ \A e \in stored.desks : e.id = d.id => e = d
    BY <1>1, <1>2 DEF IsRouting
  <1>6. Routing!UpdateMix(req, stored) # {}
    BY <1>0, <1>1, <1>2, <1>3, <1>4, <1>5, OfferedColumnIsSaved
  <1> QED BY <1>0, <1>6 DEF Routing!ApplyRouting

-----------------------------------------------------------------------------
(* The counters of a page, as PageCounts has them.                          *)

Now == [made |-> made, others |-> others, written |-> written, told |-> told,
        calls |-> calls, fetch |-> fetch, at |-> view.at]
InOrder == Ordered(Now, MaxCalls, MaxOthers) /\ DOMAIN view = {"data", "at"}
Counts == Steps(Now, Now', MaxCalls, MaxOthers) /\ DOMAIN view' = {"data", "at"}

\* What any page does, whatever the server makes of requests: it sends one, hears an answer
\* and may send one more, or shows what it was answered.
SendsOne == \E req : \E then : Gear!Q!Send(<<[req |-> req, then |-> then]>>)
HearsOne == \E c \in calls : \E asks : \E rs :
              /\ Gear!Q!Answer(c, asks, rs)
              /\ rs = <<>> \/ \E req : \E then : rs = <<[req |-> req, then |-> then]>>
ShowsOne == \E g \in fetch : \E data : Gear!Q!ArriveShowing(g, data)
\* What becomes of it elsewhere.
ServedWith(c, results) ==
  /\ c.state = "sent"
  /\ IF results = {}
     THEN /\ calls' = (calls \ {c}) \cup {[c EXCEPT !.state = "refused"]}
          /\ UNCHANGED <<stored, written>>
     ELSE \E r \in results :
          /\ stored' = r.store
          /\ written' = written + 1
          /\ calls' = (calls \ {c}) \cup {[c EXCEPT !.state = "done", !.at = written + 1, !.id = r.id, !.reply = r.reply]}
  /\ UNCHANGED <<made, others, told, fetch, view>>
AnotherServed == /\ others < MaxOthers /\ others' = others + 1
                 /\ UNCHANGED <<made, written, told, calls, fetch, view>>
Elsewhere == \/ \E c \in calls : \/ \E results : ServedWith(c, results)
                                 \/ Gear!Q!Lose(c)
             \/ Gear!Q!ReadStore \/ Gear!Q!LoseRead \/ Gear!Q!Focus \/ AnotherServed
Turn == SendsOne \/ HearsOne \/ ShowsOne \/ Elsewhere \/ UNCHANGED Gear!queryVars

AsksAgain == \/ UNCHANGED <<fetch, told>>
             \/ fetch' = {[phase |-> "asked"]} /\ (told' = told \/ \E c \in calls : told' = c.at /\ c.at > told)

LEMMA ManyAsk ==
  ASSUME InOrder, NEW n \in Nat, made' = made + n, made + n <= MaxCalls,
         \A c \in calls' : c \in calls \/ \E i \in 1 .. n : \E req, then :
           c = [n |-> made + i, req |-> req, then |-> then, state |-> "sent", at |-> 0, id |-> 0, reply |-> {}],
         \A c, d \in calls' \ calls : c.n = d.n => c = d,
         UNCHANGED <<others, written, view>>, AsksAgain
  PROVE  Counts
  <1>1. made \in Nat
    BY DEF InOrder, Ordered, Now
  <1>2. \A c \in calls' : c \in calls \/ GoesOut(c, Now, Now')
    <2> SUFFICES ASSUME NEW i \in 1 .. n, NEW req, NEW then, NEW c,
                        c = [n |-> made + i, req |-> req, then |-> then, state |-> "sent", at |-> 0, id |-> 0, reply |-> {}]
                 PROVE  GoesOut(c, Now, Now')
      OBVIOUS
    <2>1. DOMAIN c = CallFields /\ c.n = made + i /\ c.at = 0 /\ c.state = "sent"
      BY DEF CallFields
    <2> QED BY <1>1, <2>1 DEF GoesOut, Now
  <1>3. made' \in made .. MaxCalls
    BY <1>1 DEF InOrder, Ordered, Now
  <1>4. Asks(Now, Now', MaxCalls)
    BY <1>2, <1>3 DEF Asks, Now, AsksAgain
  <1> QED BY <1>4 DEF Counts, Steps, InOrder

LEMMA NoneAsk ==
  ASSUME InOrder, UNCHANGED <<made, others, written, view>>, calls' \subseteq calls, AsksAgain
  PROVE  Counts
  <1>1. made \in Nat /\ made + 0 <= MaxCalls /\ made' = made + 0
    BY DEF InOrder, Ordered, Now
  <1> QED BY <1>1, ManyAsk

LEMMA OneAsks ==
  ASSUME InOrder, NEW req, NEW then, made + 1 <= MaxCalls, made' = made + 1,
         calls' \subseteq calls \cup Gear!Q!Sent(<<[req |-> req, then |-> then]>>),
         UNCHANGED <<others, written, view>>, AsksAgain
  PROVE  Counts
  <1> DEFINE sent == [n |-> made + 1, req |-> req, then |-> then, state |-> "sent", at |-> 0, id |-> 0, reply |-> {}]
  <1>1. Gear!Q!Sent(<<[req |-> req, then |-> then]>>) = {sent}
    BY DEF Gear!Q!Sent
  <1>2. \A c \in calls' : c \in calls \/ \E i \in 1 .. 1 : \E r, t :
           c = [n |-> made + i, req |-> r, then |-> t, state |-> "sent", at |-> 0, id |-> 0, reply |-> {}]
    BY <1>1
  <1>3. \A c, d \in calls' \ calls : c.n = d.n => c = d
    <2> HIDE DEF sent
    <2> QED BY <1>1
  <1> QED BY <1>2, <1>3, ManyAsk

LEMMA ServedCounts ==
  ASSUME InOrder, NEW c \in calls, NEW results, ServedWith(c, results)
  PROVE  Counts
  <1> DEFINE refused == [c EXCEPT !.state = "refused"]
             done(r) == [c EXCEPT !.state = "done", !.at = written + 1, !.id = r.id, !.reply = r.reply]
  <1>1. DOMAIN c = CallFields
    BY DEF InOrder, Ordered, Now
  <1>2. DOMAIN refused = CallFields /\ refused.n = c.n /\ refused.state = "refused" /\ refused.at = c.at
    BY <1>1 DEF CallFields
  <1>3. \A r : /\ DOMAIN done(r) = CallFields /\ done(r).n = c.n
               /\ done(r).state = "done" /\ done(r).at = written + 1
    BY <1>1 DEF CallFields
  <1>4. \/ calls' = (calls \ {c}) \cup {refused} /\ UNCHANGED written
        \/ \E r \in results : calls' = (calls \ {c}) \cup {done(r)} /\ written' = written + 1
    BY DEF ServedWith
  <1>5. c.state = "sent" /\ UNCHANGED <<made, others, told, fetch, view>>
    BY DEF ServedWith
  <1> HIDE DEF refused, done
  <1>6. Ends(Now, Now')
    BY <1>2, <1>3, <1>4, <1>5 DEF Ends, Now
  <1> QED BY <1>5, <1>6 DEF Counts, Steps, InOrder

LEMMA TurnCounts ==
  ASSUME InOrder, Turn
  PROVE  Counts
  <1>1. CASE SendsOne
    <2>1. PICK req : \E then : Gear!Q!Send(<<[req |-> req, then |-> then]>>)
      BY <1>1 DEF SendsOne
    <2>2. PICK then : Gear!Q!Send(<<[req |-> req, then |-> then]>>)
      BY <2>1
    <2> QED BY <2>2, OneAsks DEF Gear!Q!Send, AsksAgain
  <1>2. CASE HearsOne
    <2>1. PICK c \in calls : \E asks : \E rs :
              /\ Gear!Q!Answer(c, asks, rs)
              /\ rs = <<>> \/ \E req : \E then : rs = <<[req |-> req, then |-> then]>>
      BY <1>2 DEF HearsOne
    <2>2. PICK asks : \E rs :
              /\ Gear!Q!Answer(c, asks, rs)
              /\ rs = <<>> \/ \E req : \E then : rs = <<[req |-> req, then |-> then]>>
      BY <2>1
    <2>3. PICK rs :
              /\ Gear!Q!Answer(c, asks, rs)
              /\ rs = <<>> \/ \E req : \E then : rs = <<[req |-> req, then |-> then]>>
      BY <2>2
    <2>4. AsksAgain /\ UNCHANGED <<others, written, view>>
      BY <2>3 DEF Gear!Q!Answer, Gear!Q!Asked, AsksAgain
    <2>5. CASE rs = <<>>
      <3>1. Gear!Q!Sent(<<>>) = {}
        BY DEF Gear!Q!Sent
      <3>2. made \in Nat
        BY DEF InOrder, Ordered, Now
      <3> QED BY <2>3, <2>4, <2>5, <3>1, <3>2, NoneAsk DEF Gear!Q!Answer
    <2>6. CASE \E req : \E then : rs = <<[req |-> req, then |-> then]>>
      <3>1. PICK req : \E then : rs = <<[req |-> req, then |-> then]>>
        BY <2>6
      <3>2. PICK then : rs = <<[req |-> req, then |-> then]>>
        BY <3>1
      <3>3. Len(rs) = 1
        BY <3>2
      <3>4. made + 1 <= MaxCalls /\ made' = made + 1 /\ calls' \subseteq calls \cup Gear!Q!Sent(rs)
        BY <2>3, <3>3 DEF Gear!Q!Answer
      <3> QED BY <2>4, <3>2, <3>4, OneAsks
    <2> QED BY <2>3, <2>5, <2>6
  <1>3. CASE ShowsOne
    <2>1. PICK g \in fetch : \E data : Gear!Q!ArriveShowing(g, data)
      BY <1>3 DEF ShowsOne
    <2>2. PICK data : Gear!Q!ArriveShowing(g, data)
      BY <2>1
    <2>3. /\ g.phase = "read" /\ view' = [data |-> data, at |-> g.at] /\ fetch' = fetch \ {g}
          /\ UNCHANGED <<stored, made, others, written, told, calls>>
      BY <2>2 DEF Gear!Q!ArriveShowing
    <2>4. IsShown(Now, Now') /\ DOMAIN view' = {"data", "at"}
      BY <2>3 DEF IsShown, Now
    <2> QED BY <2>4 DEF Counts, Steps
  <1>4. CASE Elsewhere
    <2>1. ASSUME NEW c \in calls, Gear!Q!Lose(c) PROVE Counts
      <3> DEFINE lost == [c EXCEPT !.state = "lost"]
      <3>1. DOMAIN c = CallFields
        BY DEF InOrder, Ordered, Now
      <3>2. DOMAIN lost = CallFields /\ lost.n = c.n /\ lost.state = "lost" /\ lost.at = c.at
        BY <3>1 DEF CallFields
      <3> HIDE DEF lost
      <3>3. calls' = (calls \ {c}) \cup {lost} /\ UNCHANGED <<stored, made, others, written, told, fetch, view>>
        BY <2>1 DEF Gear!Q!Lose, lost
      <3>4. Ends(Now, Now')
        BY <3>2, <3>3 DEF Ends, Now
      <3> QED BY <3>3, <3>4 DEF Counts, Steps, InOrder
    <2>2. ASSUME Gear!Q!ReadStore PROVE Counts
      <3>1. PICK g \in fetch : fetch' = (fetch \ {g}) \cup {[phase |-> "read", data |-> stored, at |-> written]}
        BY <2>2 DEF Gear!Q!ReadStore
      <3> DEFINE h == [phase |-> "read", data |-> stored, at |-> written]
      <3>2. h.phase = "read" /\ h.at = written /\ fetch' = (fetch \ {g}) \cup {h}
        BY <3>1
      <3> HIDE DEF h
      <3>3. IsRead(Now, Now')
        BY <2>2, <3>2 DEF Gear!Q!ReadStore, IsRead, Now
      <3> QED BY <2>2, <3>3 DEF Counts, Steps, InOrder, Gear!Q!ReadStore
    <2>3. ASSUME Gear!Q!LoseRead \/ Gear!Q!Focus PROVE Counts
      <3>1. UNCHANGED <<stored, made, others, written, told, calls, view>>
        BY <2>3 DEF Gear!Q!LoseRead, Gear!Q!Focus
      <3>2. AsksAgain
        BY <2>3 DEF Gear!Q!LoseRead, Gear!Q!Focus, Gear!Q!Asked, InOrder, Ordered, Now, AsksAgain
      <3> QED BY <3>1, <3>2, NoneAsk
    <2>4. ASSUME AnotherServed PROVE Counts
      <3>1. IsServed(Now, Now', MaxOthers)
        BY <2>4 DEF AnotherServed, IsServed, Now
      <3> QED BY <2>4, <3>1 DEF Counts, Steps, InOrder, AnotherServed
    <2> QED BY <1>4, <2>1, <2>2, <2>3, <2>4, ServedCounts DEF Elsewhere
  <1>5. CASE UNCHANGED Gear!queryVars
    BY <1>5, NoneAsk DEF Gear!queryVars, AsksAgain
  <1> QED BY <1>1, <1>2, <1>3, <1>4, <1>5 DEF Turn

-----------------------------------------------------------------------------
(* The sheets whose handlers send a request at a time, handler by handler.  *)

LEMMA GearTurn ==
  ASSUME Gear!Next
  PROVE  Turn
  <1>1. \A req, then : Gear!Ask(req, then) => Turn
    BY DEF Gear!Ask, SendsOne, Turn
  <1>2. UNCHANGED Gear!queryVars => Turn
    BY DEF Turn
  <1>3. ASSUME NEW step, Gear!Persist(step) PROVE Turn
    <2>1. UNCHANGED Gear!queryVars \/ \E req : \E then : Gear!Ask(req, then)
      BY <1>3, Zenon DEF Gear!Persist
    <2> QED BY <1>1, <1>2, <2>1
  <1>4. ASSUME Gear!RowStep PROVE Turn
    <2>1. ASSUME NEW row, Gear!OpenLine(row) PROVE Turn
      BY <1>3, <2>1 DEF Gear!OpenLine
    <2>2. ASSUME NEW draft, Gear!TypeLine(draft) PROVE Turn
      BY <1>2, <2>2 DEF Gear!TypeLine
    <2>3. ASSUME Gear!SaveLine \/ Gear!SaveAndNextLine PROVE Turn
      BY <1>3, <2>3 DEF Gear!SaveLine, Gear!SaveAndNextLine
    <2>4. ASSUME Gear!CloseLine \/ Gear!CancelDelete PROVE Turn
      BY <1>2, <2>4 DEF Gear!CloseLine, Gear!CancelDelete
    <2>5. ASSUME Gear!DeleteLine \/ Gear!ConfirmDelete PROVE Turn
      BY <1>1, <1>2, <2>5, Zenon DEF Gear!DeleteLine, Gear!ConfirmDelete
    <2> QED BY <1>4, <2>1, <2>2, <2>3, <2>4, <2>5 DEF Gear!RowStep
  <1>5. ASSUME Gear!FormStep PROVE Turn
    <2>1. ASSUME NEW row, Gear!OpenForm(row) PROVE Turn
      BY <1>2, <2>1 DEF Gear!OpenForm
    <2>2. ASSUME NEW item, Gear!PickFormItem(item) PROVE Turn
      BY <1>2, <2>2 DEF Gear!PickFormItem, Gear!Refill
    <2>3. ASSUME NEW draft, Gear!TypeForm(draft) PROVE Turn
      BY <1>2, <2>3 DEF Gear!TypeForm, Gear!Refill
    <2>4. ASSUME Gear!OpenNewForm \/ Gear!CloseForm PROVE Turn
      BY <1>2, <2>4 DEF Gear!OpenNewForm, Gear!CloseForm
    <2>5. ASSUME Gear!SaveForm \/ Gear!DeleteForm PROVE Turn
      BY <1>1, <2>5, Zenon DEF Gear!SaveForm, Gear!DeleteForm
    <2> QED BY <1>5, <2>1, <2>2, <2>3, <2>4, <2>5 DEF Gear!FormStep
  <1>6. ASSUME Gear!BatchStep PROVE Turn
    <2> USE DEF Gear!Rebatch
    <2>1. ASSUME Gear!StartAdding \/ Gear!CancelAdding PROVE Turn
      BY <1>2, <2>1 DEF Gear!StartAdding, Gear!CancelAdding
    <2>2. ASSUME NEW batch, NEW source, Gear!PickSource(batch, source) PROVE Turn
      BY <1>2, <2>2 DEF Gear!PickSource
    <2>3. ASSUME NEW batch, Gear!OpenPicker(batch) \/ Gear!ClosePicker(batch) \/ Gear!ConfirmPicks(batch) PROVE Turn
      BY <1>2, <2>3 DEF Gear!OpenPicker, Gear!ClosePicker, Gear!ConfirmPicks
    <2>4. ASSUME NEW batch, Gear!SaveBatch(batch) PROVE Turn
      BY <1>1, <2>4, Zenon DEF Gear!SaveBatch
    <2>5. ASSUME NEW batch, NEW id, Gear!Tick(batch, id) \/ Gear!PickByName(batch, id) PROVE Turn
      BY <1>2, <2>5 DEF Gear!Tick, Gear!PickByName
    <2>6. ASSUME NEW batch, NEW id, NEW value, Gear!TypeValue(batch, id, value) PROVE Turn
      BY <1>2, <2>6 DEF Gear!TypeValue
    <2>7. ASSUME NEW batch, NEW note, Gear!TypeNote(batch, note) PROVE Turn
      BY <1>2, <2>7 DEF Gear!TypeNote
    <2>8. ASSUME NEW batch, NEW c, Gear!RemoveLine(batch, c) PROVE Turn
      BY <1>2, <2>8 DEF Gear!RemoveLine
    <2> QED BY <1>6, <2>1, <2>2, <2>3, <2>4, <2>5, <2>6, <2>7, <2>8, Zenon DEF Gear!BatchStep
  <1>7. ASSUME NEW c \in calls, Gear!HearAnswer(c) PROVE Turn
    <2>1. \E asks : \E rs : /\ Gear!Q!Answer(c, asks, rs)
                            /\ rs = <<>> \/ \E req : \E then : rs = <<[req |-> req, then |-> then]>>
      BY <1>7, Zenon DEF Gear!HearAnswer, Gear!HearRow, Gear!HearForm, Gear!HearLine
    <2> QED BY <2>1 DEF Turn, HearsOne
  <1>8. ASSUME Gear!ViewArrives PROVE Turn
    BY <1>8 DEF Gear!ViewArrives, Turn, ShowsOne
  <1>9. ASSUME Gear!Elsewhere \/ Gear!Focused PROVE Turn
    <2>1. ASSUME NEW c \in calls, Gear!Q!Serve(c) PROVE ServedWith(c, Gear!ApplyGear(c.req, stored))
      BY <2>1 DEF Gear!Q!Serve, ServedWith
    <2>2. ASSUME NEW req, Gear!Q!OtherClient(req) PROVE AnotherServed
      BY <2>2 DEF Gear!Q!OtherClient, AnotherServed
    <2> QED BY <1>9, <2>1, <2>2 DEF Gear!Elsewhere, Gear!Focused, Elsewhere, Turn
  <1>10. Gear!ToggleFilter => Turn
    BY <1>2 DEF Gear!ToggleFilter
  <1> QED BY <1>4, <1>5, <1>6, <1>7, <1>8, <1>9, <1>10 DEF Gear!Next

LEMMA RigQueries ==
  /\ \A rs : Rig!Q!Send(rs) <=> Gear!Q!Send(rs)
  /\ \A c, asks, rs : Rig!Q!Answer(c, asks, rs) <=> Gear!Q!Answer(c, asks, rs)
  /\ Rig!Q!Arrive => ShowsOne
  /\ Rig!Elsewhere => Elsewhere
  /\ Rig!queryVars = Gear!queryVars
  <1>1. \A rs : Rig!Q!Send(rs) <=> Gear!Q!Send(rs)
    BY DEF Rig!Q!Send, Gear!Q!Send, Rig!Q!Sent, Gear!Q!Sent
  <1>2. \A c, asks, rs : Rig!Q!Answer(c, asks, rs) <=> Gear!Q!Answer(c, asks, rs)
    BY DEF Rig!Q!Answer, Gear!Q!Answer, Rig!Q!Sent, Gear!Q!Sent, Rig!Q!Asked, Gear!Q!Asked, Rig!Q!Answered, Gear!Q!Answered
  <1>3. Rig!Q!Arrive => ShowsOne
    BY DEF Rig!Q!Arrive, Rig!Q!ArriveShowing, Gear!Q!ArriveShowing, ShowsOne
  <1>4. ASSUME NEW c \in calls, Rig!Q!Serve(c) PROVE ServedWith(c, Rig!ApplyRig(c.req, stored))
    BY <1>4 DEF Rig!Q!Serve, ServedWith
  <1>5. ASSUME NEW c \in calls, Rig!Q!Lose(c) PROVE Gear!Q!Lose(c)
    BY <1>5 DEF Rig!Q!Lose, Gear!Q!Lose
  <1>6. Rig!Q!ReadStore \/ Rig!Q!LoseRead \/ Rig!Q!Focus => Gear!Q!ReadStore \/ Gear!Q!LoseRead \/ Gear!Q!Focus
    BY DEF Rig!Q!ReadStore, Rig!Q!LoseRead, Rig!Q!Focus, Gear!Q!ReadStore, Gear!Q!LoseRead, Gear!Q!Focus,
       Rig!Q!Asked, Gear!Q!Asked, Rig!Q!Idle, Gear!Q!Idle
  <1>7. ASSUME NEW req, Rig!Q!OtherClient(req) PROVE AnotherServed
    BY <1>7 DEF Rig!Q!OtherClient, AnotherServed
  <1>8. Rig!Elsewhere => Elsewhere
    BY <1>4, <1>5, <1>6, <1>7 DEF Rig!Elsewhere, Elsewhere
  <1> QED BY <1>1, <1>2, <1>3, <1>8 DEF Rig!queryVars, Gear!queryVars

LEMMA RigTurn ==
  ASSUME Rig!Next
  PROVE  Turn
  <1>1. \A req, then : Rig!Ask(req, then) => Turn
    BY RigQueries DEF Rig!Ask, SendsOne, Turn
  <1>2. UNCHANGED Rig!queryVars => Turn
    BY RigQueries DEF Turn, Rig!queryVars, Gear!queryVars
  <1>3. ASSUME Rig!OpenDrawer \/ Rig!CloseDrawer \/ Rig!SaveLate PROVE Turn
    BY <1>1, <1>2, <1>3 DEF Rig!OpenDrawer, Rig!CloseDrawer, Rig!SaveLate
  <1>4. ASSUME Rig!CardStep PROVE Turn
    <2>1. ASSUME NEW section, NEW row, Rig!ToggleCard(section, row) PROVE Turn
      BY <1>2, <2>1 DEF Rig!ToggleCard
    <2>2. ASSUME NEW side, NEW text, Rig!CommitCount(side) \/ Rig!TypeCount(side, text) PROVE Turn
      BY <1>1, <1>2, <2>2 DEF Rig!CommitCount, Rig!TypeCount
    <2>3. ASSUME NEW x, NEW y, Rig!EditDesk(x, y) \/ Rig!EditDeskFrom(x) \/ Rig!EditRecorder(x, y) \/ Rig!EditBoxItem(x)
          PROVE  Turn
      BY <1>1, <2>3, Zenon DEF Rig!EditDesk, Rig!EditDeskFrom, Rig!EditRecorder, Rig!EditBoxItem
    <2>4. ASSUME Rig!EditMultiField PROVE Turn
      <3>1. ASSUME NEW row, Rig!EditMulti(row) PROVE Turn
        BY <1>1, <3>1 DEF Rig!EditMulti
      <3> QED BY <2>4, <3>1 DEF Rig!EditMultiField
    <2>5. ASSUME NEW section, Rig!EditDeviceField(section) PROVE Turn
      <3>1. ASSUME NEW row, Rig!SaveField(section, row) PROVE Turn
        BY <1>1, <3>1 DEF Rig!SaveField
      <3> QED BY <2>5, <3>1 DEF Rig!EditDeviceField
    <2>6. ASSUME NEW section, Rig!AskToDelete(section) \/ Rig!ConfirmDelete \/ Rig!CancelDelete PROVE Turn
      BY <1>1, <1>2, <2>6 DEF Rig!AskToDelete, Rig!ConfirmDelete, Rig!CancelDelete
    <2> QED BY <1>4, <2>1, <2>2, <2>3, <2>4, <2>5, <2>6 DEF Rig!CardStep
  <1>5. ASSUME Rig!FormStep PROVE Turn
    BY <1>1, <1>2, <1>5, Zenon DEF Rig!FormStep, Rig!ToggleForm, Rig!Add, Rig!FillForm
  <1>6. ASSUME Rig!SwitchStep PROVE Turn
    <2>1. ASSUME NEW model, Rig!StartSwitch(model) PROVE Turn
      BY <1>1, <2>1 DEF Rig!StartSwitch
    <2>2. ASSUME Rig!ConfirmSwitch PROVE Turn
      BY <2>2, RigQueries DEF Rig!ConfirmSwitch, Rig!Applied, SendsOne, Turn
    <2> QED BY <1>2, <1>6, <2>1, <2>2 DEF Rig!SwitchStep, Rig!CancelSwitch
  <1>7. ASSUME NEW c \in calls, Rig!HearAnswer(c) PROVE Turn
    <2>1. \E asks : \E rs : /\ Rig!Q!Answer(c, asks, rs)
                            /\ rs = <<>> \/ \E req : \E then : rs = <<[req |-> req, then |-> then]>>
      BY <1>7, Zenon DEF Rig!HearAnswer, Rig!HearField, Rig!HearCreation, Rig!HearRemoval, Rig!HearPreview, Rig!HearSwitch,
         Rig!Applied
    <2> QED BY <2>1, RigQueries DEF Turn, HearsOne
  <1>8. ASSUME Rig!ViewArrives \/ Rig!Elsewhere PROVE Turn
    BY <1>8, RigQueries DEF Rig!ViewArrives, Turn
  <1> QED BY <1>3, <1>4, <1>5, <1>6, <1>7, <1>8 DEF Rig!Next

LEMMA RoutingQueries ==
  /\ \A rs : Routing!Q!Send(rs) <=> Gear!Q!Send(rs)
  /\ \A c, asks, rs : Routing!Q!Answer(c, asks, rs) <=> Gear!Q!Answer(c, asks, rs)
  /\ Routing!Q!Arrive => ShowsOne
  /\ Routing!Elsewhere => Elsewhere
  /\ Routing!queryVars = Gear!queryVars
  <1>1. \A rs : Routing!Q!Send(rs) <=> Gear!Q!Send(rs)
    BY DEF Routing!Q!Send, Gear!Q!Send, Routing!Q!Sent, Gear!Q!Sent
  <1>2. \A c, asks, rs : Routing!Q!Answer(c, asks, rs) <=> Gear!Q!Answer(c, asks, rs)
    BY DEF Routing!Q!Answer, Gear!Q!Answer, Routing!Q!Sent, Gear!Q!Sent, Routing!Q!Asked, Gear!Q!Asked,
       Routing!Q!Answered, Gear!Q!Answered
  <1>3. Routing!Q!Arrive => ShowsOne
    BY DEF Routing!Q!Arrive, Routing!Q!ArriveShowing, Gear!Q!ArriveShowing, ShowsOne
  <1>4. ASSUME NEW c \in calls, Routing!Q!Serve(c) PROVE ServedWith(c, Routing!ApplyRouting(c.req, stored))
    BY <1>4 DEF Routing!Q!Serve, ServedWith
  <1>5. ASSUME NEW c \in calls, Routing!Q!Lose(c) PROVE Gear!Q!Lose(c)
    BY <1>5 DEF Routing!Q!Lose, Gear!Q!Lose
  <1>6. Routing!Q!ReadStore \/ Routing!Q!LoseRead \/ Routing!Q!Focus => Gear!Q!ReadStore \/ Gear!Q!LoseRead \/ Gear!Q!Focus
    BY DEF Routing!Q!ReadStore, Routing!Q!LoseRead, Routing!Q!Focus, Gear!Q!ReadStore, Gear!Q!LoseRead, Gear!Q!Focus,
       Routing!Q!Asked, Gear!Q!Asked, Routing!Q!Idle, Gear!Q!Idle
  <1>7. ASSUME NEW req, Routing!Q!OtherClient(req) PROVE AnotherServed
    BY <1>7 DEF Routing!Q!OtherClient, AnotherServed
  <1>8. Routing!Elsewhere => Elsewhere
    BY <1>4, <1>5, <1>6, <1>7 DEF Routing!Elsewhere, Elsewhere
  <1> QED BY <1>1, <1>2, <1>3, <1>8 DEF Routing!queryVars, Gear!queryVars

LEMMA RoutingTurn ==
  ASSUME Routing!Next
  PROVE  Turn
  <1>1. \A req, then : Routing!Ask(req, then) => Turn
    BY RoutingQueries DEF Routing!Ask, SendsOne, Turn
  <1>2. UNCHANGED Routing!queryVars => Turn
    BY RoutingQueries DEF Turn, Routing!queryVars, Gear!queryVars
  <1>3. ASSUME Routing!ShowStep PROVE Turn
    <2>1. ASSUME NEW x, Routing!SelectDesk(x) \/ Routing!SelectTable(x) \/ Routing!SetView(x) \/ Routing!SelectNode(x) \/ Routing!OpenTable(x)
          PROVE  Turn
      BY <1>2, <2>1, Zenon DEF Routing!SelectDesk, Routing!SelectTable, Routing!SetView, Routing!SelectNode, Routing!OpenTable
    <2> QED BY <1>3, <2>1, Zenon DEF Routing!ShowStep
  <1>4. ASSUME Routing!AddStep PROVE Turn
    BY <1>1, <1>2, <1>4, Zenon DEF Routing!AddStep, Routing!ToggleAdding, Routing!Create
  <1>5. ASSUME Routing!GridStep PROVE Turn
    <2>1. \A draft : Routing!SetDraft(draft) => Turn
      BY <1>2 DEF Routing!SetDraft
    <2>2. ASSUME NEW mix, Routing!PressHead(mix) \/ Routing!OpenPhone(mix) PROVE Turn
      BY <1>2, <2>2 DEF Routing!PressHead, Routing!OpenPhone
    <2>3. ASSUME NEW mix, NEW x, Routing!Toggle(mix, x) \/ Routing!TypeSlot(mix, x) PROVE Turn
      BY <2>1, <2>3, Zenon DEF Routing!Toggle, Routing!TypeSlot
    <2>4. ASSUME NEW mix, Routing!PickWidth(mix) \/ Routing!SaveColumn(mix) \/ Routing!AskToDelete(mix) PROVE Turn
      BY <1>1, <1>2, <2>1, <2>4, Zenon DEF Routing!PickWidth, Routing!SaveColumn, Routing!AskToDelete
    <2>5. ASSUME Routing!ShowAll \/ Routing!ConfirmDelete \/ Routing!CancelDelete PROVE Turn
      BY <1>1, <1>2, <2>5, Zenon DEF Routing!ShowAll, Routing!ConfirmDelete, Routing!CancelDelete
    <2>6. ASSUME NEW p, Routing!Tick(p) \/ Routing!SavePhone(p) \/ Routing!ClosePhone(p) PROVE Turn
      BY <1>1, <1>2, <2>6, Zenon DEF Routing!Tick, Routing!SavePhone, Routing!ClosePhone
    <2> QED BY <1>5, <2>2, <2>3, <2>4, <2>5, <2>6, Zenon DEF Routing!GridStep
  <1>6. ASSUME Routing!RecorderStep PROVE Turn
    <2>1. \A t, draft : Routing!SetTrack(t, draft) => Turn
      BY <1>2 DEF Routing!SetTrack
    <2>2. ASSUME Routing!TypeTrack PROVE Turn
      BY <2>1, <2>2, Zenon DEF Routing!TypeTrack
    <2>3. ASSUME Routing!EditTracks \/ Routing!SaveTracks \/ Routing!CancelTracks \/ Routing!Fill PROVE Turn
      BY <1>1, <1>2, <2>3, Zenon DEF Routing!EditTracks, Routing!SaveTracks, Routing!CancelTracks, Routing!Fill
    <2> QED BY <1>6, <2>2, <2>3 DEF Routing!RecorderStep
  <1>7. ASSUME NEW c \in calls, Routing!HearAnswer(c) PROVE Turn
    <2>1. \E asks : \E rs : /\ Routing!Q!Answer(c, asks, rs)
                            /\ rs = <<>> \/ \E req : \E then : rs = <<[req |-> req, then |-> then]>>
      BY <1>7, Zenon DEF Routing!HearAnswer, Routing!HearCreate, Routing!HearSave
    <2> QED BY <2>1, RoutingQueries DEF Turn, HearsOne
  <1>8. ASSUME Routing!ViewArrives \/ Routing!Elsewhere PROVE Turn
    BY <1>8, RoutingQueries DEF Routing!ViewArrives, Turn
  <1> QED BY <1>3, <1>4, <1>5, <1>6, <1>7, <1>8 DEF Routing!Next

-----------------------------------------------------------------------------
(* The lighting sheet, on which a request may have another waiting for it.  *)

LightOps == {"createFixture", "updateFixture", "deleteFixture", "bulkFixtures", "addresses"}
Rooms == {"rowRoom", "batchRoom"}
\* What a lighting request has waiting for it is one request at the most, for which nothing waits.
OneOrNone(saves) ==
  saves = <<>> \/ \E req : \E k \in {"row", "bulk"} : req.op \in LightOps /\ saves = <<[req |-> req, then |-> [kind |-> k]]>>
Waiting(then) == then.kind \in {"sheet", "plan"} \cup Rooms /\ OneOrNone(then.saves)
Waits(then) == then.kind \in {"row", "bulk"} \/ Waiting(then)
\* Room is made with addresses.
Asked(req, then) == req.op \in LightOps /\ Waits(then) /\ (then.kind \in Rooms => req.op = "addresses")
LightsWait == /\ {"ending", "due"} \subseteq DOMAIN page
              /\ \A c \in calls : Asked(c.req, c.then)
              /\ \A e \in page.ending \cup page.due : Waiting(e.then)

\* What a step does to that.
LightsSend == \E req : \E then : /\ Asked(req, then) /\ (then.kind \in Rooms => then.alone = (calls = {}))
                                 /\ Gear!Q!Send(<<[req |-> req, then |-> then]>>)
KeepsEnds == {"ending", "due"} \subseteq DOMAIN page' /\ page'.ending \cup page'.due \subseteq page.ending \cup page.due
\* The request that is answered may be one of those whose lists are read again.
GainsEnd(c) == /\ {"ending", "due"} \subseteq DOMAIN page'
               /\ \A e \in page'.ending \cup page'.due :
                    \/ e \in page.ending \cup page.due
                    \/ e = Lighting!Ended(c) /\ c.state = "done" /\ c.then.kind \notin {"row", "bulk"}
LightsHear == \E c \in calls : GainsEnd(c) /\ \E asks : Gear!Q!Answer(c, asks, <<>>)
LightTurn ==
  \/ KeepsEnds /\ (LightsSend \/ ShowsOne \/ UNCHANGED Gear!queryVars)
  \/ KeepsEnds /\ Lighting!Elsewhere
  \/ LightsHear

LEMMA LightingQueries ==
  /\ \A rs : Lighting!Q!Send(rs) <=> Gear!Q!Send(rs)
  /\ \A c, asks, rs : Lighting!Q!Answer(c, asks, rs) <=> Gear!Q!Answer(c, asks, rs)
  /\ Lighting!Q!Arrive => ShowsOne
  /\ Lighting!Elsewhere => Elsewhere
  /\ Lighting!queryVars = Gear!queryVars
  <1>1. \A rs : Lighting!Q!Send(rs) <=> Gear!Q!Send(rs)
    BY DEF Lighting!Q!Send, Gear!Q!Send, Lighting!Q!Sent, Gear!Q!Sent
  <1>2. \A c, asks, rs : Lighting!Q!Answer(c, asks, rs) <=> Gear!Q!Answer(c, asks, rs)
    BY DEF Lighting!Q!Answer, Gear!Q!Answer, Lighting!Q!Sent, Gear!Q!Sent, Lighting!Q!Asked, Gear!Q!Asked,
       Lighting!Q!Answered, Gear!Q!Answered
  <1>3. Lighting!Q!Arrive => ShowsOne
    BY DEF Lighting!Q!Arrive, Lighting!Q!ArriveShowing, Gear!Q!ArriveShowing, ShowsOne
  <1>4. ASSUME NEW c \in calls, Lighting!Q!Serve(c) PROVE ServedWith(c, Lighting!ApplyLighting(c.req, stored))
    BY <1>4 DEF Lighting!Q!Serve, ServedWith
  <1>5. ASSUME NEW c \in calls, Lighting!Q!Lose(c) PROVE Gear!Q!Lose(c)
    BY <1>5 DEF Lighting!Q!Lose, Gear!Q!Lose
  <1>6. Lighting!Q!ReadStore \/ Lighting!Q!LoseRead \/ Lighting!Q!Focus => Gear!Q!ReadStore \/ Gear!Q!LoseRead \/ Gear!Q!Focus
    BY DEF Lighting!Q!ReadStore, Lighting!Q!LoseRead, Lighting!Q!Focus, Gear!Q!ReadStore, Gear!Q!LoseRead, Gear!Q!Focus,
       Lighting!Q!Asked, Gear!Q!Asked, Lighting!Q!Idle, Gear!Q!Idle
  <1>7. ASSUME NEW req, Lighting!Q!OtherClient(req) PROVE AnotherServed
    BY <1>7 DEF Lighting!Q!OtherClient, AnotherServed
  <1>8. Lighting!Elsewhere => Elsewhere
    BY <1>4, <1>5, <1>6, <1>7 DEF Lighting!Elsewhere, Elsewhere
  <1> QED BY <1>1, <1>2, <1>3, <1>8 DEF Lighting!queryVars, Gear!queryVars

LEMMA LightTurns == LightTurn => Turn
  <1>1. LightsSend => SendsOne
    BY DEF LightsSend, SendsOne
  <1>2. LightsHear => HearsOne
    BY Zenon DEF LightsHear, HearsOne
  <1> QED BY <1>1, <1>2, LightingQueries DEF LightTurn, Turn

LEMMA LightsKeepWaiting ==
  ASSUME InOrder, LightsWait, LightTurn
  PROVE  LightsWait'
  <1>1. {"ending", "due"} \subseteq DOMAIN page'
    BY DEF LightTurn, KeepsEnds, LightsHear, GainsEnd
  <1>2. \A e \in page'.ending \cup page'.due : Waiting(e.then)
    BY DEF LightTurn, KeepsEnds, LightsHear, GainsEnd, LightsWait, Asked, Waits, Lighting!Ended
  <1>3. ASSUME NEW c \in calls, NEW d, DOMAIN d = DOMAIN c, d.req = c.req, d.then = c.then, calls' = (calls \ {c}) \cup {d}
        PROVE  \A x \in calls' : Asked(x.req, x.then)
    BY <1>3 DEF LightsWait
  <1>4. \A c \in calls : DOMAIN c = CallFields
    BY DEF InOrder, Ordered, Now
  <1>5. \A c \in calls' : Asked(c.req, c.then)
    <2>1. CASE LightsSend
      <3>1. PICK req : \E then : Asked(req, then) /\ Gear!Q!Send(<<[req |-> req, then |-> then]>>)
        BY <2>1 DEF LightsSend
      <3>2. PICK then : Asked(req, then) /\ Gear!Q!Send(<<[req |-> req, then |-> then]>>)
        BY <3>1
      <3> DEFINE sent == [n |-> made + 1, req |-> req, then |-> then, state |-> "sent", at |-> 0, id |-> 0, reply |-> {}]
      <3>3. Gear!Q!Sent(<<[req |-> req, then |-> then]>>) = {sent}
        BY DEF Gear!Q!Sent
      <3>4. sent.req = req /\ sent.then = then
        OBVIOUS
      <3> HIDE DEF sent
      <3> QED BY <3>2, <3>3, <3>4 DEF Gear!Q!Send, LightsWait
    <2>2. CASE LightsHear
      <3>1. Gear!Q!Sent(<<>>) = {}
        BY DEF Gear!Q!Sent
      <3> QED BY <2>2, <3>1 DEF LightsHear, Gear!Q!Answer, LightsWait
    <2>3. CASE Lighting!Elsewhere
      <3>1. ASSUME NEW c \in calls, NEW results, ServedWith(c, results) PROVE \A x \in calls' : Asked(x.req, x.then)
        <4> DEFINE refused == [c EXCEPT !.state = "refused"]
                   done(r) == [c EXCEPT !.state = "done", !.at = written + 1, !.id = r.id, !.reply = r.reply]
        <4>1. DOMAIN refused = DOMAIN c /\ refused.req = c.req /\ refused.then = c.then
          BY <1>4 DEF CallFields
        <4>2. \A r : DOMAIN done(r) = DOMAIN c /\ done(r).req = c.req /\ done(r).then = c.then
          BY <1>4 DEF CallFields
        <4>3. calls' = (calls \ {c}) \cup {refused} \/ \E r \in results : calls' = (calls \ {c}) \cup {done(r)}
          BY <3>1 DEF ServedWith
        <4> HIDE DEF refused, done
        <4> QED BY <1>3, <4>1, <4>2, <4>3
      <3>2. ASSUME NEW c \in calls, Gear!Q!Lose(c) PROVE \A x \in calls' : Asked(x.req, x.then)
        <4> DEFINE lost == [c EXCEPT !.state = "lost"]
        <4>1. DOMAIN lost = DOMAIN c /\ lost.req = c.req /\ lost.then = c.then
          BY <1>4 DEF CallFields
        <4>2. calls' = (calls \ {c}) \cup {lost}
          BY <3>2 DEF Gear!Q!Lose
        <4> HIDE DEF lost
        <4> QED BY <1>3, <4>1, <4>2
      <3>3. ASSUME UNCHANGED calls PROVE \A x \in calls' : Asked(x.req, x.then)
        BY <3>3 DEF LightsWait
      <3>4. Gear!Q!ReadStore \/ Gear!Q!LoseRead \/ Gear!Q!Focus \/ AnotherServed => UNCHANGED calls
        BY DEF Gear!Q!ReadStore, Gear!Q!LoseRead, Gear!Q!Focus, AnotherServed
      <3> QED BY <2>3, <3>1, <3>2, <3>3, <3>4, LightingQueries DEF Elsewhere
    <2>4. CASE ShowsOne \/ UNCHANGED Gear!queryVars
      <3>1. UNCHANGED calls
        BY <2>4 DEF ShowsOne, Gear!Q!ArriveShowing, Gear!queryVars
      <3> QED BY <3>1 DEF LightsWait
    <2> QED BY <2>1, <2>2, <2>3, <2>4 DEF LightTurn
  <1>6. {"ending", "due"} \subseteq DOMAIN page' /\ \A c \in calls' : Asked(c.req, c.then)
    BY <1>1, <1>5
  <1> QED BY <1>2, <1>6 DEF LightsWait, Asked, Waits, Waiting, OneOrNone, Rooms, LightOps

LEMMA LightingSends ==
  /\ \A req, then : Asked(req, then) /\ then.kind \notin Rooms /\ Lighting!Ask(req, then) => LightsSend
  /\ \A changes : \A kind \in Rooms : \A key, saves :
       OneOrNone(saves) /\ Lighting!Ask(Lighting!Addresses(changes), Lighting!RoomFor(kind, key, saves)) => LightsSend
  /\ \A req : \A k \in {"row", "bulk"} :
       req.op \in LightOps /\ Lighting!Q!Send(<<[req |-> req, then |-> [kind |-> k]]>>) => LightsSend
  /\ \A saves : OneOrNone(saves) /\ saves # <<>> /\ Lighting!Q!Send(saves) => LightsSend
  /\ UNCHANGED Lighting!queryVars => UNCHANGED Gear!queryVars
  <1>1. \A req, then : /\ Asked(req, then) /\ (then.kind \in Rooms => then.alone = (calls = {}))
                       /\ Lighting!Q!Send(<<[req |-> req, then |-> then]>>)
                       => LightsSend
    BY LightingQueries DEF LightsSend
  <1>2. \A req : \A k \in {"row", "bulk"} : req.op \in LightOps => Asked(req, [kind |-> k]) /\ [kind |-> k].kind \notin Rooms
    BY DEF Asked, Waits, Rooms
  <1>3. ASSUME NEW saves, OneOrNone(saves), saves # <<>>, Lighting!Q!Send(saves) PROVE LightsSend
    BY <1>1, <1>2, <1>3, Zenon DEF OneOrNone
  <1>4. ASSUME NEW changes, NEW kind \in Rooms, NEW key, NEW saves, OneOrNone(saves),
               Lighting!Ask(Lighting!Addresses(changes), Lighting!RoomFor(kind, key, saves))
        PROVE  LightsSend
    <2> DEFINE req == Lighting!Addresses(changes)
               then == Lighting!RoomFor(kind, key, saves)
    <2>1. req.op = "addresses" /\ then.kind = kind /\ then.saves = saves /\ then.alone = (calls = {})
      BY DEF Lighting!Addresses, Lighting!RoomFor
    <2>2. Lighting!Q!Send(<<[req |-> req, then |-> then]>>)
      BY <1>4 DEF Lighting!Ask
    <2> HIDE DEF req, then
    <2>3. Asked(req, then)
      BY <1>4, <2>1 DEF Asked, Waits, Waiting, LightOps
    <2> QED BY <1>1, <2>1, <2>2, <2>3
  <1> QED BY <1>1, <1>2, <1>3, <1>4, LightingQueries DEF Lighting!Ask, Lighting!queryVars, Gear!queryVars

Writes(step) == step.writes = <<>> \/ \E w : step.writes = <<w>>

LEMMA LightingWrites ==
  /\ \A editor, row, draft, rows : Writes(Lighting!OpenRow(editor, row, draft, rows))
  /\ \A editor, rows : Writes(Lighting!Save(editor, rows))
  /\ \A editor, next, rows : Writes(Lighting!SaveAndNext(editor, next, rows))
  <1>1. \A editor, rows : LET writes == Lighting!Commit(editor, rows) IN writes = <<>> \/ \E w : writes = <<w>>
    BY DEF Lighting!Commit
  <1> QED BY <1>1 DEF Lighting!OpenRow, Lighting!Save, Lighting!SaveAndNext, Lighting!Step, Writes

LEMMA LightingRowSaves ==
  ASSUME NEW step, Writes(step)
  PROVE  /\ OneOrNone(Lighting!RowSaves(Lighting!RowRequests(step)))
         /\ step.writes # <<>> => Lighting!RowSaves(Lighting!RowRequests(step)) # <<>>
  <1>1. CASE step.writes = <<>>
    BY <1>1 DEF Lighting!RowSaves, Lighting!RowRequests, OneOrNone
  <1>2. CASE \E w : step.writes = <<w>>
    <2>1. PICK w : step.writes = <<w>>
      BY <1>2
    <2> DEFINE sent(v) == [op |-> "updateFixture", id |-> v.row, row |-> v.draft,
                           parent |-> (CHOOSE f \in Lighting!fixtures : f.id = v.row).parent]
               reqs == Lighting!RowRequests(step)
    <2>2. reqs = [i \in DOMAIN step.writes |-> sent(step.writes[i])]
      BY Zenon DEF Lighting!RowRequests
    <2> HIDE DEF sent
    <2>3. reqs = <<sent(w)>>
      BY <2>1, <2>2
    <2> HIDE DEF reqs
    <2>4. Lighting!RowSaves(reqs) = <<[req |-> sent(w), then |-> [kind |-> "row"]]>>
      BY <2>3 DEF Lighting!RowSaves
    <2>5. sent(w).op \in LightOps
      BY DEF sent, LightOps
    <2>6. \E req : \E k \in {"row", "bulk"} :
            req.op \in LightOps /\ Lighting!RowSaves(reqs) = <<[req |-> req, then |-> [kind |-> k]]>>
      BY <2>4, <2>5, Zenon
    <2>7. OneOrNone(Lighting!RowSaves(reqs))
      BY <2>6, Zenon DEF OneOrNone
    <2>8. Lighting!RowSaves(reqs) # <<>>
      BY <2>4
    <2> QED BY <2>7, <2>8 DEF reqs
  <1> QED BY <1>1, <1>2 DEF Writes

\* A part of the page other than what is being read again.
LEMMA KeepsEndsWith ==
  ASSUME LightsWait, NEW pg, page' = pg, {"ending", "due"} \subseteq DOMAIN pg,
         pg.ending \cup pg.due \subseteq page.ending \cup page.due
  PROVE  KeepsEnds
  BY DEF KeepsEnds

LEMMA LightingPersists ==
  ASSUME LightsWait, NEW step, NEW prompt, Writes(step), Lighting!Persist(step, prompt)
  PROVE  LightTurn
  <1>1. KeepsEnds
    BY DEF Lighting!Persist, KeepsEnds, LightsWait
  <1>2. CASE step.writes = <<>>
    BY <1>1, <1>2, LightingSends DEF Lighting!Persist, LightTurn
  <1>3. CASE step.writes # <<>>
    BY <1>1, <1>3, LightingSends, LightingRowSaves DEF Lighting!Persist, LightTurn
  <1> QED BY <1>2, <1>3

LEMMA LightingRows ==
  ASSUME LightsWait, Lighting!RowStep
  PROVE  LightTurn
  <1> USE DEF LightTurn
  <1>1. ASSUME NEW f, Lighting!OpenRowOf(f) PROVE LightTurn
    BY <1>1, LightingWrites, LightingPersists DEF Lighting!OpenRowOf
  <1>2. ASSUME NEW typed, Lighting!TypeRow(typed) PROVE LightTurn
    BY <1>2, LightingSends DEF Lighting!TypeRow, KeepsEnds, LightsWait
  <1>3. ASSUME Lighting!SaveRow PROVE LightTurn
    <2>1. \/ \E prompt : Lighting!Persist(Lighting!Save(page.editor, Lighting!fixtures), prompt)
          \/ \E prompt : page' = [page EXCEPT !.prompt = prompt] /\ UNCHANGED Lighting!queryVars
      BY <1>3, Zenon DEF Lighting!SaveRow
    <2>2. ASSUME NEW prompt, page' = [page EXCEPT !.prompt = prompt], UNCHANGED Lighting!queryVars PROVE LightTurn
      BY <2>2, LightingSends DEF KeepsEnds, LightsWait
    <2> QED BY <2>1, <2>2, LightingWrites, LightingPersists
  <1>4. ASSUME Lighting!SaveAndNextRow PROVE LightTurn
    BY <1>4, LightingWrites, LightingPersists DEF Lighting!SaveAndNextRow
  <1>5. ASSUME Lighting!CancelRow \/ Lighting!EscapeRow \/ Lighting!DeleteRow \/ Lighting!CancelDelete \/ Lighting!BackToRow
        PROVE  LightTurn
    BY <1>5, LightingSends
       DEF Lighting!CancelRow, Lighting!EscapeRow, Lighting!DeleteRow, Lighting!CancelDelete, Lighting!BackToRow,
           KeepsEnds, LightsWait
  <1>6. ASSUME Lighting!ConfirmDelete PROVE LightTurn
    <2>1. KeepsEnds
      BY <1>6 DEF Lighting!ConfirmDelete, KeepsEnds, LightsWait
    <2>2. PICK id \in page.doomed : Lighting!Ask([op |-> "deleteFixture", id |-> id], [kind |-> "row"])
      BY <1>6 DEF Lighting!ConfirmDelete
    <2> DEFINE req == [op |-> "deleteFixture", id |-> id]
    <2>3. req.op \in LightOps
      BY DEF LightOps
    <2>4. Lighting!Q!Send(<<[req |-> req, then |-> [kind |-> "row"]]>>)
      BY <2>2 DEF Lighting!Ask
    <2> HIDE DEF req
    <2> QED BY <2>1, <2>3, <2>4, LightingSends
  <1>7. ASSUME Lighting!ShareOrPlace PROVE LightTurn
    BY <1>7, LightingWrites, LightingPersists DEF Lighting!ShareOrPlace
  <1>8. ASSUME Lighting!RowRoom PROVE LightTurn
    <2> DEFINE step == Lighting!Save(page.editor, Lighting!fixtures)
               saves == Lighting!RowSaves(Lighting!RowRequests(step))
    <2>1. PICK p \in page.prompt :
            \/ Lighting!Persist(step, {})
            \/ /\ Lighting!Ask(Lighting!Addresses(p.room.changes), Lighting!RoomFor("rowRoom", 0, saves))
               /\ page' = [page EXCEPT !.applying = TRUE]
      BY <1>8, Zenon DEF Lighting!RowRoom
    <2>2. OneOrNone(saves)
      BY LightingWrites, LightingRowSaves
    <2>3. Writes(step)
      BY LightingWrites
    <2> HIDE DEF step, saves
    <2>4. "rowRoom" \in Rooms
      BY DEF Rooms
    <2>5. CASE page' = [page EXCEPT !.applying = TRUE]
               /\ Lighting!Ask(Lighting!Addresses(p.room.changes), Lighting!RoomFor("rowRoom", 0, saves))
      <3>1. KeepsEnds
        BY <2>5 DEF KeepsEnds, LightsWait
      <3>2. LightsSend
        BY <2>2, <2>4, <2>5, LightingSends
      <3> QED BY <3>1, <3>2
    <2> QED BY <2>1, <2>3, <2>5, LightingPersists
  <1> HIDE DEF LightTurn
  <1> QED BY <1>1, <1>2, <1>3, <1>4, <1>5, <1>6, <1>7, <1>8, Zenon DEF Lighting!RowStep

LEMMA LightingBatch ==
  ASSUME LightsWait, Lighting!BatchStep
  PROVE  LightTurn
  <1> USE DEF LightTurn
  <1>1. ASSUME Lighting!StartAdding PROVE LightTurn
    BY <1>1, LightingSends DEF Lighting!StartAdding, KeepsEnds, LightsWait
  <1>2. ASSUME NEW batch, NEW new, Lighting!Rebatch(batch, new) PROVE LightTurn
    BY <1>2, LightingSends DEF Lighting!Rebatch, KeepsEnds, LightsWait
  <1>3. ASSUME NEW batch, Lighting!CancelAdding(batch) PROVE LightTurn
    BY <1>3, LightingSends DEF Lighting!CancelAdding, KeepsEnds, LightsWait
  <1>4. \A draft : Lighting!Q!Send(<<Lighting!Submission(draft)>>) => LightsSend
    <2> SUFFICES ASSUME NEW draft, Lighting!Q!Send(<<Lighting!Submission(draft)>>) PROVE LightsSend
      OBVIOUS
    <2> DEFINE req == Lighting!Payload(draft)
    <2>1. req.op \in LightOps
      BY DEF Lighting!Payload, LightOps
    <2>2. Lighting!Q!Send(<<[req |-> req, then |-> [kind |-> "bulk"]]>>)
      BY DEF Lighting!Submission
    <2> HIDE DEF req
    <2> QED BY <2>1, <2>2, LightingSends
  <1>5. ASSUME NEW batch, Lighting!Submit(batch) PROVE LightTurn
    <2>1. KeepsEnds
      BY <1>5 DEF Lighting!Submit, KeepsEnds, LightsWait
    <2> QED BY <1>4, <1>5, <2>1 DEF Lighting!Submit
  <1>6. ASSUME NEW batch, Lighting!AttemptAdd(batch) PROVE LightTurn
    <2>1. \/ \E new : Lighting!Rebatch(batch, new)
          \/ Lighting!Q!Send(<<Lighting!Submission(batch.draft)>>) /\ UNCHANGED page
      BY <1>6, Zenon DEF Lighting!AttemptAdd
    <2>2. UNCHANGED page => KeepsEnds
      BY DEF KeepsEnds, LightsWait
    <2> QED BY <1>2, <1>4, <2>1, <2>2
  <1>7. ASSUME NEW batch, NEW typed, Lighting!TypeBatch(batch, typed) PROVE LightTurn
    BY <1>2, <1>7, Zenon DEF Lighting!TypeBatch
  <1>8. ASSUME NEW batch, NEW u, Lighting!PickUniverse(batch, u) PROVE LightTurn
    BY <1>2, <1>8, Zenon DEF Lighting!PickUniverse
  <1>9. ASSUME NEW batch, Lighting!ShareOrPlaceBatch(batch) \/ Lighting!BackToBatch(batch) PROVE LightTurn
    BY <1>2, <1>5, <1>9, Zenon DEF Lighting!ShareOrPlaceBatch, Lighting!BackToBatch
  <1>10. ASSUME NEW batch, Lighting!BatchRoom(batch) PROVE LightTurn
    <2> DEFINE saves == <<Lighting!Submission(batch.draft)>>
               asked(p) == Lighting!Ask(Lighting!Addresses(p.room.changes), Lighting!RoomFor("batchRoom", batch.key, saves))
    <2>1. PICK p \in batch.prompt :
            \/ Lighting!Submit(batch)
            \/ /\ Lighting!Ask(Lighting!Addresses(p.room.changes), Lighting!RoomFor("batchRoom", batch.key, saves))
               /\ page' = [page EXCEPT !.adding = {[batch EXCEPT !.applying = TRUE]}]
      BY <1>10, Zenon DEF Lighting!BatchRoom
    <2>2. OneOrNone(saves)
      <3> DEFINE req == Lighting!Payload(batch.draft)
      <3>1. req.op \in LightOps
        BY DEF Lighting!Payload, LightOps
      <3>2. saves = <<[req |-> req, then |-> [kind |-> "bulk"]]>>
        BY DEF Lighting!Submission
      <3> HIDE DEF req, saves
      <3> QED BY <3>1, <3>2 DEF OneOrNone
    <2> HIDE DEF saves
    <2>3. "batchRoom" \in Rooms
      BY DEF Rooms
    <2>4. CASE Lighting!Submit(batch)
      BY <1>5, <2>4
    <2>5. CASE page' = [page EXCEPT !.adding = {[batch EXCEPT !.applying = TRUE]}] /\ asked(p)
      <3>1. KeepsEnds
        BY <2>5 DEF KeepsEnds, LightsWait
      <3>2. LightsSend
        BY <2>2, <2>3, <2>5, LightingSends
      <3> QED BY <3>1, <3>2
    <2> QED BY <2>1, <2>4, <2>5
  <1> HIDE DEF LightTurn
  <1> QED BY <1>1, <1>3, <1>6, <1>7, <1>8, <1>9, <1>10, Zenon DEF Lighting!BatchStep

LEMMA LightingPlansAndSheets ==
  ASSUME LightsWait, Lighting!PlanStep \/ Lighting!SheetStep
  PROVE  LightTurn
  <1> USE DEF LightTurn
  <1>1. ASSUME NEW plan, Lighting!ProposePlan(plan) PROVE LightTurn
    BY <1>1, LightingSends DEF Lighting!ProposePlan, KeepsEnds, LightsWait
  <1>2. ASSUME Lighting!CancelPlan \/ Lighting!CloseSheet PROVE LightTurn
    BY <1>2, LightingSends DEF Lighting!CancelPlan, Lighting!CloseSheet, KeepsEnds, LightsWait
  <1>3. ASSUME NEW req, req.op \in LightOps, NEW kind \in {"plan", "sheet"}, NEW key,
               Lighting!Ask(req, [kind |-> kind, key |-> key, saves |-> <<>>])
        PROVE  LightsSend
    <2> DEFINE then == [kind |-> kind, key |-> key, saves |-> <<>>]
    <2>1. Asked(req, then) /\ then.kind \notin Rooms
      BY <1>3 DEF Asked, Waits, Waiting, OneOrNone, Rooms
    <2>2. Lighting!Ask(req, then)
      BY <1>3
    <2> HIDE DEF then
    <2> QED BY <2>1, <2>2, LightingSends
  <1>4. ASSUME Lighting!ConfirmPlan PROVE LightTurn
    <2>1. KeepsEnds
      BY <1>4 DEF Lighting!ConfirmPlan, KeepsEnds, LightsWait
    <2>2. PICK p \in page.plan : Lighting!Ask(Lighting!Addresses(p.changes), [kind |-> "plan", key |-> 0, saves |-> <<>>])
      BY <1>4 DEF Lighting!ConfirmPlan
    <2>3. Lighting!Addresses(p.changes).op \in LightOps
      BY DEF Lighting!Addresses, LightOps
    <2> QED BY <1>3, <2>1, <2>2, <2>3
  <1>5. ASSUME NEW id, NEW draft, Lighting!OpenSheet(id, draft) PROVE LightTurn
    BY <1>5, LightingSends DEF Lighting!OpenSheet, KeepsEnds, LightsWait
  <1>6. ASSUME NEW f, Lighting!OpenFixtureSheet(f) PROVE LightTurn
    BY <1>5, <1>6, Zenon DEF Lighting!OpenFixtureSheet
  <1>7. ASSUME Lighting!OpenNewSheet PROVE LightTurn
    BY <1>5, <1>7, Zenon DEF Lighting!OpenNewSheet
  <1>8. ASSUME NEW typed, Lighting!TypeSheet(typed) PROVE LightTurn
    BY <1>8, LightingSends DEF Lighting!TypeSheet, KeepsEnds, LightsWait
  <1>9. ASSUME Lighting!SaveSheet PROVE LightTurn
    <2>1. PICK s \in page.sheet : /\ Lighting!Ask(Lighting!SheetRequest(s), [kind |-> "sheet", key |-> s.key, saves |-> <<>>])
                                  /\ page' = [page EXCEPT !.sheet = {[s EXCEPT !.saving = TRUE]}]
      BY <1>9 DEF Lighting!SaveSheet
    <2>2. KeepsEnds
      BY <2>1 DEF KeepsEnds, LightsWait
    <2>3. Lighting!SheetRequest(s).op \in LightOps
      BY DEF Lighting!SheetRequest, LightOps
    <2> QED BY <1>3, <2>1, <2>2, <2>3
  <1> HIDE DEF LightTurn
  <1> QED BY <1>1, <1>2, <1>4, <1>6, <1>7, <1>8, <1>9, Zenon DEF Lighting!PlanStep, Lighting!SheetStep

LEMMA LightingHears ==
  ASSUME LightsWait, NEW c \in calls, Lighting!HearAnswer(c)
  PROVE  LightTurn
  <1>1. \E asks : Gear!Q!Answer(c, asks, <<>>)
    <2>1. \E asks : Lighting!Q!Answer(c, asks, <<>>)
      BY Zenon DEF Lighting!HearAnswer, Lighting!HearRow, Lighting!HearBulk, Lighting!HearSheet, Lighting!HearPlan, Lighting!HearRoom
    <2> QED BY <2>1, LightingQueries, Zenon
  <1>2. ASSUME {"ending", "due"} \subseteq DOMAIN page', page'.due = page.due, page'.ending = page.ending PROVE GainsEnd(c)
    BY <1>2 DEF GainsEnd
  <1>3. ASSUME page' = [page EXCEPT !.ending = @ \cup {Lighting!Ended(c)}], c.then.kind \notin {"row", "bulk"}, c.state = "done" PROVE GainsEnd(c)
    <2>2. {"ending", "due"} \subseteq DOMAIN page' /\ page'.due = page.due /\ page'.ending = page.ending \cup {Lighting!Ended(c)}
      BY <1>3 DEF LightsWait
    <2> QED BY <1>3, <2>2 DEF GainsEnd
  <1>4. GainsEnd(c)
    <2>1. CASE c.then.kind = "row" /\ Lighting!HearRow(c)
      BY <1>2, <2>1 DEF Lighting!HearRow, LightsWait
    <2>2. CASE c.then.kind = "bulk" /\ Lighting!HearBulk(c)
      BY <1>2, <2>2 DEF Lighting!HearBulk, LightsWait
    <2>3. CASE c.then.kind = "sheet" /\ Lighting!HearSheet(c)
      <3>1. CASE c.state = "done"
        BY <1>3, <2>3, <3>1 DEF Lighting!HearSheet
      <3>2. CASE c.state # "done"
        BY <1>2, <2>3, <3>2 DEF Lighting!HearSheet, LightsWait
      <3> QED BY <3>1, <3>2
    <2>4. CASE c.then.kind = "plan" /\ Lighting!HearPlan(c)
      <3>1. CASE c.state = "done"
        BY <1>3, <2>4, <3>1 DEF Lighting!HearPlan
      <3>2. CASE c.state # "done"
        BY <1>2, <2>4, <3>2 DEF Lighting!HearPlan, LightsWait
      <3> QED BY <3>1, <3>2
    <2>5. CASE c.then.kind \in {"rowRoom", "batchRoom"} /\ Lighting!HearRoom(c)
      <3>1. CASE c.state = "done"
        BY <1>3, <2>5, <3>1 DEF Lighting!HearRoom, Rooms
      <3>2. CASE c.state # "done"
        BY <1>2, <2>5, <3>2 DEF Lighting!HearRoom, LightsWait
      <3> QED BY <3>1, <3>2
    <2> QED BY <2>1, <2>2, <2>3, <2>4, <2>5, Zenon DEF Lighting!HearAnswer
  <1> QED BY <1>1, <1>4 DEF LightTurn, LightsHear

LEMMA LightingFinishes ==
  ASSUME LightsWait, NEW e \in page.due, Lighting!Finish(e)
  PROVE  LightTurn
  <1> DEFINE done == [page EXCEPT !.due = @ \ {e}]
  <1>1. {"ending", "due"} \subseteq DOMAIN done /\ done.ending = page.ending /\ done.due \subseteq page.due
    BY DEF LightsWait
  <1>2. page' = CASE e.then.kind = "plan" -> done
               [] e.then.kind = "sheet" -> [done EXCEPT !.sheet = {}]
               [] e.then.kind = "rowRoom" -> [done EXCEPT !.editor = Lighting!Closed, !.prompt = {}, !.applying = FALSE]
               [] e.then.kind = "batchRoom" ->
                    [done EXCEPT !.adding = {IF b.key = e.then.key THEN [b EXCEPT !.prompt = {}, !.applying = FALSE] ELSE b : b \in @}]
    BY Zenon DEF Lighting!Finish
  <1> HIDE DEF done
  <1>3. KeepsEnds
    <2>1. e.then.kind \in {"sheet", "plan", "rowRoom", "batchRoom"}
      BY DEF LightsWait, Waiting, Rooms
    <2>2. {"ending", "due"} \subseteq DOMAIN page' /\ page'.ending = done.ending /\ page'.due = done.due
      <3>1. CASE e.then.kind = "plan"
        BY <1>1, <1>2, <3>1
      <3>2. CASE e.then.kind = "sheet"
        BY <1>1, <1>2, <3>2
      <3>3. CASE e.then.kind = "rowRoom"
        BY <1>1, <1>2, <3>3
      <3>4. CASE e.then.kind = "batchRoom"
        BY <1>1, <1>2, <3>4
      <3> QED BY <2>1, <3>1, <3>2, <3>3, <3>4
    <2> QED BY <1>1, <2>2 DEF KeepsEnds
  <1>4. OneOrNone(e.then.saves)
    BY DEF LightsWait, Waiting
  <1> QED BY <1>3, <1>4, LightingSends DEF Lighting!Finish, LightTurn

LEMMA LightingTurn ==
  ASSUME LightsWait, Lighting!Next
  PROVE  LightTurn
  <1>1. Lighting!ToggleFilter => LightTurn
    BY LightingSends DEF Lighting!ToggleFilter, KeepsEnds, LightsWait, LightTurn
  <1>2. ASSUME Lighting!ViewArrives PROVE LightTurn
    BY <1>2, LightingQueries DEF Lighting!ViewArrives, KeepsEnds, LightsWait, LightTurn
  <1>3. ASSUME Lighting!Elsewhere, UNCHANGED page PROVE LightTurn
    BY <1>3, LightingQueries DEF KeepsEnds, LightsWait, LightTurn
  <1> QED BY <1>1, <1>2, <1>3, LightingRows, LightingBatch, LightingPlansAndSheets, LightingHears, LightingFinishes DEF Lighting!Next

-----------------------------------------------------------------------------

-----------------------------------------------------------------------------
(* The store of the lights.                                                 *)

\* The rig has the addresses: every fixture of them is there, and they would change nothing.
HasThem(rig, changes) ==
  /\ \A ch \in changes : Lighting!Exists(rig, ch.id)
  /\ Lighting!Readdressed(rig.fixtures, changes) = rig.fixtures

LEMMA FixtureMade ==
  ASSUME NEW id, NEW parent, NEW row
  PROVE  IsFixture(Lighting!FixtureOf(id, parent, row))
  BY DEF IsFixture, Lighting!FixtureOf

\* A fixture readdressed is one, with its id; and again, it stays.
ReaddressedAs(f, ch) == [f EXCEPT !.universe = ch.universe, !.start = ch.start]
LEMMA FixtureReaddressed ==
  ASSUME NEW f, IsFixture(f), NEW ch
  PROVE  /\ IsFixture(ReaddressedAs(f, ch)) /\ ReaddressedAs(f, ch).id = f.id
         /\ ReaddressedAs(ReaddressedAs(f, ch), ch) = ReaddressedAs(f, ch)
  <1> DEFINE Fields == {"id", "number", "position", "parent", "universe", "start", "count"}
             g == ReaddressedAs(f, ch)
             h == ReaddressedAs(g, ch)
  <1>1. DOMAIN f = Fields
    BY DEF IsFixture, Lighting!FixtureOf
  <1>2. g = [x \in Fields |-> IF x = "start" THEN ch.start ELSE IF x = "universe" THEN ch.universe ELSE f[x]]
    BY <1>1 DEF ReaddressedAs
  <1> HIDE DEF g
  <1>3. h = [x \in Fields |-> IF x = "start" THEN ch.start ELSE IF x = "universe" THEN ch.universe ELSE g[x]]
    BY <1>2 DEF ReaddressedAs
  <1>4. h = g
    BY <1>2, <1>3
  <1>5. g.id = f.id
    BY <1>2
  <1>6. DOMAIN g = Fields /\ g = [x \in Fields |-> g[x]]
    BY <1>2
  <1>7. IsFixture(g)
    BY <1>6 DEF IsFixture, Lighting!FixtureOf
  <1> QED BY <1>4, <1>5, <1>7 DEF g

LEMMA Addressing ==
  ASSUME NEW rig, IsLights(rig), NEW changes, \A ch \in changes : Lighting!Exists(rig, ch.id),
         NEW after, after = [rig EXCEPT !.fixtures = Lighting!Readdressed(rig.fixtures, changes)]
  PROVE  IsLights(after) /\ HasThem(after, changes)
  <1> DEFINE found(i) == {c \in changes : c.id = i}
             one(i) == CHOOSE c \in found(i) : TRUE
             now(f) == IF found(f.id) = {} THEN f ELSE ReaddressedAs(f, one(f.id))
             fixtures == Lighting!Readdressed(rig.fixtures, changes)
  <1>1. \A F : Lighting!Readdressed(F, changes) = {now(f) : f \in F}
    BY Zenon DEF Lighting!Readdressed, ReaddressedAs
  <1> HIDE DEF found, one
  <1>2. ASSUME NEW f \in rig.fixtures PROVE IsFixture(now(f)) /\ now(f).id = f.id /\ now(now(f)) = now(f)
    <2>1. IsFixture(f)
      BY DEF IsLights
    <2>2. CASE found(f.id) = {}
      <3>1. now(f) = f
        BY <2>2
      <3> QED BY <2>1, <3>1
    <2>3. CASE found(f.id) # {}
      <3>1. now(f) = ReaddressedAs(f, one(f.id))
        BY <2>3
      <3> DEFINE g == ReaddressedAs(f, one(f.id))
      <3>2. g.id = f.id /\ IsFixture(g) /\ ReaddressedAs(g, one(f.id)) = g
        BY <2>1, FixtureReaddressed
      <3> HIDE DEF g
      <3>3. now(g) = ReaddressedAs(g, one(f.id))
        BY <2>3, <3>2
      <3>4. now(f) = g
        BY <3>1 DEF g
      <3> HIDE DEF now
      <3> QED BY <3>2, <3>3, <3>4
    <2> QED BY <2>2, <2>3
  <1>3. fixtures = {now(f) : f \in rig.fixtures}
    BY <1>1
  <1>4. after.fixtures = fixtures /\ DOMAIN after = {"fixtures", "next"}
    BY DEF IsLights
  <1> HIDE DEF now, fixtures
  <1>5. IsLights(after)
    BY <1>2, <1>3, <1>4 DEF IsLights
  <1>6. Lighting!Readdressed(after.fixtures, changes) = after.fixtures
    <2>1. {now(g) : g \in fixtures} = fixtures
      BY <1>2, <1>3
    <2> QED BY <1>1, <1>4, <2>1
  <1>7. \A ch \in changes : Lighting!Exists(after, ch.id)
    BY <1>2, <1>3, <1>4 DEF Lighting!Exists
  <1> QED BY <1>5, <1>6, <1>7 DEF HasThem

LEMMA AddressesDone ==
  ASSUME NEW rig, IsLights(rig), NEW req, NEW res \in Lighting!UpdateAddresses(rig, req)
  PROVE  IsLights(res.store) /\ HasThem(res.store, req.changes)
  <1>1. /\ \A ch \in req.changes : Lighting!Exists(rig, ch.id)
        /\ res.store = [rig EXCEPT !.fixtures = Lighting!Readdressed(rig.fixtures, req.changes)]
    BY DEF Lighting!UpdateAddresses, Lighting!LightDone
  <1> QED BY <1>1, Addressing

LEMMA ApplyLightingKeeps ==
  ASSUME NEW rig, IsLights(rig), NEW req, req.op \in LightOps, NEW res \in Lighting!ApplyLighting(req, rig)
  PROVE  IsLights(res.store) /\ (req.op = "addresses" => HasThem(res.store, req.changes))
  <1>1. ASSUME NEW s, DOMAIN s = DOMAIN rig, \A f \in s.fixtures : IsFixture(f) PROVE IsLights(s)
    BY <1>1 DEF IsLights
  <1>2. CASE req.op = "createFixture"
    <2> DEFINE f == Lighting!FixtureOf(rig.next, Lighting!Unset, req.row)
    <2>1. IsFixture(f)
      BY FixtureMade
    <2>2. res \in Lighting!CreateFixture(rig, req)
      BY <1>2 DEF Lighting!ApplyLighting
    <2> HIDE DEF f
    <2>3. res.store = [rig EXCEPT !.fixtures = @ \cup {f}, !.next = @ + 1]
      BY <2>2 DEF Lighting!CreateFixture, Lighting!LightDone, f
    <2>4. DOMAIN res.store = DOMAIN rig /\ res.store.fixtures = rig.fixtures \cup {f}
      BY <2>3 DEF IsLights
    <2> QED BY <1>1, <1>2, <2>1, <2>4 DEF IsLights
  <1>3. CASE req.op = "updateFixture"
    <2> DEFINE f == Lighting!FixtureOf(req.id, req.parent, req.row)
    <2>1. IsFixture(f)
      BY FixtureMade
    <2>2. res \in Lighting!UpdateFixture(rig, req)
      BY <1>3 DEF Lighting!ApplyLighting
    <2> HIDE DEF f
    <2>3. res.store = [rig EXCEPT !.fixtures = Lighting!Others(@, req.id) \cup {f}]
      BY <2>2 DEF Lighting!UpdateFixture, Lighting!LightDone, f
    <2>4. DOMAIN res.store = DOMAIN rig /\ res.store.fixtures = Lighting!Others(rig.fixtures, req.id) \cup {f}
      BY <2>3 DEF IsLights
    <2> QED BY <1>1, <1>3, <2>1, <2>4 DEF IsLights, Lighting!Others
  <1>4. CASE req.op = "deleteFixture"
    <2> DEFINE freed(f) == IF f.parent = req.id THEN [f EXCEPT !.parent = Lighting!Unset] ELSE f
    <2>1. ASSUME NEW f, IsFixture(f) PROVE IsFixture(freed(f))
      BY <2>1 DEF IsFixture, Lighting!FixtureOf
    <2>2. res \in Lighting!DeleteFixture(rig, req)
      BY <1>4 DEF Lighting!ApplyLighting
    <2>5. res \in Lighting!LightDone([rig EXCEPT !.fixtures = {freed(f) : f \in Lighting!Others(rig.fixtures, req.id)}], 0)
      BY <2>2, Zenon DEF Lighting!DeleteFixture
    <2> HIDE DEF freed
    <2>3. res.store = [rig EXCEPT !.fixtures = {freed(f) : f \in Lighting!Others(rig.fixtures, req.id)}]
      BY <2>5 DEF Lighting!LightDone
    <2>4. DOMAIN res.store = DOMAIN rig /\ res.store.fixtures = {freed(f) : f \in Lighting!Others(rig.fixtures, req.id)}
      BY <2>3 DEF IsLights
    <2> QED BY <1>1, <1>4, <2>1, <2>4 DEF IsLights, Lighting!Others
  <1>5. CASE req.op = "bulkFixtures"
    <2>1. res \in Lighting!BulkFixtures(rig, req)
      BY <1>5 DEF Lighting!ApplyLighting
    <2>2. \E fixture : \E n : /\ \A f \in fixture : IsFixture(f)
                              /\ res.store = [fixtures |-> rig.fixtures \cup fixture, next |-> n]
      <3> DEFINE start == Lighting!BatchStart(rig, req)
                 position == Lighting!Max({0} \cup {f.position : f \in rig.fixtures})
                 fixture(i) == [id |-> rig.next + i, number |-> IF req.number = Lighting!Unset THEN Lighting!Unset ELSE req.number + i,
                                position |-> position + 1 + i, parent |-> Lighting!Unset, universe |-> Lighting!AtLeastOne(req.universe),
                                start |-> IF req.share THEN start ELSE start + i * req.count, count |-> req.count]
      <3>1. \A i : IsFixture(fixture(i))
        BY DEF IsFixture, Lighting!FixtureOf
      <3>2. res.store = [fixtures |-> rig.fixtures \cup {fixture(i) : i \in 0 .. req.quantity - 1}, next |-> rig.next + req.quantity]
        <4>1. res \in Lighting!LightDone([fixtures |-> rig.fixtures \cup {fixture(i) : i \in 0 .. req.quantity - 1},
                                          next |-> rig.next + req.quantity], 0)
          BY <2>1, Zenon DEF Lighting!BulkFixtures
        <4> HIDE DEF fixture
        <4> QED BY <4>1 DEF Lighting!LightDone
      <3> HIDE DEF fixture
      <3> QED BY <3>1, <3>2
    <2>3. PICK new : \E n : (\A f \in new : IsFixture(f)) /\ res.store = [fixtures |-> rig.fixtures \cup new, next |-> n]
      BY <2>2
    <2>4. DOMAIN res.store = DOMAIN rig /\ res.store.fixtures = rig.fixtures \cup new
      BY <2>3 DEF IsLights
    <2> QED BY <1>1, <1>5, <2>3, <2>4 DEF IsLights
  <1>6. CASE req.op = "addresses"
    BY <1>6, AddressesDone DEF Lighting!ApplyLighting
  <1> QED BY <1>2, <1>3, <1>4, <1>5, <1>6 DEF LightOps

-----------------------------------------------------------------------------
(* Room that is made, nobody else asking.                                   *)

\* `n` is of a request for room, the last that was made and made while no other was on its way.
Alone(x, n) == x.n = n /\ x.then.kind \in Rooms /\ x.then.alone
\* Nothing else is on its way then; when it is done, and as long as its end is waited for, the rig has the addresses.
RoomStands ==
  /\ others = 0 => IsLights(stored)
  /\ \A c \in calls : Alone(c, made) => /\ calls = {c}
                                        /\ c.state = "done" /\ others = 0 => HasThem(stored, c.req.changes)
  /\ \A e \in page.ending \cup page.due : e.n \in 1 .. made
  /\ \A e \in page.ending \cup page.due : Alone(e, made) => calls = {} /\ (others = 0 => HasThem(stored, e.changes))

LEMMA RoomStays ==
  ASSUME InOrder, LightsWait, LightTurn, RoomStands
  PROVE  RoomStands'
  <1>1. /\ made \in Nat /\ others \in Nat /\ \A c \in calls : DOMAIN c = CallFields /\ c.n \in 1 .. made
    BY BoundsAssumption DEF InOrder, Ordered, Now
  <1> DEFINE Before == page.ending \cup page.due
             After == page'.ending \cup page'.due
  <1>2. ASSUME /\ others' = 0 => IsLights(stored')
               /\ \A c \in calls' : Alone(c, made') => /\ calls' = {c}
                                                       /\ c.state = "done" /\ others' = 0 => HasThem(stored', c.req.changes)
               /\ \A e \in After : e.n \in 1 .. made'
               /\ \A e \in After : Alone(e, made') => calls' = {} /\ (others' = 0 => HasThem(stored', e.changes))
        PROVE  RoomStands'
    BY <1>2 DEF RoomStands, Alone, HasThem, IsLights, IsFixture, Rooms
  \* What only takes requests off, and leaves the rest.
  <1>3. ASSUME calls' = calls, stored' = stored, made' = made, others' = others, After \subseteq Before
        PROVE  RoomStands'
    <2> HIDE DEF After, Before
    <2>1. /\ \A e \in Before : e.n \in 1 .. made
          /\ \A e \in Before : Alone(e, made) => calls = {} /\ (others = 0 => HasThem(stored, e.changes))
      BY DEF RoomStands, Before
    <2> QED BY <1>2, <1>3, <2>1 DEF RoomStands
  <1>4. CASE KeepsEnds /\ LightsSend
    <2>1. PICK req : \E then : /\ Asked(req, then) /\ (then.kind \in Rooms => then.alone = (calls = {}))
                               /\ Gear!Q!Send(<<[req |-> req, then |-> then]>>)
      BY <1>4 DEF LightsSend
    <2>2. PICK then : /\ Asked(req, then) /\ (then.kind \in Rooms => then.alone = (calls = {}))
                      /\ Gear!Q!Send(<<[req |-> req, then |-> then]>>)
      BY <2>1
    <2> DEFINE sent == [n |-> made + 1, req |-> req, then |-> then, state |-> "sent", at |-> 0, id |-> 0, reply |-> {}]
    <2>3. Gear!Q!Sent(<<[req |-> req, then |-> then]>>) = {sent}
      BY DEF Gear!Q!Sent
    <2>4. sent.then = then /\ sent.state = "sent" /\ sent.n = made + 1
      OBVIOUS
    <2> HIDE DEF sent
    <2>5. made' = made + 1 /\ calls' = calls \cup {sent} /\ stored' = stored /\ others' = others
      BY <2>2, <2>3 DEF Gear!Q!Send
    <2>6. \A c \in calls : ~Alone(c, made')
      BY <1>1, <2>5 DEF Alone
    <2>7. \A e \in After : e.n \in 1 .. made
      BY <1>4 DEF KeepsEnds, RoomStands
    <2>8. \A e \in After : e.n \in 1 .. made' /\ ~Alone(e, made')
      BY <1>1, <2>5, <2>7 DEF Alone
    <2>9. Alone(sent, made') => calls' = {sent}
      BY <2>2, <2>4, <2>5 DEF Alone
    <2> HIDE DEF After, Before
    <2> QED BY <1>2, <2>4, <2>5, <2>6, <2>8, <2>9 DEF RoomStands
  <1>5. CASE KeepsEnds /\ (ShowsOne \/ UNCHANGED Gear!queryVars)
    BY <1>3, <1>5 DEF KeepsEnds, ShowsOne, Gear!Q!ArriveShowing, Gear!queryVars
  <1>6. CASE KeepsEnds /\ Lighting!Elsewhere
    <2>1. ASSUME NEW c \in calls, NEW d, d.n = c.n, d.then = c.then, d.req = c.req, calls' = (calls \ {c}) \cup {d},
                 made' = made, others' = others, others = 0 => IsLights(stored'),
                 d.state = "done" /\ others = 0 /\ c.then.kind \in Rooms => HasThem(stored', d.req.changes)
          PROVE  RoomStands'
      <3>1. \A e \in After : e.n \in 1 .. made /\ ~Alone(e, made)
        BY <1>6 DEF KeepsEnds, RoomStands
      <3>2. ASSUME NEW x \in calls', Alone(x, made) PROVE x = d /\ calls = {c}
        <4>1. CASE x \in calls
          <5>1. calls = {x}
            BY <3>2, <4>1 DEF RoomStands
          <5> QED BY <2>1, <5>1
        <4>2. CASE x = d
          <5>1. Alone(c, made)
            BY <2>1, <3>2, <4>2 DEF Alone
          <5> QED BY <4>2, <5>1 DEF RoomStands
        <4> QED BY <2>1, <4>1, <4>2
      <3> HIDE DEF After, Before
      <3>3. ASSUME NEW x \in calls', Alone(x, made)
            PROVE  calls' = {x} /\ (x.state = "done" /\ others = 0 => HasThem(stored', x.req.changes))
        BY <2>1, <3>2, <3>3 DEF Alone
      <3> QED BY <1>2, <2>1, <3>1, <3>3
    <2>2. ASSUME NEW c \in calls, Lighting!Q!Serve(c) PROVE RoomStands'
      <3> DEFINE refused == [c EXCEPT !.state = "refused"]
                 done(r) == [c EXCEPT !.state = "done", !.at = written + 1, !.id = r.id, !.reply = r.reply]
      <3>1. refused.n = c.n /\ refused.req = c.req /\ refused.then = c.then /\ refused.state = "refused"
        BY <1>1 DEF CallFields
      <3>2. \A r : done(r).n = c.n /\ done(r).req = c.req /\ done(r).then = c.then
        BY <1>1 DEF CallFields
      <3>3. made' = made /\ others' = others
        BY <2>2 DEF Lighting!Q!Serve
      <3>4. \/ calls' = (calls \ {c}) \cup {refused} /\ stored' = stored
            \/ \E r \in Lighting!ApplyLighting(c.req, stored) : calls' = (calls \ {c}) \cup {done(r)} /\ stored' = r.store
        BY <2>2, Zenon DEF Lighting!Q!Serve
      <3>5. c.req.op \in LightOps /\ (c.then.kind \in Rooms => c.req.op = "addresses")
        BY DEF LightsWait, Asked
      <3> HIDE DEF refused, done
      <3>6. CASE calls' = (calls \ {c}) \cup {refused} /\ stored' = stored
        BY <2>1, <3>1, <3>3, <3>6 DEF RoomStands
      <3>7. CASE \E r \in Lighting!ApplyLighting(c.req, stored) : calls' = (calls \ {c}) \cup {done(r)} /\ stored' = r.store
        <4>1. PICK r \in Lighting!ApplyLighting(c.req, stored) : calls' = (calls \ {c}) \cup {done(r)} /\ stored' = r.store
          BY <3>7
        <4>2. others = 0 => IsLights(stored') /\ (c.req.op = "addresses" => HasThem(stored', c.req.changes))
          BY <3>5, <4>1, ApplyLightingKeeps DEF RoomStands
        <4> QED BY <2>1, <3>2, <3>3, <3>5, <4>1, <4>2
      <3> QED BY <3>4, <3>6, <3>7
    <2>3. ASSUME NEW c \in calls, Lighting!Q!Lose(c) PROVE RoomStands'
      <3> DEFINE lost == [c EXCEPT !.state = "lost"]
      <3>1. lost.n = c.n /\ lost.req = c.req /\ lost.then = c.then /\ lost.state = "lost"
        BY <1>1 DEF CallFields
      <3>2. calls' = (calls \ {c}) \cup {lost} /\ stored' = stored /\ made' = made /\ others' = others
        BY <2>3 DEF Lighting!Q!Lose
      <3> HIDE DEF lost
      <3> QED BY <2>1, <3>1, <3>2 DEF RoomStands
    <2>4. ASSUME Lighting!Q!ReadStore \/ Lighting!Q!LoseRead \/ Lighting!Q!Focus PROVE RoomStands'
      BY <1>3, <1>6, <2>4 DEF KeepsEnds, Lighting!Q!ReadStore, Lighting!Q!LoseRead, Lighting!Q!Focus
    <2>5. ASSUME NEW req, Lighting!Q!OtherClient(req) PROVE RoomStands'
      <3>1. others' # 0 /\ made' = made /\ calls' = calls
        BY <1>1, <2>5 DEF Lighting!Q!OtherClient
      <3>2. \A e \in After : e.n \in 1 .. made /\ (Alone(e, made) => calls = {})
        BY <1>6 DEF KeepsEnds, RoomStands
      <3>3. \A c \in calls : Alone(c, made) => calls = {c}
        BY DEF RoomStands
      <3> HIDE DEF After, Before
      <3> QED BY <1>2, <3>1, <3>2, <3>3
    <2> QED BY <1>6, <2>2, <2>3, <2>4, <2>5 DEF Lighting!Elsewhere
  <1>7. CASE LightsHear
    <2>1. PICK c \in calls : GainsEnd(c) /\ \E asks : Gear!Q!Answer(c, asks, <<>>)
      BY <1>7 DEF LightsHear
    <2>2. Gear!Q!Sent(<<>>) = {}
      BY DEF Gear!Q!Sent
    <2>3. made' = made /\ others' = others /\ stored' = stored /\ calls' = calls \ {c}
      BY <1>1, <2>1, <2>2 DEF Gear!Q!Answer
    <2>4. ASSUME NEW x \in calls', Alone(x, made) PROVE FALSE
      <3>1. calls = {x}
        BY <2>3, <2>4 DEF RoomStands
      <3> QED BY <2>3, <3>1
    <2>5. ASSUME NEW e \in After PROVE e.n \in 1 .. made /\ (Alone(e, made) => calls' = {} /\ (others = 0 => HasThem(stored, e.changes)))
      <3>1. CASE e \in Before
        <4> HIDE DEF After
        <4>1. e.n \in 1 .. made /\ ~Alone(e, made)
          BY <3>1 DEF RoomStands
        <4> QED BY <4>1
      <3>2. CASE e = Lighting!Ended(c) /\ c.state = "done"
        <4>1. e.n = c.n /\ e.then = c.then /\ e.changes = IF c.req.op = "addresses" THEN c.req.changes ELSE {}
          BY <3>2 DEF Lighting!Ended
        <4>2. ASSUME Alone(e, made) PROVE calls' = {} /\ (others = 0 => HasThem(stored, e.changes))
          <5>1. Alone(c, made) /\ c.req.op = "addresses"
            BY <4>1, <4>2 DEF Alone, LightsWait, Asked
          <5>2. calls = {c} /\ (others = 0 => HasThem(stored, c.req.changes))
            BY <3>2, <5>1 DEF RoomStands
          <5> QED BY <2>3, <4>1, <5>1, <5>2
        <4> QED BY <1>1, <4>1, <4>2
      <3> QED BY <2>1, <3>1, <3>2 DEF GainsEnd
    <2> HIDE DEF After, Before
    <2> QED BY <1>2, <2>3, <2>4, <2>5 DEF RoomStands
  <1> HIDE DEF After, Before
  <1> QED BY <1>4, <1>5, <1>6, <1>7 DEF LightTurn

-----------------------------------------------------------------------------
(* Inductive on every sheet: the counters are in order.                     *)

CountsInv == tab \in {"gear", "lighting", "rig", "routing"} /\ InOrder /\ (tab = "lighting" => LightsWait)

LEMMA OpensInOrder ==
  ASSUME NEW store, NEW spent \in 0 .. MaxCalls, Gear!Q!Opened(store, spent)
  PROVE  InOrder
  <1> USE DEF Gear!Q!Opened, Gear!Q!Idle
  <1>1. Undone(Now) = {}
    BY DEF Undone, Now
  <1>2. Cardinality(Undone(Now)) = 0
    BY <1>1, FS_EmptySet
  <1>3. MaxCalls \in Nat /\ MaxOthers \in Nat
    BY BoundsAssumption
  <1> QED BY <1>2, <1>3 DEF InOrder, Ordered, Now

LEMMA CountsInit == Init => CountsInv
  <1> USE DEF Gear!Q!Opened, Lighting!Q!Opened, Rig!Q!Opened, Routing!Q!Opened,
              Gear!Q!Idle, Lighting!Q!Idle, Rig!Q!Idle, Routing!Q!Idle
  <1>1. Init => /\ tab \in {"gear", "lighting", "rig", "routing"}
                /\ \E store : \E spent \in 0 .. MaxCalls : Gear!Q!Opened(store, spent)
    BY StartsAssumption DEF Init, Gear!Init, Lighting!Init, Rig!Init, Routing!Init
  <1>2. Lighting!Init => LightsWait
    BY DEF Lighting!Init, Lighting!NewPage, LightsWait
  <1>3. Init /\ tab = "lighting" => Lighting!Init
    BY DEF Init
  <1> QED BY <1>1, <1>2, <1>3, OpensInOrder DEF CountsInv

LEMMA CountsNext == CountsInv /\ [Next]_vars => CountsInv'
  <1> SUFFICES ASSUME CountsInv, [Next]_vars PROVE CountsInv'
    OBVIOUS
  <1>1. tab' = tab
    BY DEF Next, vars
  <1>2. InOrder /\ (tab = "lighting" => LightsWait)
    BY DEF CountsInv
  <1>3. Turn /\ (tab = "lighting" => LightTurn)
    <2>1. CASE UNCHANGED vars
      BY <1>2, <2>1 DEF vars, Turn, Gear!queryVars, LightTurn, KeepsEnds, LightsWait
    <2>2. CASE Next
      BY <1>2, <2>2, GearTurn, RigTurn, RoutingTurn, LightingTurn, LightTurns DEF Next
    <2> QED BY <2>1, <2>2
  <1>4. InOrder'
    <2>1. Ordered(Now', MaxCalls, MaxOthers) /\ DOMAIN view' = {"data", "at"}
      BY <1>2, <1>3, TurnCounts, BoundsAssumption, StepsStayOrdered DEF InOrder, Counts
    <2> QED BY <2>1 DEF InOrder
  <1>5. tab' = "lighting" => LightsWait'
    BY <1>1, <1>2, <1>3, LightsKeepWaiting
  <1> QED BY <1>1, <1>4, <1>5 DEF CountsInv

\* Whatever sheet is open and whatever is done on it, its requests are within their bound and
\* numbered, none is counted before the server has done it, and it shows no copy newer than the
\* server's while one GET at the most is on its way: the counters every page is queried through.
THEOREM SheetsAlwaysTyped == Spec => []TypeOK
  <1>1. CountsInv => TypeOK
    <2> SUFFICES ASSUME CountsInv PROVE TypeOK
      OBVIOUS
    <2>1. InOrder
      BY DEF CountsInv
    <2>2. made \in Nat /\ \A c \in Now.calls : c.n \in 1 .. Now.made
      BY <2>1 DEF InOrder, Ordered, Now
    <2>3. Cardinality(Undone(Now)) \in Nat
      BY <2>2, UndoneCounted DEF Now
    <2>4. written <= made
      BY <2>1, <2>2, <2>3 DEF InOrder, Ordered, Now
    <2>5. Gear!Q!TypeOK
      BY <2>1, <2>4, BoundsAssumption DEF InOrder, Ordered, Now, Gear!Q!TypeOK, States
    <2> QED BY <2>5 DEF CountsInv, TypeOK
  <1> QED BY <1>1, CountsInit, CountsNext, PTL DEF Spec

-----------------------------------------------------------------------------
(* On the lighting sheet, room before what waits for it.                    *)

LightsInv == CountsInv /\ (tab = "lighting" => RoomStands)

LEMMA LightsInit == Init => LightsInv
  <1>1. Lighting!Init => RoomStands
    BY LightsAssumption DEF Lighting!Init, Lighting!Q!Opened, Lighting!NewPage, RoomStands
  <1>2. Init /\ tab = "lighting" => Lighting!Init
    BY DEF Init
  <1> QED BY <1>1, <1>2, CountsInit DEF LightsInv

LEMMA LightsNext == LightsInv /\ [Next]_vars => LightsInv'
  <1> SUFFICES ASSUME LightsInv, [Next]_vars PROVE LightsInv'
    OBVIOUS
  <1>1. CountsInv'
    BY CountsNext DEF LightsInv
  <1>2. tab' = tab
    BY DEF Next, vars
  <1>3. tab = "lighting" => InOrder /\ LightsWait /\ RoomStands
    BY DEF LightsInv, CountsInv
  <1>4. tab = "lighting" => LightTurn
    <2>1. CASE UNCHANGED vars
      BY <1>3, <2>1 DEF vars, Gear!queryVars, LightTurn, KeepsEnds, LightsWait
    <2>2. CASE Next
      BY <1>3, <2>2, LightingTurn DEF Next
    <2> QED BY <2>1, <2>2
  <1> QED BY <1>1, <1>2, <1>3, <1>4, RoomStays DEF LightsInv

\* Whatever lights the tab opens on, whatever is typed and however answers come: what waits for
\* room is sent when the rig has every address that was asked for, if no other request of the page
\* came between and nobody else asked (LightingSheet.tsx, "Shift first, then save").
THEOREM RoomIsAlwaysFirst == Spec => RoomIsFirst
  <1>1. LightsInv => (tab = "lighting" => Lighting!RoomIsFirstStep)
    <2> SUFFICES ASSUME RoomStands, others = 0, NEW e \in page.due, e.n = made,
                        e.then.kind \in {"rowRoom", "batchRoom"}, e.then.alone
                 PROVE  HasThem(stored, e.changes)
      BY DEF LightsInv, Lighting!RoomIsFirstStep, HasThem
    <2> QED BY DEF RoomStands, Alone, Rooms
  <1> QED BY <1>1, LightsInit, LightsNext, PTL DEF Spec, RoomIsFirst

-----------------------------------------------------------------------------
(* What the routing tab asks for.                                           *)

\* The tracks past the count that a page shows as it sends the table.
Past(then) == {r \in then.shown : (Routing!Recording(r) \/ Routing!Playing(r)) /\ Routing!TrackOf(r) > then.count}
\* A request of the tab is one the server has a handler for, and a table of tracks is sent with
\* those past its count.
Wanted(req, then) == req.op \in RoutingOps /\ (req.op = "setTracks" => Past(then) \subseteq req.kept)
DesksKept == IsRouting(stored) /\ \A c \in calls : Wanted(c.req, c.then)

\* What a step does to that.
DesksAsk == \E req : \E then : Wanted(req, then) /\ Routing!Q!Send(<<[req |-> req, then |-> then]>>)
DesksServed == \E c \in calls : Routing!Q!Serve(c)
DesksLose == \E c \in calls : Routing!Q!Lose(c)
DesksRest == calls' \subseteq calls /\ UNCHANGED <<stored, written>>
DesksOthers == /\ \E req \in RoutingOthers : \E res \in Routing!ApplyRouting(req, stored) : stored' = res.store
               /\ UNCHANGED <<calls, written>>
DeskTurn == DesksAsk \/ DesksServed \/ DesksLose \/ DesksRest \/ DesksOthers

LEMMA DeskTurns ==
  ASSUME Routing!Next
  PROVE  DeskTurn
  <1>1. \A req, then : Wanted(req, then) /\ Routing!Ask(req, then) => DeskTurn
    BY DEF Routing!Ask, DesksAsk, DeskTurn
  <1>2. UNCHANGED Routing!queryVars => DeskTurn
    BY DEF Routing!queryVars, DesksRest, DeskTurn
  <1>3. ASSUME Routing!ShowStep PROVE DeskTurn
    <2>1. ASSUME NEW x, Routing!SelectDesk(x) \/ Routing!SelectTable(x) \/ Routing!SetView(x) \/ Routing!SelectNode(x) \/ Routing!OpenTable(x)
          PROVE  DeskTurn
      BY <1>2, <2>1, Zenon DEF Routing!SelectDesk, Routing!SelectTable, Routing!SetView, Routing!SelectNode, Routing!OpenTable
    <2> QED BY <1>3, <2>1, Zenon DEF Routing!ShowStep
  <1>4. ASSUME NEW op \in RoutingOps \ {"setTracks"}, NEW req, req.op = op, NEW then, Routing!Ask(req, then) PROVE DeskTurn
    <2>1. Wanted(req, then)
      BY <1>4 DEF Wanted, RoutingOps
    <2> QED BY <1>1, <1>4, <2>1
  <1>5. ASSUME Routing!AddStep PROVE DeskTurn
    <2>1. ASSUME Routing!ToggleAdding PROVE DeskTurn
      BY <1>2, <2>1 DEF Routing!ToggleAdding
    <2>2. ASSUME NEW k, Routing!Create(k) PROVE DeskTurn
      <3> DEFINE req == [op |-> "createMix", desk |-> Routing!desk.id, kind |-> k]
      <3>1. req.op = "createMix" /\ "createMix" \in RoutingOps \ {"setTracks"}
        BY DEF RoutingOps
      <3>2. Routing!Ask(req, [kind |-> "create"])
        BY <2>2 DEF Routing!Create
      <3> HIDE DEF req
      <3> QED BY <1>4, <3>1, <3>2
    <2> QED BY <1>5, <2>1, <2>2 DEF Routing!AddStep
  <1>6. ASSUME NEW m, NEW sources, NEW then, Routing!Ask(Routing!Update(m, sources), then) PROVE DeskTurn
    <2>1. Routing!Update(m, sources).op = "updateMix" /\ "updateMix" \in RoutingOps \ {"setTracks"}
      BY DEF Routing!Update, RoutingOps
    <2> QED BY <1>4, <1>6, <2>1
  <1>7. ASSUME Routing!GridStep PROVE DeskTurn
    <2>1. \A draft : Routing!SetDraft(draft) => DeskTurn
      BY <1>2 DEF Routing!SetDraft
    <2>2. ASSUME NEW mix, Routing!PressHead(mix) \/ Routing!OpenPhone(mix) PROVE DeskTurn
      BY <1>2, <2>2 DEF Routing!PressHead, Routing!OpenPhone
    <2>3. ASSUME NEW mix, NEW x, Routing!Toggle(mix, x) \/ Routing!TypeSlot(mix, x) PROVE DeskTurn
      BY <2>1, <2>3, Zenon DEF Routing!Toggle, Routing!TypeSlot
    <2>4. ASSUME NEW mix, Routing!PickWidth(mix) \/ Routing!SaveColumn(mix) \/ Routing!AskToDelete(mix) PROVE DeskTurn
      BY <1>2, <1>6, <2>1, <2>4, Zenon DEF Routing!PickWidth, Routing!SaveColumn, Routing!AskToDelete
    <2>5. ASSUME Routing!ShowAll \/ Routing!CancelDelete PROVE DeskTurn
      BY <1>2, <2>5 DEF Routing!ShowAll, Routing!CancelDelete
    <2>6. ASSUME Routing!ConfirmDelete PROVE DeskTurn
      <3>1. PICK id \in page.dialog : Routing!Ask([op |-> "deleteMix", id |-> id], [kind |-> "removal"])
        BY <2>6 DEF Routing!ConfirmDelete
      <3> DEFINE req == [op |-> "deleteMix", id |-> id]
      <3>2. req.op = "deleteMix" /\ "deleteMix" \in RoutingOps \ {"setTracks"}
        BY DEF RoutingOps
      <3>3. Routing!Ask(req, [kind |-> "removal"])
        BY <3>1
      <3> HIDE DEF req
      <3> QED BY <1>4, <3>2, <3>3
    <2>7. ASSUME NEW p, Routing!Tick(p) \/ Routing!SavePhone(p) \/ Routing!ClosePhone(p) PROVE DeskTurn
      BY <1>2, <1>6, <2>7, Zenon DEF Routing!Tick, Routing!SavePhone, Routing!ClosePhone
    <2> QED BY <1>7, <2>2, <2>3, <2>4, <2>5, <2>6, <2>7, Zenon DEF Routing!GridStep
  <1>8. ASSUME Routing!RecorderStep PROVE DeskTurn
    <2>1. \A t, draft : Routing!SetTrack(t, draft) => DeskTurn
      BY <1>2 DEF Routing!SetTrack
    <2>2. ASSUME Routing!TypeTrack PROVE DeskTurn
      BY <2>1, <2>2, Zenon DEF Routing!TypeTrack
    <2>3. ASSUME Routing!EditTracks \/ Routing!CancelTracks PROVE DeskTurn
      BY <1>2, <2>3 DEF Routing!EditTracks, Routing!CancelTracks
    <2>4. ASSUME Routing!SaveTracks PROVE DeskTurn
      <3> DEFINE rows == UNION {Routing!RowRoutes(t) : t \in DOMAIN Routing!Tracks}
                 req == [op |-> "setTracks", desk |-> Routing!desk.id, rows |-> rows, kept |-> Routing!PastTheCount]
                 then == [kind |-> "tracks", shown |-> Routing!deskRoutes, count |-> Routing!TracksOf(Routing!desk)]
      <3>1. Routing!Ask(req, then)
        BY <2>4, Zenon DEF Routing!SaveTracks
      <3> HIDE DEF rows
      <3>2. req.op = "setTracks" /\ req.kept = Routing!PastTheCount
        OBVIOUS
      <3>3. Past(then) = Routing!PastTheCount
        BY DEF Past, Routing!PastTheCount
      <3> HIDE DEF req, then
      <3>4. Wanted(req, then)
        BY <3>2, <3>3 DEF Wanted, RoutingOps
      <3> QED BY <1>1, <3>1, <3>4
    <2>5. ASSUME Routing!Fill PROVE DeskTurn
      <3> DEFINE req == [op |-> "fillRecorder", desk |-> Routing!desk.id]
      <3>1. req.op = "fillRecorder" /\ "fillRecorder" \in RoutingOps \ {"setTracks"}
        BY DEF RoutingOps
      <3>2. Routing!Ask(req, [kind |-> "tracks"])
        BY <2>5 DEF Routing!Fill
      <3> HIDE DEF req
      <3> QED BY <1>4, <3>1, <3>2
    <2> QED BY <1>8, <2>2, <2>3, <2>4, <2>5 DEF Routing!RecorderStep
  <1>9. ASSUME NEW c \in calls, Routing!HearAnswer(c) PROVE DeskTurn
    <2>1. \E asks : Routing!Q!Answer(c, asks, <<>>)
      BY <1>9, Zenon DEF Routing!HearAnswer, Routing!HearCreate, Routing!HearSave
    <2>2. Routing!Q!Sent(<<>>) = {}
      BY DEF Routing!Q!Sent
    <2>3. calls' \subseteq calls /\ UNCHANGED <<stored, written>>
      BY <2>1, <2>2 DEF Routing!Q!Answer
    <2> QED BY <2>3 DEF DeskTurn, DesksRest
  <1>10. ASSUME Routing!ViewArrives PROVE DeskTurn
    BY <1>10 DEF Routing!ViewArrives, Routing!Q!Arrive, Routing!Q!ArriveShowing, DeskTurn, DesksRest
  <1>11. ASSUME Routing!Elsewhere PROVE DeskTurn
    <2>1. Routing!Q!ReadStore \/ Routing!Q!LoseRead \/ Routing!Q!Focus => DesksRest
      BY DEF Routing!Q!ReadStore, Routing!Q!LoseRead, Routing!Q!Focus, DesksRest
    <2>2. ASSUME NEW req \in RoutingOthers, Routing!Q!OtherClient(req) PROVE DesksOthers
      BY <2>2 DEF Routing!Q!OtherClient, DesksOthers
    <2> QED BY <1>11, <2>1, <2>2, Zenon DEF Routing!Elsewhere, DeskTurn, DesksServed, DesksLose
  <1> QED BY <1>3, <1>5, <1>7, <1>8, <1>9, <1>10, <1>11, Zenon DEF Routing!Next

LEMMA DesksStayKept ==
  ASSUME DesksKept, DeskTurn, \A c \in calls : DOMAIN c = CallFields
  PROVE  DesksKept'
  <1>1. ASSUME NEW c \in calls, NEW d, d.req = c.req, d.then = c.then, calls' = (calls \ {c}) \cup {d}
        PROVE  \A x \in calls' : Wanted(x.req, x.then)
    BY <1>1 DEF DesksKept
  <1>2. ASSUME NEW req, req.op \in RoutingOps, NEW res \in Routing!ApplyRouting(req, stored), stored' = res.store
        PROVE  IsRouting(stored')
    BY <1>2, ApplyRoutingKeeps DEF DesksKept
  <1> SUFFICES IsRouting(stored') /\ \A x \in calls' : Wanted(x.req, x.then)
    BY DEF DesksKept, Wanted, IsRouting, IsDesk, IsMix, Feeds
  <1>3. CASE DesksAsk
    <2>1. PICK req : \E then : Wanted(req, then) /\ Routing!Q!Send(<<[req |-> req, then |-> then]>>)
      BY <1>3 DEF DesksAsk
    <2>2. PICK then : Wanted(req, then) /\ Routing!Q!Send(<<[req |-> req, then |-> then]>>)
      BY <2>1
    <2> DEFINE sent == [n |-> made + 1, req |-> req, then |-> then, state |-> "sent", at |-> 0, id |-> 0, reply |-> {}]
    <2>3. Routing!Q!Sent(<<[req |-> req, then |-> then]>>) = {sent}
      BY DEF Routing!Q!Sent
    <2>4. sent.req = req /\ sent.then = then
      OBVIOUS
    <2> HIDE DEF sent
    <2> QED BY <2>2, <2>3, <2>4 DEF Routing!Q!Send, DesksKept
  <1>4. CASE DesksServed
    <2>1. PICK c \in calls : Routing!Q!Serve(c)
      BY <1>4 DEF DesksServed
    <2> DEFINE refused == [c EXCEPT !.state = "refused"]
               done(r) == [c EXCEPT !.state = "done", !.at = written + 1, !.id = r.id, !.reply = r.reply]
    <2>2. refused.req = c.req /\ refused.then = c.then
      BY DEF CallFields
    <2>3. \A r : done(r).req = c.req /\ done(r).then = c.then
      BY DEF CallFields
    <2>4. \/ calls' = (calls \ {c}) \cup {refused} /\ stored' = stored
          \/ \E r \in Routing!ApplyRouting(c.req, stored) : calls' = (calls \ {c}) \cup {done(r)} /\ stored' = r.store
      BY <2>1, Zenon DEF Routing!Q!Serve
    <2>5. c.req.op \in RoutingOps
      BY DEF DesksKept, Wanted
    <2> HIDE DEF refused, done
    <2>6. CASE calls' = (calls \ {c}) \cup {refused} /\ stored' = stored
      BY <1>1, <2>2, <2>6 DEF DesksKept
    <2>7. CASE \E r \in Routing!ApplyRouting(c.req, stored) : calls' = (calls \ {c}) \cup {done(r)} /\ stored' = r.store
      <3>1. PICK r \in Routing!ApplyRouting(c.req, stored) : calls' = (calls \ {c}) \cup {done(r)} /\ stored' = r.store
        BY <2>7
      <3> QED BY <1>1, <1>2, <2>3, <2>5, <3>1
    <2> QED BY <2>4, <2>6, <2>7
  <1>5. CASE DesksLose
    <2>1. PICK c \in calls : Routing!Q!Lose(c)
      BY <1>5 DEF DesksLose
    <2> DEFINE lost == [c EXCEPT !.state = "lost"]
    <2>2. lost.req = c.req /\ lost.then = c.then
      BY DEF CallFields
    <2>3. calls' = (calls \ {c}) \cup {lost} /\ stored' = stored
      BY <2>1 DEF Routing!Q!Lose
    <2> HIDE DEF lost
    <2> QED BY <1>1, <2>2, <2>3 DEF DesksKept
  <1>6. CASE DesksRest
    BY <1>6 DEF DesksRest, DesksKept
  <1>7. CASE DesksOthers
    BY <1>2, <1>7, DesksAssumption DEF DesksOthers, DesksKept
  <1> QED BY <1>3, <1>4, <1>5, <1>6, <1>7 DEF DeskTurn

\* One of the tab's tables that is taken keeps the tracks past the count it was sent with.
LEMMA PastStays ==
  ASSUME DesksKept, DeskTurn
  PROVE  Routing!PastTracksStayStep
  <1> SUFFICES ASSUME NEW c \in calls, c.req.op = "setTracks", c.state = "sent", written' # written, c \notin calls',
                      NEW r \in stored.routes \cap c.then.shown,
                      Routing!Recording(r) \/ Routing!Playing(r), Routing!TrackOf(r) > c.then.count
               PROVE  r \in stored'.routes
    BY DEF Routing!PastTracksStayStep
  <1>1. r \in c.req.kept
    BY DEF DesksKept, Wanted, Past
  <1>2. PICK d \in calls : Routing!Q!Serve(d)
    BY DEF DeskTurn, DesksAsk, DesksServed, DesksLose, DesksRest, DesksOthers, Routing!Q!Send, Routing!Q!Lose
  <1>3. d = c
    <2>1. \E e : calls' = (calls \ {d}) \cup {e}
      BY <1>2, Zenon DEF Routing!Q!Serve
    <2> QED BY <2>1
  <1>4. PICK res \in Routing!ApplyRouting(c.req, stored) : stored' = res.store
    BY <1>2, <1>3 DEF Routing!Q!Serve
  <1>5. res \in Routing!SetTracks(c.req, stored)
    BY <1>4 DEF Routing!ApplyRouting
  <1>6. PICK desk \in stored.desks : res \in Routing!PutRecorderRoutes(stored, desk.id, c.req.rows \cup c.req.kept)
    BY <1>5 DEF Routing!SetTracks, Routing!OfId
  <1>7. res.store.routes = Routing!WithoutPort(stored.routes, "recorder", desk.id) \cup (c.req.rows \cup c.req.kept)
    BY <1>6 DEF Routing!PutRecorderRoutes, Routing!RoutingDone, DesksKept, IsRouting
  <1> QED BY <1>1, <1>4, <1>7

RoutingInv == CountsInv /\ (tab = "routing" => DesksKept)

LEMMA RoutingInit == Init => RoutingInv
  <1>1. Routing!Init => DesksKept
    BY DesksAssumption DEF Routing!Init, Routing!Q!Opened, DesksKept
  <1>2. Init /\ tab = "routing" => Routing!Init
    BY DEF Init
  <1> QED BY <1>1, <1>2, CountsInit DEF RoutingInv

LEMMA RoutingTurns == RoutingInv /\ [Next]_vars /\ tab = "routing" => DeskTurn
  <1>1. UNCHANGED vars => DeskTurn
    BY DEF vars, DeskTurn, DesksRest
  <1>2. Next /\ tab = "routing" => Routing!Next
    BY DEF Next
  <1> QED BY <1>1, <1>2, DeskTurns

LEMMA RoutingNext == RoutingInv /\ [Next]_vars => RoutingInv'
  <1> SUFFICES ASSUME RoutingInv, [Next]_vars PROVE RoutingInv'
    OBVIOUS
  <1>1. CountsInv'
    BY CountsNext DEF RoutingInv
  <1>2. \A c \in calls : DOMAIN c = CallFields
    BY DEF RoutingInv, CountsInv, InOrder, Ordered, Now
  <1>3. tab' = tab
    BY DEF Next, vars
  <1>4. tab = "routing" => DesksKept'
    BY <1>2, RoutingTurns, DesksStayKept DEF RoutingInv
  <1> QED BY <1>1, <1>3, <1>4 DEF RoutingInv

\* Whatever desks the tab opens on, and whatever is sent by whom: a column of the desk on show that
\* keeps its slot and its width, all of whose sources are stored or squares of it, is not refused
\* while the page shows what the server has (deskRouting.ts, ruleOf; consoles.go, routeRules). Left
\* out are the LV1 matrices with more sources than one takes, which are offered and refused.
THEOREM OfferedIsAlwaysTaken == Spec => OfferedIsTaken
  <1>1. RoutingInv /\ [Next]_vars => (tab = "routing" => Routing!OfferedIsTakenStep)
    <2> SUFFICES ASSUME IsRouting(stored) PROVE Routing!OfferedIsTakenStep
      BY DEF RoutingInv, DesksKept
    <2> SUFFICES ASSUME NEW c \in calls', c.req.op = "updateMix", NEW m \in Routing!OfId(Routing!mixes, c.req.id),
                        Routing!OffersSent(m, c.req), ~Routing!PastMatrixLimit(Routing!desk.model, m, c.req)
                 PROVE  Routing!ApplyRouting(c.req, stored) # {}
      BY Zenon DEF Routing!OfferedIsTakenStep
    <2> QED BY OfferedOfShown
  <1> QED BY <1>1, RoutingInit, RoutingNext, PTL DEF Spec, OfferedIsTaken

\* Whatever other clients made of the desk meanwhile: a table of tracks that the server takes leaves
\* every track past the count, as the page showed them when it was sent, where it is stored
\* (RecorderTable.tsx, save; desk_mixes.go, setRecorderRoutes).
THEOREM PastTracksAlwaysStay == Spec => PastTracksStay
  <1>1. RoutingInv /\ [Next]_vars => (tab = "routing" => Routing!PastTracksStayStep)
    BY RoutingTurns, PastStays DEF RoutingInv
  <1> QED BY <1>1, RoutingInit, RoutingNext, PTL DEF Spec, PastTracksStay
=============================================================================

----------------------------- MODULE PatchStore -----------------------------
(***************************************************************************)
(* The requests the client makes about an event's audio patch, and what    *)
(* the server makes of them (backend/internal/api/audio_patch.go and       *)
(* desk_rows.go, sent by frontend/src/api/audioPatch.ts).  A store is a    *)
(* patch of PatchSheets with `next`, an id not given yet.  Which strip a   *)
(* channel may take is DeskStrips' subject: here a strip is a number on a  *)
(* desk, one row to a number; what feeds an output is one name, `fed`.     *)
(***************************************************************************)
EXTENDS PatchSheets

\* A result is a store and the id of the row made; a refusal is no result.
Done(store) == {[store |-> store, id |-> 0, reply |-> {}]}
\* Mutant of Made: the next row takes the id again.
MadeReusingIds(store) == {[store |-> store, id |-> store.next, reply |-> {}]}
Made(store) == {[store |-> [store EXCEPT !.next = @ + 1], id |-> store.next, reply |-> {}]}

Row(rows, id) == {r \in rows : r.id = id}
Put(rows, row) == {r \in rows : r.id # row.id} \cup {row}
Cables(side, s) == IF side = "in" THEN s.inCables ELSE s.outCables
WithCables(side, s, cables) == IF side = "in" THEN [s EXCEPT !.inCables = cables] ELSE [s EXCEPT !.outCables = cables]
\* Cables of one graph that end on a node of one of these kinds.
OnNode(cables, kinds, id) ==
  {c \in cables : \E e \in {c.from, c.to} : e.kind \in kinds /\ e.id = id}

\* Mutant of LegalCable: no one looks whether a port is taken.
LegalOnTakenPorts(side, cable, s) ==
  LET ports == IF side = "in" THEN InputPorts(s) ELSE OutputPorts(s)
  IN /\ \E q \in ports : q.dir = "out" /\ End(q) = cable.from
     /\ \E q \in ports : q.dir = "in" /\ End(q) = cable.to
\* validInputCable and validOutputCable: a port the node has now, no item on a hop that
\* is no cable, and one cable to a port, except that a source or a desk output fans out.
LegalCable(side, cable, s) ==
  LET ports == IF side = "in" THEN InputPorts(s) ELSE OutputPorts(s)
      fansOut == cable.from.kind = IF side = "in" THEN "source" ELSE "mixer"
      cableless == IF side = "in" THEN IsCablelessEdge(cable.from.kind, cable.to.kind)
                   ELSE IsCablelessToKind(cable.to.kind)
  IN /\ \E q \in ports : q.dir = "out" /\ End(q) = cable.from
     /\ \E q \in ports : q.dir = "in" /\ End(q) = cable.to
     /\ cableless => cable.item = {}
     /\ \A c \in Cables(side, s) : c.to # cable.to /\ (fansOut \/ c.from # cable.from)

CreateCable(req, s) ==
  IF ~LegalCable(req.side, req.cable, s) THEN {}
  ELSE Made(WithCables(req.side, s, Cables(req.side, s) \cup
              {[id |-> s.next, from |-> req.cable.from, to |-> req.cable.to, item |-> req.cable.item]}))

\* Only the catalog item of a cable ever changes.
UpdateCable(req, s) ==
  UNION {LET cableless == IF req.side = "in" THEN IsCablelessEdge(c.from.kind, c.to.kind) ELSE IsCablelessToKind(c.to.kind)
         IN IF cableless /\ req.item # {} THEN {}
            ELSE Done(WithCables(req.side, s, Put(Cables(req.side, s), [c EXCEPT !.item = req.item])))
           : c \in Row(Cables(req.side, s), req.id)}

DeleteCable(req, s) ==
  UNION {Done(WithCables(req.side, s, Cables(req.side, s) \ {c})) : c \in Row(Cables(req.side, s), req.id)}

\* A source row is replaced whole; a deleted one takes its cables with it.
CreateSource(req, s) == Made([s EXCEPT !.sources = @ \cup {[id |-> s.next, width |-> req.width]}])
UpdateSource(req, s) ==
  UNION {Done([s EXCEPT !.sources = Put(@, [r EXCEPT !.width = req.width])]) : r \in Row(s.sources, req.id)}
\* Mutant of DeleteSource: its cables stay.
DeleteSourceAlone(req, s) == UNION {Done([s EXCEPT !.sources = @ \ {r}]) : r \in Row(s.sources, req.id)}
DeleteSource(req, s) ==
  UNION {Done([s EXCEPT !.sources = @ \ {r}, !.inCables = @ \ OnNode(@, {"source"}, r.id)]) : r \in Row(s.sources, req.id)}

\* A strip may be taken: its number is on the desk, and no other row of the desk has it.
\* A row that stays where it is keeps its strip, over or not.
StripFree(number, desk, id, s) ==
  /\ \E d \in s.desks : d.id = desk /\ number \in 1 .. d.inputs
  /\ ~\E c \in s.channels : c.desk = desk /\ c.number = number /\ c.id # id
FreeNumbers(desk, s) == {n \in 1 .. Max({0} \cup {d.inputs : d \in Row(s.desks, desk)}) : StripFree(n, desk, 0, s)}

\* Number 0 asks for the first free strip.
CreateChannel(req, s) ==
  LET free == FreeNumbers(req.desk, s)
      number == IF req.number = 0 /\ free # {} THEN Min(free) ELSE req.number
  IN IF ~StripFree(number, req.desk, 0, s) THEN {}
     ELSE Made([s EXCEPT !.channels = @ \cup
                 {[id |-> s.next, number |-> number, width |-> "mono", color |-> NoColor, pool |-> "channel",
                   linked |-> TRUE, desk |-> req.desk]}])
UpdateChannel(req, s) ==
  UNION {LET stays == c.desk = req.desk /\ c.number = req.number /\ c.width = req.width
         IN IF ~stays /\ ~StripFree(req.number, req.desk, c.id, s) THEN {}
            ELSE Done([s EXCEPT !.channels = Put(@, [c EXCEPT !.number = req.number, !.width = req.width,
                                                              !.desk = req.desk])])
           : c \in Row(s.channels, req.id)}
DeleteChannel(req, s) ==
  UNION {Done([s EXCEPT !.channels = @ \ {c}, !.inCables = @ \ OnNode(@, {"channel"}, c.id)]) : c \in Row(s.channels, req.id)}

\* A box's update carries only what changed: counts, or the node's place.
UpdateBox(req, s) ==
  UNION {Done([s EXCEPT !.boxes = Put(@, [f \in DOMAIN b |-> IF f \in DOMAIN req.fields THEN req.fields[f] ELSE b[f]])])
           : b \in Row(s.boxes, req.id)}
DeleteBox(req, s) ==
  UNION {Done([s EXCEPT !.boxes = @ \ {b}, !.inCables = @ \ OnNode(@, {"stagebox"}, b.id),
                        !.outCables = @ \ OnNode(@, {"stagebox"}, b.id)]) : b \in Row(s.boxes, req.id)}
\* A multi's update is the whole row, place and count together.
UpdateMulti(req, s) == UNION {Done([s EXCEPT !.multis = Put(@, req.row)]) : m \in Row(s.multis, req.row.id)}

\* Every row is on a desk of the event; one sent without goes to the only desk there is.
RowDesk(sent, s) == {d.id : d \in {x \in s.desks : x.id = sent \/ (sent = 0 /\ s.desks = {x})}}

NoFeed == "nothing"
CreateOutput(req, s) ==
  UNION {Made([s EXCEPT !.outputs = @ \cup {[id |-> s.next, number |-> req.number, width |-> req.width,
                                             color |-> req.color, desk |-> desk, fed |-> NoFeed]}])
           : desk \in RowDesk(req.desk, s)}
\* An output row is replaced whole; one that leaves its desk leaves what feeds it there.
OutputSent(req, o, desk) == [o EXCEPT !.number = req.number, !.width = req.width, !.desk = desk,
                                      !.fed = IF desk = o.desk THEN @ ELSE NoFeed]
UpdateOutput(req, s) ==
  UNION {Done([s EXCEPT !.outputs = Put(@, OutputSent(req, o, desk))])
           : o \in Row(s.outputs, req.id), desk \in RowDesk(req.desk, s)}
SetFedBy(req, s) == UNION {Done([s EXCEPT !.outputs = Put(@, [o EXCEPT !.fed = req.fed])]) : o \in Row(s.outputs, req.id)}
\* The row goes; the cables from its ports stay behind.
DeleteOutput(req, s) == UNION {Done([s EXCEPT !.outputs = @ \ {o}]) : o \in Row(s.outputs, req.id)}

\* A cable that ends on a device ends on one of these ports of it.
Keeps(cable, id, ports) ==
  LET on(end) == end.kind \in {"device", "device_link"} /\ end.id = id
  IN /\ on(cable.from) => \E q \in ports : q.dir = "out" /\ End(q) = cable.from
     /\ on(cable.to) => \E q \in ports : q.dir = "in" /\ End(q) = cable.to
\* A device's row is replaced whole, and refused when a cable would lose its port.
UpdateOutputDevice(req, s) ==
  IF Row(s.outDevices, req.row.id) = {}
     \/ \E c \in s.outCables : ~Keeps(c, req.row.id, OutputDevicePorts(req.row) \cup LinkPorts(req.row))
  THEN {} ELSE Done([s EXCEPT !.outDevices = Put(@, req.row)])
DeleteOutputDevice(req, s) ==
  UNION {Done([s EXCEPT !.outDevices = @ \ {d}, !.outCables = @ \ OnNode(@, {"device", "device_link"}, d.id)])
           : d \in Row(s.outDevices, req.id)}

\* Any other path is not found.
ApplyPatch(req, s) ==
  CASE req.op = "createCable" -> CreateCable(req, s)
    [] req.op = "updateCable" -> UpdateCable(req, s)
    [] req.op = "deleteCable" -> DeleteCable(req, s)
    [] req.op = "createSource" -> CreateSource(req, s)
    [] req.op = "updateSource" -> UpdateSource(req, s)
    [] req.op = "deleteSource" -> DeleteSource(req, s)
    [] req.op = "createChannel" -> CreateChannel(req, s)
    [] req.op = "updateChannel" -> UpdateChannel(req, s)
    [] req.op = "deleteChannel" -> DeleteChannel(req, s)
    [] req.op = "updateBox" -> UpdateBox(req, s)
    [] req.op = "deleteBox" -> DeleteBox(req, s)
    [] req.op = "updateMulti" -> UpdateMulti(req, s)
    [] req.op = "createOutput" -> CreateOutput(req, s)
    [] req.op = "updateOutput" -> UpdateOutput(req, s)
    [] req.op = "setFedBy" -> SetFedBy(req, s)
    [] req.op = "deleteOutput" -> DeleteOutput(req, s)
    [] req.op = "updateOutputDevice" -> UpdateOutputDevice(req, s)
    [] req.op = "deleteOutputDevice" -> DeleteOutputDevice(req, s)
    [] OTHER -> {}

\* One cable into a port, and one out of it unless it fans out, in both graphs.
OneCablePerEnd(s) ==
  \A side \in {"in", "out"} : \A a, b \in Cables(side, s) :
    a.id # b.id => /\ a.to # b.to
                   /\ a.from = b.from => a.from.kind = IF side = "in" THEN "source" ELSE "mixer"
=============================================================================

------------------------------ MODULE RigStore ------------------------------
(***************************************************************************)
(* What the server makes of the Rig drawer's requests: desks, stageboxes,  *)
(* stage multis and the devices of either graph (backend/internal/api:     *)
(* audio_patch.go and consoles.go).  The rows of PatchSheets have here     *)
(* also what the drawer edits: a device's `conn`, the sides it has a       *)
(* connector type for; `from`, where a device or a desk is taken from, the *)
(* rental catalog or the owned gear; a box's or a multi's catalog item; a  *)
(* desk's model and its recorder.  Names, connector types themselves, cable*)
(* lengths, roles and bus modes are left out, and so is which row a desk's *)
(* new model moves: DeskStrips and DeskRouting say that.                   *)
(***************************************************************************)
EXTENDS PatchStore

CONSTANT Profiles  \* what a real desk model declares: [model -> [inputs, localIn, localOut, aux, tracks]]

Generic == "generic"
DeskModelKeys == DOMAIN Profiles \cup {Generic}

\* A row as it is sent, under the id it is given.
NewRow(sent, s) == [f \in {"id"} \cup DOMAIN sent |-> IF f = "id" THEN s.next ELSE sent[f]]
CreateBox(req, s) == Made([s EXCEPT !.boxes = @ \cup {NewRow(req.row, s)}])
CreateMulti(req, s) == Made([s EXCEPT !.multis = @ \cup {NewRow(req.row, s)}])
DeleteMulti(req, s) ==
  UNION {Done([s EXCEPT !.multis = @ \ {m}, !.inCables = @ \ OnNode(@, {"stage_multi"}, m.id),
                        !.outCables = @ \ OnNode(@, {"stage_multi"}, m.id)]) : m \in Row(s.multis, req.id)}

\* A device has a port, a connector type for exactly the sides that have any, and comes
\* from one place.
LegalDevice(row) ==
  /\ row.ins + row.outs > 0 /\ Cardinality(row.from) = 1
  /\ row.conn = {side \in {"in", "out", "link"} :
                   CASE side = "in" -> row.ins > 0 [] side = "out" -> row.outs > 0
                     [] side = "link" -> "links" \in DOMAIN row /\ row.links > 0}
Devices(side, s) == IF side = "in" THEN s.inDevices ELSE s.outDevices
WithDevices(side, s, rows) == IF side = "in" THEN [s EXCEPT !.inDevices = rows] ELSE [s EXCEPT !.outDevices = rows]
DevicePorts(side, row) == IF side = "in" THEN InputDevicePorts(row) ELSE OutputDevicePorts(row) \cup LinkPorts(row)
CreateDevice(req, s) ==
  IF ~LegalDevice(req.row) THEN {}
  ELSE Made(WithDevices(req.side, s, Devices(req.side, s) \cup {NewRow(req.row, s)}))
\* Mutant of UpdateDevice: a count goes down under the cables.
UpdateDeviceUnchecked(req, s) ==
  IF ~LegalDevice(req.row) THEN {}
  ELSE UNION {Done(WithDevices(req.side, s, Put(Devices(req.side, s), req.row))) : d \in Row(Devices(req.side, s), req.row.id)}
UpdateDevice(req, s) ==
  IF ~LegalDevice(req.row) \/ \E c \in Cables(req.side, s) : ~Keeps(c, req.row.id, DevicePorts(req.side, req.row)) THEN {}
  ELSE UNION {Done(WithDevices(req.side, s, Put(Devices(req.side, s), req.row))) : d \in Row(Devices(req.side, s), req.row.id)}
DeleteDevice(req, s) ==
  UNION {Done(WithCables(req.side, WithDevices(req.side, s, Devices(req.side, s) \ {d}),
                         Cables(req.side, s) \ OnNode(Cables(req.side, s), {"device", "device_link"}, d.id)))
           : d \in Row(Devices(req.side, s), req.id)}

\* A real model's counts are written over whatever was typed; its outputs are as many as
\* it has sockets for, which is said by none.
ApplyDeskProfile(desk) ==
  IF desk.model = Generic THEN desk
  ELSE [f \in DOMAIN desk |-> CASE f = "outputs" -> 0
                                [] f \in {"inputs", "localIn", "localOut", "aux"} -> Profiles[desk.model][f]
                                [] OTHER -> desk[f]]
\* One place, if any, as for every other row; both is refused.
LegalDesk(desk) == Cardinality(desk.from) <= 1
CreateDesk(req, s) ==
  LET desk == ApplyDeskProfile([id |-> s.next, inputs |-> 0, outputs |-> 0, localIn |-> 0, localOut |-> 0, aux |-> 0,
                                model |-> req.model, from |-> req.from, recorder |-> FALSE, tracks |-> 0])
  IN IF LegalDesk(desk) THEN Made([s EXCEPT !.desks = @ \cup {desk}]) ELSE {}
\* Jacks with a cable that a typed count would leave without a port.
ConsoleLocalPortConflicts(desk, s) ==
  {c \in s.inCables : c.to.kind = "console_local" /\ c.to.id = desk.id /\ c.to.port >= desk.localIn}
  \cup {c \in s.outCables : c.from.kind = "console_local" /\ c.from.id = desk.id /\ c.from.port >= desk.localOut}
\* What is sent is put over the stored row: a place that is not named stays, and a desk
\* that is owned cannot be given a catalog item.
UpdateDesk(req, s) ==
  UNION {LET desk == ApplyDeskProfile([f \in DOMAIN d |-> IF f = "from" THEN d.from \cup req.from
                                                          ELSE IF f \in DOMAIN req.fields THEN req.fields[f] ELSE d[f]])
         IN IF ~LegalDesk(desk) \/ (desk.model = Generic /\ ConsoleLocalPortConflicts(desk, s) # {}) THEN {}
            ELSE Done([s EXCEPT !.desks = Put(@, desk)])
           : d \in Row(s.desks, req.id)}
\* The cables at its jacks go; its rows are kept, on no desk.
DeleteDesk(req, s) ==
  UNION {Done([s EXCEPT !.desks = @ \ {d}, !.inCables = @ \ OnNode(@, {"console_local", "console_aux"}, d.id),
                        !.outCables = @ \ OnNode(@, {"console_local", "console_aux"}, d.id),
                        !.channels = {IF c.desk = d.id THEN [c EXCEPT !.desk = 0] ELSE c : c \in @},
                        !.outputs = {IF o.desk = d.id THEN [o EXCEPT !.desk = 0, !.fed = NoFeed] ELSE o : o \in @}])
           : d \in Row(s.desks, req.id)}
\* As many tracks as the model has, or as are typed where it says none.
TracksOf(model, typed) == IF model = Generic THEN typed ELSE Profiles[model].tracks
\* Previewed or made; what it leaves out it never refuses.
SwitchDesk(req, s) ==
  UNION {IF ~req.apply THEN Done(s)
         ELSE Done([s EXCEPT !.desks = Put(@, [ApplyDeskProfile([d EXCEPT !.model = req.model])
                                               EXCEPT !.tracks = TracksOf(req.model, @)])])
           : d \in Row(s.desks, req.id)}
SetRecorder(req, s) ==
  UNION {Done([s EXCEPT !.desks = Put(@, [d EXCEPT !.recorder = req.on, !.tracks = TracksOf(d.model, req.tracks)])])
           : d \in Row(s.desks, req.id)}

ApplyRig(req, s) ==
  CASE req.op = "createBox" -> CreateBox(req, s)
    [] req.op = "createMulti" -> CreateMulti(req, s)
    [] req.op = "deleteMulti" -> DeleteMulti(req, s)
    [] req.op = "createDevice" -> CreateDevice(req, s)
    [] req.op = "updateDevice" -> UpdateDevice(req, s)
    [] req.op = "deleteDevice" -> DeleteDevice(req, s)
    [] req.op = "createDesk" -> CreateDesk(req, s)
    [] req.op = "updateDesk" -> UpdateDesk(req, s)
    [] req.op = "deleteDesk" -> DeleteDesk(req, s)
    [] req.op = "switchDesk" -> SwitchDesk(req, s)
    [] req.op = "setRecorder" -> SetRecorder(req, s)
    [] OTHER -> ApplyPatch(req, s)

\* Every cable on a device is on a device there is, at a port it has.
CablesKeepPorts(s) ==
  \A side \in {"in", "out"} : \A c \in Cables(side, s) :
    /\ \A d \in Devices(side, s) : Keeps(c, d.id, DevicePorts(side, d))
    /\ \A e \in {c.from, c.to} : e.kind \in {"device", "device_link"} => \E d \in Devices(side, s) : d.id = e.id
=============================================================================

---------------------------- MODULE OutputGraph -----------------------------
(***************************************************************************)
(* The output patch, walked from the desk's outputs to the loudspeakers:   *)
(* frontend/src/lib/outputGraph.ts and signalFlow.ts.  The representation  *)
(* is InputGraph's.  An output's own port is of kind mixer and its id is   *)
(* the output row's; a device's link-outs are of kind device_link.         *)
(***************************************************************************)
EXTENDS InputGraph

OutputFromKinds == {"mixer", "stagebox", "stage_multi", "device", "device_link", "console_local"}
OutputToKinds == {"stagebox", "stage_multi", "device", "console_local"}

MixerPorts(output) == Ports("mixer", output.id, IF output.width = "stereo" THEN {0, 1} ELSE {0}, "out")
StageboxPorts(box) == BothSides("stagebox", box.id, box.outs)
StageMultiPorts(multi) == BothSides("stage_multi", multi.id, multi.channels)
OutputDevicePorts(device) == Ports("device", device.id, First(device.ins), "in")
                             \cup Ports("device", device.id, First(device.outs), "out")
LinkPorts(device) == Ports("device_link", device.id, First(device.links), "out")
ConsoleLocalOutPorts(desk, count) == BothSides("console_local", desk.id, count)

NodeRole(device) == IF device.ins = 0 THEN "source" ELSE IF device.outs = 0 THEN "destination" ELSE "processing"
DeviceZone(device) == CASE NodeRole(device) = "source" -> "sources"
                        [] NodeRole(device) = "destination" -> "destinations"
                        [] OTHER -> "processing"
OutputNodeZone(kind, id, p) ==
  IF kind = "mixer" THEN "sources"
  ELSE IF kind \in {"stagebox", "stage_multi", "console_local"} \/ ~\E d \in p.outDevices : d.id = id
       THEN "processing"
       ELSE DeviceZone(CHOOSE d \in p.outDevices : d.id = id)

OutputPorts(p) ==
  UNION ({MixerPorts(o) : o \in p.outputs} \cup {StageboxPorts(b) : b \in p.boxes}
         \cup {StageMultiPorts(m) : m \in p.multis}
         \cup {ConsoleLocalOutPorts(d, d.localOut) : d \in p.desks}
         \cup {OutputDevicePorts(d) \cup LinkPorts(d) : d \in p.outDevices})

ResolveOutputPort(kind, id, port, dir, p) ==
  {q \in OutputPorts(p) : /\ q.kind = kind /\ q.id = id /\ q.port = port
                          /\ kind \in {"mixer", "device_link"} \/ q.dir = dir}

IsOutputPortConnected(q, cables) ==
  \E c \in cables : IF q.dir = "out" THEN c.from = End(q) ELSE c.to = End(q)
OutputCablesAtPort(q, cables) ==
  {c \in cables : IF q.dir = "out" THEN c.from = End(q) ELSE c.to = End(q)}
OutputCableAtPort(q, cables) == FirstById(OutputCablesAtPort(q, cables))

OutputPortsConnectable(a, b) ==
  LET out == IF a.dir = "out" THEN a ELSE b
      in == IF a.dir = "out" THEN b ELSE a
  IN a.dir # b.dir /\ out.kind \in OutputFromKinds /\ in.kind \in OutputToKinds

PairedForward(end, p) ==
  IF end.kind = "device" /\ \E d \in p.outDevices : d.id = end.id /\ d.ins # d.outs THEN 0 ELSE end.port

\* The colour of the output an outgoing end is walked back to: none when the walk
\* stops short of a desk output, or meets an end twice.
DerivedOutputPortColor(end, p) ==
  LET into(e) == FirstById({c \in p.outCables : /\ c.to.kind = e.kind /\ c.to.id = e.id
                                                /\ PairedForward(c.to, p) = e.port})
      back[n \in 0 .. WalkDepth, e \in [kind : OutputFromKinds, id : Nat, port : Nat]] ==
        IF n = 0 THEN {}
        ELSE IF e.kind = "mixer" THEN {o \in p.outputs : o.id = e.id}
        ELSE UNION {back[n - 1, c.from] : c \in into(e)}
      origin == back[WalkDepth, end]
  IN IF origin = {} THEN NoColor ELSE (CHOOSE o \in origin : TRUE).color
DerivedCableColor(cable, p) == DerivedOutputPortColor(cable.from, p)

\* Into a box, a multi or the desk's own jack there is no cable, only routing.
IsCablelessToKind(kind) == kind \in {"stagebox", "stage_multi", "console_local"}

\* A multi is on the output graph when asked for, or when a cable is on it.
IsMultiVisible(multi, cables) ==
  \/ multi.shown
  \/ \E c \in cables : \E e \in {c.from, c.to} : e.kind = "stage_multi" /\ e.id = multi.id

LocalOutJackCount(desk, cables) == Max({desk.localOut} \cup {n + 1 : n \in CabledPorts("console_local", desk.id, cables)})

-----------------------------------------------------------------------------
(* signalFlow.ts: every path from a desk output's port.                     *)

\* A device was declared with inputs that no cable is on.
HasUnfilledInput(end, p) ==
  /\ end.kind = "device"
  /\ \E d \in p.outDevices : /\ d.id = end.id /\ d.ins > 0
       /\ \E q \in OutputDevicePorts(d) : q.dir = "in" /\ ~IsOutputPortConnected(q, p.outCables)

\* The ports that carry on from a cable's far end: one jack through a box, a multi,
\* a desk panel or a device with as many outputs as inputs; every cabled output of
\* any other device; and every cabled link-out, a copy of the whole input.
NextPorts(cable, p) ==
  LET connected(q) == q.dir = "out" /\ IsOutputPortConnected(q, p.outCables)
      sameJack(q) == q.port = cable.to.port /\ connected(q)
      at(rows) == {r \in rows : r.id = cable.to.id}
      deviceOuts(d) == {q \in OutputDevicePorts(d) :
                          IF d.outs > 0 /\ d.outs = d.ins THEN sameJack(q) ELSE connected(q)}
                       \cup {q \in LinkPorts(d) : connected(q)}
  IN CASE cable.to.kind = "device" -> UNION {deviceOuts(d) : d \in at(p.outDevices)}
       [] cable.to.kind = "stage_multi" -> UNION {{q \in StageMultiPorts(m) : sameJack(q)} : m \in at(p.multis)}
       [] cable.to.kind = "console_local" ->
            UNION {{q \in ConsoleLocalOutPorts(d, d.localOut) : sameJack(q)} : d \in at(p.desks)}
       [] cable.to.kind = "stagebox" -> UNION {{q \in StageboxPorts(b) : sameJack(q)} : b \in at(p.boxes)}

\* The paths from an outgoing port, as sequences of cables.  A port with no cable is
\* the direct path <<>>.  The walk carries no guard: it ends because a path ends, so a
\* path longer than there are cables is one that never does, and is cut there.
WalkFromPort(q, p) ==
  LET walk[n \in Nat, end \in [kind : OutputFromKinds, id : Nat, port : Nat]] ==
        LET outgoing == {c \in p.outCables : c.from = end} IN
        IF n = 0 \/ outgoing = {} THEN {<<>>}
        ELSE UNION {IF NextPorts(c, p) = {} THEN {<<c>>}
                    ELSE {<<c>> \o rest : rest \in UNION {walk[n - 1, End(o)] : o \in NextPorts(c, p)}}
                      : c \in outgoing}
  IN walk[Cardinality(p.outCables) + 1, End(q)]

\* One output: the paths of its ports, each with the side it starts on, and whether
\* some device along them has an unfilled input.
OutputChannelFlow(output, p) ==
  LET paths == UNION {{[side |-> q.port, cables |-> path] : path \in WalkFromPort(q, p)} : q \in MixerPorts(output)}
  IN [id |-> output.id, number |-> output.number, paths |-> paths,
      hasGap |-> \E path \in paths : \E i \in DOMAIN path.cables : HasUnfilledInput(path.cables[i].to, p)]

OutputChannelFlows(outputs, p) ==
  {[flow |-> OutputChannelFlow(o, p),
    rank |-> Cardinality({x \in outputs : x.number < o.number \/ (x.number = o.number /\ x.id < o.id)})]
     : o \in outputs}
=============================================================================

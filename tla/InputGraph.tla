----------------------------- MODULE InputGraph -----------------------------
(***************************************************************************)
(* The ports, cables and signal walks of an event's input patch, as the    *)
(* page derives them from one fetched patch: frontend/src/lib/inputGraph.ts *)
(* and inputSignalFlow.ts.  A patch is one record `p` of row sets; a port  *)
(* is [kind, id, port, dir], an end of a cable [kind, id, port].  A lookup *)
(* that may find nothing returns a set of at most one element.  Labels are *)
(* left out.                                                               *)
(***************************************************************************)
EXTENDS Integers, Sequences, FiniteSets, FiniteSetsExt

Widths == {"mono", "stereo"}

InputFromKinds == {"source", "stagebox", "stage_multi", "device", "console_local", "console_aux"}
InputToKinds == {"stagebox", "stage_multi", "device", "channel", "console_local", "console_aux"}

\* The ports `ns` of one node, all on one side.
Ports(kind, id, ns, dir) == {[kind |-> kind, id |-> id, port |-> n, dir |-> dir] : n \in ns}
First(n) == 0 .. (n - 1)
BothSides(kind, id, n) == Ports(kind, id, First(n), "in") \cup Ports(kind, id, First(n), "out")

SourcePorts(source) == Ports("source", source.id, IF source.width = "stereo" THEN {0, 1} ELSE {0}, "out")
ChannelPorts(channel) == Ports("channel", channel.id, IF channel.width = "stereo" THEN {0, 1} ELSE {0}, "in")
InputDevicePorts(device) == Ports("device", device.id, First(device.ins), "in")
                            \cup Ports("device", device.id, First(device.outs), "out")
InputStageboxPorts(box) == BothSides("stagebox", box.id, box.ins)
InputMultiPorts(multi) == BothSides("stage_multi", multi.id, multi.channels)
ConsoleLocalInPorts(desk, count) == BothSides("console_local", desk.id, count)
ConsoleAuxPorts(desk, count) == BothSides("console_aux", desk.id, count)

\* Sources left, channels right, whatever the signal passes through between.
InputNodeZone(kind) == CASE kind = "source" -> "sources"
                         [] kind = "channel" -> "channels"
                         [] OTHER -> "processing"

\* Every port the input graph of patch `p` has now.
InputPorts(p) ==
  UNION ({SourcePorts(s) : s \in p.sources} \cup {ChannelPorts(c) : c \in p.channels}
         \cup {InputDevicePorts(d) : d \in p.inDevices} \cup {InputStageboxPorts(b) : b \in p.boxes}
         \cup {InputMultiPorts(m) : m \in p.multis}
         \cup {ConsoleLocalInPorts(d, d.localIn) : d \in p.desks}
         \cup {ConsoleAuxPorts(d, d.aux) : d \in p.desks})

\* The port a DOM tuple names: none when the node is gone or no longer has it.
\* A source and a channel have one side, so the direction is not asked of them.
ResolveInputPort(kind, id, port, dir, p) ==
  {q \in InputPorts(p) : /\ q.kind = kind /\ q.id = id /\ q.port = port
                         /\ kind \in {"source", "channel"} \/ q.dir = dir}

End(q) == [kind |-> q.kind, id |-> q.id, port |-> q.port]

InputCablesAtPort(q, cables) ==
  {c \in cables : IF q.dir = "out" THEN c.from = End(q) ELSE c.to = End(q)}
IsInputPortConnected(q, cables) ==
  \E c \in cables : IF q.dir = "out" THEN c.from = End(q) ELSE c.to = End(q)
\* The first in the order of the list, which the server sends by id.
FirstById(rows) == IF rows = {} THEN {} ELSE {CHOOSE r \in rows : \A o \in rows : r.id <= o.id}
InputCableAtPort(q, cables) == FirstById(InputCablesAtPort(q, cables))

\* A hop nobody rents a cable for: out of a stage multi, or a desk's own routing.
IsCablelessEdge(fromKind, toKind) ==
  \/ fromKind = "stage_multi"
  \/ fromKind \in {"console_local", "console_aux"} /\ toKind = "channel"
  \/ fromKind = "stagebox" /\ toKind = "channel"

InputPortsConnectable(a, b) ==
  LET out == IF a.dir = "out" THEN a ELSE b
      in == IF a.dir = "out" THEN b ELSE a
  IN a.dir # b.dir /\ out.kind \in InputFromKinds /\ in.kind \in InputToKinds

\* Mutant of PairedOutputPort: every node fans in.
AlwaysFirstPort(kind, id, port, p) == 0
\* The outgoing port that carries on what comes in on `port` of a node, walked forward.
PairedOutputPort(kind, id, port, p) ==
  IF kind = "device" /\ \E d \in p.inDevices : d.id = id /\ d.ins # d.outs THEN 0 ELSE port

\* The ends one cable further on from a set of outgoing ends.
Onward(ends, p) ==
  {[c.to EXCEPT !.port = PairedOutputPort(c.to.kind, c.to.id, c.to.port, p)] :
     c \in {x \in p.inCables : x.from \in ends}}

\* The channels traced forward from an outgoing end. The guard on ends already
\* visited makes the walk a closure: it ends when a step reaches nothing new.
ReachableEnds(end, p) ==
  LET reach[n \in Nat] == IF n = 0 THEN {end} ELSE reach[n - 1] \cup Onward(reach[n - 1], p)
  IN reach[Cardinality(p.inCables)]
ReachableChannels(end, p) ==
  {c \in p.channels : \E e \in ReachableEnds(end, p) : e.kind = "channel" /\ e.id = c.id}

NoColor == "none"

\* A channel shows its own colour; any other port the one colour of every channel
\* it reaches, or none when it reaches none or they disagree.
DerivedPortColor(q, p) ==
  LET outPort == IF q.dir = "out" THEN q.port ELSE PairedOutputPort(q.kind, q.id, q.port, p)
      colors == {c.color : c \in ReachableChannels([End(q) EXCEPT !.port = outPort], p)}
  IN IF q.kind = "channel" THEN (CHOOSE c \in p.channels : c.id = q.id).color
     ELSE IF Cardinality(colors) = 1 THEN CHOOSE x \in colors : TRUE ELSE NoColor

\* A source row's colour: the agree-or-neutral rule over the ports of the source.
DerivedSourceColor(source, p) ==
  LET colors == {DerivedPortColor(q, p) : q \in SourcePorts(source)} \ {NoColor}
  IN IF Cardinality(colors) = 1 THEN CHOOSE x \in colors : TRUE ELSE NoColor

\* The ports of one kind that cables still name on desk `id`.
CabledPorts(kind, id, cables) ==
  {c.from.port : c \in {x \in cables : x.from.kind = kind /\ x.from.id = id}}
  \cup {c.to.port : c \in {x \in cables : x.to.kind = kind /\ x.to.id = id}}

\* Jacks a panel draws: those it has, and those a cable is still on.
LocalInJackCount(desk, cables) == Max({desk.localIn} \cup {n + 1 : n \in CabledPorts("console_local", desk.id, cables)})
AuxJackCount(desk, cables) == Max({desk.aux} \cup {n + 1 : n \in CabledPorts("console_aux", desk.id, cables)})

-----------------------------------------------------------------------------
(* inputSignalFlow.ts: the walk back from a channel's port to its source.   *)

WalkDepth == 32

\* The incoming port behind an outgoing one, walked backward.
UpstreamPort(kind, id, port, p) ==
  IF kind = "device" /\ \E d \in p.inDevices : d.id = id /\ d.ins # d.outs THEN 0 ELSE port

CableInto(end, p) == FirstById({c \in p.inCables : c.to = end})

\* The hops of one path, nearest the source first, and the source it starts at.
\* A path that meets no source within the depth has none.
WalkBackward(q, p) ==
  LET back[n \in 0 .. WalkDepth, end \in [kind : InputFromKinds \cup InputToKinds, id : Nat, port : Nat]] ==
        LET into == CableInto(end, p) IN
        IF n = 0 \/ into = {} THEN [hops |-> <<>>, source |-> {}]
        ELSE LET cable == CHOOSE c \in into : TRUE
                 hop == [node |-> cable.from, cable |-> cable.id]
                 rest == back[n - 1, [cable.from EXCEPT !.port =
                                        UpstreamPort(cable.from.kind, cable.from.id, cable.from.port, p)]]
             IN IF cable.from.kind = "source" THEN [hops |-> <<hop>>, source |-> {cable.from.id}]
                ELSE [hops |-> rest.hops \o <<hop>>, source |-> rest.source]
  IN back[WalkDepth, End(q)]

\* One channel: a path a port; it has a gap when a port has nothing at all behind it.
InputChannelFlow(channel, p) ==
  LET path(n) == WalkBackward([kind |-> "channel", id |-> channel.id, port |-> n, dir |-> "in"], p)
      paths == IF channel.width = "stereo" THEN <<path(0), path(1)>> ELSE <<path(0)>>
  IN [id |-> channel.id, number |-> channel.number, paths |-> paths,
      hasGap |-> \E i \in DOMAIN paths : paths[i].hops = <<>>]

\* All channels by number; rows with one number stay in the order of the list.
InputChannelFlows(channels, p) ==
  {[flow |-> InputChannelFlow(c, p),
    rank |-> Cardinality({d \in channels : d.number < c.number \/ (d.number = c.number /\ d.id < c.id)})]
     : c \in channels}
=============================================================================

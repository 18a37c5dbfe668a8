---------------------------- MODULE PatchSheets -----------------------------
(***************************************************************************)
(* What the patch's sheets, rails and phone lists derive from the graphs:  *)
(* the chain cell of a row, the status of a patch, the lists of the phone  *)
(* and the cables its edit sheet writes (frontend/src/lib: patchSheet,     *)
(* patchCapacity, deskStrips, mobileChannelList, mobileOutputList and      *)
(* outputInspector).  A label is kept only as the node it names.           *)
(***************************************************************************)
EXTENDS OutputGraph, SequencesExt

-----------------------------------------------------------------------------
(* patchSheet.ts                                                            *)

\* One hop of a chain: the node it names, or a stated gap, and the cable it came by.
Segment(node, cable) == [node |-> {node}, cable |-> {cable}, missing |-> FALSE]
StatedGap == [node |-> {}, cable |-> {}, missing |-> TRUE]

\* Two sides that run through the same nodes read as one line; at the origin, and
\* only there, the nodes may differ, because a stereo source is two sources.
CollapseStereo(a, b) ==
  /\ Len(a) = Len(b) /\ a # <<>>
  /\ \A i \in DOMAIN a : /\ ~a[i].missing /\ ~b[i].missing
                         /\ \E l \in a[i].node, r \in b[i].node :
                              l.kind = r.kind /\ (l.kind = "source" \/ l.id = r.id)

\* A line is its segments in signal order; `sides` says whether it stands for both.
Collapsed(a) == [segments |-> a, sides |-> 2]
Single(a) == [segments |-> a, sides |-> 1]

\* The segments before the row's own end.
InputSegments(path) == IF path.hops = <<>> THEN <<StatedGap>>
                       ELSE [i \in DOMAIN path.hops |-> Segment(path.hops[i].node, path.hops[i].cable)]
InputChainSegments(channel, p) ==
  LET flow == InputChannelFlow(channel, p)
      per == [i \in DOMAIN flow.paths |-> InputSegments(flow.paths[i])]
  IN [lines |-> IF Len(per) = 2 /\ CollapseStereo(per[1], per[2]) THEN <<Collapsed(per[1])>>
                ELSE [i \in DOMAIN per |-> Single(per[i])],
      hasGap |-> flow.hasGap]

\* The segments after the desk output at the head of every line.
OutputSegments(path) == IF path.cables = <<>> THEN <<StatedGap>>
                        ELSE [i \in DOMAIN path.cables |-> Segment(path.cables[i].to, path.cables[i].id)]
OutputChainSegments(output, p) ==
  LET flow == OutputChannelFlow(output, p)
      missing == \E path \in flow.paths : path.cables = <<>>
      pair == {q \in flow.paths \X flow.paths :
                 q[1] # q[2] /\ CollapseStereo(OutputSegments(q[1]), OutputSegments(q[2]))}
  IN IF Cardinality(flow.paths) = 2 /\ pair # {}
     THEN [lines |-> {Collapsed(OutputSegments(a)) : a \in {CHOOSE x \in flow.paths : TRUE}}, hasGap |-> missing]
     ELSE [lines |-> {Single(OutputSegments(a)) : a \in flow.paths}, hasGap |-> missing \/ flow.hasGap]

\* The node "Edit in Flow" selects: the first source, else the first node there is.
ChainSourceNode(model) ==
  LET nodes == FlattenSeq([i \in DOMAIN model.lines |->
                             SelectSeq(model.lines[i].segments, LAMBDA s : s.node # {})])
      sources == SelectSeq(nodes, LAMBDA s : \A n \in s.node : n.kind = "source")
  IN IF sources # <<>> THEN sources[1].node ELSE IF nodes # <<>> THEN nodes[1].node ELSE {}

\* The cell's width: the ends survive, the middle goes.
TruncateSegments(segments, max) ==
  LET head == (max + 1) \div 2
      tail == max - head
  IN IF max < 2 \/ Len(segments) <= max THEN [segments |-> segments, hidden |-> 0]
     ELSE [segments |-> SubSeq(segments, 1, head) \o SubSeq(segments, Len(segments) - tail + 1, Len(segments)),
           hidden |-> Len(segments) - max]

-----------------------------------------------------------------------------
(* outputInspector.ts                                                       *)

NextOutputNumber(outputs) == Max({0} \cup {o.number : o \in outputs}) + 1
DuplicateOf(output, outputs, id) == [output EXCEPT !.id = id, !.number = NextOutputNumber(outputs)]

\* Where an output lands: the last segment of every line that does not end in a gap.
LandsOn(model) == {Last(line.segments).node : line \in {l \in model.lines : ~Last(l.segments).missing}}
IsPatched(model) == LandsOn(model) # {}

-----------------------------------------------------------------------------
(* deskStrips.ts and patchCapacity.ts                                       *)

StripWidth(model, channel) == CASE channel.width = "mono" -> 1
                                [] model.engine = "x32" -> 2
                                [] model.engine = "lv1" -> 1
                                [] OTHER -> IF channel.linked THEN 2 ELSE 1
PoolCapacity(model, desk, pool) == IF pool = "aux" THEN model.aux
                                   ELSE IF model.engine = "generic" THEN desk.inputs ELSE model.strips
PoolUsage(model, channels, pool) ==
  FoldSet(LAMBDA c, sum : sum + StripWidth(model, c), 0, {c \in channels : c.pool = pool})
IsOver(model, desk, channel) ==
  LET capacity == PoolCapacity(model, desk, channel.pool)
  IN capacity > 0 /\ channel.number + StripWidth(model, channel) - 1 > capacity

\* Nothing declared is never too little.
IsShort(used, declared) == declared > 0 /\ used > declared

\* The lines that put a desk in the over state: each pool that is too small, or,
\* when the totals fit, the rows past the end of their pool.
DeskInputCapacity(desk, model, channels) ==
  LET short == {pool \in {"channel", "aux"} :
                  /\ pool = "aux" => model.aux > 0
                  /\ IsShort(PoolUsage(model, channels, pool), PoolCapacity(model, desk, pool))}
      past == \E c \in channels : IsOver(model, desk, c)
  IN IF short = {} /\ past THEN {"rows"} ELSE short

\* Ports of a box with a cable on either side: one jack, used once or twice.
UsedPorts(kind, id, cables) == Cardinality(CabledPorts(kind, id, cables))
BoxUsage(p, cables, side) ==
  {[kind |-> "stagebox", id |-> b.id, used |-> UsedPorts("stagebox", b.id, cables),
    declared |-> IF side = "input" THEN b.ins ELSE b.outs] : b \in p.boxes}
  \cup {[kind |-> "stage_multi", id |-> m.id, used |-> UsedPorts("stage_multi", m.id, cables),
         declared |-> m.channels] : m \in p.multis}
CablesPicked(cables) == Cardinality({c \in cables : c.item # {}})

\* Every desk with more rows than it declares.
ConsoleCapacity(desks, assigned, declared) == {d.id : d \in {x \in desks : IsShort(assigned[x], declared[x])}}

InputPatchStatus(p, desk, model, channels, gaps) ==
  [rowCount |-> Cardinality(channels), boxes |-> BoxUsage(p, p.inCables, "input"),
   picked |-> CablesPicked(p.inCables), gaps |-> gaps,
   over |-> DeskInputCapacity(desk, model, channels)]
OutputPatchStatus(p, desk, model, outputs, gaps) ==
  [rowCount |-> Cardinality(outputs), boxes |-> BoxUsage(p, p.outCables, "output"),
   picked |-> CablesPicked(p.outCables), gaps |-> gaps,
   over |-> IF model.engine = "generic"
            THEN ConsoleCapacity({desk}, desk :> Cardinality(outputs), desk :> desk.outputs) ELSE {}]

PatchStatusState(status) == IF status.over # {} THEN "over" ELSE IF status.gaps # {} THEN "gaps" ELSE "complete"

-----------------------------------------------------------------------------
(* mobileChannelList.ts and mobileOutputList.ts                             *)

\* The flows are looked up by number: of two rows with one number the later wins.
FlowByNumber(flows, number) ==
  LET same == {f \in flows : f.flow.number = number}
  IN (CHOOSE f \in same : \A g \in same : g.rank <= f.rank).flow
MobileChannelList(channels, p) ==
  LET flows == InputChannelFlows(channels, p) IN
  {LET path == FlowByNumber(flows, c.number).paths[1]
   IN [id |-> c.id, number |-> c.number, source |-> path.source,
       routing |-> IF path.hops = <<>> THEN {} ELSE {Last(path.hops).node},
       hasGap |-> InputChainSegments(c, p).hasGap] : c \in channels}
MobileOutputList(outputs, p) ==
  {[id |-> o.id, number |-> o.number, hasGap |-> OutputChainSegments(o, p).hasGap] : o \in outputs}

JackPanelKinds == {"stagebox", "console_local", "console_aux"}
NoRouting == [panel |-> {}, port |-> {}, source |-> {}]

\* A channel's routing as the phone edits it: source to channel, or source to a
\* panel's jack to channel; any other chain reads as none.
ResolveChannelRouting(id, cables) ==
  LET to(end) == FirstById({c \in cables : c.to = end})
      sourcesOf(cs) == {c.from.id : c \in {x \in cs : x.from.kind = "source"}}
      into == to([kind |-> "channel", id |-> id, port |-> 0])
  IN IF \E c \in into : c.from.kind \in JackPanelKinds
     THEN LET jack == (CHOOSE c \in into : TRUE).from
          IN [panel |-> {[kind |-> jack.kind, id |-> jack.id]}, port |-> {jack.port}, source |-> sourcesOf(to(jack))]
     ELSE [NoRouting EXCEPT !.source = sourcesOf(into)]

NewCable(from, to) == [from |-> from, to |-> to, item |-> {}]

\* Mutant of ComputeRoutingSave: what feeds a jack is left in it.
SaveOverOldFeed(id, cables, desired) ==
  LET channel == [kind |-> "channel", id |-> id, port |-> 0]
      jack == {[kind |-> k.kind, id |-> k.id, port |-> n] : k \in desired.panel, n \in desired.port}
      now == FirstById({c \in cables : c.to = channel})
      left == {c \in now : \A j \in jack : c.from # j}
  IN [delete |-> {c.id : c \in left}, create |-> {NewCable(j, channel) : j \in IF now = {} \/ left # {} THEN jack ELSE {}}]
\* The cables a saved routing deletes and creates, each by a request of its own.
\* Leaving a jack takes what fed it away too; a jack named without a source keeps its feed.
ComputeRoutingSave(id, cables, desired) ==
  LET channel == [kind |-> "channel", id |-> id, port |-> 0]
      into(end) == FirstById({c \in cables : c.to = end})
      now == into(channel)
      source == {[kind |-> "source", id |-> s, port |-> 0] : s \in desired.source}
      jack == {[kind |-> k.kind, id |-> k.id, port |-> n] : k \in desired.panel, n \in desired.port}
      left == {c \in now : \A j \in jack : c.from # j}
      vacated == UNION {into(c.from) : c \in {x \in left : x.from.kind \in JackPanelKinds}}
      wrong(end) == {c \in into(end) : \E s \in source : ~(c.from.kind = "source" /\ c.from.id = s.id)}
      unfed(end) == {s \in source : ~\E c \in into(end) : c.from.kind = "source" /\ c.from.id = s.id}
  IN IF jack # {}
     THEN LET j == CHOOSE x \in jack : TRUE
          IN [delete |-> {c.id : c \in left \cup vacated \cup wrong(j)},
              create |-> {NewCable(j, channel) : x \in IF now = {} \/ left # {} THEN {1} ELSE {}}
                         \cup {NewCable(s, j) : s \in unfed(j)}]
     ELSE [delete |-> {c.id : c \in wrong(channel)}, create |-> {NewCable(s, channel) : s \in unfed(channel)}]

ResolveOutputRouting(id, cables) ==
  {c.to : c \in FirstById({x \in cables : /\ x.from = [kind |-> "mixer", id |-> id, port |-> 0]
                                          /\ x.to.kind = "stagebox"})}
ComputeOutputRoutingSave(id, cables, jack) ==
  LET mixer == [kind |-> "mixer", id |-> id, port |-> 0]
      now == FirstById({c \in cables : c.from = mixer})
      kept == {c \in now : jack = {c.to}}
  IN [delete |-> IF jack = {} THEN {} ELSE {c.id : c \in now \ kept},
      create |-> IF kept # {} THEN {} ELSE {NewCable(mixer, j) : j \in jack}]
=============================================================================

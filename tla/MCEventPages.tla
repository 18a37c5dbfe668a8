---------------------------- MODULE MCEventPages ----------------------------
(* Small patches the pages open on.  `spent` leaves a page of the sheet or the *)
(* canvas one request, a phone all of MaxCalls: its save is a chain of them.   *)
EXTENDS EventPages

Strip(id, number, desk) == [id |-> id, number |-> number, width |-> "mono", color |-> NoColor,
                            pool |-> "channel", linked |-> TRUE, desk |-> desk]
Desk(id, inputs) == [id |-> id, localIn |-> 0, localOut |-> 0, aux |-> 0, inputs |-> inputs, outputs |-> 1]
Output(id, number, desk) == [id |-> id, number |-> number, width |-> "mono", color |-> NoColor, desk |-> desk, fed |-> NoFeed]
At(kind, id) == [kind |-> kind, id |-> id, port |-> 0]
Cable(id, from, to) == [id |-> id, from |-> from, to |-> to, item |-> {}]
Box(id, ins, outs) == [id |-> id, ins |-> ins, outs |-> outs, pos |-> 0]
Multi == [id |-> 41, channels |-> 1, shown |-> TRUE, pos |-> 0]
Source == [id |-> 21, width |-> "mono"]
Empty == [sources |-> {}, channels |-> {}, inDevices |-> {}, outDevices |-> {}, boxes |-> {}, multis |-> {},
          desks |-> {Desk(1, 2)}, outputs |-> {}, inCables |-> {}, outCables |-> {}, next |-> 60]

\* Two strips of one desk, the first fed by a source, and a desk of no strip.
InputSheetPatch == [Empty EXCEPT !.channels = {Strip(11, 1, 1), Strip(12, 2, 1)}, !.desks = @ \cup {Desk(2, 0)},
                                 !.sources = {Source}, !.inCables = {Cable(51, At("source", 21), At("channel", 11))}]
\* A source fanned out to both inputs of a device whose one output feeds the channel.
InputCanvasPatch ==
  [Empty EXCEPT
   !.sources = {Source}, !.channels = {Strip(11, 1, 1)}, !.inDevices = {[id |-> 61, ins |-> 2, outs |-> 1]},
   !.inCables = {Cable(51, At("source", 21), At("device", 61)), Cable(52, At("source", 21), [At("device", 61) EXCEPT !.port = 1]),
                 Cable(53, At("device", 61), At("channel", 11))}, !.next = 70]
\* What another client changes under the page: rows no other patch here has.
InputRowPatch == [Empty EXCEPT !.sources = {[Source EXCEPT !.id = 22]}, !.channels = {Strip(13, 1, 1)}]
InputBoxPatch == [Empty EXCEPT !.boxes = {Box(34, 2, 0)}, !.channels = {Strip(13, 1, 1)},
                              !.inCables = {Cable(51, [At("stagebox", 34) EXCEPT !.port = 1], At("channel", 13))}]
InputJackPatch == [Empty EXCEPT !.channels = {Strip(12, 1, 1)}, !.boxes = {Box(32, 1, 0)}]
InputMovePatch == [Empty EXCEPT !.boxes = {Box(33, 1, 0)}]
\* A channel on the second jack of a box, which another client patches a source to.
InputChainPatch ==
  [Empty EXCEPT !.sources = {Source}, !.boxes = {Box(35, 2, 0)}, !.channels = {Strip(11, 1, 1)},
                !.inCables = {Cable(52, [At("stagebox", 35) EXCEPT !.port = 1], At("channel", 11))}]
\* A channel behind a box's only jack, and a source that could take the jack.
InputPhonePatch ==
  [Empty EXCEPT !.sources = {Source, [Source EXCEPT !.id = 23]}, !.channels = {Strip(11, 1, 1)}, !.boxes = {Box(31, 1, 0)},
                !.inCables = {Cable(51, At("source", 21), At("stagebox", 31)), Cable(52, At("stagebox", 31), At("channel", 11))}]

Fed(output) == [output EXCEPT !.fed = "group"]
OutputSheetPatch == [Empty EXCEPT !.outputs = {Fed(Output(71, 1, 1)), Fed(Output(72, 2, 1))}, !.desks = @ \cup {Desk(2, 0)},
                                  !.boxes = {Box(31, 0, 1)}, !.outCables = {Cable(53, At("mixer", 71), At("stagebox", 31))}, !.next = 80]
OutputFeedPatch == [Empty EXCEPT !.outputs = {Output(71, 1, 1)}]
OutputCanvasPatch ==
  [Empty EXCEPT !.outputs = {Output(71, 1, 1)}, !.boxes = {Box(31, 0, 1)},
   !.outDevices = {[id |-> 81, ins |-> 1, outs |-> 0, links |-> 1, pos |-> 0]}, !.outCables = {Cable(53, At("mixer", 71), At("stagebox", 31))}, !.next = 90]
OutputMultiPatch ==
  [Empty EXCEPT !.outputs = {Output(71, 1, 1)}, !.multis = {Multi}, !.outCables = {Cable(54, At("mixer", 71), At("stage_multi", 41))}, !.next = 90]
OutputRacePatch ==
  [Empty EXCEPT !.boxes = {Box(32, 0, 1)}, !.outDevices = {[id |-> 82, ins |-> 1, outs |-> 0, links |-> 0, pos |-> 0]}, !.next = 90]
OutputPhonePatch ==
  [Empty EXCEPT !.outputs = {Output(71, 1, 1)}, !.boxes = {Box(31, 0, 2)}, !.outCables = {Cable(53, At("mixer", 71), At("stagebox", 31))}]

\* An event that has rows but no desk yet.
Waiting == [Empty EXCEPT !.desks = {}, !.channels = {Strip(11, 1, 0)}, !.outputs = {Output(71, 1, 0)}]

Start(patch, on, spent) == [patch |-> patch, views |-> <<on>>, readOnly |-> FALSE, spent |-> spent]
Reading(patch) == [patch |-> patch, views |-> <<"flow", "sheet">>, readOnly |-> TRUE, spent |-> MaxCalls]
Wandering(patch) == [patch |-> patch, views |-> <<"sheet", "flow">>, readOnly |-> FALSE, spent |-> MaxCalls]
MCInputStarts ==
  {Start(InputSheetPatch, "sheet", MaxCalls - 1), Start(InputCanvasPatch, "flow", MaxCalls - 1),
   Start(InputRowPatch, "flow", MaxCalls - 1), Start(InputBoxPatch, "flow", MaxCalls - 1), Start(InputJackPatch, "flow", MaxCalls - 1),
   Start(InputMovePatch, "flow", MaxCalls - 1), Start(InputPhonePatch, "phone", 0),
   Reading(InputChainPatch), Wandering(InputSheetPatch), Wandering(Waiting)}
MCOutputStarts ==
  {Start(OutputSheetPatch, "sheet", MaxCalls - 1), Start(OutputFeedPatch, "sheet", MaxCalls - 2),
   Start(OutputCanvasPatch, "flow", MaxCalls - 1), Start(OutputMultiPatch, "flow", MaxCalls - 1),
   Start(OutputRacePatch, "flow", MaxCalls - 1),
   Start(OutputPhonePatch, "phone", 0), Reading(OutputFeedPatch), Wandering(OutputSheetPatch), Wandering(Waiting)}
\* A device of one input and two outputs; its second output is free to be patched.
InputSplitterPatch ==
  [Empty EXCEPT
   !.sources = {Source}, !.channels = {Strip(11, 1, 1), Strip(12, 2, 1)}, !.inDevices = {[id |-> 61, ins |-> 1, outs |-> 2]},
   !.inCables = {Cable(51, At("source", 21), At("device", 61)), Cable(52, At("device", 61), At("channel", 11))}, !.next = 70]
MCSplitterStarts == {Start(InputSplitterPatch, "flow", MaxCalls - 1)}
MCSheetStarts == {Start(InputSheetPatch, "sheet", MaxCalls - 2)}
MCInputDrafts == {[number |-> 2, width |-> "mono", desk |-> 1]}
MCOutputDrafts == {[number |-> 3, width |-> "mono", desk |-> 1, fed |-> "group"]}

MCPatchOthers == {[op |-> "deleteSource", id |-> 22],
             [op |-> "updateBox", id |-> 33, fields |-> [ins |-> 2]],
             [op |-> "createCable", side |-> "in", cable |-> NewCable(At("stagebox", 32), At("channel", 12))],
             [op |-> "createCable", side |-> "out", cable |-> NewCable(At("stagebox", 32), At("device", 82))],
             [op |-> "createCable", side |-> "in", cable |-> NewCable(At("source", 21), [At("stagebox", 35) EXCEPT !.port = 1])],
             [op |-> "deleteOutputDevice", id |-> 82]}

-----------------------------------------------------------------------------
(* Stage plots.                                                             *)

Stages == INSTANCE PlotStore
Layer(id, plot, sort) == [id |-> id, plot |-> plot, sort |-> sort, visible |-> TRUE, locked |-> FALSE]
Block(id, plot, layer, x, y) ==
  [id |-> id, plot |-> plot, kind |-> "shape", shape |-> "rect", truss |-> {}, fixture |-> {}, layer |-> layer,
   x |-> x, y |-> y, z |-> 0, width |-> 100, depth |-> 60, height |-> 40, yaw |-> 0, tilt |-> 0]
PlotHead(id, shows) == [Stages!NewHead(id) EXCEPT !.view = shows]
Measured(id, from, to) == [id |-> id, plot |-> 1, layer |-> 11, view |-> "top", type |-> "horizontal", from |-> from, to |-> to, offset |-> 0]
BareStage == [plots |-> {1}, heads |-> 1 :> PlotHead(1, "top"), layers |-> {Layer(11, 1, 0)}, elements |-> {}, measures |-> {},
              links |-> {}, trusses |-> {}, rig |-> {}, next |-> 60]
Stage(elements) == [BareStage EXCEPT !.elements = elements]
TwoPlots == [Stage({Block(21, 1, 11, 0, 0)}) EXCEPT !.plots = {1, 2}, !.heads = (1 :> PlotHead(1, "top")) @@ (2 :> PlotHead(2, "front")),
                                                   !.layers = @ \cup {Layer(12, 2, 0)}]
Layered == [Stage({Block(26, 1, 11, 0, 0)}) EXCEPT
  !.layers = @ \cup {Layer(13, 1, 1)},
  !.links = {[id |-> 31, element |-> 26, role |-> "stack", target |-> 1, sort |-> 0], [id |-> 32, element |-> 26, role |-> "stack", target |-> 2, sort |-> 1]},
  !.rig = {3}]
\* A block and a round riser in the top view, and one measurement between them.
Risers == [Stage({Block(21, 1, 11, 0, 0), [Block(22, 1, 11, 200, 0) EXCEPT !.shape = "ellipse", !.width = 60]}) EXCEPT
             !.measures = {Measured(41, Stages!On(21, Stages!Centre, FALSE), Stages!On(22, Stages!Centre, FALSE))}]
Fronted == [Stage({Block(23, 1, 11, 0, 0)}) EXCEPT !.heads = 1 :> PlotHead(1, "front")]
\* The same without the measurement and under other ids: no one else's request is about them.
Undrawn == [Stage({Block(27, 1, 11, 0, 0), [Block(28, 1, 11, 200, 0) EXCEPT !.shape = "ellipse", !.width = 60]}) EXCEPT !.next = 70]
Bar == [Block(24, 1, 11, 0, 300) EXCEPT !.kind = "truss", !.truss = {51}, !.width = 0, !.depth = 30, !.height = 30]
Truss(hung) == [id |-> 51, height |-> 400, pieces |-> {[id |-> 52, length |-> 300]}, hung |-> hung]
\* A fixture drawn beside a bar, and one that hangs on it, with another bar to hang it on.
Hanging == [Stage({Bar, [Block(25, 1, 11, 0, 0) EXCEPT !.kind = "fixture", !.fixture = {1}]}) EXCEPT !.trusses = {Truss({})}, !.rig = {1}]
Rigged == [Stage({Bar}) EXCEPT !.trusses = {Truss({[fixture |-> 2, offset |-> {150}, side |-> "bottom"]}),
                                            [id |-> 53, height |-> 0, pieces |-> {}, hung |-> {}]}, !.rig = {1, 2}]
OnStage(patch, parts, points, spent) == [patch |-> patch, parts |-> parts, points |-> points, phone |-> FALSE, readOnly |-> FALSE, spent |-> spent]
P(u, v) == [u |-> u, v |-> v]
OnPhone(start) == [start EXCEPT !.phone = TRUE]
OnlyRead(start) == [start EXCEPT !.readOnly = TRUE]
MCPlotStarts ==
  {OnStage(TwoPlots, {"plots"}, {}, MaxCalls - 1), OnStage(Layered, {"canvas", "order"}, {P(0, 0)}, MaxCalls - 2),
   OnStage(Layered, {"canvas", "handles", "layers", "links", "panels"}, {P(0, 0)}, MaxCalls - 1),
   OnStage(Undrawn, {"measure"}, {P(25, 30), P(170, 15)}, MaxCalls - 1), OnStage(Risers, {"measure", "panels"}, {}, MaxCalls - 1),
   OnStage(Fronted, {"canvas", "handles"}, {P(0, 0), P(170, 10)}, MaxCalls - 1),
   OnStage(Hanging, {"canvas"}, {P(0, 300)}, MaxCalls - 2), OnStage(Rigged, {"canvas", "trusses"}, {P(0, 0)}, MaxCalls - 1),
   OnPhone(OnStage(Risers, {"canvas", "measure", "panels"}, {}, MaxCalls - 1)),
   OnlyRead(OnStage(Risers, {"canvas", "measure", "panels"}, {P(0, 0)}, MaxCalls - 1))}
MCTemplates == {Block(0, 0, 0, 0, 0)}
MCPlotOthers == {[op |-> "updateElement", plot |-> 1, id |-> 23, patch |-> "y" :> 70],
                 [op |-> "deleteElement", plot |-> 1, id |-> 22]}
=============================================================================

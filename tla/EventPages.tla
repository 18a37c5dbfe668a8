----------------------------- MODULE EventPages -----------------------------
(***************************************************************************)
(* One client on one of the tabs of an event, a server with what that tab  *)
(* is about, and other clients of it: the pages of InputPatchPage and      *)
(* OutputPatchPage over the audio patch, and StagePlotPage over the plots. *)
(***************************************************************************)
EXTENDS PatchStore

CONSTANTS InputStarts, OutputStarts, InputDrafts, OutputDrafts, Items, Positions,
          PlotStarts, Templates,
          MaxCalls, MaxOthers, PatchOthers, PlotOthers

VARIABLES stored, made, others, written, told, calls, fetch, view, page, tab
vars == <<stored, made, others, written, told, calls, fetch, view, page, tab>>

Inputs == INSTANCE InputPatchPage WITH Starts <- InputStarts, Drafts <- InputDrafts, OthersRequests <- PatchOthers
Outputs == INSTANCE OutputPatchPage WITH Starts <- OutputStarts, Drafts <- OutputDrafts, OthersRequests <- PatchOthers
Plots == INSTANCE StagePlotPage WITH Starts <- PlotStarts, OthersRequests <- PlotOthers

\* The patches the tabs open on are ones the server keeps: the rows of a patch, one cable
\* to a jack, every input cable on rows that are there, and ids of cables given once and
\* not yet again.
PatchFields == {"sources", "channels", "inDevices", "outDevices", "boxes", "multis", "desks", "outputs",
                "inCables", "outCables", "next"}
IsPatch(s) ==
  /\ DOMAIN s = PatchFields
  /\ \A c \in s.inCables \cup s.outCables : DOMAIN c = {"id", "from", "to", "item"}
  /\ \A x \in s.sources \cup s.channels \cup s.boxes : "id" \in DOMAIN x
\* The rows of the input patch a cable may end on.
InputNodes(s) ==
  {<<"source", x.id>> : x \in s.sources} \cup {<<"channel", x.id>> : x \in s.channels}
  \cup {<<"stagebox", x.id>> : x \in s.boxes} \cup {<<"stage_multi", x.id>> : x \in s.multis}
  \cup {<<"device", x.id>> : x \in s.inDevices}
  \cup {<<k, x.id>> : k \in {"console_local", "console_aux"}, x \in s.desks}
EndOnRows(s) == \A c \in s.inCables : \A e \in {c.from, c.to} : <<e.kind, e.id>> \in InputNodes(s)
IdsGivenOnce(rows, next) == \A x \in rows : x.id \in 0 .. next - 1 /\ \A y \in rows : y.id = x.id => y = x

\* Boxes by their ids, and requests that move a box or count its jacks, not both.
BoxesStand(s) ==
  \A b \in s.boxes : {"id", "pos", "ins", "outs"} \subseteq DOMAIN b /\ \A d \in s.boxes : d.id = b.id => d = b
MovesAlone(req) ==
  req.op = "updateBox" => DOMAIN req.fields = {"pos"} \/ DOMAIN req.fields \cap {"id", "pos"} = {}

ASSUME BoundsAssumption == MaxCalls \in Nat /\ MaxOthers \in Nat
ASSUME StartsAssumption ==
  \A start \in InputStarts \cup OutputStarts :
    /\ IsPatch(start.patch) /\ OneCablePerEnd(start.patch) /\ EndOnRows(start.patch)
    /\ BoxesStand(start.patch)
    /\ start.patch.next \in Nat /\ start.spent \in 0 .. MaxCalls
    /\ \A side \in {"in", "out"} : IdsGivenOnce(Cables(side, start.patch), start.patch.next)
\* Other clients are this program: the drawer of the rig counts jacks, a canvas moves.
ASSUME OthersAssumption == \A req \in PatchOthers : MovesAlone(req)
ASSUME StagesAssumption ==
  \A start \in PlotStarts : /\ Plots!IsStage(start.patch) /\ Plots!RowsStand(start.patch)
                            /\ start.spent \in 0 .. MaxCalls

Init == \/ tab = "inputs" /\ Inputs!Init
        \/ tab = "outputs" /\ Outputs!Init
        \/ tab = "plots" /\ Plots!Init
Next == /\ \/ tab = "inputs" /\ Inputs!Next
           \/ tab = "outputs" /\ Outputs!Next
           \/ tab = "plots" /\ Plots!Next
        /\ UNCHANGED tab
Spec == Init /\ [][Next]_vars

-----------------------------------------------------------------------------
(* Invariants.                                                              *)

\* Types and ranges, and the one counter that orders the others: what a page was told and
\* what it shows are never ahead of what the server did.
OnPatch == tab \in {"inputs", "outputs"}
TypeOK == /\ tab \in {"inputs", "outputs", "plots"}
          /\ Inputs!Q!TypeOK
          /\ OnPatch => \A c \in stored.inCables \cup stored.outCables : c.id < stored.next

\* Whatever rows are deleted, and however late a stale page's cable arrives, no cable of
\* the input patch ends on a row that is not there (audio_patch.go: the deletes take the
\* cables of the row with them, and a cable is checked against the ports there are).
InputCablesEndOnRows == OnPatch => EndOnRows(stored)

\* Two pages may aim at one jack from views in which it was free; never do two cables
\* come to be in it, and only sources and desk outputs fan out.
OneCableToAJack == OnPatch => OneCablePerEnd(stored)

\* The two walks of the input patch mirror each other: a channel whose chain is traced
\* back to a source is one of the channels traced forward from it (the sheet's chain comes
\* of the one, the canvas's colours of the other; inputGraph.ts says it "mirrors
\* inputSignalFlow.ts's upstreamPort, just walked forward instead of backward").
TracesMirror ==
  \A c \in stored.channels : \A n \in {0, 1} :
    LET path == WalkBackward([kind |-> "channel", id |-> c.id, port |-> n, dir |-> "in"], stored)
        first == Head(path.hops).cable
    IN path.source # {} =>
         \E x \in stored.inCables : x.id = first /\ c \in ReachableChannels(x.from, stored)

\* They do, through boxes, multis and desk panels, as long as no device splits a signal.
Splitters == {d \in stored.inDevices : d.outs > 1 /\ d.ins # d.outs}
TracesAgree == OnPatch => (Splitters = {} => TracesMirror)

\* Whatever is deleted under whom, a plot's elements, measurements and links stand on rows
\* that are there (stage_plots.go: the deletes cascade; a measurement is checked against
\* the elements there are).
PlotRowsStand == tab = "plots" => Plots!RowsStand(stored)

-----------------------------------------------------------------------------
(* Action properties.                                                       *)

\* Requests the server does in this step.
Served == {c \in calls : c.state = "sent" /\ \E d \in calls' : d.n = c.n /\ d.state = "done"}

\* A cable's dialog may be open long after that cable was pulled by someone else and
\* another one put in: what it changes or takes out is still only the cable it showed.
DialogsTouchTheirCableStep ==
  OnPatch => \A call \in Served : call.then.kind = "cable" =>
    \A c \in stored.inCables \cup stored.outCables :
      c \notin (stored.inCables \cup stored.outCables)' =>
        c.from = call.then.cable.from /\ c.to = call.then.cable.to
DialogsTouchTheirCable == [][DialogsTouchTheirCableStep]_vars

\* Dragging a box never brings back a count of jacks it had when the page last looked
\* (the comment on persistPosition: a whole box copied from this render could).
BoxMovesKeepCounts ==
  [][OnPatch => \A b \in stored.boxes : \A d \in stored'.boxes :
       d.id = b.id /\ d.pos # b.pos => d.ins = b.ins /\ d.outs = b.outs]_vars

\* The phone saves a routing as a row and several cables, one request after another, from
\* the cables of one render. Begun from what the server had and left alone by others, a
\* save that ends well has made the channel's chain the one chosen: nothing of the old
\* chain is left in its way.
PhoneDone == {c \in calls : /\ c.then.kind = "phone" /\ c.state = "done" /\ made' = made
                            /\ ~\E d \in calls' : d.n = c.n}
PhoneRoutingLands ==
  [][tab = "inputs" /\ others = 0 =>
       \A c \in PhoneDone :
         LET id == IF c.req.op = "updateChannel" THEN {c.req.id}
                   ELSE IF c.req.op = "createChannel" THEN {c.id} ELSE {}
             channels == id \cup {x.to.id : x \in {y \in stored.inCables : c.req.op = "createCable" /\ y.id = c.id /\ y.to.kind = "channel"}}
         IN c.then.fresh /\ c.then.desired.source # {} =>
              \A ch \in channels : ResolveChannelRouting(ch, stored.inCables) = c.then.desired]_vars

\* "A refused save reopens the row with what was typed, the refusal and its fix beside it --
\* the editor closed optimistically, and the planner's work must not" (InputSheet.tsx:213).
\* The refusal that is heard is shown; the row is not reopened.
RefusalHeard(c) == /\ c.then.kind = "saved" /\ c.n \in page.attached
                   /\ Inputs!Q!Answered(c) /\ c.state # "done" /\ ~\E d \in calls' : d.n = c.n
RefusedRowReopens ==
  [][tab = "inputs" => \A c \in calls : RefusalHeard(c) => page'.editor.requested = {c.then.write.row}]_vars

\* Dragging in one view leaves the coordinate that view does not show as others have made
\* it since (the canvas patches only viewAxisFields of the row captured at the press).
DragMovesInItsPlane == [][tab = "plots" => Plots!DragMovesInItsPlaneStep]_vars

\* The canvas and the server work out for themselves what a measurement may be anchored to:
\* what the one offers the other takes (stagePlot.ts aimAtAnchor; stage_plot_measurements.go
\* validateAnchor, resolveMeasurement).
PicksAreAccepted == [][tab = "plots" => Plots!PicksAreAcceptedStep]_vars
=============================================================================

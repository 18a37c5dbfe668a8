----------------------------- MODULE EventSheets ----------------------------
(***************************************************************************)
(* One client on one of the sheets that list what an event brings, a       *)
(* server with what that sheet is about, and other clients of it: GearPage *)
(* over the gear, LightingPage over the lighting rig, RigPage over the     *)
(* desks, boxes, multis and devices of the audio patch, RoutingPage over   *)
(* what is routed inside its desks.                                        *)
(***************************************************************************)
EXTENDS Integers, Sequences, FiniteSets

CONSTANTS GearStarts, GearDrafts, Catalog,
          LightingStarts, LightDrafts, Batches, UniverseSize, NewCount,
          RigStarts, RigCounts, RigForms, RigItems, Profiles,
          RoutingStarts, TypedSlots, Capacity, TrackCount, MatrixLimit,
          MaxCalls, MaxOthers, GearOthers, LightingOthers, RigOthers, RoutingOthers

VARIABLES stored, made, others, written, told, calls, fetch, view, page, tab
vars == <<stored, made, others, written, told, calls, fetch, view, page, tab>>

Gear == INSTANCE GearPage WITH Starts <- GearStarts, OthersRequests <- GearOthers
Lighting == INSTANCE LightingPage WITH Starts <- LightingStarts, OthersRequests <- LightingOthers
Rig == INSTANCE RigPage WITH Starts <- RigStarts, Typed <- RigCounts, Forms <- RigForms, Items <- RigItems,
                              OthersRequests <- RigOthers
Routing == INSTANCE RoutingPage WITH Starts <- RoutingStarts, OthersRequests <- RoutingOthers

\* The rigs the drawer opens on are ones the server keeps: the rows of a patch, ids given
\* once and not yet again, and every cable on a device at a port it has.
RigFields == {"sources", "channels", "inDevices", "outDevices", "boxes", "multis", "desks", "outputs",
              "inCables", "outCables", "next"}
IdsGivenOnce(devices, next) ==
  \A d \in devices : d.id \in 0 .. next - 1 /\ \A e \in devices : e.id = d.id => e = d
IsRig(s) ==
  /\ DOMAIN s = RigFields /\ s.next \in Nat
  /\ \A c \in s.inCables \cup s.outCables : DOMAIN c = {"id", "from", "to", "item"}
  /\ IdsGivenOnce(s.inDevices, s.next) /\ IdsGivenOnce(s.outDevices, s.next)

\* The desks of the Desk Routing tab: ids given once, every mix on a desk with the width a mix of
\* its kind has there, and what feeds a mix on its desk.
IsMix(m) == m.kind \in Routing!MixKinds /\ m = [id |-> m.id, desk |-> m.desk, kind |-> m.kind, slot |-> m.slot, width |-> m.width]
IsDesk(d) == d = [id |-> d.id, model |-> d.model, recorder |-> d.recorder, tracks |-> d.tracks] /\ d.id \in Nat
Feeds(r, s) == \/ \E c \in s.channels : c.desk = r.desk /\ r.src = Routing!Port("channel", c.id, 0)
               \/ \E m \in s.mixes : m.desk = r.desk /\ r.src = Routing!Port("mix", m.id, 0)
IsRouting(s) ==
  /\ DOMAIN s = {"desks", "channels", "mixes", "routes", "next"}
  /\ \A d \in s.desks : IsDesk(d) /\ \A e \in s.desks : e.id = d.id => e = d
  /\ \A m \in s.mixes : IsMix(m) /\ \E d \in s.desks : d.id = m.desk /\ m.width = Routing!StoredWidth(d.model, m.kind, m.width)
  /\ \A r \in s.routes : r.dst.kind = "mix" => Feeds(r, s)
RoutingOps == {"createMix", "updateMix", "deleteMix", "setTracks", "fillRecorder", "setRecorder"}

\* The fixtures of a rig of lights have the fields of one.
IsFixture(f) == f = Lighting!FixtureOf(f.id, f.parent, f)
IsLights(s) == DOMAIN s = {"fixtures", "next"} /\ \A f \in s.fixtures : IsFixture(f)

ASSUME BoundsAssumption == MaxCalls \in Nat /\ MaxOthers \in Nat
ASSUME StartsAssumption ==
  \A start \in GearStarts \cup LightingStarts \cup RigStarts \cup RoutingStarts : start.spent \in 0 .. MaxCalls
ASSUME RigsAssumption ==
  \A start \in RigStarts : IsRig(start.patch) /\ Rig!CablesKeepPorts(start.patch)
ASSUME DesksAssumption ==
  (\A start \in RoutingStarts : IsRouting(start.patch)) /\ \A req \in RoutingOthers : req.op \in RoutingOps
ASSUME LightsAssumption ==
  \A start \in LightingStarts : IsLights(start.patch)

Init == \/ tab = "gear" /\ Gear!Init
        \/ tab = "lighting" /\ Lighting!Init
        \/ tab = "rig" /\ Rig!Init
        \/ tab = "routing" /\ Routing!Init
Next == /\ \/ tab = "gear" /\ Gear!Next
           \/ tab = "lighting" /\ Lighting!Next
           \/ tab = "rig" /\ Rig!Next
           \/ tab = "routing" /\ Routing!Next
        /\ UNCHANGED tab
Spec == Init /\ [][Next]_vars

-----------------------------------------------------------------------------
\* Types and ranges, and the order of the counters, of what a page asks and is told.
TypeOK == tab \in {"gear", "lighting", "rig", "routing"} /\ Gear!Q!TypeOK

\* A batch of lines is a request each, and "it does not stop at the first failure" (EquipmentSheet.tsx
\* 129): when it ends, each line is on the server or is kept to be sent again.
BatchIsAccounted == [][tab = "gear" => Gear!BatchIsAccountedStep]_vars

\* "Groups move whole, sharing survives, nothing that was separate becomes shared, and no fixture
\* ever leaves its universe" (dmxPlan.ts:9-10): a plan that is offered
\* keeps who shares with whom and leaves a universe without a fault, or as it was.
PlansKeepSharing == [][tab = "lighting" => Lighting!PlansKeepSharingStep]_vars

\* The room a question offers to make is the whole span, a group that runs into it from below included, and
\* what is below and who shares with whom stay as they were (dmxPlan.ts, planMakeRoom).
RoomIsMade == [][tab = "lighting" => Lighting!RoomIsMadeStep]_vars

\* "Shift first, then save: the reverse saves a fixture into a collision" (LightingSheet.tsx): what
\* waits for room to be made is sent only when the rig has the new addresses.
RoomIsFirst == [][tab = "lighting" => Lighting!RoomIsFirstStep]_vars

\* "reducing port count would orphan existing cables" (audio_patch.go, validInputDevicePorts): whatever
\* is typed in a drawer that shows an old rig, every cable on a device ends at a port the device has.
CablesKeepTheirPorts == tab = "rig" => Rig!CablesKeepTheirPorts

\* "The same RouteAllowed a save is checked against, so a cell is never offered that the save would refuse"
\* (deskRouting.ts:45-46): so it is, of a column that keeps its slot and width, on a page that shows what the
\* server has, but for an LV1 matrix of more sources than it takes (desk_mixes.go:222), which is left out here.
OfferedIsTaken == [][tab = "routing" => Routing!OfferedIsTakenStep]_vars

\* "Tracks past the recorder's count that a model switch kept are sent back as they are, so saving the table
\* never drops them" (RecorderTable.tsx): no save of the tracks loses one past the count that it had no row for.
PastTracksStay == [][tab = "routing" => Routing!PastTracksStayStep]_vars

-----------------------------------------------------------------------------
(* What the documentation says and the code does not keep.                  *)

\* "A cell is never offered that the save would refuse" (deskRouting.ts:45-46): the grid and the sheet in the
\* hand offer every square of an LV1 matrix, however many sources its column has (RoutingGrid.tsx, cell), and
\* the server refuses a column of more than the limit (desk_mixes.go, updateDeskMix).
NoOfferRefused == [][tab = "routing" => Routing!NoOfferRefusedStep]_vars
=============================================================================

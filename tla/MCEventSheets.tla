---------------------------- MODULE MCEventSheets ---------------------------
(* Small lists the sheets open on.                                           *)
EXTENDS EventSheets, TLC

Models == INSTANCE DeskModels

OnPhone(start) == [start EXCEPT !.phone = TRUE]
OnlyRead(start) == [start EXCEPT !.readOnly = TRUE]

-----------------------------------------------------------------------------
(* Gear.                                                                    *)

MCCatalog == {[id |-> 1, lighting |-> FALSE, stock |-> 2, audio |-> 1, light |-> 0],
              [id |-> 2, lighting |-> TRUE, stock |-> 1, audio |-> 0, light |-> 0]}
NoGear == [items |-> {}, owned |-> {}, manual |-> {}, next |-> 9]
Own(have) == [id |-> 1, have |-> have, note |-> {}]
OwnLine(item, qty) == [item |-> item, qty |-> qty, note |-> {}]
Manual(item, audio) == [item |-> item, audio |-> audio, light |-> 0, note |-> {}]
GearList == [NoGear EXCEPT !.items = {Own(1)}, !.owned = {OwnLine(1, 2)}, !.manual = {Manual(2, 1)}]
OnGear(patch, on, parts, spent) == [patch |-> patch, on |-> on, phone |-> FALSE, parts |-> parts, readOnly |-> FALSE, spent |-> spent]
MCGearDrafts == {[qty |-> 0, audio |-> 2, light |-> 0, note |-> {"n"}]}
MCGearStarts ==
  {OnGear(GearList, "equipment", {"rows", "filter"}, MaxCalls - 1), OnGear(GearList, "rental", {"rows", "filter", "form"}, MaxCalls - 1),
   OnGear(GearList, "catalog", {"rows", "form"}, MaxCalls - 1), OnGear([NoGear EXCEPT !.items = {Own(1)}], "equipment", {"batch"}, 1),
   OnPhone(OnGear(GearList, "equipment", {"form"}, MaxCalls - 1)), OnPhone(OnGear(GearList, "rental", {"form"}, MaxCalls - 1)),
   OnPhone(OnGear(NoGear, "equipment", {"batch"}, 1))}
MCGearOthers == {[op |-> "deleteOwned", item |-> 1]}

-----------------------------------------------------------------------------
(* Lighting: universes of six channels, new fixtures of two.              *)

Fixture(id, start, count) == [id |-> id, number |-> id, position |-> id, parent |-> 0, universe |-> 1, start |-> start, count |-> count]
Lights(list) == [fixtures |-> list, next |-> 9]
Pair == Lights({Fixture(1, 1, 2), Fixture(2, 3, 2)})
Lone == Lights({Fixture(1, 1, 2)})
Shared == Lights({Fixture(1, 5, 2), Fixture(2, 1, 2), Fixture(3, 5, 2)})
Bare == Lights({Fixture(1, 0, 2), Fixture(2, 0, 2), [Fixture(3, 3, 3) EXCEPT !.parent = 1]})
Wide == Lights({Fixture(1, 2, 5), Fixture(2, 3, 4), [Fixture(3, 2, 0) EXCEPT !.universe = 0]})
OnRig(patch, parts, spent) == [patch |-> patch, phone |-> FALSE, parts |-> parts, readOnly |-> FALSE, spent |-> spent]
Typed(universe, start, count) == [number |-> 1, universe |-> universe, start |-> start, count |-> count]
MCLightDrafts == {Typed(1, 2, 2)}
MCBatches == {[quantity |-> 2, share |-> TRUE], [start |-> 1]}
MCLightingStarts ==
  {OnRig(Pair, {"rows"}, MaxCalls - 2), OnRig(Shared, {"rows", "others"}, MaxCalls - 1), OnRig(Lone, {"add"}, MaxCalls - 2),
   OnRig(Wide, {"add", "universe", "others"}, MaxCalls - 1), OnRig(Shared, {"add"}, MaxCalls - 1),
   OnRig(Bare, {"rows", "delete", "filter", "drawer"}, MaxCalls - 1), OnRig(Wide, {"drawer", "filter", "others"}, MaxCalls - 2),
   OnPhone(OnRig(Bare, {"sheet", "others"}, MaxCalls - 1))}
MCLightingOthers == {[op |-> "deleteFixture", id |-> 1]}

-----------------------------------------------------------------------------
(* The audio rig.                                                           *)

MCProfiles == [real |-> [inputs |-> 2, localIn |-> 1, localOut |-> 1, aux |-> 0, tracks |-> 2]]
NoRig == [sources |-> {}, channels |-> {}, inDevices |-> {}, outDevices |-> {}, boxes |-> {}, multis |-> {},
          desks |-> {}, outputs |-> {}, inCables |-> {}, outCables |-> {}, next |-> 90]
At(kind, id, port) == [kind |-> kind, id |-> id, port |-> port]
Cable(id, from, to) == [id |-> id, from |-> from, to |-> to, item |-> {}]
Source == [id |-> 21, width |-> "stereo"]
Desk(model) == [id |-> 1, inputs |-> 2, outputs |-> 1, localIn |-> 2, localOut |-> 0, aux |-> 0, model |-> model,
                from |-> {"owned"}, recorder |-> FALSE, tracks |-> 0]
BoxRow == [ins |-> 1, outs |-> 1, item |-> {}]
MultiRow == [channels |-> 2, shown |-> FALSE, item |-> {}]
DeviceRow == [ins |-> 1, outs |-> 2, conn |-> {"in", "out"}, from |-> {"rental"}]
LinkedRow == [ins |-> 1, outs |-> 0, links |-> 1, conn |-> {"in"}, from |-> {"owned"}]
DeskRig == [NoRig EXCEPT !.desks = {Desk("generic")}, !.sources = {Source},
                         !.inCables = {Cable(51, At("source", 21, 0), At("console_local", 1, 0))}]
BoxRig == [NoRig EXCEPT !.boxes = {[id |-> 31, pos |-> 0] @@ BoxRow}]
MultiRig == [NoRig EXCEPT !.multis = {[id |-> 41, pos |-> 0] @@ MultiRow}]
DeviceRig == [NoRig EXCEPT !.sources = {Source}, !.inDevices = {[id |-> 61, pos |-> 0] @@ [DeviceRow EXCEPT !.ins = 2]}]
OutRig == [NoRig EXCEPT !.outDevices = {[id |-> 81, pos |-> 0] @@ [LinkedRow EXCEPT !.conn = {"in", "link"}],
                                        [id |-> 82, pos |-> 0, links |-> 0] @@ DeviceRow},
                        !.outCables = {Cable(53, At("device_link", 81, 0), At("device", 82, 0))}]
OnDrawer(patch, parts, spent) == [patch |-> patch, parts |-> parts, readOnly |-> FALSE, spent |-> spent]
MCRigStarts ==
  {OnDrawer(DeskRig, {"desks", "fields", "forms"}, MaxCalls - 1), OnDrawer(DeskRig, {"desks", "switch"}, MaxCalls - 2),
   OnDrawer(BoxRig, {"boxes", "fields", "forms"}, MaxCalls - 1), OnDrawer(MultiRig, {"multis", "fields", "forms"}, MaxCalls - 1),
   OnDrawer(DeviceRig, {"inDevices", "fields", "forms"}, MaxCalls - 1), OnDrawer(OutRig, {"procs", "dests", "fields", "forms"}, MaxCalls - 1)}
MCRigCounts == {0, 1}
MCRigForms == {[section |-> "desks", row |-> [model |-> "real", from |-> {}]], [section |-> "boxes", row |-> BoxRow],
               [section |-> "multis", row |-> MultiRow], [section |-> "inDevices", row |-> DeviceRow],
               [section |-> "procs", row |-> [links |-> 0] @@ DeviceRow], [section |-> "dests", row |-> LinkedRow]}
MCRigItems == {[id |-> 1, ins |-> {2}, outs |-> {0}, channels |-> {1}]}
MCRigOthers == {[op |-> "createCable", side |-> "in", cable |-> [from |-> At("source", 21, 1), to |-> At("device", 61, 1), item |-> {}]],
                [op |-> "deleteBox", id |-> 31]}

-----------------------------------------------------------------------------
(* The desks' insides: pools of two, a recorder of two tracks, matrices of  *)
(* two sources.                                                             *)

MCCapacity == [m \in Models!RealModels |->
  [p \in {"bus", "main", "subgroup", "monitor", "fx", "matrix", "dca", "mute"} |-> IF m = "lv1_16" /\ p \in {"subgroup", "monitor"} THEN 0 ELSE 2]]
MCTrackCount == [m \in Models!RealModels |-> 2]
Console(id, model, tracks) == [id |-> id, model |-> model, recorder |-> tracks > 0, tracks |-> tracks]
Strip(id, desk) == [id |-> id, desk |-> desk, patched |-> TRUE]
Mix(id, desk, kind, slot, width) == [id |-> id, desk |-> desk, kind |-> kind, slot |-> slot, width |-> width]
Joins(desk, from, to, mode) == [desk |-> desk, src |-> from, dst |-> to, mode |-> mode]
MainsOf(desk, slots) == {Mix(10 * desk + slot, desk, "main", slot, IF slot = 1 THEN "stereo" ELSE "mono") : slot \in 1 .. slots}
Inside(desks, strips, mixes, routes) == [desks |-> desks, channels |-> strips, mixes |-> mixes, routes |-> routes, next |-> 90]
Groups == Inside({Console(1, "lv1_32", 0)}, {Strip(21, 1)}, MainsOf(1, 3) \cup {Mix(5, 1, "subgroup", 1, "stereo"), Mix(6, 1, "subgroup", 2, "stereo")},
                 {Joins(1, At("mix", 6, 0), At("mix", 5, 0), ""), Joins(1, At("channel", 21, 0), At("mix", 6, 0), "")})
Matrices == Inside({Console(1, "lv1_16", 0)}, {Strip(21, 1), Strip(22, 1)}, MainsOf(1, 1) \cup {Mix(5, 1, "matrix", 1, "mono")},
                   {Joins(1, At("channel", 21, 0), At("mix", 5, 0), "")})
Buses == Inside({Console(1, "x32", 0)}, {Strip(21, 1)}, MainsOf(1, 2) \cup {Mix(5, 1, "matrix", 1, "mono"), Mix(6, 1, "fx", 1, "mono")},
                {Joins(1, At("mix", 6, 0), At("mix", 11, 0), "")})
Recorders == Inside({Console(1, "generic", 1), Console(2, "generic", 1)}, {Strip(21, 1)}, MainsOf(1, 3) \cup MainsOf(2, 3),
                    {Joins(1, At("channel", 21, 0), At("recorder", 1, 2), ""), Joins(1, At("recorder", 1, 2), At("channel", 21, 0), "source")})
OnDesks(patch, table, parts, spent) ==
  [patch |-> patch, table |-> table, phone |-> FALSE, parts |-> parts, readOnly |-> FALSE, spent |-> spent]
MCRoutingStarts ==
  {OnDesks(Groups, "subgroups", {"grid", "fields"}, MaxCalls - 1), OnDesks(Matrices, "matrices", {"grid"}, MaxCalls - 1),
   OnPhone(OnDesks(Buses, "matrices", {"grid", "add"}, MaxCalls - 1)), OnDesks(Buses, "fx", {"add", "tables"}, MaxCalls - 1),
   OnDesks(Buses, "fx", {"flow"}, MaxCalls), OnDesks(Recorders, "recorder", {"tracks", "desk"}, MaxCalls - 1)}
MCMatrixStarts == {OnDesks(Matrices, "matrices", {"grid"}, MaxCalls - 1)}
MCTypedSlots == {2, 3}
MCRoutingOthers == {[op |-> "setRecorder", desk |-> 1, on |-> TRUE, tracks |-> 0], [op |-> "deleteMix", id |-> 5]}
=============================================================================

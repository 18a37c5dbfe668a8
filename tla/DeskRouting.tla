----------------------------- MODULE DeskRouting -----------------------------
(***************************************************************************)
(* The desks of one event and everything routed inside them: the tables    *)
(* event_consoles, desk_mixes, desk_routes and the desk columns of         *)
(* input_channels and audio_patch_outputs, with one action per request that*)
(* writes them (api/desk_mixes.go, api/consoles.go, api/audio_patch.go and *)
(* the db functions they call).                                            *)
(*                                                                         *)
(* A route joins two ports (kind, id, port).  Port ids are polymorphic and *)
(* carry no foreign key, so nothing but the handlers keeps a route's ends  *)
(* alive and on its desk: that is what this module is about.               *)
(*                                                                         *)
(* Requests are taken one at a time here: each action is a whole handler,  *)
(* its checks and its transaction.                                         *)
(***************************************************************************)
EXTENDS DeskRules

CONSTANTS
    Consoles, Channels, Outputs,   \* ids that rows of the three tables may take
    Models,                        \* models the planner picks from
    SeedModel,                     \* the model of the one desk at the start (Generic as created)
    UserKinds,                     \* kinds of mix the planner adds
    MaxMixes,                      \* bound: rows of desk_mixes at a time
    MaxSlot,                       \* bound: slot numbers
    MaxTracks,                     \* bound: typed recorder tracks
    MaxSources,                    \* bound: sources of one column save
    ChannelPorts,                  \* bound: ports of a channel that a recorder's table names (0 is what the page sends)
    NoDesk,                        \* a NULL console_id
    Absent                         \* no such row

VARIABLES
    model,         \* event_consoles.desk_model (and bus_mode), or Absent
    recorder,      \* event_consoles.recorder and recorder_tracks
    channelDesk,   \* input_channels.console_id
    outputDesk,    \* audio_patch_outputs.console_id
    mix,           \* desk_mixes
    routes         \* desk_routes

desks == <<model, recorder>>
rows == <<channelDesk, outputDesk>>
vars == <<model, recorder, channelDesk, outputDesk, mix, routes>>

MixIds == 1 .. MaxMixes
Tracks == 1 .. MaxTracks
Ids == Consoles \cup Channels \cup Outputs \cup MixIds

ASSUME RoutingAssumption ==
    /\ Models \subseteq AllModels
    /\ SeedModel \in Models
    /\ UserKinds \subseteq UserMixKinds
    /\ MaxMixes \in Nat /\ MainSlots(SeedModel) \subseteq MixIds
    /\ MaxSlot \in Nat \ {0, 1, 2} /\ MaxTracks \in Nat /\ MaxSources \in Nat
    /\ ChannelPorts \subseteq Int
    /\ NoDesk # Absent
    /\ {NoDesk, Absent} \cap Consoles = {}
    /\ Absent \notin AllModels
    /\ \A m \in RealModels : TrackCount[m] <= MaxTracks

MixRows ==
    [desk : Consoles \cup {NoDesk, Absent}, kind : MixKinds \cup {"none"},
     slot : 0 .. MaxSlot, width : Widths \cup {"none"}]

NoMix == [desk |-> Absent, kind |-> "none", slot |-> 0, width |-> "none"]

PortNumbers == (0 .. MaxTracks + 1) \cup ChannelPorts

RouteRows ==
    [desk : Consoles \cup {NoDesk},
     srcKind : {"channel", "mix", "recorder"}, src : Ids, srcPort : PortNumbers,
     dstKind : {"mix", "output", "recorder", "channel"}, dst : Ids, dstPort : PortNumbers]

TypeOK ==
    /\ model \in [Consoles -> AllModels \cup {Absent}]
    /\ recorder \in [Consoles -> [on : BOOLEAN, tracks : 0 .. MaxTracks]]
    /\ channelDesk \in [Channels -> Consoles \cup {NoDesk, Absent}]
    /\ outputDesk \in [Outputs -> Consoles \cup {NoDesk, Absent}]
    /\ mix \in [MixIds -> MixRows]
    /\ routes \subseteq RouteRows

-----------------------------------------------------------------------------
(* Reading the tables.                                                      *)

Desks == {c \in Consoles : model[c] # Absent}
MixesOf(c) == {i \in MixIds : mix[i].desk = c}
ChannelsOn(c) == {ch \in Channels : channelDesk[ch] = c}
Listed(c) ==
    {[id |-> i, kind |-> mix[i].kind, slot |-> mix[i].slot, width |-> mix[i].width] : i \in MixesOf(c)}
RowMixesOf(c) == {i \in MixesOf(c) : mix[i].kind \in RowKinds}
MainLR(c) == {i \in MixesOf(c) : mix[i].kind = "main" /\ mix[i].slot = 1}
(* Mutant: sides numbered from one. *)
SidesFromOne(i) == IF mix[i].width = "stereo" THEN {1, 2} ELSE {1}

Sides(i) == IF mix[i].width = "stereo" THEN {0, 1} ELSE {0}

Names(r, kind, id) ==
    \/ r.srcKind = kind /\ r.src = id
    \/ r.dstKind = kind /\ r.dst = id

SamePorts(r, s) ==
    /\ <<r.srcKind, r.src, r.srcPort>> = <<s.srcKind, s.src, s.srcPort>>
    /\ <<r.dstKind, r.dst, r.dstPort>> = <<s.dstKind, s.dst, s.dstPort>>

Route(c, srcKind, src, srcPort, dstKind, dst, dstPort) ==
    [desk |-> c, srcKind |-> srcKind, src |-> src, srcPort |-> srcPort,
     dstKind |-> dstKind, dst |-> dst, dstPort |-> dstPort]

ToMix(c, ch, i) == Route(c, "channel", ch, 0, "mix", i, 0)

(* INSERT OR IGNORE: the ports are UNIQUE, whatever the desk. *)
InsertRoutes(table, new) ==
    table \cup {n \in new : \A r \in table : ~SamePorts(r, n)}

(* Mutant: only the routes out of the port are cleared. *)
ClearSourceRoutes(table, kind, id) == {r \in table : ~(r.srcKind = kind /\ r.src = id)}

ClearPortRoutes(table, kind, id) == {r \in table : ~Names(r, kind, id)}

(* Rows of desk_mixes not in use, of which a new row takes the lowest: the  *)
(* ids are AUTOINCREMENT, never reused, and no route outlives its mix.      *)
Unused(table) == {i \in MixIds : table[i].desk = Absent}

(* EnsureDeskMains: the first desk adopts the mixes and routes an event     *)
(* without desks was holding, and each of the desks gets the mains it has   *)
(* not got.                                                                 *)
FirstDesk(modelOf) ==
    LET live == {c \in Consoles : modelOf[c] # Absent} IN
    IF Cardinality(live) = 1 THEN CHOOSE c \in live : TRUE ELSE NoDesk

Adopted(modelOf, row) ==
    IF row.desk = NoDesk THEN [row EXCEPT !.desk = FirstDesk(modelOf)] ELSE row

AdoptedMixes(modelOf, table) == [i \in MixIds |-> Adopted(modelOf, table[i])]

AdoptedRoutes(modelOf, table) == {Adopted(modelOf, r) : r \in table}

(* Mutant: a desk that has a main is taken to have them all. *)
MissingOnBareDesks(modelOf, table, some) ==
    {m \in some \X (1 .. 3) :
        /\ m[2] \in MainSlots(modelOf[m[1]])
        /\ \A i \in MixIds : ~(table[i].desk = m[1] /\ table[i].kind = "main")}

MissingMains(modelOf, table, some) ==
    {m \in some \X (1 .. 3) :
        /\ m[2] \in MainSlots(modelOf[m[1]])
        /\ \A i \in MixIds :
            ~(table[i].desk = m[1] /\ table[i].kind = "main" /\ table[i].slot = m[2])}

(* idOf numbers the new rows from the lowest unused id up. *)
Numbers(idOf, unused) ==
    LET taken == {idOf[m] : m \in DOMAIN idOf} IN
    /\ \A m, n \in DOMAIN idOf :
        /\ m # n => idOf[m] # idOf[n]
        /\ m[1] = n[1] /\ m[2] < n[2] => idOf[m] < idOf[n]
    /\ \A i \in taken, j \in unused : j < i => j \in taken

WithMains(table, idOf) ==
    [i \in MixIds |->
        IF \E m \in DOMAIN idOf : idOf[m] = i
        THEN LET m == CHOOSE m \in DOMAIN idOf : idOf[m] = i
             IN  [desk |-> m[1], kind |-> "main", slot |-> m[2], width |-> MainWidth(m[2])]
        ELSE table[i]]

EnsureDeskMains(modelOf, some, table, routeTable) ==
    LET adopted == AdoptedMixes(modelOf, table)
        missing == MissingMains(modelOf, adopted, some)
    IN  /\ \E idOf \in [missing -> Unused(adopted)] :
            /\ Numbers(idOf, Unused(adopted))
            /\ mix' = WithMains(adopted, idOf)
        /\ routes' = AdoptedRoutes(modelOf, routeTable)

-----------------------------------------------------------------------------
(* An event as CreateEvent leaves it: one console, with its mains.          *)

Fresh(c) ==
    /\ model = [d \in Consoles |-> IF d = c THEN SeedModel ELSE Absent]
    /\ mix = [i \in MixIds |->
                IF i \in MainSlots(SeedModel)
                THEN [desk |-> c, kind |-> "main", slot |-> i, width |-> MainWidth(i)]
                ELSE NoMix]
    /\ channelDesk = [ch \in Channels |-> Absent]
    /\ routes = {}

Init ==
    /\ recorder = [c \in Consoles |-> [on |-> FALSE, tracks |-> 0]]
    /\ outputDesk = [o \in Outputs |-> Absent]
    /\ \E c \in Consoles : Fresh(c)

(* An event without desks as migration 055 leaves it: its LR and a group    *)
(* feeding it wait for a desk, and so do the memberships of its channels.   *)
Waiting(members) ==
    /\ model = [d \in Consoles |-> Absent]
    /\ mix = [i \in MixIds |->
                CASE i = 1 -> [desk |-> NoDesk, kind |-> "main", slot |-> 1, width |-> "stereo"]
                  [] i = 2 -> [desk |-> NoDesk, kind |-> "subgroup", slot |-> 1, width |-> "mono"]
                  [] OTHER -> NoMix]
    /\ channelDesk = [ch \in Channels |-> NoDesk]
    /\ routes = {ToMix(NoDesk, m[1], m[2]) : m \in members}
                  \cup {Route(NoDesk, "mix", 2, 0, "mix", 1, 0)}

InitMigrated ==
    /\ recorder = [c \in Consoles |-> [on |-> FALSE, tracks |-> 0]]
    /\ outputDesk = [o \in Outputs |-> NoDesk]
    /\ \E members \in SUBSET (Channels \X {1, 2}) : Waiting(members)

-----------------------------------------------------------------------------
(* Desks.                                                                   *)

CreateConsole(c, m) ==
    LET modelOf == [model EXCEPT ![c] = m] IN
    /\ c \notin Desks
    /\ model' = modelOf
    /\ EnsureDeskMains(modelOf, {c}, mix, routes)
    /\ UNCHANGED <<recorder, rows>>

(* Reading the patch ensures the mains of every desk first. *)
GetAudioPatch ==
    /\ EnsureDeskMains(model, Desks, mix, routes)
    /\ UNCHANGED <<desks, rows>>

(* The rows planned on the desk are kept without one; its mixes and routes  *)
(* go with it (ON DELETE SET NULL, ON DELETE CASCADE).                      *)
DeleteConsole(c) ==
    /\ c \in Desks
    /\ model' = [model EXCEPT ![c] = Absent]
    /\ recorder' = [recorder EXCEPT ![c] = [on |-> FALSE, tracks |-> 0]]
    /\ channelDesk' = [ch \in Channels |-> IF channelDesk[ch] = c THEN NoDesk ELSE channelDesk[ch]]
    /\ outputDesk' = [o \in Outputs |-> IF outputDesk[o] = c THEN NoDesk ELSE outputDesk[o]]
    /\ mix' = [i \in MixIds |-> IF mix[i].desk = c THEN NoMix ELSE mix[i]]
    /\ routes' = {r \in routes : r.desk # c}

(* A PATCH of the console may change an LV1 80's bus mode, and so its       *)
(* pools, moving nothing.                                                   *)
SetBusMode(c, m) ==
    /\ c \in Desks
    /\ model[c] \in BusModeModels /\ m \in BusModeModels
    /\ model' = [model EXCEPT ![c] = m]
    /\ UNCHANGED <<recorder, rows, mix, routes>>

Routed(c, i) == \E r \in routes : r.desk = c /\ Names(r, "mix", i)

(* Mutant: a main goes whether or not something routes to it. *)
DroppedEvenRouted(c, to) ==
    {i \in MixesOf(c) : mix[i].kind = "main" /\ mix[i].slot \notin MainSlots(to)}

(* A main the new model has not got goes, unless something routes to it. *)
DroppedMains(c, to) ==
    {i \in MixesOf(c) :
        mix[i].kind = "main" /\ mix[i].slot \notin MainSlots(to) /\ ~Routed(c, i)}

MappedTo(i, placed) == {placed[k].slot : k \in {n \in DOMAIN placed : placed[n].id = i}}

SwitchedMix(i, to, placed, dropped) ==
    IF i \in dropped THEN NoMix
    ELSE IF mix[i].kind # "main"
         THEN [mix[i] EXCEPT !.slot = CHOOSE s \in 1 .. MaxSlot : s \in MappedTo(i, placed),
                             !.width = StoredWidth(to, mix[i].kind, mix[i].width)]
         ELSE IF mix[i].slot \in MainSlots(to)
              THEN [mix[i] EXCEPT !.width = MainWidth(mix[i].slot)] ELSE mix[i]

SwitchConsoleModel(c, to) ==
    LET placed == MapMixes(to, {x \in Listed(c) : x.kind # "main"})
        dropped == DroppedMains(c, to)
        table == [i \in MixIds |->
                    IF mix[i].desk = c THEN SwitchedMix(i, to, placed, dropped) ELSE mix[i]]
        kept == {r \in routes : \A i \in dropped : ~Names(r, "mix", i)}
        modelOf == [model EXCEPT ![c] = to]
    IN  /\ c \in Desks
        /\ \A i \in MixesOf(c) :
            mix[i].kind # "main" => \E s \in 1 .. MaxSlot : s \in MappedTo(i, placed)
        /\ model' = modelOf
        /\ recorder' = IF to \in RealModels
                       THEN [recorder EXCEPT ![c].tracks = TrackCount[to]] ELSE recorder
        /\ EnsureDeskMains(modelOf, {c}, table, kept)
        /\ UNCHANGED rows

(* Rows on no desk are put on this one; a channel joins its Main LR. *)
PlaceOnConsole(c, chs, outs) ==
    /\ c \in Desks
    /\ chs \subseteq ChannelsOn(NoDesk) /\ outs \subseteq {o \in Outputs : outputDesk[o] = NoDesk}
    /\ chs \cup outs # {}
    /\ channelDesk' = [ch \in Channels |-> IF ch \in chs THEN c ELSE channelDesk[ch]]
    /\ outputDesk' = [o \in Outputs |-> IF o \in outs THEN c ELSE outputDesk[o]]
    /\ IF chs = {} THEN routes' = routes
       ELSE \E lr \in MainLR(c) :
                routes' = InsertRoutes(routes, {ToMix(c, ch, lr) : ch \in chs})
    /\ UNCHANGED <<desks, mix>>

-----------------------------------------------------------------------------
(* Channels.  Every one is created on a desk; the mixes its row names are   *)
(* that desk's mains, groups, DCAs and mute groups.                         *)

(* Mutant: a row save rewrites every mix of the channel. *)
AllRoutesOf(ch) == {r \in routes : r.srcKind = "channel" /\ r.src = ch /\ r.dstKind = "mix"}

RowRoutes(ch) ==
    {r \in routes : /\ r.srcKind = "channel" /\ r.src = ch /\ r.dstKind = "mix"
                    /\ mix[r.dst].kind \in RowKinds}

ReplaceChannelMixes(table, c, ch, ids) ==
    InsertRoutes(table, {ToMix(c, ch, i) : i \in ids})

(* With no mixes named the new channel joins Main LR: the choice ids = {LR}. *)
CreateInputChannel(ch, c, ids) ==
    /\ channelDesk[ch] = Absent
    /\ c \in Desks
    /\ channelDesk' = [channelDesk EXCEPT ![ch] = c]
    /\ ids \subseteq RowMixesOf(c)
    /\ routes' = ReplaceChannelMixes(routes, c, ch, ids)
    /\ UNCHANGED <<desks, outputDesk, mix>>

(* A row saved on the desk it is on. *)
SaveInputChannel(ch, ids) ==
    LET c == channelDesk[ch] IN
    /\ c \in Desks
    /\ ids \subseteq RowMixesOf(c)
    /\ routes' = ReplaceChannelMixes(routes \ RowRoutes(ch), c, ch, ids)
    /\ UNCHANGED <<desks, rows, mix>>

(* Mutant: the old routes are cleared after the new one is made. *)
MoveClearingLast(ch, c) ==
    /\ channelDesk[ch] # Absent /\ channelDesk[ch] # c
    /\ c \in Desks
    /\ channelDesk' = [channelDesk EXCEPT ![ch] = c]
    /\ \E lr \in MainLR(c) :
        routes' = ClearPortRoutes(ReplaceChannelMixes(routes, c, ch, {lr}), "channel", ch)
    /\ UNCHANGED <<desks, outputDesk, mix>>

(* A row saved onto another desk leaves every route it had, and joins LR. *)
MoveInputChannel(ch, c) ==
    /\ channelDesk[ch] # Absent /\ channelDesk[ch] # c
    /\ c \in Desks
    /\ channelDesk' = [channelDesk EXCEPT ![ch] = c]
    /\ \E lr \in MainLR(c) :
        routes' = ReplaceChannelMixes(ClearPortRoutes(routes, "channel", ch), c, ch, {lr})
    /\ UNCHANGED <<desks, outputDesk, mix>>

DeleteInputChannel(ch) ==
    /\ channelDesk[ch] # Absent
    /\ channelDesk' = [channelDesk EXCEPT ![ch] = Absent]
    /\ routes' = ClearPortRoutes(routes, "channel", ch)
    /\ UNCHANGED <<desks, outputDesk, mix>>

-----------------------------------------------------------------------------
(* Outputs.                                                                 *)

FedBy(o) == {r \in routes : r.dstKind = "output" /\ r.dst = o}

CreateOutput(o, c) ==
    /\ outputDesk[o] = Absent
    /\ c \in Desks
    /\ outputDesk' = [outputDesk EXCEPT ![o] = c]
    /\ UNCHANGED <<desks, channelDesk, mix, routes>>

(* An output that changes desk loses its Fed by. *)
UpdateOutput(o, c) ==
    /\ outputDesk[o] # Absent
    /\ c \in Desks
    /\ outputDesk' = [outputDesk EXCEPT ![o] = c]
    /\ routes' = IF outputDesk[o] = c THEN routes ELSE routes \ FedBy(o)
    /\ UNCHANGED <<desks, channelDesk, mix>>

DeleteOutput(o) ==
    /\ outputDesk[o] # Absent
    /\ outputDesk' = [outputDesk EXCEPT ![o] = Absent]
    /\ routes' = ClearPortRoutes(routes, "output", o)
    /\ UNCHANGED <<desks, channelDesk, mix>>

(* Mutant: the old source is not deleted first. *)
AddFedBy(o, source) ==
    /\ routes' = InsertRoutes(routes, source)
    /\ UNCHANGED <<desks, rows, mix>>

SetFedBy(o, source) ==
    /\ routes' = InsertRoutes(routes \ FedBy(o), source)
    /\ UNCHANGED <<desks, rows, mix>>

ClearFedBy(o) ==
    /\ outputDesk[o] # Absent
    /\ SetFedBy(o, {})

(* The side matters only on a mono output: both are offered on a stereo mix. *)
FeedByMix(o, i, side) ==
    LET c == outputDesk[o] IN
    /\ c \in Desks
    /\ mix[i].desk = c
    /\ FedByAllowed(mix[i].kind)
    /\ side \in Sides(i)
    /\ SetFedBy(o, {Route(c, "mix", i, side, "output", o, 0)})

FeedByChannel(o, ch) ==
    LET c == outputDesk[o] IN
    /\ c \in Desks
    /\ channelDesk[ch] = c
    /\ SetFedBy(o, {Route(c, "channel", ch, 0, "output", o, 0)})

-----------------------------------------------------------------------------
(* Mixes.                                                                   *)

CreateDeskMix(c, kind, asked) ==
    LET width == StoredWidth(model[c], kind, asked)
        free == FreeSlots(model[c], kind, width, SlotRange(model[c], kind, Listed(c)), Listed(c))
    IN  /\ c \in Desks
        /\ free # {}
        /\ \E slot \in 1 .. MaxSlot, i \in Unused(mix) :
            /\ slot = Least(free)
            /\ \A j \in Unused(mix) : i <= j
            /\ mix' = [mix EXCEPT ![i] = [desk |-> c, kind |-> kind, slot |-> slot, width |-> width]]
        /\ UNCHANGED <<desks, rows, routes>>

(* The sides of mixes and the channels a column may name as its sources. *)
SourcePorts(c) ==
    {<<"channel", ch, 0>> : ch \in ChannelsOn(c)}
        \cup UNION {{<<"mix", i, side>> : side \in Sides(i)} : i \in MixesOf(c)}

MixSources(i) == {r \in routes : r.dstKind = "mix" /\ r.dst = i}

(* A route already stored stays saveable; a new one is checked against the  *)
(* engine, with the slot the mix is being given and the one its source has: *)
(* a group may name itself in the save that moves it up.                    *)
SourceAccepted(c, i, slot, port) ==
    \/ port[1] = "channel" /\ RouteAllowed(model[c], "channel", 0, mix[i].kind, slot)
    \/ port[1] = "mix" /\ RouteAllowed(model[c], mix[port[2]].kind, mix[port[2]].slot, mix[i].kind, slot)
    \/ \E r \in MixSources(i) : r.desk = c /\ <<r.srcKind, r.src, r.srcPort>> = port

MixPlaced(i, slot, width) ==
    LET c == mix[i].desk
        moved == [kind |-> mix[i].kind, slot |-> slot, width |-> width]
    IN  \/ <<slot, width>> = <<mix[i].slot, mix[i].width>>
        \/ /\ mix[i].kind # "main"
           /\ width = mix[i].width \/ width = StoredWidth(model[c], mix[i].kind, width)
           /\ MixSlotFits(model[c], moved, {x \in Listed(c) : x.id # i})

(* The mix's own fields alone. *)
RenumberDeskMix(i, slot, width) ==
    /\ mix[i].desk \in Desks
    /\ MixPlaced(i, slot, width)
    /\ mix' = [mix EXCEPT ![i].slot = slot, ![i].width = width]
    /\ UNCHANGED <<desks, rows, routes>>

(* The column save: the fields and every source in the list sent, written   *)
(* together.                                                                *)
SaveColumn(i, slot, width, sources) ==
    LET c == mix[i].desk IN
    /\ c \in Desks
    /\ MixPlaced(i, slot, width)
    /\ \A k \in DOMAIN sources :
        sources[k] \in SourcePorts(c) /\ SourceAccepted(c, i, slot, sources[k])
    /\ Engine(model[c]) = "lv1" /\ mix[i].kind = "matrix" => Len(sources) <= MatrixLimit
    /\ mix' = [mix EXCEPT ![i].slot = slot, ![i].width = width]
    /\ routes' = InsertRoutes(routes \ MixSources(i),
                              {Route(c, sources[k][1], sources[k][2], sources[k][3], "mix", i, 0) :
                                    k \in DOMAIN sources})
    /\ UNCHANGED <<desks, rows>>

DeleteDeskMix(i) ==
    /\ mix[i].desk \in Desks
    /\ mix[i].kind # "main"
    /\ routes' = ClearPortRoutes(routes, "mix", i)
    /\ mix' = [mix EXCEPT ![i] = NoMix]
    /\ UNCHANGED <<desks, rows>>

-----------------------------------------------------------------------------
(* The recorder of a desk.                                                  *)

RecorderRoutes(c) == {r \in routes : Names(r, "recorder", c)}
Records(c, port, t) == Route(c, port[1], port[2], port[3], "recorder", c, t)
Plays(c, t, port) == Route(c, "recorder", c, t, "channel", port[2], port[3])

(* What a track may record, and what it may play into.  Nobody looks at the *)
(* port of a channel: the table is taken with whichever the client sends.   *)
PlayPorts(c) == {<<"channel", ch, p>> : ch \in ChannelsOn(c), p \in ChannelPorts}
RecordPorts(c) == SourcePorts(c) \cup PlayPorts(c)

(* How many tracks each way: the model's, or the number typed on Generic. *)
TracksOf(c) == IF model[c] \in RealModels THEN TrackCount[model[c]] ELSE recorder[c].tracks

SetRecorder(c, on, typed) ==
    /\ c \in Desks
    /\ recorder' = [recorder EXCEPT ![c] =
            [on |-> on, tracks |-> IF model[c] \in RealModels THEN TrackCount[model[c]] ELSE typed]]
    /\ routes' = IF on THEN routes ELSE ClearPortRoutes(routes, "recorder", c)
    /\ UNCHANGED <<model, rows, mix>>

(* Mutant: the table is replaced with everything on the desk. *)
ReplaceDeskRoutes(c, new) == routes' = InsertRoutes({r \in routes : r.desk # c}, new)

ReplaceRecorderRoutes(c, new) ==
    routes' = InsertRoutes(ClearPortRoutes(routes, "recorder", c), new)

(* Mutant: one track more than there are. *)
ValidTrackInclusive(c, t, route) == t \in 1 .. TracksOf(c) + 1

(* A track past the count is accepted only as it is stored. *)
ValidTrack(c, t, route) ==
    t \in 1 .. TracksOf(c) \/ \E r \in RecorderRoutes(c) : r.desk = c /\ SamePorts(r, route)

(* record gives tracks the port they record, play the port they play into:  *)
(* at most one per track, and at most one track per channel.                *)
SetRecorderRoutes(c, record, play) ==
    /\ c \in Desks
    /\ recorder[c].on
    /\ \A t \in DOMAIN record :
        record[t] \in RecordPorts(c) /\ ValidTrack(c, t, Records(c, record[t], t))
    /\ \A t \in DOMAIN play :
        play[t] \in PlayPorts(c) /\ ValidTrack(c, t, Plays(c, t, play[t]))
    /\ \A t, u \in DOMAIN play : play[t][2] = play[u][2] => t = u
    /\ ReplaceRecorderRoutes(c, {Records(c, record[t], t) : t \in DOMAIN record}
                                    \cup {Plays(c, t, play[t]) : t \in DOMAIN play})
    /\ UNCHANGED <<desks, rows, mix>>

(* Mutant: a track that only plays counts as free. *)
UnrecordedTracks(c) ==
    {t \in 1 .. TracksOf(c) : \A r \in RecorderRoutes(c) : r.dstKind = "recorder" => r.dstPort # t}

FreeTracks(c) ==
    {t \in 1 .. TracksOf(c) : \A r \in RecorderRoutes(c) :
        /\ r.dstKind = "recorder" => r.dstPort # t
        /\ r.srcKind = "recorder" => r.srcPort # t}

(* Record every preamp: the patched channels not yet recorded take the      *)
(* lowest free tracks, each played back into its channel unless that one    *)
(* plays something already; refused when they do not fit.  Which channels   *)
(* are patched is the input graph's affair, and their strip order DeskStrips'.*)
FillRecorder(c, patched) ==
    LET kept == RecorderRoutes(c)
        recorded == {r.src : r \in {k \in kept : k.dstKind = "recorder" /\ k.srcKind = "channel"}}
        played == {r.dst : r \in {k \in kept : k.srcKind = "recorder"}}
        todo == patched \ recorded
    IN  /\ c \in Desks
        /\ recorder[c].on
        /\ patched \subseteq ChannelsOn(c)
        /\ \E on \in [todo -> FreeTracks(c)] :
            /\ \A a, b \in todo : on[a] = on[b] => a = b
            /\ \A a \in todo, t \in FreeTracks(c) : t < on[a] => \E b \in todo : on[b] = t
            /\ ReplaceRecorderRoutes(c,
                    {[k EXCEPT !.desk = c] : k \in kept}
                        \cup {Records(c, <<"channel", ch, 0>>, on[ch]) : ch \in todo}
                        \cup {Plays(c, on[ch], <<"channel", ch, 0>>) : ch \in todo \ played})
        /\ UNCHANGED <<desks, rows, mix>>

-----------------------------------------------------------------------------
DeskStep ==
    \/ GetAudioPatch
    \/ \E c \in Consoles :
        \/ DeleteConsole(c)
        \/ \E m \in Models : CreateConsole(c, m) \/ SwitchConsoleModel(c, m)
        \/ \E m \in Models \cap BusModeModels : SetBusMode(c, m)
        \/ \E chs \in SUBSET Channels, outs \in SUBSET Outputs : PlaceOnConsole(c, chs, outs)

RowStep ==
    \/ \E ch \in Channels :
        \/ DeleteInputChannel(ch)
        \/ \E ids \in SUBSET RowMixesOf(channelDesk[ch]) : SaveInputChannel(ch, ids)
        \/ \E c \in Consoles :
            \/ MoveInputChannel(ch, c)
            \/ \E ids \in SUBSET RowMixesOf(c) : CreateInputChannel(ch, c, ids)
    \/ \E o \in Outputs :
        \/ DeleteOutput(o) \/ ClearFedBy(o)
        \/ \E c \in Consoles : CreateOutput(o, c) \/ UpdateOutput(o, c)
        \/ \E i \in MixIds, side \in {0, 1} : FeedByMix(o, i, side)
        \/ \E ch \in Channels : FeedByChannel(o, ch)

MixStep ==
    \/ \E c \in Consoles, kind \in UserKinds, width \in Widths : CreateDeskMix(c, kind, width)
    \/ \E i \in MixIds :
        \/ DeleteDeskMix(i)
        \/ \E slot \in 1 .. MaxSlot, width \in Widths :
            \/ RenumberDeskMix(i, slot, width)
            \/ \E n \in 0 .. MaxSources : \E sources \in [1 .. n -> SourcePorts(mix[i].desk)] :
                SaveColumn(i, slot, width, sources)

Assignments(targets) == UNION {[ts -> targets] : ts \in SUBSET Tracks}

RecorderStep ==
    \E c \in Consoles :
        \/ \E on \in BOOLEAN, typed \in 0 .. MaxTracks : SetRecorder(c, on, typed)
        \/ \E record \in Assignments(RecordPorts(c)), play \in Assignments(PlayPorts(c)) :
            SetRecorderRoutes(c, record, play)
        \/ \E patched \in SUBSET ChannelsOn(c) : FillRecorder(c, patched)

Next == DeskStep \/ RowStep \/ MixStep \/ RecorderStep

Spec == Init /\ [][Next]_vars
MigratedSpec == InitMigrated /\ [][Next]_vars

-----------------------------------------------------------------------------
(* Properties.                                                              *)

OnDesk(c, kind, id) ==
    /\ kind = "channel" => id \in Channels /\ channelDesk[id] = c
    /\ kind = "mix" => id \in MixIds /\ mix[id].desk = c
    /\ kind = "output" => id \in Outputs /\ outputDesk[id] = c
    /\ kind = "recorder" => id = c /\ recorder[c].on

Resolves(r) ==
    /\ r.desk \in Desks
    /\ OnDesk(r.desk, r.srcKind, r.src)
    /\ OnDesk(r.desk, r.dstKind, r.dst)

(* Every route belongs to a desk that exists and joins two things that      *)
(* exist on that desk: no deletion, move, switch or recorder taken away     *)
(* leaves a route behind, although no foreign key says so.                  *)
RoutesResolve == \A r \in routes : Resolves(r)

(* Nothing waits for a desk: only migration leaves a mix without one, and a *)
(* desk that is deleted takes its mixes with it.                            *)
NothingWaits == \A i \in MixIds : mix[i].desk # NoDesk

(* A desk has each main of its model exactly once, and no two of its mains  *)
(* share a slot, whatever it was switched from: Main LR is one mix.         *)
DesksHaveMains ==
    \A c \in Desks :
        /\ \A s \in MainSlots(model[c]) : \E i \in MixesOf(c) : mix[i].kind = "main" /\ mix[i].slot = s
        /\ \A i, j \in MixesOf(c) :
            /\ mix[i].kind = "main" /\ mix[j].kind = "main"
            /\ mix[i].slot = mix[j].slot
            => i = j

(* Two mixes of one pool never have the same number, the ones a switch left *)
(* out past the end included.                                               *)
MixNumbersUnique ==
    \A c \in Desks : \A i, j \in MixesOf(c) :
        /\ mix[i].kind # "main" /\ mix[j].kind # "main"
        /\ PoolOf(model[c], mix[i].kind) = PoolOf(model[c], mix[j].kind)
        /\ mix[i].slot = mix[j].slot
        => i = j

(* An output is fed by one thing at most: the table's key does not say so,  *)
(* it allows an output any number of sources.                               *)
OneFedBy == \A o \in Outputs : Cardinality(FedBy(o)) <= 1

(* A track records one source at most and plays into one channel at most,   *)
(* and a channel plays from one track, however table saves, fills, switches *)
(* and channel moves follow one another.                                    *)
TracksExclusive ==
    \A r, s \in routes :
        /\ r.dstKind = "recorder" /\ s.dstKind = "recorder"
            /\ <<r.dst, r.dstPort>> = <<s.dst, s.dstPort>> => r = s
        /\ r.srcKind = "recorder" /\ s.srcKind = "recorder"
            /\ (<<r.src, r.srcPort>> = <<s.src, s.srcPort>> \/ r.dst = s.dst) => r = s

(* A model switch deletes no route: what the new desk cannot make is kept.  *)
SwitchKeepsRoutes ==
    [][\A c \in Desks : model'[c] \notin {model[c], Absent} => routes \subseteq routes']_vars

ArrivalsJoin ==
    \A ch \in Channels : \A c \in Desks' :
        /\ channelDesk[ch] \notin {c, Absent}
        /\ channelDesk'[ch] = c
        => \E r \in routes' : /\ <<r.srcKind, r.src, r.dstKind>> = <<"channel", ch, "mix">>
                               /\ r.dst \in MainLR(c)'

(* A channel that arrives on a desk, moved or placed, is on its Main LR.    *)
NewcomersJoinMain == [][ArrivalsJoin]_vars

(* The list a route is edited in: a channel's row for what feeds a main,    *)
(* group, DCA or mute group, the recorder's table, an output's Fed by, or   *)
(* the column of the mix.                                                   *)
ListsOf(r) ==
    CASE r.dstKind = "output" -> {<<"fed by", r.dst>>}
      [] "recorder" \in {r.srcKind, r.dstKind} -> {<<"recorder", r.desk>>}
      [] OTHER -> {<<"column", r.dst>>}
            \cup (IF r.srcKind = "channel" /\ mix[r.dst].kind \in RowKinds THEN {<<"row", r.src>>} ELSE {})

LossesEdited ==
    LET lost == {r \in routes \ routes' : Resolves(r)'}
    IN  lost # {} => \E list \in UNION {ListsOf(r) : r \in lost} :
                        \A r \in lost : list \in ListsOf(r)

(* A route both of whose ends stay on its desk is lost only by an edit of   *)
(* one list that holds it; everything lost in that step was in that list.   *)
LossesAreEdits == [][LossesEdited]_vars

AdditionsFit ==
    \A r \in routes' \ routes :
        /\ r.srcKind = "recorder" => r.srcPort \in 1 .. TracksOf(r.src)'
        /\ r.dstKind = "recorder" => r.dstPort \in 1 .. TracksOf(r.dst)'

(* New recorder routes stay within the tracks there are, though a switch or *)
(* a smaller typed count may have left older ones past the end.             *)
NewTracksFit == [][AdditionsFit]_vars

-----------------------------------------------------------------------------
(* What the documentation says and the code does not keep.                  *)

FeedsForward(r) ==
    /\ r.srcKind = "mix" /\ r.dstKind = "mix"
    /\ mix[r.src].kind = "subgroup" /\ mix[r.dst].kind = "subgroup"
    => mix[r.src].slot < mix[r.dst].slot

(* "A group feeds only the groups after it" (domain/desk_mixes.go), on LV1  *)
(* and Generic: a renumbering keeps the routes stored between the group and *)
(* the others, and may turn one to point from a group to one before it.     *)
GroupsFeedForward == [][\A r \in routes \cap routes' : FeedsForward(r) => FeedsForward(r)']_vars

(* "Every mix ... SHALL route only to and from that desk's channels": the   *)
(* routes a migrated event was holding land on its first desk, its channels *)
(* stay on none, and may then be placed on another desk.                    *)
ChannelsRouteOnTheirDesk ==
    \A r \in routes :
        r.srcKind = "channel" /\ {r.desk, channelDesk[r.src]} \subseteq Consoles
            => channelDesk[r.src] = r.desk

(* "Past the end: after everything this pool holds, so two left-out mixes   *)
(* never share a number" (service/deskmap.go): a stereo mix left out takes  *)
(* two numbers, and the next one is compared with its first only.           *)
LeftOutMixesApart ==
    \A c \in Desks : \A i, j \in MixesOf(c) :
        /\ i # j /\ mix[i].kind # "main" /\ mix[j].kind # "main"
        /\ PoolOf(model[c], mix[i].kind) = PoolOf(model[c], mix[j].kind)
        => Span(model[c], mix[i]) \cap Span(model[c], mix[j]) = {}
=============================================================================

-------------------------- MODULE DeskRouting_proofs --------------------------
(***************************************************************************)
(* For every number of desks, channels, outputs and mixes, every pool size *)
(* and every recorder: the tables keep their types, and every route joins  *)
(* two things that exist on the desk it belongs to.  And what desk_routes  *)
(* keeps although its key does not say so (an output is fed by one thing,  *)
(* a track records one source and plays into one channel), what a model    *)
(* switch and a move may do to routes, and that new recorder routes stay   *)
(* within the tracks.                                                      *)
(*                                                                         *)
(* RoutesResolve is not inductive by itself: a new desk adopts whatever    *)
(* waits for one, so the invariant also says that nothing does.  Nor is    *)
(* the exclusiveness of tracks: a table save on one desk could clash with  *)
(* a track of another that plays into the same channel.  That no such      *)
(* track exists is RoutesResolve, so it stands on the first invariant.     *)
(***************************************************************************)
EXTENDS DeskRouting, TLAPS, FiniteSetTheorems

IInv == TypeOK /\ NothingWaits /\ RoutesResolve

-----------------------------------------------------------------------------
(* The operators the actions are built from.                                *)

(* INSERT OR IGNORE adds nothing but what was to be inserted. *)
LEMMA InsertBounds ==
    ASSUME NEW table, NEW new
    PROVE  InsertRoutes(table, new) \subseteq table \cup new
  BY DEF InsertRoutes

(* What a save stores is a width, whatever the model forces. *)
LEMMA StoredWidthType ==
    ASSUME NEW m, NEW kind, NEW width, width \in Widths \cup {"none"}
    PROVE  StoredWidth(m, kind, width) \in Widths \cup {"none"}
  BY DEF StoredWidth, Widths

LEMMA MainSlotsType == \A m : MainSlots(m) \subseteq 1 .. 3 /\ 1 \in MainSlots(m)
  BY DEF MainSlots

LEMMA MainRowType ==
    ASSUME NEW c \in Consoles, NEW s \in 1 .. 3
    PROVE  [desk |-> c, kind |-> "main", slot |-> s, width |-> MainWidth(s)] \in MixRows
  BY RoutingAssumption DEF MixRows, MixKinds, MainWidth, Widths

LEMMA NoMixType == NoMix \in MixRows
  BY RoutingAssumption DEF NoMix, MixRows

(* A desk's recorder has no more tracks than the bound. *)
LEMMA TracksOfType ==
    ASSUME TypeOK, NEW c \in Consoles
    PROVE  TracksOf(c) \in 0 .. MaxTracks
  BY RoutingAssumption, RulesAssumption DEF TypeOK, TracksOf

(* Ensuring mains on tables that hold nothing waiting adds rows on the      *)
(* desks it is asked for, at ids that were not in use, and changes no other *)
(* row and no route.                                                        *)
LEMMA EnsureAddsMains ==
    ASSUME NEW STATE modelOf, NEW STATE some, NEW STATE table, NEW STATE rt,
           some \in SUBSET Consoles, table \in [MixIds -> MixRows],
           \A i \in MixIds : table[i].desk # NoDesk,
           \A r \in rt : r.desk # NoDesk,
           EnsureDeskMains(modelOf, some, table, rt)
    PROVE  /\ mix' \in [MixIds -> MixRows]
           /\ \A i \in MixIds : mix'[i].desk # NoDesk
           /\ \A i \in MixIds : table[i].desk # Absent => mix'[i] = table[i]
           /\ routes' = rt
<1> DEFINE adopted == AdoptedMixes(modelOf, table)
           missing == MissingMains(modelOf, adopted, some)
<1>1. adopted = table
  BY DEF AdoptedMixes, Adopted
<1>2. AdoptedRoutes(modelOf, rt) = rt
  BY DEF AdoptedRoutes, Adopted
<1>3. PICK idOf \in [missing -> Unused(table)] : mix' = WithMains(table, idOf)
  BY <1>1 DEF EnsureDeskMains
<1>4. missing \subseteq Consoles \X (1 .. 3)
  BY DEF MissingMains
<1>5. ASSUME NEW i \in MixIds
      PROVE  /\ mix'[i] \in MixRows
             /\ mix'[i].desk # NoDesk
             /\ table[i].desk # Absent => mix'[i] = table[i]
  <2>1. CASE \E m \in missing : idOf[m] = i
    <3> DEFINE m == CHOOSE m \in missing : idOf[m] = i
    <3>1. m \in missing /\ idOf[m] = i
      BY <2>1
    <3>2. m[1] \in Consoles /\ m[2] \in 1 .. 3
      BY <3>1, <1>4
    <3>3. mix'[i] = [desk |-> m[1], kind |-> "main", slot |-> m[2], width |-> MainWidth(m[2])]
      BY <1>3, <2>1 DEF WithMains
    <3>4. table[i].desk = Absent
      BY <3>1 DEF Unused
    <3> HIDE DEF m
    <3>5. mix'[i] \in MixRows
      BY <3>2, <3>3, MainRowType
    <3>6. mix'[i].desk # NoDesk
      BY <3>2, <3>3, RoutingAssumption
    <3> QED
      BY <3>4, <3>5, <3>6
  <2>2. CASE ~ \E m \in missing : idOf[m] = i
    <3>1. mix'[i] = table[i]
      BY <1>3, <2>2 DEF WithMains
    <3> QED
      BY <3>1
  <2> QED
    BY <2>1, <2>2
<1>6. mix' \in [MixIds -> MixRows]
  <2>1. mix' = [i \in MixIds |-> mix'[i]]
    BY <1>3 DEF WithMains
  <2> QED
    BY <2>1, <1>5
<1> QED
  BY <1>1, <1>2, <1>5, <1>6 DEF EnsureDeskMains

-----------------------------------------------------------------------------
(* Routes.                                                                  *)

LEMMA RouteType ==
    ASSUME NEW c \in Consoles,
           NEW srcKind \in {"channel", "mix", "recorder"}, NEW src \in Ids,
           NEW srcPort \in PortNumbers,
           NEW dstKind \in {"mix", "output", "recorder", "channel"}, NEW dst \in Ids,
           NEW dstPort \in PortNumbers
    PROVE  Route(c, srcKind, src, srcPort, dstKind, dst, dstPort) \in RouteRows
  BY DEF Route, RouteRows

(* A channel's route into a mix of the desk it is planned on. *)
LEMMA ToMixType ==
    ASSUME NEW c \in Consoles, NEW ch \in Channels, NEW i \in MixIds
    PROVE  ToMix(c, ch, i) \in RouteRows
<1>1. ch \in Ids /\ i \in Ids
  BY DEF Ids
<1>2. 0 \in PortNumbers
  BY RoutingAssumption DEF PortNumbers
<1> QED
  BY <1>1, <1>2, RouteType DEF ToMix

(* A step that writes routes alone keeps the invariant when every route it  *)
(* adds is well formed and resolves.                                        *)
LEMMA OnlyRoutes ==
    ASSUME IInv, UNCHANGED <<model, recorder, channelDesk, outputDesk, mix>>,
           \A r \in routes' : r \in routes \/ (r \in RouteRows /\ Resolves(r))
    PROVE  IInv'
<1>1. TypeOK'
  BY DEF IInv, TypeOK
<1>2. NothingWaits'
  BY DEF IInv, NothingWaits
<1>3. ASSUME NEW r \in routes'
      PROVE  Resolves(r)'
  BY DEF IInv, RoutesResolve, Resolves, OnDesk, Desks
<1> QED
  BY <1>1, <1>2, <1>3 DEF IInv, RoutesResolve

(* A channel and a mix of one desk are joined by a route that resolves. *)
LEMMA ToMixResolves ==
    ASSUME NEW c \in Desks, NEW ch \in Channels, channelDesk[ch] = c,
           NEW i \in MixIds, mix[i].desk = c
    PROVE  ToMix(c, ch, i) \in RouteRows /\ Resolves(ToMix(c, ch, i))
<1>1. c \in Consoles
  BY DEF Desks
<1> QED
  BY <1>1, ToMixType DEF Resolves, OnDesk, ToMix, Route

-----------------------------------------------------------------------------
(* Desks.                                                                   *)

LEMMA CreateConsoleKeeps ==
    ASSUME IInv, NEW c \in Consoles, NEW m \in Models, CreateConsole(c, m)
    PROVE  IInv'
<1> USE DEF IInv, TypeOK
<1> DEFINE modelOf == [model EXCEPT ![c] = m]
<1>1. m \in AllModels /\ m # Absent
  BY RoutingAssumption
<1>2. \A r \in routes : r.desk # NoDesk
  BY RoutingAssumption DEF RoutesResolve, Resolves, Desks
<1>3. EnsureDeskMains(modelOf, {c}, mix, routes)
  BY DEF CreateConsole
<1>4. /\ mix' \in [MixIds -> MixRows]
      /\ \A i \in MixIds : mix'[i].desk # NoDesk
      /\ \A i \in MixIds : mix[i].desk # Absent => mix'[i] = mix[i]
      /\ routes' = routes
  <2>1. mix \in [MixIds -> MixRows] /\ \A i \in MixIds : mix[i].desk # NoDesk
    BY DEF NothingWaits
  <2>2. {c} \in SUBSET Consoles
    OBVIOUS
  <2> HIDE DEF modelOf, IInv, TypeOK
  <2> QED
    BY <1>2, <1>3, <2>1, <2>2, EnsureAddsMains
<1>5. TypeOK'
  BY <1>1, <1>4 DEF CreateConsole, rows
<1>6. ASSUME NEW r \in routes
      PROVE  Resolves(r)'
  BY <1>1, <1>4, RoutingAssumption DEF CreateConsole, rows, RoutesResolve, Resolves, OnDesk, Desks
<1> QED
  BY <1>4, <1>5, <1>6 DEF NothingWaits, RoutesResolve

LEMMA GetAudioPatchKeeps ==
    ASSUME IInv, GetAudioPatch
    PROVE  IInv'
<1>1. \A r \in routes : r.desk # NoDesk
  BY RoutingAssumption DEF IInv, RoutesResolve, Resolves, Desks
<1>2. mix \in [MixIds -> MixRows] /\ \A i \in MixIds : mix[i].desk # NoDesk
  BY DEF IInv, TypeOK, NothingWaits
<1>3. Desks \in SUBSET Consoles /\ EnsureDeskMains(model, Desks, mix, routes)
  BY DEF Desks, GetAudioPatch
<1>4. /\ mix' \in [MixIds -> MixRows]
      /\ \A i \in MixIds : mix'[i].desk # NoDesk
      /\ \A i \in MixIds : mix[i].desk # Absent => mix'[i] = mix[i]
      /\ routes' = routes
  BY <1>1, <1>2, <1>3, EnsureAddsMains
<1>5. UNCHANGED <<model, recorder, channelDesk, outputDesk>>
  BY DEF GetAudioPatch, desks, rows
<1>6. TypeOK'
  BY <1>4, <1>5 DEF IInv, TypeOK
<1>7. ASSUME NEW r \in routes
      PROVE  Resolves(r)'
  BY <1>4, <1>5, RoutingAssumption DEF IInv, RoutesResolve, Resolves, OnDesk, Desks
<1> QED
  BY <1>4, <1>6, <1>7 DEF IInv, NothingWaits, RoutesResolve

LEMMA DeleteConsoleKeeps ==
    ASSUME IInv, NEW c \in Consoles, DeleteConsole(c)
    PROVE  IInv'
<1> USE DEF IInv
<1>1. mix' \in [MixIds -> MixRows]
  BY NoMixType DEF DeleteConsole, TypeOK
<1>2. TypeOK'
  BY <1>1, RoutingAssumption DEF DeleteConsole, TypeOK
<1>3. NothingWaits'
  BY RoutingAssumption DEF DeleteConsole, NothingWaits, NoMix
<1>4. ASSUME NEW r \in routes'
      PROVE  Resolves(r)'
  BY <1>4, RoutingAssumption DEF DeleteConsole, TypeOK, RoutesResolve, Resolves, OnDesk, Desks
<1> QED
  BY <1>2, <1>3, <1>4 DEF RoutesResolve

LEMMA SetBusModeKeeps ==
    ASSUME IInv, NEW c \in Consoles, NEW m \in Models, SetBusMode(c, m)
    PROVE  IInv'
<1> USE DEF IInv
<1>1. m \in AllModels /\ m # Absent
  BY RoutingAssumption
<1>2. TypeOK'
  BY <1>1 DEF SetBusMode, TypeOK, rows
<1>3. NothingWaits'
  BY DEF SetBusMode, NothingWaits
<1>4. ASSUME NEW r \in routes'
      PROVE  Resolves(r)'
  BY <1>1, RoutingAssumption DEF SetBusMode, rows, TypeOK, RoutesResolve, Resolves, OnDesk, Desks
<1> QED
  BY <1>2, <1>3, <1>4 DEF RoutesResolve

(* What a switch makes of a mix of the desk is a row of the table, on the   *)
(* desk unless it is a main that is dropped.                                *)
LEMMA SwitchedMixType ==
    ASSUME TypeOK, NEW i \in MixIds, NEW to, NEW STATE placed, NEW STATE dropped,
           mix[i].kind # "main" => \E s \in 1 .. MaxSlot : s \in MappedTo(i, placed)
    PROVE  /\ SwitchedMix(i, to, placed, dropped) \in MixRows
           /\ i \notin dropped => SwitchedMix(i, to, placed, dropped).desk = mix[i].desk
<1>1. mix[i] \in MixRows
  BY DEF TypeOK
<1>2. CASE i \in dropped
  BY <1>2, NoMixType DEF SwitchedMix
<1>3. CASE i \notin dropped /\ mix[i].kind # "main"
  <2> DEFINE slot == CHOOSE s \in 1 .. MaxSlot : s \in MappedTo(i, placed)
             width == StoredWidth(to, mix[i].kind, mix[i].width)
  <2>1. slot \in 0 .. MaxSlot
    <3>1. slot \in 1 .. MaxSlot
      BY <1>3
    <3> HIDE DEF slot
    <3> QED
      BY <3>1, RoutingAssumption
  <2>2. width \in Widths \cup {"none"}
    BY <1>1, StoredWidthType DEF MixRows
  <2>3. SwitchedMix(i, to, placed, dropped) = [mix[i] EXCEPT !.slot = slot, !.width = width]
    BY <1>3 DEF SwitchedMix
  <2> HIDE DEF slot, width
  <2> QED
    BY <1>1, <1>3, <2>1, <2>2, <2>3 DEF MixRows
<1>4. CASE i \notin dropped /\ mix[i].kind = "main"
  <2>1. MainWidth(mix[i].slot) \in Widths \cup {"none"}
    BY DEF MainWidth, Widths
  <2> QED
    BY <1>1, <1>4, <2>1 DEF SwitchedMix, MixRows
<1> QED
  BY <1>2, <1>3, <1>4

LEMMA SwitchConsoleModelKeeps ==
    ASSUME IInv, NEW c \in Consoles, NEW to \in Models, SwitchConsoleModel(c, to)
    PROVE  IInv'
<1> DEFINE placed == MapMixes(to, {x \in Listed(c) : x.kind # "main"})
           dropped == DroppedMains(c, to)
           table == [i \in MixIds |->
                        IF mix[i].desk = c THEN SwitchedMix(i, to, placed, dropped) ELSE mix[i]]
           kept == {r \in routes : \A i \in dropped : ~Names(r, "mix", i)}
           modelOf == [model EXCEPT ![c] = to]
<1>1. to \in AllModels /\ to # Absent
  BY RoutingAssumption
<1>2. /\ \A i \in MixesOf(c) :
            mix[i].kind # "main" => \E s \in 1 .. MaxSlot : s \in MappedTo(i, placed)
      /\ model' = modelOf
      /\ EnsureDeskMains(modelOf, {c}, table, kept)
      /\ UNCHANGED <<channelDesk, outputDesk>>
  BY DEF SwitchConsoleModel, rows
<1>3. \A i \in dropped : mix[i].desk = c
  BY DEF DroppedMains, MixesOf
<1>4. ASSUME NEW i \in MixIds
      PROVE  /\ table[i] \in MixRows
             /\ i \notin dropped => table[i].desk = mix[i].desk
             /\ i \in dropped => table[i].desk = Absent
  <2>1. CASE mix[i].desk = c
    <3>1. table[i] = SwitchedMix(i, to, placed, dropped)
      BY <2>1
    <3>2. mix[i].kind # "main" => \E s \in 1 .. MaxSlot : s \in MappedTo(i, placed)
      BY <1>2, <2>1 DEF MixesOf
    <3>3. i \in dropped => SwitchedMix(i, to, placed, dropped).desk = Absent
      BY DEF SwitchedMix, NoMix
    <3> HIDE DEF placed, dropped, table
    <3> QED
      BY <3>1, <3>2, <3>3, SwitchedMixType DEF IInv
  <2>2. CASE mix[i].desk # c
    BY <1>3, <2>2 DEF IInv, TypeOK
  <2> QED
    BY <2>1, <2>2
<1>5. table \in [MixIds -> MixRows] /\ \A i \in MixIds : table[i].desk # NoDesk
  <2>1. table \in [MixIds -> MixRows]
    BY <1>4
  <2>2. \A i \in MixIds : table[i].desk # NoDesk
    <3> HIDE DEF table, dropped
    <3> QED
      BY <1>4, RoutingAssumption DEF IInv, NothingWaits
  <2> QED
    BY <2>1, <2>2
<1>6. kept \subseteq routes /\ \A r \in kept : r.desk # NoDesk
  BY RoutingAssumption DEF IInv, RoutesResolve, Resolves, Desks
<1>7. /\ mix' \in [MixIds -> MixRows]
      /\ \A i \in MixIds : mix'[i].desk # NoDesk
      /\ \A i \in MixIds : table[i].desk # Absent => mix'[i] = table[i]
      /\ routes' = kept
  <2>1. {c} \in SUBSET Consoles
    OBVIOUS
  <2>2. EnsureDeskMains(modelOf, {c}, table, kept)
    BY <1>2
  <2>3. \A r \in kept : r.desk # NoDesk
    BY <1>6
  <2> HIDE DEF table, kept, modelOf
  <2> QED
    BY <1>5, <2>1, <2>2, <2>3, EnsureAddsMains
<1>8. /\ recorder' \in [Consoles -> [on : BOOLEAN, tracks : 0 .. MaxTracks]]
      /\ \A d \in Consoles : recorder'[d].on = recorder[d].on
  <2>1. to \in RealModels => TrackCount[to] \in 0 .. MaxTracks
    BY RoutingAssumption, RulesAssumption
  <2>2. recorder' = IF to \in RealModels
                    THEN [recorder EXCEPT ![c].tracks = TrackCount[to]] ELSE recorder
    BY DEF SwitchConsoleModel
  <2> QED
    BY <2>1, <2>2 DEF IInv, TypeOK
<1>9. TypeOK'
  <2>1. model' \in [Consoles -> AllModels \cup {Absent}]
    BY <1>1, <1>2 DEF IInv, TypeOK
  <2> HIDE DEF kept
  <2> QED
    BY <1>2, <1>6, <1>7, <1>8, <2>1 DEF IInv, TypeOK
<1>10. ASSUME NEW r \in routes'
       PROVE  Resolves(r)'
  <2>1. r \in routes /\ Resolves(r) /\ \A i \in dropped : ~Names(r, "mix", i)
    BY <1>7 DEF IInv, RoutesResolve
  <2>2. \A i \in MixIds : Names(r, "mix", i) /\ mix[i].desk = r.desk => mix'[i].desk = r.desk
    <3> HIDE DEF table, dropped
    <3> QED
      BY <1>4, <1>7, <2>1, RoutingAssumption DEF Resolves, Desks
  <2>3. r.desk \in Desks'
    BY <1>1, <1>2, <2>1 DEF Resolves, Desks, IInv, TypeOK
  <2> HIDE DEF dropped
  <2> QED
    BY <1>2, <1>8, <2>1, <2>2, <2>3 DEF Resolves, OnDesk, Desks, Names
<1> QED
  BY <1>7, <1>9, <1>10 DEF IInv, NothingWaits, RoutesResolve

LEMMA PlaceOnConsoleKeeps ==
    ASSUME IInv, NEW c \in Consoles, NEW chs \in SUBSET Channels, NEW outs \in SUBSET Outputs,
           PlaceOnConsole(c, chs, outs)
    PROVE  IInv'
<1>1. /\ UNCHANGED <<model, recorder, mix>>
      /\ c \in Desks
      /\ channelDesk' = [ch \in Channels |-> IF ch \in chs THEN c ELSE channelDesk[ch]]
      /\ outputDesk' = [o \in Outputs |-> IF o \in outs THEN c ELSE outputDesk[o]]
      /\ \A ch \in chs : channelDesk[ch] = NoDesk
      /\ \A o \in outs : outputDesk[o] = NoDesk
  BY DEF PlaceOnConsole, desks, ChannelsOn
<1>2. \A r \in routes' : r \in routes \/ \E ch \in chs, lr \in MainLR(c) : r = ToMix(c, ch, lr)
  <2>1. CASE chs = {}
    BY <2>1 DEF PlaceOnConsole
  <2>2. CASE chs # {}
    <3>1. PICK lr \in MainLR(c) : routes' = InsertRoutes(routes, {ToMix(c, ch, lr) : ch \in chs})
      BY <2>2 DEF PlaceOnConsole
    <3> QED
      BY <3>1, InsertBounds
  <2> QED
    BY <2>1, <2>2
<1>3. MainLR(c) \subseteq MixIds /\ \A i \in MainLR(c) : mix[i].desk = c
  BY DEF MainLR, MixesOf
<1>4. routes' \subseteq RouteRows
  BY <1>2, <1>3, ToMixType DEF IInv, TypeOK
<1>5. TypeOK'
  BY <1>1, <1>4 DEF IInv, TypeOK
<1>6. ASSUME NEW r \in routes'
      PROVE  Resolves(r)'
  <2>1. CASE r \in routes
    BY <1>1, <2>1, RoutingAssumption DEF IInv, RoutesResolve, Resolves, OnDesk, Desks
  <2>2. ASSUME NEW ch \in chs, NEW lr \in MainLR(c), r = ToMix(c, ch, lr)
        PROVE  Resolves(r)'
    BY <1>1, <1>3, <2>2 DEF Resolves, OnDesk, Desks, ToMix, Route
  <2> QED
    BY <1>2, <2>1, <2>2
<1> QED
  BY <1>1, <1>5, <1>6 DEF IInv, NothingWaits, RoutesResolve

-----------------------------------------------------------------------------
(* Channels.                                                                *)

LEMMA CreateInputChannelKeeps ==
    ASSUME IInv, NEW ch \in Channels, NEW c \in Consoles, NEW ids,
           CreateInputChannel(ch, c, ids)
    PROVE  IInv'
<1>1. /\ UNCHANGED <<model, recorder, outputDesk, mix>>
      /\ c \in Desks
      /\ channelDesk[ch] = Absent
      /\ channelDesk' = [channelDesk EXCEPT ![ch] = c]
      /\ ids \subseteq MixesOf(c)
      /\ routes' = InsertRoutes(routes, {ToMix(c, ch, i) : i \in ids})
  BY DEF CreateInputChannel, desks, RowMixesOf, ReplaceChannelMixes
<1>2. \A r \in routes' : r \in routes \/ \E i \in MixIds : mix[i].desk = c /\ r = ToMix(c, ch, i)
  BY <1>1, InsertBounds DEF MixesOf
<1>3. TypeOK'
  <2>1. routes' \subseteq RouteRows
    BY <1>2, ToMixType DEF IInv, TypeOK
  <2> QED
    BY <1>1, <2>1 DEF IInv, TypeOK
<1>4. ASSUME NEW r \in routes'
      PROVE  Resolves(r)'
  <2>1. CASE r \in routes
    BY <1>1, <2>1, RoutingAssumption DEF IInv, TypeOK, RoutesResolve, Resolves, OnDesk, Desks
  <2>2. ASSUME NEW i \in MixIds, mix[i].desk = c, r = ToMix(c, ch, i)
        PROVE  Resolves(r)'
    BY <1>1, <2>2 DEF IInv, TypeOK, Resolves, OnDesk, Desks, ToMix, Route
  <2> QED
    BY <1>2, <2>1, <2>2
<1> QED
  BY <1>1, <1>3, <1>4 DEF IInv, NothingWaits, RoutesResolve

LEMMA SaveInputChannelKeeps ==
    ASSUME IInv, NEW ch \in Channels, NEW ids, SaveInputChannel(ch, ids)
    PROVE  IInv'
<1> DEFINE c == channelDesk[ch]
<1>1. /\ UNCHANGED <<model, recorder, channelDesk, outputDesk, mix>>
      /\ c \in Desks
      /\ ids \subseteq MixesOf(c)
      /\ routes' = InsertRoutes(routes \ RowRoutes(ch), {ToMix(c, ch, i) : i \in ids})
  BY DEF SaveInputChannel, desks, rows, RowMixesOf, ReplaceChannelMixes
<1>2. \A r \in routes' : r \in routes \/ \E i \in MixIds : mix[i].desk = c /\ r = ToMix(c, ch, i)
  BY <1>1, InsertBounds DEF MixesOf
<1>3. \A r \in routes' : r \in routes \/ (r \in RouteRows /\ Resolves(r))
  BY <1>1, <1>2, ToMixResolves
<1> QED
  BY <1>1, <1>3, OnlyRoutes

LEMMA MoveInputChannelKeeps ==
    ASSUME IInv, NEW ch \in Channels, NEW c \in Consoles, MoveInputChannel(ch, c)
    PROVE  IInv'
<1>1. PICK lr \in MainLR(c) :
        routes' = InsertRoutes(ClearPortRoutes(routes, "channel", ch), {ToMix(c, ch, i) : i \in {lr}})
  BY DEF MoveInputChannel, ReplaceChannelMixes
<1>2. /\ UNCHANGED <<model, recorder, outputDesk, mix>>
      /\ c \in Desks
      /\ channelDesk' = [channelDesk EXCEPT ![ch] = c]
  BY DEF MoveInputChannel, desks
<1>3. lr \in MixIds /\ mix[lr].desk = c
  BY DEF MainLR, MixesOf
<1>4. \A r \in routes' : (r \in routes /\ ~Names(r, "channel", ch)) \/ r = ToMix(c, ch, lr)
  BY <1>1, InsertBounds DEF ClearPortRoutes
<1>5. TypeOK'
  <2>1. routes' \subseteq RouteRows
    BY <1>3, <1>4, ToMixType DEF IInv, TypeOK
  <2> QED
    BY <1>2, <2>1 DEF IInv, TypeOK
<1>6. ASSUME NEW r \in routes'
      PROVE  Resolves(r)'
  <2>1. CASE r \in routes /\ ~Names(r, "channel", ch)
    BY <1>2, <2>1 DEF IInv, TypeOK, RoutesResolve, Resolves, OnDesk, Desks, Names
  <2>2. CASE r = ToMix(c, ch, lr)
    BY <1>2, <1>3, <2>2 DEF IInv, TypeOK, Resolves, OnDesk, Desks, ToMix, Route
  <2> QED
    BY <1>4, <2>1, <2>2
<1> QED
  BY <1>2, <1>5, <1>6 DEF IInv, NothingWaits, RoutesResolve

LEMMA DeleteInputChannelKeeps ==
    ASSUME IInv, NEW ch \in Channels, DeleteInputChannel(ch)
    PROVE  IInv'
<1>1. /\ UNCHANGED <<model, recorder, outputDesk, mix>>
      /\ channelDesk' = [channelDesk EXCEPT ![ch] = Absent]
      /\ \A r \in routes' : r \in routes /\ ~Names(r, "channel", ch)
  BY DEF DeleteInputChannel, desks, ClearPortRoutes
<1>2. TypeOK'
  BY <1>1 DEF IInv, TypeOK
<1>3. ASSUME NEW r \in routes'
      PROVE  Resolves(r)'
  BY <1>1 DEF IInv, TypeOK, RoutesResolve, Resolves, OnDesk, Desks, Names
<1> QED
  BY <1>1, <1>2, <1>3 DEF IInv, NothingWaits, RoutesResolve

-----------------------------------------------------------------------------
(* Outputs.                                                                 *)

LEMMA CreateOutputKeeps ==
    ASSUME IInv, NEW o \in Outputs, NEW c \in Consoles, CreateOutput(o, c)
    PROVE  IInv'
<1>1. /\ UNCHANGED <<model, recorder, channelDesk, mix, routes>>
      /\ outputDesk[o] = Absent
      /\ outputDesk' = [outputDesk EXCEPT ![o] = c]
  BY DEF CreateOutput, desks
<1>2. TypeOK'
  BY <1>1 DEF IInv, TypeOK
<1>3. ASSUME NEW r \in routes'
      PROVE  Resolves(r)'
  BY <1>1, RoutingAssumption DEF IInv, TypeOK, RoutesResolve, Resolves, OnDesk, Desks
<1> QED
  BY <1>1, <1>2, <1>3 DEF IInv, NothingWaits, RoutesResolve

(* No route starts at an output, so an output's Fed by is all that names it. *)
LEMMA FedByNames ==
    ASSUME TypeOK, NEW r \in routes, NEW o
    PROVE  Names(r, "output", o) <=> r \in FedBy(o)
  BY DEF TypeOK, RouteRows, Names, FedBy

LEMMA UpdateOutputKeeps ==
    ASSUME IInv, NEW o \in Outputs, NEW c \in Consoles, UpdateOutput(o, c)
    PROVE  IInv'
<1>1. /\ UNCHANGED <<model, recorder, channelDesk, mix>>
      /\ outputDesk' = [outputDesk EXCEPT ![o] = c]
      /\ \A r \in routes' : r \in routes /\ (outputDesk[o] # c => r \notin FedBy(o))
  BY DEF UpdateOutput, desks
<1>2. TypeOK'
  BY <1>1 DEF IInv, TypeOK
<1>3. ASSUME NEW r \in routes'
      PROVE  Resolves(r)'
  <2>1. r \in routes /\ (outputDesk[o] # c => ~Names(r, "output", o))
    BY <1>1, FedByNames DEF IInv
  <2> QED
    BY <1>1, <2>1 DEF IInv, TypeOK, RoutesResolve, Resolves, OnDesk, Desks, Names
<1> QED
  BY <1>1, <1>2, <1>3 DEF IInv, NothingWaits, RoutesResolve

LEMMA DeleteOutputKeeps ==
    ASSUME IInv, NEW o \in Outputs, DeleteOutput(o)
    PROVE  IInv'
<1>1. /\ UNCHANGED <<model, recorder, channelDesk, mix>>
      /\ outputDesk' = [outputDesk EXCEPT ![o] = Absent]
      /\ \A r \in routes' : r \in routes /\ ~Names(r, "output", o)
  BY DEF DeleteOutput, desks, ClearPortRoutes
<1>2. TypeOK'
  BY <1>1 DEF IInv, TypeOK
<1>3. ASSUME NEW r \in routes'
      PROVE  Resolves(r)'
  BY <1>1 DEF IInv, TypeOK, RoutesResolve, Resolves, OnDesk, Desks, Names
<1> QED
  BY <1>1, <1>2, <1>3 DEF IInv, NothingWaits, RoutesResolve

(* A Fed by that is written resolves when its source is on the output's desk. *)
LEMMA SetFedByKeeps ==
    ASSUME IInv, NEW o, NEW STATE source, SetFedBy(o, source),
           \A r \in source : r \in RouteRows /\ Resolves(r)
    PROVE  IInv'
<1>1. UNCHANGED <<model, recorder, channelDesk, outputDesk, mix>>
  BY DEF SetFedBy, desks, rows
<1>2. \A r \in routes' : r \in routes \/ r \in source
  BY InsertBounds DEF SetFedBy
<1> QED
  BY <1>1, <1>2, OnlyRoutes

LEMMA FeedByMixKeeps ==
    ASSUME IInv, NEW o \in Outputs, NEW i \in MixIds, NEW side, FeedByMix(o, i, side)
    PROVE  IInv'
<1> DEFINE c == outputDesk[o]
           r == Route(c, "mix", i, side, "output", o, 0)
<1>1. c \in Desks /\ mix[i].desk = c /\ side \in {0, 1} /\ SetFedBy(o, {r})
  BY DEF FeedByMix, Sides
<1>2. r \in RouteRows
  BY <1>1, RouteType, RoutingAssumption DEF Desks, Ids, PortNumbers
<1>3. Resolves(r)
  BY <1>1 DEF Resolves, OnDesk, Route
<1> HIDE DEF r
<1> QED
  BY <1>1, <1>2, <1>3, SetFedByKeeps

LEMMA FeedByChannelKeeps ==
    ASSUME IInv, NEW o \in Outputs, NEW ch \in Channels, FeedByChannel(o, ch)
    PROVE  IInv'
<1> DEFINE c == outputDesk[o]
           r == Route(c, "channel", ch, 0, "output", o, 0)
<1>1. c \in Desks /\ channelDesk[ch] = c /\ SetFedBy(o, {r})
  BY DEF FeedByChannel
<1>2. r \in RouteRows
  BY <1>1, RouteType, RoutingAssumption DEF Desks, Ids, PortNumbers
<1>3. Resolves(r)
  BY <1>1 DEF Resolves, OnDesk, Route
<1> HIDE DEF r
<1> QED
  BY <1>1, <1>2, <1>3, SetFedByKeeps

-----------------------------------------------------------------------------
(* Mixes.                                                                   *)

LEMMA CreateDeskMixKeeps ==
    ASSUME IInv, NEW c \in Consoles, NEW kind \in UserKinds, NEW asked \in Widths,
           CreateDeskMix(c, kind, asked)
    PROVE  IInv'
<1> DEFINE width == StoredWidth(model[c], kind, asked)
<1>1. PICK slot \in 1 .. MaxSlot, i \in Unused(mix) :
        mix' = [mix EXCEPT ![i] = [desk |-> c, kind |-> kind, slot |-> slot, width |-> width]]
  BY DEF CreateDeskMix
<1>2. UNCHANGED <<model, recorder, channelDesk, outputDesk, routes>>
  BY DEF CreateDeskMix, desks, rows
<1>3. i \in MixIds /\ mix[i].desk = Absent
  BY DEF Unused
<1>4. [desk |-> c, kind |-> kind, slot |-> slot, width |-> width] \in MixRows
  <2>1. kind \in MixKinds
    BY RoutingAssumption DEF MixKinds
  <2>2. width \in Widths \cup {"none"}
    BY StoredWidthType
  <2>3. slot \in 0 .. MaxSlot
    BY RoutingAssumption
  <2> HIDE DEF width
  <2> QED
    BY <2>1, <2>2, <2>3 DEF MixRows
<1> HIDE DEF width
<1>5. TypeOK'
  BY <1>1, <1>2, <1>3, <1>4 DEF IInv, TypeOK
<1>6. NothingWaits'
  BY <1>1, <1>3, RoutingAssumption DEF IInv, TypeOK, NothingWaits
<1>7. ASSUME NEW r \in routes'
      PROVE  Resolves(r)'
  BY <1>1, <1>2, <1>3, RoutingAssumption DEF IInv, TypeOK, RoutesResolve, Resolves, OnDesk, Desks
<1> QED
  BY <1>5, <1>6, <1>7 DEF IInv, RoutesResolve

(* New fields for a mix that stays where it is. *)
LEMMA FieldsKeep ==
    ASSUME TypeOK, NothingWaits, NEW i \in MixIds, NEW slot \in 1 .. MaxSlot, NEW width \in Widths,
           mix' = [mix EXCEPT ![i].slot = slot, ![i].width = width]
    PROVE  /\ mix' \in [MixIds -> MixRows]
           /\ \A j \in MixIds : mix'[j].desk = mix[j].desk
           /\ NothingWaits'
<1>1. slot \in 0 .. MaxSlot /\ width \in Widths \cup {"none"}
  BY RoutingAssumption
<1>2. \A j \in MixIds : mix[j] \in MixRows
  BY DEF TypeOK
<1>3. \A j \in MixIds : mix'[j] \in MixRows /\ mix'[j].desk = mix[j].desk
  BY <1>1, <1>2, ZenonT(60) DEF TypeOK, MixRows
<1>4. mix' \in [MixIds -> MixRows]
  BY <1>3 DEF TypeOK
<1> QED
  BY <1>3, <1>4 DEF NothingWaits

LEMMA RenumberDeskMixKeeps ==
    ASSUME IInv, NEW i \in MixIds, NEW slot \in 1 .. MaxSlot, NEW width \in Widths,
           RenumberDeskMix(i, slot, width)
    PROVE  IInv'
<1>1. /\ UNCHANGED <<model, recorder, channelDesk, outputDesk, routes>>
      /\ mix' = [mix EXCEPT ![i].slot = slot, ![i].width = width]
  BY DEF RenumberDeskMix, desks, rows
<1>2. /\ mix' \in [MixIds -> MixRows]
      /\ \A j \in MixIds : mix'[j].desk = mix[j].desk
      /\ NothingWaits'
  BY <1>1, FieldsKeep DEF IInv
<1>3. TypeOK'
  BY <1>1, <1>2 DEF IInv, TypeOK
<1>4. RoutesResolve'
  BY <1>1, <1>2 DEF IInv, RoutesResolve, Resolves, OnDesk, Desks
<1> QED
  BY <1>2, <1>3, <1>4 DEF IInv

(* What a column or a recorder track may name is there, on the desk. *)
LEMMA SourcePortsType ==
    ASSUME NEW c \in Desks, NEW port \in SourcePorts(c)
    PROVE  /\ port[1] \in {"channel", "mix"}
           /\ port[2] \in Ids
           /\ port[3] \in PortNumbers
           /\ OnDesk(c, port[1], port[2])
<1>1. CASE \E ch \in ChannelsOn(c) : port = <<"channel", ch, 0>>
  BY <1>1, RoutingAssumption DEF ChannelsOn, Ids, OnDesk, PortNumbers
<1>2. CASE \E i \in MixesOf(c), side \in {0, 1} : port = <<"mix", i, side>>
  BY <1>2, RoutingAssumption DEF MixesOf, Ids, OnDesk, PortNumbers
<1> QED
  BY <1>1, <1>2 DEF SourcePorts, Sides

LEMMA SaveColumnKeeps ==
    ASSUME IInv, NEW i \in MixIds, NEW slot \in 1 .. MaxSlot, NEW width \in Widths,
           NEW n \in Nat, NEW sources \in [1 .. n -> SourcePorts(mix[i].desk)],
           SaveColumn(i, slot, width, sources)
    PROVE  IInv'
<1> DEFINE c == mix[i].desk
           Fed(port) == Route(c, port[1], port[2], port[3], "mix", i, 0)
<1>1. /\ UNCHANGED <<model, recorder, channelDesk, outputDesk>>
      /\ c \in Desks
      /\ mix' = [mix EXCEPT ![i].slot = slot, ![i].width = width]
  BY DEF SaveColumn, desks, rows
<1>2. /\ mix' \in [MixIds -> MixRows]
      /\ \A j \in MixIds : mix'[j].desk = mix[j].desk
      /\ NothingWaits'
  BY <1>1, FieldsKeep DEF IInv
<1>3. \A r \in routes' : r \in routes \/ \E port \in SourcePorts(c) : r = Fed(port)
  <2>1. routes' = InsertRoutes(routes \ MixSources(i), {Fed(sources[k]) : k \in DOMAIN sources})
    BY DEF SaveColumn
  <2>2. \A k \in DOMAIN sources : sources[k] \in SourcePorts(c)
    BY DEF SaveColumn
  <2> HIDE DEF Fed, c
  <2> QED
    BY <2>1, <2>2, InsertBounds
<1>4. ASSUME NEW port \in SourcePorts(c)
      PROVE  Fed(port) \in RouteRows /\ Resolves(Fed(port))
  <2>1. /\ port[1] \in {"channel", "mix"}
        /\ port[2] \in Ids
        /\ port[3] \in PortNumbers
        /\ OnDesk(c, port[1], port[2])
    BY <1>1, SourcePortsType
  <2>2. c \in Consoles /\ i \in Ids /\ 0 \in PortNumbers
    BY <1>1, RoutingAssumption DEF Desks, Ids, PortNumbers
  <2>3. Fed(port) \in RouteRows
    BY <2>1, <2>2, RouteType
  <2>4. Resolves(Fed(port))
    BY <1>1, <2>1 DEF Resolves, OnDesk, Route
  <2> QED
    BY <2>3, <2>4
<1> HIDE DEF Fed
<1>5. routes' \subseteq RouteRows /\ \A r \in routes' : Resolves(r)
  BY <1>3, <1>4 DEF IInv, TypeOK, RoutesResolve
<1>6. TypeOK'
  BY <1>1, <1>2, <1>5 DEF IInv, TypeOK
<1>7. RoutesResolve'
  BY <1>1, <1>2, <1>5 DEF RoutesResolve, Resolves, OnDesk, Desks
<1> QED
  BY <1>2, <1>6, <1>7 DEF IInv

LEMMA DeleteDeskMixKeeps ==
    ASSUME IInv, NEW i \in MixIds, DeleteDeskMix(i)
    PROVE  IInv'
<1>1. /\ UNCHANGED <<model, recorder, channelDesk, outputDesk>>
      /\ mix' = [mix EXCEPT ![i] = NoMix]
      /\ \A r \in routes' : r \in routes /\ ~Names(r, "mix", i)
  BY DEF DeleteDeskMix, desks, rows, ClearPortRoutes
<1>2. TypeOK'
  BY <1>1, NoMixType DEF IInv, TypeOK
<1>3. NothingWaits'
  BY <1>1, RoutingAssumption DEF IInv, TypeOK, NothingWaits, NoMix
<1>4. ASSUME NEW r \in routes'
      PROVE  Resolves(r)'
  BY <1>1 DEF IInv, TypeOK, RoutesResolve, Resolves, OnDesk, Desks, Names
<1> QED
  BY <1>2, <1>3, <1>4 DEF IInv, RoutesResolve

-----------------------------------------------------------------------------
(* The recorder.                                                            *)

(* So is a channel, whatever port of it the table names. *)
LEMMA PlayPortsType ==
    ASSUME NEW c \in Consoles, NEW port \in PlayPorts(c)
    PROVE  /\ port[1] = "channel"
           /\ port[2] \in ChannelsOn(c) /\ port[2] \in Ids
           /\ port[3] \in PortNumbers
           /\ OnDesk(c, port[1], port[2])
<1>1. PICK ch \in ChannelsOn(c), p \in ChannelPorts : port = <<"channel", ch, p>>
  BY DEF PlayPorts
<1> QED
  BY <1>1, RoutingAssumption DEF ChannelsOn, Ids, OnDesk, PortNumbers

LEMMA RecordsKeeps ==
    ASSUME NEW c \in Desks, recorder[c].on, NEW port \in RecordPorts(c), NEW t \in 0 .. MaxTracks
    PROVE  Records(c, port, t) \in RouteRows /\ Resolves(Records(c, port, t))
<1>1. /\ port[1] \in {"channel", "mix"}
      /\ port[2] \in Ids
      /\ port[3] \in PortNumbers
      /\ OnDesk(c, port[1], port[2])
  BY SourcePortsType, PlayPortsType DEF RecordPorts, Desks
<1>2. c \in Consoles /\ c \in Ids /\ t \in PortNumbers
  BY RoutingAssumption DEF Desks, Ids, PortNumbers
<1>3. Records(c, port, t) \in RouteRows
  BY <1>1, <1>2, RouteType DEF Records
<1>4. Resolves(Records(c, port, t))
  BY <1>1 DEF Resolves, OnDesk, Records, Route
<1> QED
  BY <1>3, <1>4

LEMMA PlaysKeeps ==
    ASSUME NEW c \in Desks, recorder[c].on, NEW t \in 0 .. MaxTracks,
           NEW port, port[2] \in ChannelsOn(c), port[3] \in PortNumbers
    PROVE  Plays(c, t, port) \in RouteRows /\ Resolves(Plays(c, t, port))
<1>1. c \in Consoles /\ c \in Ids /\ port[2] \in Ids /\ t \in PortNumbers
  BY RoutingAssumption DEF Desks, ChannelsOn, Ids, PortNumbers
<1>2. Plays(c, t, port) \in RouteRows
  BY <1>1, RouteType DEF Plays
<1>3. Resolves(Plays(c, t, port))
  BY DEF Resolves, OnDesk, Plays, Route, ChannelsOn
<1> QED
  BY <1>2, <1>3

LEMMA SetRecorderKeeps ==
    ASSUME IInv, NEW c \in Consoles, NEW on \in BOOLEAN, NEW typed \in 0 .. MaxTracks,
           SetRecorder(c, on, typed)
    PROVE  IInv'
<1> DEFINE tracks == IF model[c] \in RealModels THEN TrackCount[model[c]] ELSE typed
<1>1. /\ UNCHANGED <<model, channelDesk, outputDesk, mix>>
      /\ recorder' = [recorder EXCEPT ![c] = [on |-> on, tracks |-> tracks]]
      /\ \A r \in routes' : r \in routes /\ (on \/ ~Names(r, "recorder", c))
  BY DEF SetRecorder, rows, ClearPortRoutes
<1>2. tracks \in 0 .. MaxTracks
  BY RoutingAssumption, RulesAssumption
<1> HIDE DEF tracks
<1>3. TypeOK'
  BY <1>1, <1>2 DEF IInv, TypeOK
<1>4. ASSUME NEW r \in routes'
      PROVE  Resolves(r)'
  <2>1. \A d \in Consoles : recorder[d].on /\ (on \/ d # c) => recorder'[d].on
    BY <1>1 DEF IInv, TypeOK
  <2>2. r \in routes /\ Resolves(r)
    BY <1>1 DEF IInv, RoutesResolve
  <2> QED
    BY <1>1, <2>1, <2>2 DEF Resolves, OnDesk, Desks, Names
<1> QED
  BY <1>1, <1>3, <1>4 DEF IInv, NothingWaits, RoutesResolve

LEMMA AssignmentsType ==
    ASSUME NEW targets, NEW f \in Assignments(targets), NEW t \in DOMAIN f
    PROVE  t \in 0 .. MaxTracks /\ f[t] \in targets
<1>1. PICK ts \in SUBSET Tracks : f \in [ts -> targets]
  BY DEF Assignments
<1> QED
  BY <1>1, RoutingAssumption DEF Tracks

LEMMA SetRecorderRoutesKeeps ==
    ASSUME IInv, NEW c \in Consoles,
           NEW record \in Assignments(RecordPorts(c)), NEW play \in Assignments(PlayPorts(c)),
           SetRecorderRoutes(c, record, play)
    PROVE  IInv'
<1> DEFINE new == {Records(c, record[t], t) : t \in DOMAIN record}
                    \cup {Plays(c, t, play[t]) : t \in DOMAIN play}
<1>1. /\ UNCHANGED <<model, recorder, channelDesk, outputDesk, mix>>
      /\ c \in Desks
      /\ recorder[c].on
      /\ routes' = InsertRoutes(ClearPortRoutes(routes, "recorder", c), new)
  BY DEF SetRecorderRoutes, desks, rows, ReplaceRecorderRoutes
<1>2. \A t \in DOMAIN record : t \in 0 .. MaxTracks /\ record[t] \in RecordPorts(c)
  BY AssignmentsType
<1>3. \A t \in DOMAIN play : t \in 0 .. MaxTracks /\ play[t][2] \in ChannelsOn(c) /\ play[t][3] \in PortNumbers
  BY AssignmentsType, PlayPortsType
<1>4. \A r \in new : r \in RouteRows /\ Resolves(r)
  BY <1>1, <1>2, <1>3, RecordsKeeps, PlaysKeeps
<1> HIDE DEF new
<1>5. \A r \in routes' : r \in routes \/ r \in new
  BY <1>1, InsertBounds DEF ClearPortRoutes
<1> QED
  BY <1>1, <1>4, <1>5, OnlyRoutes

LEMMA FillRecorderKeeps ==
    ASSUME IInv, NEW c \in Consoles, NEW patched \in SUBSET ChannelsOn(c), FillRecorder(c, patched)
    PROVE  IInv'
<1> DEFINE kept == RecorderRoutes(c)
           recorded == {r.src : r \in {k \in kept : k.dstKind = "recorder" /\ k.srcKind = "channel"}}
           played == {r.dst : r \in {k \in kept : k.srcKind = "recorder"}}
           todo == patched \ recorded
           again == {[k EXCEPT !.desk = c] : k \in kept}
           Recorded(on) == {Records(c, <<"channel", ch, 0>>, on[ch]) : ch \in todo}
           Played(on) == {Plays(c, on[ch], <<"channel", ch, 0>>) : ch \in todo \ played}
<1>1. /\ UNCHANGED <<model, recorder, channelDesk, outputDesk, mix>>
      /\ c \in Desks
      /\ recorder[c].on
  BY DEF FillRecorder, desks, rows
<1>2. PICK on \in [todo -> FreeTracks(c)] :
        routes' = InsertRoutes(ClearPortRoutes(routes, "recorder", c), again \cup Recorded(on) \cup Played(on))
  BY DEF FillRecorder, ReplaceRecorderRoutes
<1>3. \A r \in again : r \in routes
  <2>1. ASSUME NEW k \in kept
        PROVE  [k EXCEPT !.desk = c] = k
    <3>1. k \in RouteRows /\ Resolves(k) /\ Names(k, "recorder", c)
      BY DEF RecorderRoutes, IInv, TypeOK, RoutesResolve
    <3>2. k.desk = c
      BY <3>1 DEF Resolves, OnDesk, Names
    <3> QED
      BY <3>1, <3>2 DEF RouteRows
  <2> QED
    BY <2>1 DEF RecorderRoutes
<1>4. ASSUME NEW ch \in todo
      PROVE  on[ch] \in 0 .. MaxTracks /\ ch \in ChannelsOn(c)
  <2>1. on[ch] \in FreeTracks(c)
    BY <1>2
  <2>2. on[ch] \in 1 .. TracksOf(c)
    BY <2>1 DEF FreeTracks
  <2> QED
    BY <2>2, TracksOfType, RoutingAssumption DEF IInv
<1>5. \A r \in Recorded(on) : r \in RouteRows /\ Resolves(r)
  <2>1. \A ch \in todo : <<"channel", ch, 0>> \in SourcePorts(c)
    BY <1>4 DEF SourcePorts
  <2> HIDE DEF todo
  <2> QED
    BY <1>1, <1>4, <2>1, RecordsKeeps DEF RecordPorts
<1>6. \A r \in Played(on) : r \in RouteRows /\ Resolves(r)
  <2> HIDE DEF played, todo
  <2>1. 0 \in PortNumbers
    BY RoutingAssumption DEF PortNumbers
  <2> QED
    BY <1>1, <1>4, <2>1, PlaysKeeps
<1> HIDE DEF again, Recorded, Played
<1>7. \A r \in routes' : r \in routes \/ r \in again \/ r \in Recorded(on) \/ r \in Played(on)
  BY <1>2, InsertBounds DEF ClearPortRoutes
<1> QED
  BY <1>1, <1>3, <1>5, <1>6, <1>7, OnlyRoutes

-----------------------------------------------------------------------------
(* The invariant.                                                           *)

LEMMA InitInv == Init => IInv
<1> SUFFICES ASSUME Init PROVE IInv
  OBVIOUS
<1>1. PICK c \in Consoles : Fresh(c)
  BY DEF Init
<1>2. SeedModel \in AllModels
  BY RoutingAssumption
<1>3. ASSUME NEW i \in MixIds
      PROVE  mix[i] \in MixRows /\ mix[i].desk # NoDesk
  <2>1. CASE i \in MainSlots(SeedModel)
    <3>1. i \in 1 .. 3
      BY <2>1, MainSlotsType
    <3>2. mix[i] = [desk |-> c, kind |-> "main", slot |-> i, width |-> MainWidth(i)]
      BY <1>1, <2>1 DEF Fresh
    <3>3. mix[i] \in MixRows
      BY <3>1, <3>2, MainRowType
    <3>4. mix[i].desk # NoDesk
      BY <3>2, RoutingAssumption
    <3> QED
      BY <3>3, <3>4
  <2>2. CASE i \notin MainSlots(SeedModel)
    <3>1. mix[i] = NoMix
      BY <1>1, <2>2 DEF Fresh
    <3> QED
      BY <3>1, NoMixType, RoutingAssumption DEF NoMix
  <2> QED
    BY <2>1, <2>2
<1>4. mix \in [MixIds -> MixRows]
  <2>1. mix = [i \in MixIds |-> mix[i]]
    BY <1>1 DEF Fresh
  <2> QED
    BY <1>3, <2>1
<1>5. TypeOK
  BY <1>1, <1>2, <1>4, RoutingAssumption DEF Init, Fresh, TypeOK
<1>6. RoutesResolve
  BY <1>1 DEF Fresh, RoutesResolve
<1> QED
  BY <1>3, <1>5, <1>6 DEF IInv, NothingWaits

LEMMA DeskStepInv == IInv /\ DeskStep => IInv'
  BY CreateConsoleKeeps, GetAudioPatchKeeps, DeleteConsoleKeeps, SetBusModeKeeps,
     SwitchConsoleModelKeeps, PlaceOnConsoleKeeps DEF DeskStep

LEMMA RowStepInv == IInv /\ RowStep => IInv'
<1> SUFFICES ASSUME IInv, RowStep PROVE IInv'
  OBVIOUS
<1>1. ASSUME NEW ch \in Channels, NEW ids, SaveInputChannel(ch, ids)
      PROVE  IInv'
  BY <1>1, SaveInputChannelKeeps
<1>2. ASSUME NEW ch \in Channels, NEW c \in Consoles, NEW ids, CreateInputChannel(ch, c, ids)
      PROVE  IInv'
  BY <1>2, CreateInputChannelKeeps
<1>3. ASSUME NEW ch \in Channels, DeleteInputChannel(ch) \/ \E c \in Consoles : MoveInputChannel(ch, c)
      PROVE  IInv'
  BY <1>3, DeleteInputChannelKeeps, MoveInputChannelKeeps
<1>4. ASSUME NEW o \in Outputs, DeleteOutput(o) \/ ClearFedBy(o)
      PROVE  IInv'
  BY <1>4, DeleteOutputKeeps, SetFedByKeeps DEF ClearFedBy
<1>5. ASSUME NEW o \in Outputs, NEW c \in Consoles, CreateOutput(o, c) \/ UpdateOutput(o, c)
      PROVE  IInv'
  BY <1>5, CreateOutputKeeps, UpdateOutputKeeps
<1>6. ASSUME NEW o \in Outputs, NEW i \in MixIds, NEW side, FeedByMix(o, i, side)
      PROVE  IInv'
  BY <1>6, FeedByMixKeeps
<1>7. ASSUME NEW o \in Outputs, NEW ch \in Channels, FeedByChannel(o, ch)
      PROVE  IInv'
  BY <1>7, FeedByChannelKeeps
<1> QED
  BY <1>1, <1>2, <1>3, <1>4, <1>5, <1>6, <1>7 DEF RowStep

LEMMA MixStepInv == IInv /\ MixStep => IInv'
<1> SUFFICES ASSUME IInv, MixStep PROVE IInv'
  OBVIOUS
<1>1. ASSUME NEW c \in Consoles, NEW kind \in UserKinds, NEW width \in Widths,
             CreateDeskMix(c, kind, width)
      PROVE  IInv'
  BY <1>1, CreateDeskMixKeeps
<1>2. ASSUME NEW i \in MixIds, DeleteDeskMix(i)
      PROVE  IInv'
  BY <1>2, DeleteDeskMixKeeps
<1>3. ASSUME NEW i \in MixIds, NEW slot \in 1 .. MaxSlot, NEW width \in Widths,
             RenumberDeskMix(i, slot, width)
      PROVE  IInv'
  BY <1>3, RenumberDeskMixKeeps
<1>4. ASSUME NEW i \in MixIds, NEW slot \in 1 .. MaxSlot, NEW width \in Widths,
             NEW n \in 0 .. MaxSources, NEW sources \in [1 .. n -> SourcePorts(mix[i].desk)],
             SaveColumn(i, slot, width, sources)
      PROVE  IInv'
  <2>1. n \in Nat
    BY RoutingAssumption
  <2> QED
    BY <1>4, <2>1, SaveColumnKeeps
<1> QED
  BY <1>1, <1>2, <1>3, <1>4 DEF MixStep

LEMMA RecorderStepInv == IInv /\ RecorderStep => IInv'
  BY SetRecorderKeeps, SetRecorderRoutesKeeps, FillRecorderKeeps DEF RecorderStep

LEMMA StutterInv == IInv /\ UNCHANGED vars => IInv'
  BY DEF IInv, vars, TypeOK, NothingWaits, RoutesResolve, Resolves, OnDesk, Desks

(* The inductive invariant holds of every reachable state. *)
THEOREM InvariantHolds == Spec => []IInv
<1>1. IInv /\ [Next]_vars => IInv'
  BY DeskStepInv, RowStepInv, MixStepInv, RecorderStepInv, StutterInv DEF Next
<1> QED
  BY <1>1, InitInv, PTL DEF Spec

(* Every table keeps its columns in their ranges: desks that exist, slots   *)
(* and tracks that are bounded, widths and kinds that are known, through    *)
(* every handler that writes them.                                          *)
THEOREM TypeCorrect == Spec => []TypeOK
<1>1. IInv => TypeOK
  BY DEF IInv
<1> QED
  BY <1>1, InvariantHolds, PTL

(* Every route belongs to a desk that exists and joins two things that      *)
(* exist on that desk, however many desks, rows and mixes there are: the    *)
(* handlers keep what no foreign key of desk_routes says.                   *)
THEOREM RoutesAlwaysResolve == Spec => []RoutesResolve
<1>1. IInv => RoutesResolve
  BY DEF IInv
<1> QED
  BY <1>1, InvariantHolds, PTL

(* Only migration leaves a mix waiting for a desk: no request does, a       *)
(* desk's deletion included.                                                *)
THEOREM NothingEverWaits == Spec => []NothingWaits
<1>1. IInv => NothingWaits
  BY DEF IInv
<1> QED
  BY <1>1, InvariantHolds, PTL

-----------------------------------------------------------------------------
(* The tables: routes of one kind are exclusive, and kept.                  *)

FedOnce == \A o \in Outputs : \A r, s \in FedBy(o) : r = s

PlaysChannels == \A r \in routes : r.srcKind = "recorder" => r.dstKind = "channel"

Exclusive == FedOnce /\ PlaysChannels /\ TracksExclusive

(* A route a row or a column edits: out of a channel or a mix, into a mix. *)
IntoMix(r) == r.srcKind # "recorder" /\ r.dstKind = "mix"

-----------------------------------------------------------------------------
(* Steps that add routes into mixes only.                                   *)

LEMMA IntoMixesKeeps ==
    ASSUME Exclusive, \A r \in routes' : r \in routes \/ IntoMix(r)
    PROVE  Exclusive'
<1>1. FedOnce'
  BY DEF Exclusive, FedOnce, FedBy, IntoMix
<1>2. PlaysChannels'
  BY DEF Exclusive, PlaysChannels, IntoMix
<1>3. TracksExclusive'
  BY DEF Exclusive, TracksExclusive, IntoMix
<1> QED
  BY <1>1, <1>2, <1>3 DEF Exclusive

LEMMA ToMixIntoMix == \A c, ch, i : IntoMix(ToMix(c, ch, i))
  BY DEF IntoMix, ToMix, Route

(* Ensuring mains writes the routes it is given: none of them waits. *)
LEMMA EnsureKeepsRoutes ==
    ASSUME IInv, NEW STATE modelOf, NEW STATE some, NEW STATE table, NEW STATE rt,
           rt \subseteq routes, EnsureDeskMains(modelOf, some, table, rt)
    PROVE  routes' = rt
<1>1. \A r \in rt : r.desk # NoDesk
  BY RoutingAssumption DEF IInv, RoutesResolve, Resolves, Desks
<1>2. routes' = AdoptedRoutes(modelOf, rt)
  BY DEF EnsureDeskMains
<1> QED
  BY <1>1, <1>2 DEF AdoptedRoutes, Adopted

(* What happens to desks removes routes, if anything. *)
LEMMA DeskRoutesShrink ==
    ASSUME IInv,
           \/ GetAudioPatch
           \/ \E c \in Consoles, m \in Models :
                CreateConsole(c, m) \/ SetBusMode(c, m) \/ SwitchConsoleModel(c, m)
           \/ \E c \in Consoles : DeleteConsole(c)
    PROVE  routes' \subseteq routes
<1>1. CASE GetAudioPatch
  BY <1>1, EnsureKeepsRoutes DEF GetAudioPatch
<1>2. ASSUME NEW c \in Consoles, NEW m, CreateConsole(c, m)
      PROVE  routes' \subseteq routes
  BY <1>2, EnsureKeepsRoutes DEF CreateConsole
<1>3. ASSUME NEW c \in Consoles, NEW m, SwitchConsoleModel(c, m)
      PROVE  routes' \subseteq routes
  <2> DEFINE dropped == DroppedMains(c, m)
             kept == {r \in routes : \A i \in dropped : ~Names(r, "mix", i)}
             table == [i \in MixIds |->
                        IF mix[i].desk = c
                        THEN SwitchedMix(i, m, MapMixes(m, {x \in Listed(c) : x.kind # "main"}), dropped)
                        ELSE mix[i]]
  <2>1. EnsureDeskMains([model EXCEPT ![c] = m], {c}, table, kept)
    BY <1>3 DEF SwitchConsoleModel
  <2> HIDE DEF table, dropped
  <2>2. routes' = kept
    BY <2>1, EnsureKeepsRoutes
  <2> QED
    BY <2>2
<1>4. ASSUME NEW c \in Consoles, NEW m, DeleteConsole(c) \/ SetBusMode(c, m)
      PROVE  routes' \subseteq routes
  BY <1>4 DEF DeleteConsole, SetBusMode
<1> QED
  BY <1>1, <1>2, <1>3, <1>4

LEMMA PlaceAddsIntoMixes ==
    ASSUME NEW c, NEW chs, NEW outs, PlaceOnConsole(c, chs, outs)
    PROVE  \A r \in routes' : r \in routes \/ IntoMix(r)
<1>1. CASE chs = {}
  BY <1>1 DEF PlaceOnConsole
<1>2. CASE chs # {}
  <2>1. PICK lr \in MainLR(c) : routes' = InsertRoutes(routes, {ToMix(c, ch, lr) : ch \in chs})
    BY <1>2 DEF PlaceOnConsole
  <2>2. routes' \subseteq routes \cup {ToMix(c, ch, lr) : ch \in chs}
    BY <2>1, InsertBounds
  <2> QED
    BY <2>2, ToMixIntoMix
<1> QED
  BY <1>1, <1>2

LEMMA DeskStepKeepsTables ==
    ASSUME IInv, Exclusive, DeskStep
    PROVE  Exclusive'
<1>1. CASE routes' \subseteq routes
  BY <1>1, IntoMixesKeeps
<1>2. ASSUME NEW c \in Consoles, NEW chs, NEW outs, PlaceOnConsole(c, chs, outs)
      PROVE  Exclusive'
  BY <1>2, PlaceAddsIntoMixes, IntoMixesKeeps
<1> QED
  BY <1>1, <1>2, DeskRoutesShrink DEF DeskStep

-----------------------------------------------------------------------------
(* Rows and mixes.                                                          *)

(* What feeds an output is replaced, never added to. *)
LEMMA SetFedByKeepsTables ==
    ASSUME Exclusive, NEW o \in Outputs, NEW STATE source, SetFedBy(o, source),
           \A r \in source : r.srcKind # "recorder" /\ r.dstKind = "output" /\ r.dst = o,
           \A r, s \in source : r = s
    PROVE  Exclusive'
<1>1. \A r \in routes' : (r \in routes /\ r \notin FedBy(o)) \/ r \in source
  <2>1. routes' \subseteq (routes \ FedBy(o)) \cup source
    BY InsertBounds DEF SetFedBy
  <2> QED
    BY <2>1
<1>2. ASSUME NEW p \in Outputs, NEW r \in FedBy(p)', NEW s \in FedBy(p)'
      PROVE  r = s
  <2>1. r \in routes' /\ s \in routes' /\ r.dst = p /\ s.dst = p
    BY DEF FedBy
  <2>2. CASE p = o
    BY <1>1, <2>1, <2>2 DEF FedBy
  <2>3. CASE p # o
    BY <1>1, <2>1, <2>3 DEF FedBy, Exclusive, FedOnce
  <2> QED
    BY <2>2, <2>3
<1>3. PlaysChannels'
  BY <1>1 DEF Exclusive, PlaysChannels
<1>4. TracksExclusive'
  BY <1>1 DEF Exclusive, TracksExclusive
<1> QED
  BY <1>2, <1>3, <1>4 DEF Exclusive, FedOnce

LEMMA ChannelRoutesKeep ==
    ASSUME NEW table, table \subseteq routes, NEW c, NEW ch, NEW ids,
           routes' = ReplaceChannelMixes(table, c, ch, ids)
    PROVE  \A r \in routes' : r \in routes \/ IntoMix(r)
<1>1. routes' \subseteq table \cup {ToMix(c, ch, i) : i \in ids}
  BY InsertBounds DEF ReplaceChannelMixes
<1> QED
  BY <1>1, ToMixIntoMix

(* What the requests about rows make, Fed by apart. *)
LEMMA RowStepAdds ==
    ASSUME RowStep
    PROVE  \/ \A r \in routes' : r \in routes \/ IntoMix(r)
           \/ \E o \in Outputs :
                \/ ClearFedBy(o)
                \/ \E i \in MixIds, side \in {0, 1} : FeedByMix(o, i, side)
                \/ \E ch \in Channels : FeedByChannel(o, ch)
<1>1. ASSUME NEW ch \in Channels, NEW ids, SaveInputChannel(ch, ids)
      PROVE  \A r \in routes' : r \in routes \/ IntoMix(r)
  <2>1. routes' = ReplaceChannelMixes(routes \ RowRoutes(ch), channelDesk[ch], ch, ids)
    BY <1>1 DEF SaveInputChannel
  <2> QED
    BY <2>1, ChannelRoutesKeep
<1>2. ASSUME NEW ch \in Channels, NEW c \in Consoles, NEW ids, CreateInputChannel(ch, c, ids)
      PROVE  \A r \in routes' : r \in routes \/ IntoMix(r)
  BY <1>2, ChannelRoutesKeep DEF CreateInputChannel
<1>3. ASSUME NEW ch \in Channels, NEW c \in Consoles, MoveInputChannel(ch, c)
      PROVE  \A r \in routes' : r \in routes \/ IntoMix(r)
  <2>1. PICK lr \in MainLR(c) :
          routes' = ReplaceChannelMixes(ClearPortRoutes(routes, "channel", ch), c, ch, {lr})
    BY <1>3 DEF MoveInputChannel
  <2>2. ClearPortRoutes(routes, "channel", ch) \subseteq routes
    BY DEF ClearPortRoutes
  <2> QED
    BY <2>1, <2>2, ChannelRoutesKeep
<1>4. ASSUME NEW ch \in Channels, DeleteInputChannel(ch)
      PROVE  \A r \in routes' : r \in routes \/ IntoMix(r)
  BY <1>4 DEF DeleteInputChannel, ClearPortRoutes
<1>5. ASSUME NEW o \in Outputs, NEW c, DeleteOutput(o) \/ CreateOutput(o, c) \/ UpdateOutput(o, c)
      PROVE  \A r \in routes' : r \in routes \/ IntoMix(r)
  BY <1>5 DEF DeleteOutput, CreateOutput, UpdateOutput, ClearPortRoutes
<1> QED
  BY <1>1, <1>2, <1>3, <1>4, <1>5 DEF RowStep

LEMMA RowStepKeepsTables ==
    ASSUME Exclusive, RowStep
    PROVE  Exclusive'
<1>1. ASSUME NEW o \in Outputs, ClearFedBy(o)
      PROVE  Exclusive'
  <2>1. SetFedBy(o, {})
    BY <1>1 DEF ClearFedBy
  <2> QED
    BY <2>1, SetFedByKeepsTables
<1>2. ASSUME NEW o \in Outputs, NEW i \in MixIds, NEW side, FeedByMix(o, i, side)
      PROVE  Exclusive'
  <2> DEFINE r == Route(outputDesk[o], "mix", i, side, "output", o, 0)
  <2>1. SetFedBy(o, {r})
    BY <1>2 DEF FeedByMix
  <2>2. r.srcKind # "recorder" /\ r.dstKind = "output" /\ r.dst = o
    BY DEF Route
  <2> HIDE DEF r
  <2> QED
    BY <2>1, <2>2, SetFedByKeepsTables
<1>3. ASSUME NEW o \in Outputs, NEW ch \in Channels, FeedByChannel(o, ch)
      PROVE  Exclusive'
  <2> DEFINE r == Route(outputDesk[o], "channel", ch, 0, "output", o, 0)
  <2>1. SetFedBy(o, {r})
    BY <1>3 DEF FeedByChannel
  <2>2. r.srcKind # "recorder" /\ r.dstKind = "output" /\ r.dst = o
    BY DEF Route
  <2> HIDE DEF r
  <2> QED
    BY <2>1, <2>2, SetFedByKeepsTables
<1> QED
  BY <1>1, <1>2, <1>3, RowStepAdds, IntoMixesKeeps

LEMMA MixStepAddsIntoMixes ==
    ASSUME MixStep
    PROVE  \A r \in routes' : r \in routes \/ IntoMix(r)
<1>1. ASSUME NEW c \in Consoles, NEW kind, NEW width, CreateDeskMix(c, kind, width)
      PROVE  \A r \in routes' : r \in routes \/ IntoMix(r)
  BY <1>1 DEF CreateDeskMix
<1>2. ASSUME NEW i \in MixIds, DeleteDeskMix(i)
      PROVE  \A r \in routes' : r \in routes \/ IntoMix(r)
  BY <1>2 DEF DeleteDeskMix, ClearPortRoutes
<1>3. ASSUME NEW i \in MixIds, NEW slot, NEW width, RenumberDeskMix(i, slot, width)
      PROVE  \A r \in routes' : r \in routes \/ IntoMix(r)
  BY <1>3 DEF RenumberDeskMix
<1>4. ASSUME NEW i \in MixIds, NEW slot, NEW width, NEW n,
             NEW sources \in [1 .. n -> SourcePorts(mix[i].desk)], SaveColumn(i, slot, width, sources)
      PROVE  \A r \in routes' : r \in routes \/ IntoMix(r)
  <2> DEFINE c == mix[i].desk
             new == {Route(c, sources[k][1], sources[k][2], sources[k][3], "mix", i, 0) :
                        k \in DOMAIN sources}
  <2>1. \A port \in SourcePorts(c) : port[1] # "recorder"
    BY DEF SourcePorts
  <2>2. \A r \in new : IntoMix(r)
    BY <2>1 DEF IntoMix, Route
  <2>3. routes' = InsertRoutes(routes \ MixSources(i), new)
    BY <1>4 DEF SaveColumn
  <2> HIDE DEF new
  <2>4. routes' \subseteq (routes \ MixSources(i)) \cup new
    BY <2>3, InsertBounds
  <2> QED
    BY <2>2, <2>4
<1> QED
  BY <1>1, <1>2, <1>3, <1>4 DEF MixStep

-----------------------------------------------------------------------------
(* The recorder.                                                            *)

(* A table of routes of this desk's recorder and no other. *)
TableOf(c, new) ==
    \A r \in new :
        \/ r.srcKind # "recorder" /\ r.dstKind = "recorder" /\ r.dst = c
        \/ /\ r.srcKind = "recorder" /\ r.src = c
           /\ r.dstKind = "channel" /\ r.dst \in ChannelsOn(c)

ExclusiveIn(new) ==
    \A r, s \in new :
        /\ r.dstKind = "recorder" /\ s.dstKind = "recorder" /\ r.dstPort = s.dstPort => r = s
        /\ r.srcKind = "recorder" /\ s.srcKind = "recorder"
            /\ (r.srcPort = s.srcPort \/ r.dst = s.dst) => r = s

(* Replacing one recorder's table by one that is exclusive in itself keeps  *)
(* the whole exclusive: a track of another recorder plays into a channel of *)
(* its own desk, not into one of this.                                      *)
LEMMA TableReplaced ==
    ASSUME IInv, Exclusive, NEW c \in Consoles, NEW STATE new,
           TableOf(c, new), ExclusiveIn(new), ReplaceRecorderRoutes(c, new)
    PROVE  Exclusive'
<1> DEFINE left == ClearPortRoutes(routes, "recorder", c)
<1>1. \A r \in routes' : (r \in routes /\ r \in left) \/ r \in new
  <2>1. routes' \subseteq left \cup new
    BY InsertBounds DEF ReplaceRecorderRoutes
  <2> QED
    BY <2>1 DEF ClearPortRoutes
<1>2. \A r \in left : /\ r.srcKind = "recorder" => r.src # c
                      /\ r.dstKind = "recorder" => r.dst # c
  BY DEF ClearPortRoutes, Names
<1>3. \A r \in left : r.srcKind = "recorder" => r.dst \notin ChannelsOn(c)
  <2>1. ASSUME NEW r \in left, r.srcKind = "recorder"
        PROVE  r.dst \notin ChannelsOn(c)
    <3>1. r \in routes /\ Resolves(r) /\ r.dstKind = "channel"
      BY <2>1 DEF ClearPortRoutes, IInv, RoutesResolve, Exclusive, PlaysChannels
    <3>2. channelDesk[r.dst] = r.src
      BY <2>1, <3>1 DEF Resolves, OnDesk
    <3> QED
      BY <1>2, <2>1, <3>2 DEF ChannelsOn
  <2> QED
    BY <2>1
<1> HIDE DEF left
<1>4. FedOnce'
  BY <1>1 DEF TableOf, Exclusive, FedOnce, FedBy
<1>5. PlaysChannels'
  BY <1>1 DEF TableOf, Exclusive, PlaysChannels
<1>6. ASSUME NEW r \in routes', NEW s \in routes',
             r.dstKind = "recorder", s.dstKind = "recorder", r.dst = s.dst, r.dstPort = s.dstPort
      PROVE  r = s
  BY <1>1, <1>2, <1>6 DEF TableOf, ExclusiveIn, Exclusive, TracksExclusive, PlaysChannels
<1>7. ASSUME NEW r \in routes', NEW s \in routes',
             r.srcKind = "recorder", s.srcKind = "recorder",
             <<r.src, r.srcPort>> = <<s.src, s.srcPort>> \/ r.dst = s.dst
      PROVE  r = s
  <2>1. CASE r \in new /\ s \in new
    BY <1>7, <2>1 DEF ExclusiveIn
  <2>2. CASE r \in left /\ s \in new
    BY <1>2, <1>3, <1>7, <2>2 DEF TableOf
  <2>3. CASE r \in new /\ s \in left
    BY <1>2, <1>3, <1>7, <2>3 DEF TableOf
  <2>4. CASE r \in routes /\ s \in routes
    BY <1>7, <2>4 DEF Exclusive, TracksExclusive
  <2> QED
    BY <1>1, <2>1, <2>2, <2>3, <2>4
<1> QED
  BY <1>4, <1>5, <1>6, <1>7 DEF Exclusive, TracksExclusive

(* A table save: one port to a track, one track to a channel. *)
LEMMA SetRecorderRoutesKeepsTables ==
    ASSUME IInv, Exclusive, NEW c \in Consoles,
           NEW record \in Assignments(RecordPorts(c)), NEW play \in Assignments(PlayPorts(c)),
           SetRecorderRoutes(c, record, play)
    PROVE  Exclusive'
<1> DEFINE recorded == {Records(c, record[t], t) : t \in DOMAIN record}
           played == {Plays(c, t, play[t]) : t \in DOMAIN play}
<1>1. /\ \A t \in DOMAIN record : record[t] \in RecordPorts(c)
      /\ \A t \in DOMAIN play : play[t][2] \in ChannelsOn(c)
      /\ \A t, u \in DOMAIN play : play[t][2] = play[u][2] => t = u
      /\ ReplaceRecorderRoutes(c, recorded \cup played)
  BY PlayPortsType DEF SetRecorderRoutes
<1>2. \A port \in RecordPorts(c) : port[1] \in {"channel", "mix"}
  BY PlayPortsType DEF RecordPorts, SourcePorts
<1>3. \A r \in recorded : r.srcKind # "recorder" /\ r.dstKind = "recorder" /\ r.dst = c
  BY <1>1, <1>2 DEF Records, Route
<1>4. \A r \in played : /\ r.srcKind = "recorder" /\ r.src = c
                        /\ r.dstKind = "channel" /\ r.dst \in ChannelsOn(c)
  BY <1>1 DEF Plays, Route
<1>5. ASSUME NEW r \in recorded, NEW s \in recorded, r.dstPort = s.dstPort
      PROVE  r = s
  BY <1>5 DEF Records, Route
<1>6. ASSUME NEW r \in played, NEW s \in played, r.srcPort = s.srcPort \/ r.dst = s.dst
      PROVE  r = s
  <2>1. PICK t \in DOMAIN play : r = Plays(c, t, play[t])
    OBVIOUS
  <2>2. PICK u \in DOMAIN play : s = Plays(c, u, play[u])
    OBVIOUS
  <2>3. t = u \/ play[t][2] = play[u][2]
    BY <1>6, <2>1, <2>2 DEF Plays, Route
  <2> QED
    BY <1>1, <2>1, <2>2, <2>3
<1> HIDE DEF recorded, played
<1>7. TableOf(c, recorded \cup played)
  BY <1>3, <1>4 DEF TableOf
<1>8. ExclusiveIn(recorded \cup played)
  BY <1>3, <1>4, <1>5, <1>6 DEF ExclusiveIn
<1> QED
  BY <1>1, <1>7, <1>8, TableReplaced

(* A fill: what was recorded stays, and newcomers take tracks nothing uses. *)
LEMMA FillRecorderKeepsTables ==
    ASSUME IInv, Exclusive, NEW c \in Consoles, NEW patched \in SUBSET ChannelsOn(c),
           FillRecorder(c, patched)
    PROVE  Exclusive'
<1> DEFINE kept == RecorderRoutes(c)
           recorded == {r.src : r \in {k \in kept : k.dstKind = "recorder" /\ k.srcKind = "channel"}}
           played == {r.dst : r \in {k \in kept : k.srcKind = "recorder"}}
           todo == patched \ recorded
           again == {[k EXCEPT !.desk = c] : k \in kept}
           Recorded(on) == {Records(c, <<"channel", ch, 0>>, on[ch]) : ch \in todo}
           Played(on) == {Plays(c, on[ch], <<"channel", ch, 0>>) : ch \in todo \ played}
<1>1. PICK on \in [todo -> FreeTracks(c)] :
        /\ \A a, b \in todo : on[a] = on[b] => a = b
        /\ ReplaceRecorderRoutes(c, again \cup Recorded(on) \cup Played(on))
  BY DEF FillRecorder
<1>0. \A a, b \in todo : on[a] = on[b] => a = b
  BY <1>1
<1>2. again = kept
  <2>1. ASSUME NEW k \in kept
        PROVE  [k EXCEPT !.desk = c] = k
    <3>1. k \in RouteRows /\ Resolves(k) /\ Names(k, "recorder", c)
      BY DEF RecorderRoutes, IInv, TypeOK, RoutesResolve
    <3>2. k.desk = c
      BY <3>1 DEF Resolves, OnDesk, Names
    <3> QED
      BY <3>1, <3>2 DEF RouteRows
  <2> QED
    BY <2>1
<1>3. ASSUME NEW k \in kept
      PROVE  \/ k.srcKind # "recorder" /\ k.dstKind = "recorder" /\ k.dst = c
             \/ /\ k.srcKind = "recorder" /\ k.src = c
                /\ k.dstKind = "channel" /\ k.dst \in ChannelsOn(c)
  <2>1. k \in routes /\ k \in RouteRows /\ Resolves(k) /\ Names(k, "recorder", c)
    BY DEF RecorderRoutes, IInv, TypeOK, RoutesResolve
  <2>2. k.srcKind = "recorder" => k.dstKind = "channel"
    BY <2>1 DEF Exclusive, PlaysChannels
  <2> QED
    BY <2>1, <2>2 DEF Resolves, OnDesk, Names, ChannelsOn
<1>4. ASSUME NEW ch \in todo, NEW k \in kept
      PROVE  /\ k.dstKind = "recorder" => k.dstPort # on[ch]
             /\ k.srcKind = "recorder" => k.srcPort # on[ch]
  <2>1. on[ch] \in FreeTracks(c)
    BY <1>1
  <2> QED
    BY <2>1 DEF FreeTracks
<1>5. \A r \in Recorded(on) : \E ch \in todo :
        /\ r.srcKind = "channel" /\ r.dstKind = "recorder" /\ r.dst = c /\ r.dstPort = on[ch]
        /\ r = Records(c, <<"channel", ch, 0>>, on[ch])
  BY DEF Records, Route
<1>6. \A r \in Played(on) : \E ch \in todo :
        /\ r.srcKind = "recorder" /\ r.src = c /\ r.srcPort = on[ch]
        /\ r.dstKind = "channel" /\ r.dst = ch /\ ch \notin played
        /\ r = Plays(c, on[ch], <<"channel", ch, 0>>)
  BY DEF Plays, Route
<1>7. \A ch \in todo : ch \in ChannelsOn(c)
  OBVIOUS
<1>8. \A k \in kept : k.srcKind = "recorder" => k.dst \in played
  OBVIOUS
<1>9. \A k, l \in kept : /\ k.dstKind = "recorder" /\ l.dstKind = "recorder" /\ k.dstPort = l.dstPort => k = l
                         /\ k.srcKind = "recorder" /\ l.srcKind = "recorder"
                                /\ (k.srcPort = l.srcPort \/ k.dst = l.dst) => k = l
  <2>1. kept \subseteq routes
    BY DEF RecorderRoutes
  <2> HIDE DEF kept
  <2> QED
    BY <1>3, <2>1 DEF Exclusive, TracksExclusive
<1> HIDE DEF again, Recorded, Played, kept, played, todo
<1>10. TableOf(c, kept \cup Recorded(on) \cup Played(on))
  BY <1>3, <1>5, <1>6, <1>7 DEF TableOf
<1>11. ASSUME NEW r \in kept \cup Recorded(on) \cup Played(on),
              NEW s \in kept \cup Recorded(on) \cup Played(on),
              r.dstKind = "recorder", s.dstKind = "recorder", r.dstPort = s.dstPort
       PROVE  r = s
  <2>1. r \notin Played(on) /\ s \notin Played(on)
    BY <1>6, <1>11
  <2>2. CASE r \in kept /\ s \in kept
    BY <1>9, <1>11, <2>2
  <2>3. CASE r \in Recorded(on) /\ s \in Recorded(on)
    BY <1>0, <1>5, <1>11, <2>3
  <2>4. CASE r \in Recorded(on) /\ s \in kept
    BY <1>4, <1>5, <1>11, <2>4
  <2>5. CASE r \in kept /\ s \in Recorded(on)
    BY <1>4, <1>5, <1>11, <2>5
  <2> QED
    BY <2>1, <2>2, <2>3, <2>4, <2>5
<1>12. ASSUME NEW r \in kept \cup Recorded(on) \cup Played(on),
              NEW s \in kept \cup Recorded(on) \cup Played(on),
              r.srcKind = "recorder", s.srcKind = "recorder", r.srcPort = s.srcPort \/ r.dst = s.dst
       PROVE  r = s
  <2>1. r \notin Recorded(on) /\ s \notin Recorded(on)
    BY <1>5, <1>12
  <2>2. CASE r \in kept /\ s \in kept
    BY <1>9, <1>12, <2>2
  <2>3. CASE r \in Played(on) /\ s \in Played(on)
    <3>1. PICK a \in todo : r.srcPort = on[a] /\ r.dst = a /\ r = Plays(c, on[a], <<"channel", a, 0>>)
      BY <1>6, <2>3
    <3>2. PICK b \in todo : s.srcPort = on[b] /\ s.dst = b /\ s = Plays(c, on[b], <<"channel", b, 0>>)
      BY <1>6, <2>3
    <3>3. a = b
      BY <1>0, <1>12, <3>1, <3>2
    <3> QED
      BY <3>1, <3>2, <3>3
  <2>4. CASE r \in Played(on) /\ s \in kept
    BY <1>4, <1>6, <1>8, <1>12, <2>4
  <2>5. CASE r \in kept /\ s \in Played(on)
    BY <1>4, <1>6, <1>8, <1>12, <2>5
  <2> QED
    BY <2>1, <2>2, <2>3, <2>4, <2>5
<1>13. ExclusiveIn(kept \cup Recorded(on) \cup Played(on))
  BY <1>11, <1>12 DEF ExclusiveIn
<1> QED
  BY <1>1, <1>2, <1>10, <1>13, TableReplaced

LEMMA RecorderStepKeepsTables ==
    ASSUME IInv, Exclusive, RecorderStep
    PROVE  Exclusive'
<1>1. ASSUME NEW c \in Consoles, NEW on, NEW typed, SetRecorder(c, on, typed)
      PROVE  Exclusive'
  <2>1. \A r \in routes' : r \in routes
    BY <1>1 DEF SetRecorder, ClearPortRoutes
  <2> QED
    BY <2>1, IntoMixesKeeps
<1> QED
  BY <1>1, SetRecorderRoutesKeepsTables, FillRecorderKeepsTables DEF RecorderStep

LEMMA ExclusiveKept ==
    ASSUME IInv, Exclusive, [Next]_vars
    PROVE  Exclusive'
<1>1. CASE UNCHANGED vars
  <2>1. \A r \in routes' : r \in routes
    BY <1>1 DEF vars
  <2> QED
    BY <2>1, IntoMixesKeeps
<1> QED
  BY <1>1, DeskStepKeepsTables, RowStepKeepsTables, MixStepAddsIntoMixes, IntoMixesKeeps,
     RecorderStepKeepsTables DEF Next

LEMMA ExclusiveHolds == Spec => []Exclusive
<1>1. Init => Exclusive
  BY DEF Init, Fresh, Exclusive, FedOnce, FedBy, PlaysChannels, TracksExclusive
<1> QED
  BY <1>1, ExclusiveKept, InvariantHolds, PTL DEF Spec

(* A track records one source at most and plays into one channel at most,   *)
(* and a channel plays from one track, on every desk, however table saves,  *)
(* fills, recorder changes, switches and moves follow one another.          *)
THEOREM TracksAlwaysExclusive == Spec => []TracksExclusive
<1>1. Exclusive => TracksExclusive
  BY DEF Exclusive
<1> QED
  BY <1>1, ExclusiveHolds, PTL

(* An output is fed by one thing at most, although the key of desk_routes   *)
(* would allow any number.                                                  *)
THEOREM AlwaysOneFedBy == Spec => []OneFedBy
<1>1. ASSUME FedOnce, NEW o \in Outputs
      PROVE  Cardinality(FedBy(o)) <= 1
  <2>1. CASE FedBy(o) = {}
    <3>1. Cardinality(FedBy(o)) = 0
      BY <2>1, FS_EmptySet
    <3> QED
      BY <3>1
  <2>2. CASE FedBy(o) # {}
    <3>1. PICK r \in FedBy(o) : TRUE
      BY <2>2
    <3>2. FedBy(o) = {r}
      BY <1>1 DEF FedOnce
    <3>3. Cardinality({r}) = 1
      BY FS_Singleton
    <3> QED
      BY <3>2, <3>3
  <2> QED
    BY <2>1, <2>2
<1>2. Exclusive => OneFedBy
  BY <1>1 DEF Exclusive, OneFedBy
<1> QED
  BY <1>2, ExclusiveHolds, PTL

-----------------------------------------------------------------------------
(* What a step may do to routes.                                            *)

LEMMA Frames ==
    /\ GetAudioPatch => UNCHANGED <<model, recorder, channelDesk, outputDesk>>
    /\ RowStep => UNCHANGED <<model, recorder, mix>>
    /\ MixStep => UNCHANGED <<model, recorder, channelDesk, outputDesk>>
    /\ RecorderStep => UNCHANGED <<model, channelDesk, outputDesk, mix>>
<1>1. GetAudioPatch => UNCHANGED <<model, recorder, channelDesk, outputDesk>>
  BY DEF GetAudioPatch, desks, rows
<1>2. ASSUME NEW ch, NEW c, NEW ids,
             CreateInputChannel(ch, c, ids) \/ SaveInputChannel(ch, ids)
                \/ MoveInputChannel(ch, c) \/ DeleteInputChannel(ch)
      PROVE  UNCHANGED <<model, recorder, mix>>
  BY <1>2 DEF CreateInputChannel, SaveInputChannel, MoveInputChannel, DeleteInputChannel, desks
<1>3. ASSUME NEW o, NEW c, CreateOutput(o, c) \/ UpdateOutput(o, c) \/ DeleteOutput(o)
      PROVE  UNCHANGED <<model, recorder, mix>>
  BY <1>3 DEF CreateOutput, UpdateOutput, DeleteOutput, desks
<1>4. ASSUME NEW o, NEW i, NEW side, NEW ch, ClearFedBy(o) \/ FeedByMix(o, i, side) \/ FeedByChannel(o, ch)
      PROVE  UNCHANGED <<model, recorder, mix>>
  BY <1>4 DEF ClearFedBy, FeedByMix, FeedByChannel, SetFedBy, desks
<1>5. RowStep => UNCHANGED <<model, recorder, mix>>
  BY <1>2, <1>3, <1>4 DEF RowStep
<1>6. ASSUME NEW c, NEW kind, NEW width, CreateDeskMix(c, kind, width)
      PROVE  UNCHANGED <<model, recorder, channelDesk, outputDesk>>
  BY <1>6 DEF CreateDeskMix, desks, rows
<1>7. ASSUME NEW i, DeleteDeskMix(i)
      PROVE  UNCHANGED <<model, recorder, channelDesk, outputDesk>>
  BY <1>7 DEF DeleteDeskMix, desks, rows
<1>8. ASSUME NEW i, NEW slot, NEW width, RenumberDeskMix(i, slot, width)
      PROVE  UNCHANGED <<model, recorder, channelDesk, outputDesk>>
  BY <1>8 DEF RenumberDeskMix, desks, rows
<1>9. ASSUME NEW i, NEW slot, NEW width, NEW sources, SaveColumn(i, slot, width, sources)
      PROVE  UNCHANGED <<model, recorder, channelDesk, outputDesk>>
  BY <1>9 DEF SaveColumn, desks, rows
<1>10. MixStep => UNCHANGED <<model, recorder, channelDesk, outputDesk>>
  BY <1>6, <1>7, <1>8, <1>9 DEF MixStep
<1>11. ASSUME NEW c, NEW on, NEW typed, NEW record, NEW play, NEW patched,
              SetRecorder(c, on, typed) \/ SetRecorderRoutes(c, record, play) \/ FillRecorder(c, patched)
       PROVE  UNCHANGED <<model, channelDesk, outputDesk, mix>>
  BY <1>11 DEF SetRecorder, SetRecorderRoutes, FillRecorder, desks, rows
<1>12. RecorderStep => UNCHANGED <<model, channelDesk, outputDesk, mix>>
  BY <1>11 DEF RecorderStep
<1> QED
  BY <1>1, <1>5, <1>10, <1>12

LEMMA SwitchKeeps ==
    ASSUME IInv, NEW c \in Consoles, NEW to, SwitchConsoleModel(c, to)
    PROVE  routes \subseteq routes'
<1> DEFINE dropped == DroppedMains(c, to)
           kept == {r \in routes : \A i \in dropped : ~Names(r, "mix", i)}
           table == [i \in MixIds |->
                        IF mix[i].desk = c
                        THEN SwitchedMix(i, to, MapMixes(to, {x \in Listed(c) : x.kind # "main"}), dropped)
                        ELSE mix[i]]
<1>1. EnsureDeskMains([model EXCEPT ![c] = to], {c}, table, kept)
  BY DEF SwitchConsoleModel
<1>2. ASSUME NEW r \in routes, NEW i \in dropped
      PROVE  ~Names(r, "mix", i)
  <2>1. mix[i].desk = c /\ ~Routed(c, i)
    BY DEF DroppedMains, MixesOf
  <2>2. Names(r, "mix", i) => r.desk = mix[i].desk
    BY DEF IInv, RoutesResolve, Resolves, OnDesk, Names
  <2> QED
    BY <2>1, <2>2 DEF Routed
<1> HIDE DEF table, dropped
<1>3. routes' = kept
  BY <1>1, EnsureKeepsRoutes
<1> QED
  BY <1>2, <1>3

(* A model switch deletes no route, whatever the new desk cannot make: the  *)
(* mains it drops are exactly those nothing routes to.                      *)
THEOREM SwitchesKeepRoutes == Spec => SwitchKeepsRoutes
<1> DEFINE Keeps == \A c \in Desks : model'[c] \notin {model[c], Absent} => routes \subseteq routes'
<1>1. ASSUME IInv, Next PROVE Keeps
  <2>1. ASSUME NEW c \in Consoles, NEW m \in Models, CreateConsole(c, m)
        PROVE  Keeps
    BY <1>1, <2>1 DEF CreateConsole, Desks, IInv, TypeOK
  <2>2. ASSUME NEW c \in Consoles, NEW m \in Models, SetBusMode(c, m)
        PROVE  Keeps
    BY <2>2 DEF SetBusMode
  <2>3. ASSUME NEW c \in Consoles, NEW m \in Models, SwitchConsoleModel(c, m)
        PROVE  Keeps
    BY <1>1, <2>3, SwitchKeeps
  <2>4. ASSUME NEW c \in Consoles, DeleteConsole(c)
        PROVE  Keeps
    BY <1>1, <2>4 DEF DeleteConsole, Desks, IInv, TypeOK
  <2>5. CASE UNCHANGED model
    BY <2>5
  <2>6. GetAudioPatch \/ RowStep \/ MixStep \/ RecorderStep => UNCHANGED model
    BY Frames
  <2>7. ASSUME NEW c \in Consoles, NEW chs, NEW outs, PlaceOnConsole(c, chs, outs)
        PROVE  UNCHANGED model
    BY <2>7 DEF PlaceOnConsole, desks
  <2> HIDE DEF Keeps
  <2> QED
    BY <1>1, <2>1, <2>2, <2>3, <2>4, <2>5, <2>6, <2>7 DEF Next, DeskStep
<1>2. ASSUME IInv, [Next]_vars PROVE [Keeps]_vars
  BY <1>1, <1>2
<1> QED
  BY <1>2, InvariantHolds, PTL DEF Spec, SwitchKeepsRoutes

(* A channel that arrives on a desk, moved there or placed there, is on its *)
(* Main LR in the same transaction.                                         *)
THEOREM NewcomersAlwaysJoinMain == Spec => NewcomersJoinMain
<1> DEFINE Joins(ch, c) ==
             \E r \in routes' : /\ <<r.srcKind, r.src, r.dstKind>> = <<"channel", ch, "mix">>
                                /\ r.dst \in MainLR(c)'
<1>1. ASSUME NEW table, NEW new, NEW ch, NEW c, NEW d, NEW lr \in MainLR(d), UNCHANGED mix,
             ToMix(c, ch, lr) \in new, routes' = InsertRoutes(table, new)
      PROVE  Joins(ch, d)
  <2>1. \E r \in routes' : SamePorts(r, ToMix(c, ch, lr))
    BY <1>1 DEF InsertRoutes, SamePorts
  <2>2. lr \in MainLR(d)'
    BY <1>1 DEF MainLR, MixesOf
  <2> QED
    BY <2>1, <2>2 DEF SamePorts, ToMix, Route
<1>2. ASSUME IInv, Next PROVE ArrivalsJoin
  <2>1. ASSUME NEW d \in Consoles, NEW chs, NEW outs, PlaceOnConsole(d, chs, outs),
               NEW ch \in Channels, NEW c \in Desks',
               channelDesk[ch] \notin {c, Absent}, channelDesk'[ch] = c
        PROVE  Joins(ch, c)
    <3>1. ch \in chs /\ c = d
      BY <2>1 DEF PlaceOnConsole
    <3>2. PICK lr \in MainLR(d) : routes' = InsertRoutes(routes, {ToMix(d, x, lr) : x \in chs})
      BY <2>1, <3>1 DEF PlaceOnConsole
    <3>3. UNCHANGED mix /\ ToMix(d, ch, lr) \in {ToMix(d, x, lr) : x \in chs}
      BY <2>1, <3>1 DEF PlaceOnConsole
    <3> HIDE DEF Joins
    <3> QED
      BY <1>1, <3>1, <3>2, <3>3
  <2>2. ASSUME NEW x \in Channels, NEW d \in Consoles, MoveInputChannel(x, d),
               NEW ch \in Channels, NEW c \in Desks',
               channelDesk[ch] \notin {c, Absent}, channelDesk'[ch] = c
        PROVE  Joins(ch, c)
    <3>1. ch = x /\ c = d
      BY <1>2, <2>2 DEF MoveInputChannel, IInv, TypeOK
    <3>2. PICK lr \in MainLR(d) :
            routes' = InsertRoutes(ClearPortRoutes(routes, "channel", x), {ToMix(d, x, i) : i \in {lr}})
      BY <2>2 DEF MoveInputChannel, ReplaceChannelMixes
    <3>3. UNCHANGED mix /\ ToMix(d, x, lr) \in {ToMix(d, x, i) : i \in {lr}}
      BY <2>2 DEF MoveInputChannel
    <3> HIDE DEF Joins
    <3> QED
      BY <1>1, <3>1, <3>2, <3>3
  <2>3. ASSUME NEW x \in Channels, NEW d \in Consoles, NEW ids, CreateInputChannel(x, d, ids)
        PROVE  ArrivalsJoin
    BY <1>2, <2>3 DEF ArrivalsJoin, CreateInputChannel, IInv, TypeOK
  <2>4. ASSUME NEW x \in Channels, DeleteInputChannel(x)
        PROVE  ArrivalsJoin
    <3>1. Absent \notin Desks'
      BY RoutingAssumption DEF Desks
    <3> QED
      BY <1>2, <2>4, <3>1 DEF ArrivalsJoin, DeleteInputChannel, IInv, TypeOK
  <2>5. ASSUME NEW d \in Consoles, DeleteConsole(d)
        PROVE  ArrivalsJoin
    <3>1. NoDesk \notin Desks'
      BY RoutingAssumption DEF Desks
    <3> QED
      BY <1>2, <2>5, <3>1 DEF ArrivalsJoin, DeleteConsole, IInv, TypeOK
  <2>6. CASE UNCHANGED channelDesk
    BY <2>6 DEF ArrivalsJoin
  <2>7. ASSUME NEW d \in Consoles, NEW m,
               CreateConsole(d, m) \/ SetBusMode(d, m) \/ SwitchConsoleModel(d, m)
        PROVE  UNCHANGED channelDesk
    <3>1. CreateConsole(d, m) \/ SetBusMode(d, m) => UNCHANGED channelDesk
      BY DEF CreateConsole, SetBusMode, rows
    <3>2. SwitchConsoleModel(d, m) => UNCHANGED channelDesk
      BY DEF SwitchConsoleModel, rows
    <3> QED
      BY <2>7, <3>1, <3>2
  <2>8. ASSUME NEW x \in Channels, NEW ids, SaveInputChannel(x, ids)
        PROVE  UNCHANGED channelDesk
    BY <2>8 DEF SaveInputChannel, rows
  <2>9. ASSUME NEW o \in Outputs, NEW d, NEW i, NEW side, NEW x,
               \/ CreateOutput(o, d) \/ UpdateOutput(o, d) \/ DeleteOutput(o) \/ ClearFedBy(o)
               \/ FeedByMix(o, i, side) \/ FeedByChannel(o, x)
        PROVE  UNCHANGED channelDesk
    BY <2>9 DEF CreateOutput, UpdateOutput, DeleteOutput, ClearFedBy, FeedByMix, FeedByChannel,
                SetFedBy, rows
  <2>10. GetAudioPatch \/ MixStep \/ RecorderStep => UNCHANGED channelDesk
    BY Frames
  <2>11. CASE DeskStep
    <3>1. ASSUME NEW d \in Consoles, NEW chs, NEW outs, PlaceOnConsole(d, chs, outs) PROVE ArrivalsJoin
      BY <2>1, <3>1 DEF ArrivalsJoin
    <3> QED
      BY <2>5, <2>6, <2>7, <2>10, <2>11, <3>1 DEF DeskStep
  <2>12. CASE RowStep
    <3>1. ASSUME NEW x \in Channels, NEW d \in Consoles, MoveInputChannel(x, d) PROVE ArrivalsJoin
      BY <2>2, <3>1 DEF ArrivalsJoin
    <3> QED
      BY <2>3, <2>4, <2>6, <2>8, <2>9, <2>12, <3>1 DEF RowStep
  <2> QED
    BY <1>2, <2>6, <2>10, <2>11, <2>12 DEF Next
<1>3. ASSUME IInv, [Next]_vars PROVE [ArrivalsJoin]_vars
  BY <1>2, <1>3
<1> QED
  BY <1>3, InvariantHolds, PTL DEF Spec, NewcomersJoinMain

-----------------------------------------------------------------------------
(* The tracks new recorder routes use.                                      *)

(* A step adds no route of a recorder unless it is one of the recorder's. *)
NoTrackAdded ==
    \A r \in routes' \ routes : r.srcKind # "recorder" /\ r.dstKind # "recorder"

LEMMA SetFedByAddsNoTrack ==
    ASSUME NEW o, NEW STATE source, SetFedBy(o, source),
           \A r \in source : r.srcKind # "recorder" /\ r.dstKind = "output"
    PROVE  NoTrackAdded
<1>1. routes' \subseteq (routes \ FedBy(o)) \cup source
  BY InsertBounds DEF SetFedBy
<1> QED
  BY <1>1 DEF NoTrackAdded

LEMMA OtherStepsAddNoTrack ==
    ASSUME IInv, DeskStep \/ RowStep \/ MixStep
    PROVE  NoTrackAdded
<1>1. ASSUME \A r \in routes' : r \in routes \/ IntoMix(r)
      PROVE  NoTrackAdded
  BY <1>1 DEF NoTrackAdded, IntoMix
<1>2. CASE DeskStep
  <2>1. ASSUME NEW c \in Consoles, NEW chs, NEW outs, PlaceOnConsole(c, chs, outs)
        PROVE  NoTrackAdded
    BY <1>1, <2>1, PlaceAddsIntoMixes
  <2>2. CASE routes' \subseteq routes
    BY <2>2 DEF NoTrackAdded
  <2> QED
    BY <1>2, <2>1, <2>2, DeskRoutesShrink DEF DeskStep
<1>3. CASE MixStep
  BY <1>1, <1>3, MixStepAddsIntoMixes
<1>4. CASE RowStep
  <2>1. ASSUME NEW o \in Outputs, NEW i \in MixIds, NEW side, FeedByMix(o, i, side)
        PROVE  NoTrackAdded
    <3> DEFINE r == Route(outputDesk[o], "mix", i, side, "output", o, 0)
    <3>1. SetFedBy(o, {r})
      BY <2>1 DEF FeedByMix
    <3>2. r.srcKind # "recorder" /\ r.dstKind = "output"
      BY DEF Route
    <3> HIDE DEF r
    <3> QED
      BY <3>1, <3>2, SetFedByAddsNoTrack
  <2>2. ASSUME NEW o \in Outputs, NEW ch \in Channels, FeedByChannel(o, ch)
        PROVE  NoTrackAdded
    <3> DEFINE r == Route(outputDesk[o], "channel", ch, 0, "output", o, 0)
    <3>1. SetFedBy(o, {r})
      BY <2>2 DEF FeedByChannel
    <3>2. r.srcKind # "recorder" /\ r.dstKind = "output"
      BY DEF Route
    <3> HIDE DEF r
    <3> QED
      BY <3>1, <3>2, SetFedByAddsNoTrack
  <2>3. ASSUME NEW o \in Outputs, ClearFedBy(o)
        PROVE  NoTrackAdded
    <3>1. SetFedBy(o, {})
      BY <2>3 DEF ClearFedBy
    <3> QED
      BY <3>1, SetFedByAddsNoTrack
  <2> QED
    BY <1>1, <1>4, <2>1, <2>2, <2>3, RowStepAdds
<1> QED
  BY <1>2, <1>3, <1>4

(* A table save or a fill: every new route is on a track the desk has. *)
LEMMA RecorderStepFits ==
    ASSUME IInv, RecorderStep
    PROVE  AdditionsFit
<1>1. ASSUME NEW c \in Consoles, NEW on, NEW typed, SetRecorder(c, on, typed)
      PROVE  AdditionsFit
  BY <1>1 DEF SetRecorder, ClearPortRoutes, AdditionsFit
<1>2. ASSUME NEW c \in Consoles, NEW new, ReplaceRecorderRoutes(c, new), UNCHANGED <<model, recorder>>,
             \A r \in new : \/ r \in routes
                            \/ /\ r.srcKind = "recorder" => r.src = c /\ r.srcPort \in 1 .. TracksOf(c)
                               /\ r.dstKind = "recorder" => r.dst = c /\ r.dstPort \in 1 .. TracksOf(c)
      PROVE  AdditionsFit
  <2>1. \A r \in routes' : r \in routes \/ r \in new
    <3>1. routes' \subseteq ClearPortRoutes(routes, "recorder", c) \cup new
      BY <1>2, InsertBounds DEF ReplaceRecorderRoutes
    <3> QED
      BY <3>1 DEF ClearPortRoutes
  <2>2. TracksOf(c)' = TracksOf(c)
    BY <1>2 DEF TracksOf
  <2> QED
    BY <1>2, <2>1, <2>2 DEF AdditionsFit
<1>3. ASSUME NEW c \in Consoles, NEW r, NEW s \in RecorderRoutes(c), s.desk = c, SamePorts(s, r),
             NEW port, NEW t, r = Records(c, port, t) \/ r = Plays(c, t, port)
      PROVE  r \in routes
  <2>1. s \in routes /\ s \in RouteRows
    BY <1>3 DEF RecorderRoutes, IInv, TypeOK
  <2>2. s = r
    BY <1>3, <2>1 DEF SamePorts, Records, Plays, Route, RouteRows
  <2> QED
    BY <2>1, <2>2
<1>4. ASSUME NEW c \in Consoles,
             NEW record \in Assignments(RecordPorts(c)), NEW play \in Assignments(PlayPorts(c)),
             SetRecorderRoutes(c, record, play)
      PROVE  AdditionsFit
  <2> DEFINE recorded == {Records(c, record[t], t) : t \in DOMAIN record}
             played == {Plays(c, t, play[t]) : t \in DOMAIN play}
             Fits(r) == /\ r.srcKind = "recorder" => r.src = c /\ r.srcPort \in 1 .. TracksOf(c)
                        /\ r.dstKind = "recorder" => r.dst = c /\ r.dstPort \in 1 .. TracksOf(c)
  <2>1. ReplaceRecorderRoutes(c, recorded \cup played) /\ UNCHANGED <<model, recorder>>
    BY <1>4 DEF SetRecorderRoutes, desks
  <2>2. ASSUME NEW t \in DOMAIN record
        PROVE  Records(c, record[t], t) \in routes \/ Fits(Records(c, record[t], t))
    <3>1. record[t][1] # "recorder" /\ ValidTrack(c, t, Records(c, record[t], t))
      BY <1>4, PlayPortsType DEF SetRecorderRoutes, RecordPorts, SourcePorts
    <3>2. CASE t \in 1 .. TracksOf(c)
      BY <3>1, <3>2 DEF Records, Route
    <3>3. CASE t \notin 1 .. TracksOf(c)
      BY <1>3, <3>1, <3>3 DEF ValidTrack
    <3> QED
      BY <3>2, <3>3
  <2>3. ASSUME NEW t \in DOMAIN play
        PROVE  Plays(c, t, play[t]) \in routes \/ Fits(Plays(c, t, play[t]))
    <3>1. ValidTrack(c, t, Plays(c, t, play[t]))
      BY <1>4 DEF SetRecorderRoutes
    <3>2. CASE t \in 1 .. TracksOf(c)
      BY <3>2 DEF Plays, Route
    <3>3. CASE t \notin 1 .. TracksOf(c)
      BY <1>3, <3>1, <3>3 DEF ValidTrack
    <3> QED
      BY <3>2, <3>3
  <2>4. \A r \in recorded \cup played : r \in routes \/ Fits(r)
    BY <2>2, <2>3
  <2> HIDE DEF recorded, played
  <2> QED
    BY <1>2, <2>1, <2>4
<1>5. ASSUME NEW c \in Consoles, NEW patched \in SUBSET ChannelsOn(c), FillRecorder(c, patched)
      PROVE  AdditionsFit
  <2> DEFINE kept == RecorderRoutes(c)
             recorded == {r.src : r \in {k \in kept : k.dstKind = "recorder" /\ k.srcKind = "channel"}}
             played == {r.dst : r \in {k \in kept : k.srcKind = "recorder"}}
             todo == patched \ recorded
             again == {[k EXCEPT !.desk = c] : k \in kept}
             Recorded(on) == {Records(c, <<"channel", ch, 0>>, on[ch]) : ch \in todo}
             Played(on) == {Plays(c, on[ch], <<"channel", ch, 0>>) : ch \in todo \ played}
  <2>1. PICK on \in [todo -> FreeTracks(c)] : ReplaceRecorderRoutes(c, again \cup Recorded(on) \cup Played(on))
    BY <1>5 DEF FillRecorder
  <2>2. UNCHANGED <<model, recorder>>
    BY <1>5 DEF FillRecorder, desks
  <2>3. ASSUME NEW k \in kept
        PROVE  [k EXCEPT !.desk = c] \in routes
    <3>1. k \in routes /\ k \in RouteRows /\ Resolves(k) /\ Names(k, "recorder", c)
      BY DEF RecorderRoutes, IInv, TypeOK, RoutesResolve
    <3>2. k.desk = c
      BY <3>1 DEF Resolves, OnDesk, Names
    <3>3. [k EXCEPT !.desk = c] = k
      BY <3>1, <3>2 DEF RouteRows
    <3> QED
      BY <3>1, <3>3
  <2>4. \A ch \in todo : on[ch] \in 1 .. TracksOf(c)
    <3>1. FreeTracks(c) \subseteq 1 .. TracksOf(c)
      BY DEF FreeTracks
    <3> QED
      BY <2>1, <3>1
  <2>5. \A r \in Recorded(on) : /\ r.srcKind = "channel"
                                /\ r.dst = c /\ r.dstPort \in 1 .. TracksOf(c)
    <3> HIDE DEF todo
    <3> QED
      BY <2>4 DEF Records, Route
  <2>6. \A r \in Played(on) : /\ r.dstKind = "channel"
                              /\ r.src = c /\ r.srcPort \in 1 .. TracksOf(c)
    <3> HIDE DEF todo, played
    <3>1. \A ch \in todo \ played : ch \in todo
      OBVIOUS
    <3> QED
      BY <2>4, <3>1 DEF Plays, Route
  <2>7. again \subseteq routes
    BY <2>3
  <2> HIDE DEF again, Recorded, Played
  <2> QED
    BY <1>2, <2>1, <2>2, <2>5, <2>6, <2>7
<1> QED
  BY <1>1, <1>4, <1>5 DEF RecorderStep

(* No step makes a recorder route on a track the desk has not got, though a *)
(* switch or a smaller typed count may have left older ones past the end,   *)
(* which a table save may keep.                                             *)
THEOREM NewTracksAlwaysFit == Spec => NewTracksFit
<1>1. NoTrackAdded => AdditionsFit
  BY DEF NoTrackAdded, AdditionsFit
<1>2. ASSUME IInv, [Next]_vars PROVE [AdditionsFit]_vars
  BY <1>1, <1>2, OtherStepsAddNoTrack, RecorderStepFits DEF Next
<1> QED
  BY <1>2, InvariantHolds, PTL DEF Spec, NewTracksFit

-----------------------------------------------------------------------------
(* What a step loses.                                                       *)

LEMMA LostFromList ==
    ASSUME NEW list, \A r \in routes \ routes' : Resolves(r)' => list \in ListsOf(r)
    PROVE  LossesEdited
  BY DEF LossesEdited

(* Nothing is lost that still has both its ends. *)
LEMMA NothingLost ==
    ASSUME \A r \in routes \ routes' : ~Resolves(r)'
    PROVE  LossesEdited
  BY DEF LossesEdited

LEMMA InsertKeeps == \A table, new : table \subseteq InsertRoutes(table, new)
  BY DEF InsertRoutes

LEMMA DeskStepLoses ==
    ASSUME IInv, DeskStep
    PROVE  LossesEdited
<1>1. CASE routes \subseteq routes'
  BY <1>1, NothingLost
<1>2. GetAudioPatch => routes' = routes
  BY EnsureKeepsRoutes DEF GetAudioPatch
<1>3. ASSUME NEW c \in Consoles, NEW m, CreateConsole(c, m) \/ SetBusMode(c, m)
      PROVE  routes' = routes
  BY <1>3, EnsureKeepsRoutes DEF CreateConsole, SetBusMode
<1>4. ASSUME NEW c \in Consoles, NEW m, SwitchConsoleModel(c, m)
      PROVE  routes \subseteq routes'
  BY <1>4, SwitchKeeps
<1>5. ASSUME NEW c \in Consoles, NEW chs, NEW outs, PlaceOnConsole(c, chs, outs)
      PROVE  routes \subseteq routes'
  <2>1. CASE chs = {}
    BY <1>5, <2>1 DEF PlaceOnConsole
  <2>2. CASE chs # {}
    <3>1. \E new : routes' = InsertRoutes(routes, new)
      BY <1>5, <2>2 DEF PlaceOnConsole
    <3> QED
      BY <3>1, InsertKeeps
  <2> QED
    BY <2>1, <2>2
<1>6. ASSUME NEW c \in Consoles, DeleteConsole(c)
      PROVE  LossesEdited
  <2>1. c \notin Desks' /\ \A r \in routes \ routes' : r.desk = c
    BY <1>6 DEF DeleteConsole, Desks, IInv, TypeOK
  <2> QED
    BY <2>1, NothingLost DEF Resolves
<1> QED
  BY <1>1, <1>2, <1>3, <1>4, <1>5, <1>6 DEF DeskStep

(* A row, a channel's or an output's, that leaves its desk takes its routes *)
(* with it; what a save of one clears is its own list.                      *)
LEMMA RowStepLoses ==
    ASSUME IInv, PlaysChannels, RowStep
    PROVE  LossesEdited
<1>1. ASSUME NEW ch \in Channels, NEW ids, SaveInputChannel(ch, ids)
      PROVE  LossesEdited
  <2>1. routes \ RowRoutes(ch) \subseteq routes'
    BY <1>1, InsertKeeps DEF SaveInputChannel, ReplaceChannelMixes
  <2>2. \A r \in RowRoutes(ch) : <<"row", ch>> \in ListsOf(r)
    BY DEF RowRoutes, ListsOf
  <2> QED
    BY <2>1, <2>2, LostFromList
<1>2. ASSUME NEW ch \in Channels, NEW c \in Consoles, NEW ids, CreateInputChannel(ch, c, ids)
      PROVE  LossesEdited
  <2>1. routes \subseteq routes'
    BY <1>2, InsertKeeps DEF CreateInputChannel, ReplaceChannelMixes
  <2> QED
    BY <2>1, NothingLost
<1>3. ASSUME NEW ch \in Channels, NEW d, channelDesk' = [channelDesk EXCEPT ![ch] = d],
             channelDesk[ch] # d, ClearPortRoutes(routes, "channel", ch) \subseteq routes'
      PROVE  LossesEdited
  <2>1. \A r \in routes \ routes' : Names(r, "channel", ch)
    BY <1>3 DEF ClearPortRoutes
  <2>2. channelDesk'[ch] = d
    BY <1>3 DEF IInv, TypeOK
  <2>3. ASSUME NEW r \in routes \ routes' PROVE ~Resolves(r)'
    <3>1. Resolves(r) => channelDesk[ch] = r.desk
      BY <2>1 DEF Resolves, OnDesk, Names
    <3>2. Resolves(r)' => channelDesk'[ch] = r.desk
      BY <2>1 DEF Resolves, OnDesk, Names
    <3> QED
      BY <1>3, <2>2, <3>1, <3>2 DEF IInv, RoutesResolve
  <2> QED
    BY <2>3, NothingLost
<1>4. ASSUME NEW ch \in Channels, NEW c \in Consoles, MoveInputChannel(ch, c)
      PROVE  LossesEdited
  BY <1>3, <1>4, InsertKeeps DEF MoveInputChannel, ReplaceChannelMixes
<1>5. ASSUME NEW ch \in Channels, DeleteInputChannel(ch)
      PROVE  LossesEdited
  BY <1>3, <1>5 DEF DeleteInputChannel
<1>6. ASSUME NEW o \in Outputs, NEW c \in Consoles, CreateOutput(o, c)
      PROVE  LossesEdited
  BY <1>6, NothingLost DEF CreateOutput
<1>7. ASSUME NEW o \in Outputs, NEW d, outputDesk' = [outputDesk EXCEPT ![o] = d],
             outputDesk[o] # d, \A r \in routes \ routes' : Names(r, "output", o)
      PROVE  LossesEdited
  <2>1. outputDesk'[o] = d
    BY <1>7 DEF IInv, TypeOK
  <2>2. ASSUME NEW r \in routes \ routes' PROVE ~Resolves(r)'
    <3>1. Resolves(r) => outputDesk[o] = r.desk
      BY <1>7 DEF Resolves, OnDesk, Names
    <3>2. Resolves(r)' => outputDesk'[o] = r.desk
      BY <1>7 DEF Resolves, OnDesk, Names
    <3> QED
      BY <1>7, <2>1, <3>1, <3>2 DEF IInv, RoutesResolve
  <2> QED
    BY <2>2, NothingLost
<1>8. ASSUME NEW o \in Outputs, NEW c \in Consoles, UpdateOutput(o, c)
      PROVE  LossesEdited
  <2>1. CASE outputDesk[o] = c
    BY <1>8, <2>1, NothingLost DEF UpdateOutput
  <2>2. CASE outputDesk[o] # c
    <3>1. \A r \in routes \ routes' : Names(r, "output", o)
      BY <1>8, <2>2 DEF UpdateOutput, FedBy, Names
    <3> QED
      BY <1>7, <1>8, <2>2, <3>1 DEF UpdateOutput
  <2> QED
    BY <2>1, <2>2
<1>9. ASSUME NEW o \in Outputs, DeleteOutput(o)
      PROVE  LossesEdited
  <2>1. \A r \in routes \ routes' : Names(r, "output", o)
    BY <1>9 DEF DeleteOutput, ClearPortRoutes
  <2> QED
    BY <1>7, <1>9, <2>1 DEF DeleteOutput
<1>10. ASSUME NEW o \in Outputs, NEW STATE source, SetFedBy(o, source)
       PROVE  LossesEdited
  <2>1. routes \ FedBy(o) \subseteq routes'
    BY <1>10, InsertKeeps DEF SetFedBy
  <2>2. \A r \in FedBy(o) : <<"fed by", o>> \in ListsOf(r)
    BY DEF FedBy, ListsOf, PlaysChannels
  <2> QED
    BY <2>1, <2>2, LostFromList
<1>11. ASSUME NEW o \in Outputs, NEW i, NEW side, NEW ch,
              ClearFedBy(o) \/ FeedByMix(o, i, side) \/ FeedByChannel(o, ch)
       PROVE  LossesEdited
  BY <1>10, <1>11 DEF ClearFedBy, FeedByMix, FeedByChannel
<1> QED
  BY <1>1, <1>2, <1>4, <1>5, <1>6, <1>8, <1>9, <1>11 DEF RowStep

LEMMA MixStepLoses ==
    ASSUME IInv, PlaysChannels, MixStep
    PROVE  LossesEdited
<1>1. ASSUME NEW i \in MixIds, DeleteDeskMix(i)
      PROVE  LossesEdited
  <2>1. mix'[i].desk = Absent
    BY <1>1 DEF DeleteDeskMix, NoMix, IInv, TypeOK
  <2>2. \A r \in routes \ routes' : Names(r, "mix", i)
    BY <1>1 DEF DeleteDeskMix, ClearPortRoutes
  <2>3. \A r \in routes \ routes' : Resolves(r)' => mix'[i].desk \in Consoles
    BY <2>2 DEF Resolves, OnDesk, Names, Desks
  <2> QED
    BY <2>1, <2>3, NothingLost, RoutingAssumption
<1>2. ASSUME NEW i \in MixIds, NEW slot, NEW width, NEW sources, SaveColumn(i, slot, width, sources)
      PROVE  LossesEdited
  <2>1. routes \ MixSources(i) \subseteq routes'
    BY <1>2, InsertKeeps DEF SaveColumn
  <2>2. \A r \in MixSources(i) : <<"column", i>> \in ListsOf(r)
    BY DEF MixSources, ListsOf, PlaysChannels
  <2> QED
    BY <2>1, <2>2, LostFromList
<1>3. ASSUME NEW c \in Consoles, NEW kind, NEW width, CreateDeskMix(c, kind, width)
      PROVE  LossesEdited
  BY <1>3, NothingLost DEF CreateDeskMix
<1>4. ASSUME NEW i, NEW slot, NEW width, RenumberDeskMix(i, slot, width)
      PROVE  LossesEdited
  BY <1>4, NothingLost DEF RenumberDeskMix
<1> QED
  BY <1>1, <1>2, <1>3, <1>4 DEF MixStep

LEMMA RecorderStepLoses ==
    ASSUME IInv, PlaysChannels, RecorderStep
    PROVE  LossesEdited
<1>1. ASSUME NEW c \in Consoles, NEW on, NEW typed, SetRecorder(c, on, typed)
      PROVE  LossesEdited
  <2>1. CASE on
    BY <1>1, <2>1, NothingLost DEF SetRecorder
  <2>2. CASE ~on
    <3>1. recorder'[c].on = on
      BY <1>1 DEF SetRecorder, IInv, TypeOK
    <3>2. \A r \in routes \ routes' : Names(r, "recorder", c)
      BY <1>1, <2>2 DEF SetRecorder, ClearPortRoutes
    <3>3. \A r \in routes \ routes' : Resolves(r)' => recorder'[c].on
      BY <3>2 DEF Resolves, OnDesk, Names
    <3> QED
      BY <2>2, <3>1, <3>3, NothingLost
  <2> QED
    BY <2>1, <2>2
<1>2. ASSUME NEW c \in Consoles, NEW new, ReplaceRecorderRoutes(c, new)
      PROVE  LossesEdited
  <2>1. \A r \in routes \ routes' : Names(r, "recorder", c)
    BY <1>2, InsertKeeps DEF ReplaceRecorderRoutes, ClearPortRoutes
  <2>2. \A r \in routes \ routes' : r.desk = c
    BY <2>1 DEF IInv, RoutesResolve, Resolves, OnDesk, Names
  <2>3. \A r \in routes \ routes' : <<"recorder", c>> \in ListsOf(r)
    BY <2>1, <2>2 DEF ListsOf, Names, PlaysChannels
  <2> QED
    BY <2>3, LostFromList
<1>3. ASSUME NEW c \in Consoles, NEW record, NEW play, SetRecorderRoutes(c, record, play)
      PROVE  LossesEdited
  BY <1>2, <1>3 DEF SetRecorderRoutes
<1>4. ASSUME NEW c \in Consoles, NEW patched, FillRecorder(c, patched)
      PROVE  LossesEdited
  BY <1>2, <1>4 DEF FillRecorder
<1> QED
  BY <1>1, <1>3, <1>4 DEF RecorderStep

(* A route both of whose ends stay on its desk is lost only by an edit of   *)
(* one list that holds it: a row, a column, an output's Fed by or the       *)
(* recorder's table, whatever else the step touches.                        *)
THEOREM LossesAreAlwaysEdits == Spec => LossesAreEdits
<1>1. IInv /\ Exclusive /\ Next => LossesEdited
  BY DeskStepLoses, RowStepLoses, MixStepLoses, RecorderStepLoses DEF Next, Exclusive
<1>2. IInv /\ Exclusive /\ [Next]_vars => [LossesEdited]_vars
  BY <1>1
<1> QED
  BY <1>2, InvariantHolds, ExclusiveHolds, PTL DEF Spec, LossesAreEdits
=============================================================================

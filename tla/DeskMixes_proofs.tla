---------------------------- MODULE DeskMixes_proofs ----------------------------
(***************************************************************************)
(* For every size of the tables, every pool and every sequence of requests: *)
(* a desk has each main of its model exactly once, and no two mixes of one  *)
(* pool have the same number.                                               *)
(*                                                                         *)
(* A desk that is created could find mixes under its id if some were left   *)
(* there: the invariant also says that no mix is on a desk that is gone.    *)
(*                                                                         *)
(* That a model switch gives no number twice is about the two recursions of *)
(* MapMixes, the mixes placed one after another and the walk past the end.  *)
(* Induction is over sets of numbers here: a property that holds of 0 and   *)
(* of k with k - 1 holds up to n (UpTo), since the least number it failed   *)
(* for would be neither.                                                    *)
(***************************************************************************)
EXTENDS DeskRouting_proofs, WellFoundedInduction

IsMain(table, i, c, slot) ==
    table[i].desk = c /\ table[i].kind = "main" /\ table[i].slot = slot

HasMains(table, c, m) == \A slot \in MainSlots(m) : \E i \in MixIds : IsMain(table, i, c, slot)

MainsOnce(table, c) ==
    \A i, j \in MixIds : \A slot : IsMain(table, i, c, slot) /\ IsMain(table, j, c, slot) => i = j

MixesStand == \A i \in MixIds : mix[i].desk \in Desks \cup {Absent}

MInv ==
    /\ MixesStand
    /\ \A c \in Desks : HasMains(mix, c, model[c]) /\ MainsOnce(mix, c)

-----------------------------------------------------------------------------
(* Ensuring mains.                                                          *)

LEMMA EnsureMains ==
    ASSUME NEW STATE modelOf, NEW STATE some, NEW STATE table, NEW STATE rt,
           some \in SUBSET Consoles, table \in [MixIds -> MixRows],
           \A i \in MixIds : table[i].desk # NoDesk,
           EnsureDeskMains(modelOf, some, table, rt)
    PROVE  /\ \A i \in MixIds : mix'[i].desk \in some \/ mix'[i] = table[i]
           /\ \A i \in MixIds : table[i].desk # Absent => mix'[i] = table[i]
           /\ \A c \in some : HasMains(mix', c, modelOf[c])
           /\ \A c \in Consoles : MainsOnce(table, c) => MainsOnce(mix', c)
<1> DEFINE missing == MissingMains(modelOf, table, some)
<1>1. AdoptedMixes(modelOf, table) = table
  BY DEF AdoptedMixes, Adopted
<1>2. PICK idOf \in [missing -> Unused(table)] :
        Numbers(idOf, Unused(table)) /\ mix' = WithMains(table, idOf)
  BY <1>1 DEF EnsureDeskMains
<1>3. \A m, n \in missing : idOf[m] = idOf[n] => m = n
  BY <1>2 DEF Numbers
<1>4. \A m \in missing : /\ m \in some \X (1 .. 3) /\ m[2] \in MainSlots(modelOf[m[1]])
                         /\ \A i \in MixIds : ~IsMain(table, i, m[1], m[2])
  BY DEF MissingMains, IsMain
<1>5. \A c \in some : \A slot \in MainSlots(modelOf[c]) :
        (\A i \in MixIds : ~IsMain(table, i, c, slot)) => <<c, slot>> \in missing
  BY MainSlotsType DEF MissingMains, IsMain
<1>6. \A m \in missing : idOf[m] \in MixIds /\ table[idOf[m]].desk = Absent
  BY <1>2 DEF Unused
<1>7. ASSUME NEW m \in missing
      PROVE  mix'[idOf[m]] = [desk |-> m[1], kind |-> "main", slot |-> m[2], width |-> MainWidth(m[2])]
  <2> DEFINE n == CHOOSE n \in missing : idOf[n] = idOf[m]
  <2>1. n \in missing /\ idOf[n] = idOf[m]
    OBVIOUS
  <2>2. n = m
    <3> HIDE DEF n
    <3> QED
      BY <1>3, <2>1
  <2>3. mix'[idOf[m]] = [desk |-> n[1], kind |-> "main", slot |-> n[2], width |-> MainWidth(n[2])]
    BY <1>2, <1>6 DEF WithMains
  <2> HIDE DEF n
  <2> QED
    BY <2>2, <2>3
<1>8. ASSUME NEW i \in MixIds, \A m \in missing : idOf[m] # i
      PROVE  mix'[i] = table[i]
  BY <1>2, <1>8 DEF WithMains
<1> HIDE DEF missing
<1>9. ASSUME NEW i \in MixIds
      PROVE  mix'[i].desk \in some \/ mix'[i] = table[i]
  <2>1. CASE \E m \in missing : idOf[m] = i
    <3>1. PICK m \in missing : idOf[m] = i
      BY <2>1
    <3>2. mix'[i] = [desk |-> m[1], kind |-> "main", slot |-> m[2], width |-> MainWidth(m[2])]
      BY <1>7, <3>1
    <3>3. m \in some \X (1 .. 3)
      BY <1>4
    <3> QED
      BY <3>2, <3>3
  <2> QED
    BY <1>8, <2>1
<1>10. \A i \in MixIds : table[i].desk # Absent => mix'[i] = table[i]
  BY <1>6, <1>8
<1>11. ASSUME NEW c \in some, NEW slot \in MainSlots(modelOf[c])
       PROVE  \E i \in MixIds : IsMain(mix', i, c, slot)
  <2>1. CASE <<c, slot>> \in missing
    <3> DEFINE m == <<c, slot>>
    <3>1. m \in missing /\ m[1] = c /\ m[2] = slot
      BY <2>1
    <3> HIDE DEF m
    <3>2. mix'[idOf[m]] = [desk |-> c, kind |-> "main", slot |-> slot, width |-> MainWidth(slot)]
      BY <1>7, <3>1
    <3>3. IsMain(mix', idOf[m], c, slot)
      BY <3>2 DEF IsMain
    <3> QED
      BY <1>6, <3>1, <3>3
  <2>2. CASE <<c, slot>> \notin missing
    <3>1. PICK i \in MixIds : IsMain(table, i, c, slot)
      BY <1>5, <2>2
    <3>2. c # Absent
      BY RoutingAssumption
    <3> QED
      BY <1>10, <3>1, <3>2 DEF IsMain
  <2> QED
    BY <2>1, <2>2
<1>12. ASSUME NEW c \in Consoles, MainsOnce(table, c), NEW slot,
              NEW i \in MixIds, NEW j \in MixIds, IsMain(mix', i, c, slot), IsMain(mix', j, c, slot)
       PROVE  i = j
  <2>1. ASSUME NEW k \in MixIds, IsMain(mix', k, c, slot)
        PROVE  \/ IsMain(table, k, c, slot)
               \/ <<c, slot>> \in missing /\ idOf[<<c, slot>>] = k
    <3>1. CASE \E m \in missing : idOf[m] = k
      <4>1. PICK m \in missing : idOf[m] = k
        BY <3>1
      <4>2. mix'[k] = [desk |-> m[1], kind |-> "main", slot |-> m[2], width |-> MainWidth(m[2])]
        BY <1>7, <4>1
      <4>3. m = <<c, slot>>
        BY <1>4, <2>1, <4>1, <4>2 DEF IsMain
      <4> QED
        BY <4>1, <4>3
    <3>2. CASE \A m \in missing : idOf[m] # k
      BY <1>8, <2>1, <3>2 DEF IsMain
    <3> QED
      BY <3>1, <3>2
  <2>2. <<c, slot>> \in missing => ~IsMain(table, i, c, slot) /\ ~IsMain(table, j, c, slot)
    BY <1>4
  <2>3. CASE <<c, slot>> \in missing
    BY <1>12, <2>1, <2>2, <2>3
  <2>4. CASE <<c, slot>> \notin missing
    BY <1>12, <2>1, <2>4 DEF MainsOnce
  <2> QED
    BY <2>3, <2>4
<1>13. \A c \in some : HasMains(mix', c, modelOf[c])
  BY <1>11 DEF HasMains
<1>14. \A c \in Consoles : MainsOnce(table, c) => MainsOnce(mix', c)
  BY <1>12 DEF MainsOnce
<1> QED
  BY <1>9, <1>10, <1>13, <1>14

-----------------------------------------------------------------------------
(* Steps.                                                                   *)

(* A step that leaves the mains of the desks that remain as they are. *)
LEMMA MainsUntouched ==
    ASSUME MInv,
           \A c \in Desks' : /\ c \in Desks /\ MainSlots(model'[c]) = MainSlots(model[c])
                             /\ \A i \in MixIds : \A slot : IsMain(mix', i, c, slot) <=> IsMain(mix, i, c, slot),
           \A i \in MixIds : mix'[i].desk \in Desks' \cup {Absent}
    PROVE  MInv'
<1>1. ASSUME NEW c \in Desks'
      PROVE  HasMains(mix', c, model'[c])
  BY <1>1 DEF MInv, HasMains
<1>2. ASSUME NEW c \in Desks'
      PROVE  MainsOnce(mix', c)
  BY <1>2 DEF MInv, MainsOnce
<1> QED
  BY <1>1, <1>2 DEF MInv, MixesStand, HasMains, MainsOnce, IsMain

LEMMA MixStepKeepsMains ==
    ASSUME IInv, MInv, MixStep
    PROVE  MInv'
<1>1. UNCHANGED model
  BY Frames
<1>2. Desks' = Desks
  BY <1>1 DEF Desks
<1>3. ASSUME NEW c \in Consoles, NEW kind \in UserKinds, NEW width, CreateDeskMix(c, kind, width)
      PROVE  MInv'
  <2> DEFINE w == StoredWidth(model[c], kind, width)
  <2>1. PICK slot \in 1 .. MaxSlot, i \in Unused(mix) :
          mix' = [mix EXCEPT ![i] = [desk |-> c, kind |-> kind, slot |-> slot, width |-> w]]
    BY <1>3 DEF CreateDeskMix
  <2> HIDE DEF w
  <2>2. i \in MixIds /\ mix[i].desk = Absent /\ mix'[i].desk = c /\ mix'[i].kind = kind
    BY <2>1 DEF Unused, IInv, TypeOK
  <2>3. \A j \in MixIds : j # i => mix'[j] = mix[j]
    BY <2>1 DEF IInv, TypeOK
  <2>4. kind # "main"
    BY RoutingAssumption DEF UserMixKinds, Buses
  <2>5. c \in Desks
    BY <1>3 DEF CreateDeskMix
  <2>6. Absent \notin Desks
    BY RoutingAssumption DEF Desks
  <2>7. \A j \in MixIds : mix'[j].desk \in Desks \cup {Absent}
    BY <2>2, <2>3, <2>5 DEF MInv, MixesStand
  <2>8. \A d \in Desks, j \in MixIds : \A s : IsMain(mix', j, d, s) <=> IsMain(mix, j, d, s)
    BY <2>2, <2>3, <2>4, <2>6 DEF IsMain
  <2> QED
    BY <1>1, <1>2, <2>7, <2>8, MainsUntouched
<1>4. ASSUME NEW i \in MixIds, DeleteDeskMix(i)
      PROVE  MInv'
  <2>1. mix' = [mix EXCEPT ![i] = NoMix] /\ mix[i].kind # "main"
    BY <1>4 DEF DeleteDeskMix
  <2>2. mix'[i].desk = Absent
    BY <2>1 DEF NoMix, IInv, TypeOK
  <2>3. \A j \in MixIds : j # i => mix'[j] = mix[j]
    BY <2>1 DEF IInv, TypeOK
  <2>4. Absent \notin Desks
    BY RoutingAssumption DEF Desks
  <2>5. \A j \in MixIds : mix'[j].desk \in Desks \cup {Absent}
    BY <2>2, <2>3 DEF MInv, MixesStand
  <2>6. \A d \in Desks, j \in MixIds : \A s : IsMain(mix', j, d, s) <=> IsMain(mix, j, d, s)
    BY <2>1, <2>2, <2>3, <2>4 DEF IsMain
  <2> QED
    BY <1>1, <1>2, <2>5, <2>6, MainsUntouched
<1>5. ASSUME NEW i \in MixIds, NEW slot \in 1 .. MaxSlot, NEW width \in Widths,
             MixPlaced(i, slot, width),
             mix' = [mix EXCEPT ![i].slot = slot, ![i].width = width]
      PROVE  MInv'
  <2>1. mix[i] \in MixRows
    BY DEF IInv, TypeOK
  <2>2. mix'[i].desk = mix[i].desk /\ mix'[i].kind = mix[i].kind /\ mix'[i].slot = slot
    BY <1>5, <2>1 DEF IInv, TypeOK, MixRows
  <2>3. \A j \in MixIds : j # i => mix'[j] = mix[j]
    BY <1>5 DEF IInv, TypeOK
  <2>4. mix[i].kind = "main" => slot = mix[i].slot
    BY <1>5 DEF MixPlaced
  <2>5. \A j \in MixIds : mix'[j].desk \in Desks \cup {Absent}
    BY <2>2, <2>3 DEF MInv, MixesStand
  <2>6. \A d \in Desks, j \in MixIds : \A s : IsMain(mix', j, d, s) <=> IsMain(mix, j, d, s)
    BY <2>2, <2>3, <2>4 DEF IsMain
  <2> QED
    BY <1>1, <1>2, <2>5, <2>6, MainsUntouched
<1>6. ASSUME NEW i \in MixIds, NEW slot \in 1 .. MaxSlot, NEW width \in Widths,
             RenumberDeskMix(i, slot, width)
      PROVE  MInv'
  BY <1>5, <1>6 DEF RenumberDeskMix
<1>7. ASSUME NEW i \in MixIds, NEW slot \in 1 .. MaxSlot, NEW width \in Widths,
             NEW n \in 0 .. MaxSources, NEW sources \in [1 .. n -> SourcePorts(mix[i].desk)],
             SaveColumn(i, slot, width, sources)
      PROVE  MInv'
  BY <1>5, <1>7 DEF SaveColumn
<1> QED
  BY <1>3, <1>4, <1>6, <1>7 DEF MixStep

-----------------------------------------------------------------------------
(* Desks.                                                                   *)

(* Once mains are ensured on some desks every desk has its mains, when the  *)
(* rows started from held no main of those desks twice and were, for the    *)
(* other desks, the rows there are.                                         *)
LEMMA EnsuredMains ==
    ASSUME MInv, NEW STATE modelOf, NEW STATE some, NEW STATE table, NEW STATE rt,
           some \in SUBSET Consoles, table \in [MixIds -> MixRows],
           \A i \in MixIds : table[i].desk # NoDesk,
           EnsureDeskMains(modelOf, some, table, rt),
           model' = modelOf, some \subseteq Desks',
           \A c \in some : MainsOnce(table, c),
           \A c \in Desks' : c \in some \/ (c \in Desks /\ model'[c] = model[c]),
           \A c \in Consoles : c \notin some => \A i \in MixIds :
                (mix[i].desk = c \/ table[i].desk = c) => table[i] = mix[i],
           \A i \in MixIds : table[i].desk \in Desks' \cup {Absent}
    PROVE  MInv'
<1>1. /\ \A i \in MixIds : mix'[i].desk \in some \/ mix'[i] = table[i]
      /\ \A i \in MixIds : table[i].desk # Absent => mix'[i] = table[i]
      /\ \A c \in some : HasMains(mix', c, modelOf[c])
      /\ \A c \in Consoles : MainsOnce(table, c) => MainsOnce(mix', c)
  BY EnsureMains
<1>2. MixesStand'
  BY <1>1 DEF MixesStand
<1>3. Absent \notin Desks' /\ Desks' \subseteq Consoles
  BY RoutingAssumption DEF Desks
<1>4. ASSUME NEW c \in Desks', c \notin some
      PROVE  HasMains(mix', c, model'[c]) /\ MainsOnce(mix', c)
  <2>1. c \in Desks /\ model'[c] = model[c] /\ c \in Consoles /\ c # Absent
    BY <1>3, <1>4
  <2>2. \A i \in MixIds : \A slot : IsMain(table, i, c, slot) <=> IsMain(mix, i, c, slot)
    BY <1>4, <2>1 DEF IsMain
  <2>3. MainsOnce(table, c) /\ HasMains(table, c, model'[c])
    BY <2>1, <2>2 DEF MInv, MainsOnce, HasMains
  <2>4. \A i \in MixIds : \A slot : IsMain(table, i, c, slot) => IsMain(mix', i, c, slot)
    BY <1>1, <2>1 DEF IsMain
  <2> QED
    BY <1>1, <2>1, <2>3, <2>4 DEF HasMains
<1>5. \A c \in some : HasMains(mix', c, model'[c]) /\ MainsOnce(mix', c)
  BY <1>1
<1>6. \A c \in Desks' : HasMains(mix', c, model'[c]) /\ MainsOnce(mix', c)
  BY <1>4, <1>5
<1> QED
  BY <1>2, <1>6 DEF MInv, HasMains, MainsOnce, IsMain

LEMMA CreateConsoleKeepsMains ==
    ASSUME IInv, MInv, NEW c \in Consoles, NEW m \in Models, CreateConsole(c, m)
    PROVE  MInv'
<1> DEFINE modelOf == [model EXCEPT ![c] = m]
<1>1. m # Absent /\ model \in [Consoles -> AllModels \cup {Absent}]
  BY RoutingAssumption DEF IInv, TypeOK
<1>2. c \notin Desks /\ model' = modelOf /\ EnsureDeskMains(modelOf, {c}, mix, routes)
  BY DEF CreateConsole
<1>3. Desks' = Desks \cup {c} /\ \A d \in Desks : model'[d] = model[d]
  BY <1>1, <1>2 DEF Desks
<1>4. \A i \in MixIds : mix[i].desk # c
  BY <1>2, RoutingAssumption DEF MInv, MixesStand
<1>5. MainsOnce(mix, c)
  BY <1>4 DEF MainsOnce, IsMain
<1>6. /\ mix \in [MixIds -> MixRows]
      /\ \A i \in MixIds : mix[i].desk # NoDesk
      /\ \A i \in MixIds : mix[i].desk \in Desks' \cup {Absent}
  BY <1>3 DEF IInv, TypeOK, NothingWaits, MInv, MixesStand
<1> HIDE DEF modelOf
<1> QED
  BY <1>2, <1>3, <1>5, <1>6, EnsuredMains

LEMMA GetAudioPatchKeepsMains ==
    ASSUME IInv, MInv, GetAudioPatch
    PROVE  MInv'
<1>1. EnsureDeskMains(model, Desks, mix, routes) /\ model' = model /\ Desks' = Desks
  BY Frames DEF GetAudioPatch, Desks
<1>2. /\ mix \in [MixIds -> MixRows]
      /\ \A i \in MixIds : mix[i].desk # NoDesk
      /\ \A i \in MixIds : mix[i].desk \in Desks \cup {Absent}
      /\ \A c \in Desks : MainsOnce(mix, c)
  BY DEF IInv, TypeOK, NothingWaits, MInv, MixesStand
<1>3. Desks \in SUBSET Consoles
  BY DEF Desks
<1> QED
  BY <1>1, <1>2, <1>3, EnsuredMains

LEMMA SwitchKeepsMains ==
    ASSUME IInv, MInv, NEW c \in Consoles, NEW to \in Models, SwitchConsoleModel(c, to)
    PROVE  MInv'
<1> DEFINE placed == MapMixes(to, {x \in Listed(c) : x.kind # "main"})
           dropped == DroppedMains(c, to)
           table == [i \in MixIds |->
                        IF mix[i].desk = c THEN SwitchedMix(i, to, placed, dropped) ELSE mix[i]]
           kept == {r \in routes : \A i \in dropped : ~Names(r, "mix", i)}
           modelOf == [model EXCEPT ![c] = to]
<1>1. to # Absent /\ model \in [Consoles -> AllModels \cup {Absent}]
  BY RoutingAssumption DEF IInv, TypeOK
<1>2. /\ c \in Desks
      /\ \A i \in MixesOf(c) :
            mix[i].kind # "main" => \E s \in 1 .. MaxSlot : s \in MappedTo(i, placed)
      /\ model' = modelOf
      /\ EnsureDeskMains(modelOf, {c}, table, kept)
  BY DEF SwitchConsoleModel
<1>3. Desks' = Desks /\ \A d \in Desks : d # c => model'[d] = model[d]
  BY <1>1, <1>2 DEF Desks
<1>4. \A i \in MixIds : mix[i] \in MixRows /\ mix[i].desk # NoDesk
  BY DEF IInv, TypeOK, NothingWaits
<1>5. ASSUME NEW i \in MixIds, mix[i].desk = c
      PROVE  /\ table[i] \in MixRows
             /\ table[i].desk \in {c, Absent}
             /\ table[i].desk = c /\ table[i].kind = "main" =>
                    mix[i].kind = "main" /\ table[i].slot = mix[i].slot
  <2>1. table[i] = SwitchedMix(i, to, placed, dropped)
    BY <1>5
  <2>2. mix[i].kind # "main" => \E s \in 1 .. MaxSlot : s \in MappedTo(i, placed)
    BY <1>2, <1>5 DEF MixesOf
  <2> HIDE DEF table, placed, dropped
  <2>3. table[i] \in MixRows
    BY <2>1, <2>2, SwitchedMixType DEF IInv
  <2>4. i \notin dropped => table[i].desk = c
    BY <1>5, <2>1, <2>2, SwitchedMixType DEF IInv
  <2>5. CASE i \in dropped
    BY <2>1, <2>3, <2>5, RoutingAssumption DEF SwitchedMix, NoMix
  <2>6. CASE i \notin dropped /\ mix[i].kind # "main"
    <3> DEFINE slot == CHOOSE s \in 1 .. MaxSlot : s \in MappedTo(i, placed)
               width == StoredWidth(to, mix[i].kind, mix[i].width)
    <3>1. table[i] = [mix[i] EXCEPT !.slot = slot, !.width = width]
      BY <2>1, <2>6 DEF SwitchedMix
    <3> HIDE DEF slot, width
    <3>2. table[i].kind = mix[i].kind
      BY <1>4, <3>1 DEF MixRows
    <3> QED
      BY <2>3, <2>4, <2>6, <3>2
  <2>7. CASE i \notin dropped /\ mix[i].kind = "main"
    <3>1. table[i].slot = mix[i].slot
      BY <1>4, <2>1, <2>7 DEF SwitchedMix, MixRows
    <3> QED
      BY <2>3, <2>4, <2>7, <3>1
  <2> QED
    BY <2>5, <2>6, <2>7
<1>6. \A i \in MixIds : mix[i].desk # c => table[i] = mix[i]
  OBVIOUS
<1>7. table \in [MixIds -> MixRows]
  BY <1>4, <1>5
<1> HIDE DEF table, kept, modelOf
<1>8. \A i \in MixIds : table[i].desk # NoDesk
  BY <1>4, <1>5, <1>6, RoutingAssumption
<1>9. \A i \in MixIds : table[i].desk \in Desks' \cup {Absent}
  BY <1>2, <1>3, <1>5, <1>6 DEF MInv, MixesStand
<1>10. \A i \in MixIds : \A slot : IsMain(table, i, c, slot) => IsMain(mix, i, c, slot)
  BY <1>5, <1>6 DEF IsMain
<1>11. MainsOnce(table, c)
  BY <1>2, <1>10 DEF MInv, MainsOnce
<1>12. \A d \in Consoles : d # c => \A i \in MixIds :
            (mix[i].desk = d \/ table[i].desk = d) => table[i] = mix[i]
  BY <1>5, <1>6, RoutingAssumption
<1>13. {c} \subseteq Desks' /\ {c} \in SUBSET Consoles
  BY <1>2, <1>3
<1> QED
  BY <1>2, <1>3, <1>7, <1>8, <1>9, <1>11, <1>12, <1>13, EnsuredMains

LEMMA OtherDeskStepsKeepMains ==
    ASSUME IInv, MInv, NEW c \in Consoles, NEW m \in Models, DeleteConsole(c) \/ SetBusMode(c, m)
    PROVE  MInv'
<1>1. model \in [Consoles -> AllModels \cup {Absent}] /\ m # Absent
  BY RoutingAssumption DEF IInv, TypeOK
<1>2. CASE DeleteConsole(c)
  <2>1. Desks' = Desks \ {c} /\ \A d \in Desks' : model'[d] = model[d]
    BY <1>1, <1>2 DEF DeleteConsole, Desks
  <2>2. \A i \in MixIds : mix'[i] = IF mix[i].desk = c THEN NoMix ELSE mix[i]
    BY <1>2 DEF DeleteConsole
  <2>3. NoMix.desk = Absent /\ Absent \notin Consoles
    BY RoutingAssumption DEF NoMix
  <2>4. \A i \in MixIds : mix'[i].desk \in Desks' \cup {Absent}
    BY <2>1, <2>2, <2>3 DEF MInv, MixesStand
  <2>5. \A d \in Desks', i \in MixIds : \A slot : IsMain(mix', i, d, slot) <=> IsMain(mix, i, d, slot)
    BY <2>1, <2>2, <2>3 DEF IsMain, Desks
  <2> QED
    BY <2>1, <2>4, <2>5, MainsUntouched
<1>3. CASE SetBusMode(c, m)
  <2>1. model[c] \in BusModeModels /\ m \in BusModeModels /\ model' = [model EXCEPT ![c] = m] /\ mix' = mix
    BY <1>3 DEF SetBusMode
  <2>2. MainSlots(m) = MainSlots(model[c])
    BY <2>1 DEF MainSlots, BusModeModels
  <2>3. Desks' = Desks
    BY <1>1, <1>3, <2>1 DEF SetBusMode, Desks
  <2>4. \A d \in Desks' : MainSlots(model'[d]) = MainSlots(model[d])
    BY <1>1, <2>1, <2>2, <2>3 DEF Desks
  <2>5. \A i \in MixIds : mix'[i].desk \in Desks' \cup {Absent}
    BY <2>1, <2>3 DEF MInv, MixesStand
  <2> QED
    BY <2>1, <2>3, <2>4, <2>5, MainsUntouched
<1> QED
  BY <1>2, <1>3

-----------------------------------------------------------------------------
(* The invariant.                                                           *)

LEMMA MainsKept ==
    ASSUME IInv, MInv, [Next]_vars
    PROVE  MInv'
<1>1. CASE UNCHANGED <<model, mix>>
  BY <1>1 DEF MInv, MixesStand, HasMains, MainsOnce, IsMain, Desks
<1>2. UNCHANGED vars \/ RowStep \/ RecorderStep => UNCHANGED <<model, mix>>
  BY Frames DEF vars
<1>3. ASSUME NEW c \in Consoles, NEW chs, NEW outs, PlaceOnConsole(c, chs, outs)
      PROVE  UNCHANGED <<model, mix>>
  BY <1>3 DEF PlaceOnConsole, desks
<1>4. ASSUME NEW c \in Consoles, DeleteConsole(c)
      PROVE  MInv'
  <2>1. SeedModel \in Models
    BY RoutingAssumption
  <2> QED
    BY <1>4, <2>1, OtherDeskStepsKeepMains
<1>5. CASE DeskStep
  BY <1>1, <1>3, <1>4, <1>5, CreateConsoleKeepsMains, GetAudioPatchKeepsMains, SwitchKeepsMains,
     OtherDeskStepsKeepMains DEF DeskStep
<1> QED
  BY <1>1, <1>2, <1>5, MixStepKeepsMains DEF Next

LEMMA InitMains == Init => MInv
<1> SUFFICES ASSUME Init PROVE MInv
  OBVIOUS
<1>1. PICK c \in Consoles : Fresh(c)
  BY DEF Init
<1>2. SeedModel # Absent /\ MainSlots(SeedModel) \subseteq MixIds
  BY RoutingAssumption
<1>3. Desks = {c} /\ model[c] = SeedModel /\ c # Absent
  BY <1>1, <1>2, RoutingAssumption DEF Fresh, Desks
<1>4. ASSUME NEW i \in MixIds
      PROVE  /\ mix[i].desk \in {c, Absent}
             /\ \A slot : IsMain(mix, i, c, slot) <=> i \in MainSlots(SeedModel) /\ slot = i
  <2>1. CASE i \in MainSlots(SeedModel)
    <3>1. mix[i] = [desk |-> c, kind |-> "main", slot |-> i, width |-> MainWidth(i)]
      BY <1>1, <2>1 DEF Fresh
    <3> QED
      BY <2>1, <3>1 DEF IsMain
  <2>2. CASE i \notin MainSlots(SeedModel)
    <3>1. mix[i] = NoMix
      BY <1>1, <2>2 DEF Fresh
    <3> QED
      BY <1>3, <2>2, <3>1 DEF IsMain, NoMix
  <2> QED
    BY <2>1, <2>2
<1>5. MixesStand
  BY <1>3, <1>4 DEF MixesStand
<1> QED
  BY <1>2, <1>3, <1>4, <1>5 DEF MInv, HasMains, MainsOnce

LEMMA MainsHold == Spec => []MInv
  BY InitMains, MainsKept, InvariantHolds, PTL DEF Spec

(* A desk has each main of its model exactly once, whatever it was switched *)
(* from, created over or placed on: Main LR is one mix, always there.       *)
THEOREM DesksAlwaysHaveMains == Spec => []DesksHaveMains
<1>1. MInv => DesksHaveMains
  <2> SUFFICES ASSUME MInv, NEW c \in Desks
               PROVE  /\ \A s \in MainSlots(model[c]) :
                            \E i \in MixesOf(c) : mix[i].kind = "main" /\ mix[i].slot = s
                      /\ \A i, j \in MixesOf(c) :
                            /\ mix[i].kind = "main" /\ mix[j].kind = "main"
                            /\ mix[i].slot = mix[j].slot
                            => i = j
    BY DEF DesksHaveMains
  <2> QED
    BY DEF MInv, HasMains, MainsOnce, IsMain, MixesOf
<1> QED
  BY <1>1, MainsHold, PTL

-----------------------------------------------------------------------------
(* Numbers, and functions defined along them.                               *)

(* A set of naturals that is not empty has a least element. *)
LEMMA LeastIsLeast ==
    ASSUME NEW S, S \subseteq Nat, S # {}
    PROVE  Least(S) \in S /\ \A t \in S : Least(S) <= t
<1>1. PICK s \in S : \A t \in S : ~(<<t, s>> \in OpToRel(<, Nat))
  BY NatLessThanWellFounded, WFMin
<1>2. ASSUME NEW t \in S
      PROVE  s <= t
  <2>1. ~(t < s)
    <3>1. OpToRel(<, Nat) = {p \in Nat \X Nat : p[1] < p[2]}
      BY DEF OpToRel
    <3>2. t < s => <<t, s>> \in {p \in Nat \X Nat : p[1] < p[2]}
      OBVIOUS
    <3> QED
      BY <1>1, <3>1, <3>2
  <2> QED
    BY <2>1
<1> QED
  BY <1>2 DEF Least

(* Induction up to n, for the members of a set. *)
LEMMA UpTo ==
    ASSUME NEW n \in Nat, NEW T, 0 \in T, \A k \in 1 .. n : k - 1 \in T => k \in T
    PROVE  \A k \in 0 .. n : k \in T
<1> DEFINE S == {k \in 0 .. n : k \notin T}
<1>1. ASSUME S # {} PROVE FALSE
  <2>1. Least(S) \in S /\ \A k \in S : Least(S) <= k
    <3>1. S \subseteq Nat
      OBVIOUS
    <3> QED
      BY <1>1, <3>1, LeastIsLeast
  <2> DEFINE l == Least(S)
  <2>2. l \in 0 .. n /\ l \notin T /\ \A k \in 0 .. n : k \notin T => l <= k
    BY <2>1
  <2> HIDE DEF l, S
  <2>3. l \in 1 .. n
    BY <2>2
  <2>4. l - 1 \in T
    BY <2>2, <2>3
  <2> QED
    BY <2>2, <2>3, <2>4
<1> QED
  BY <1>1

(* The function that starts with start and goes on by step. *)
Follows(f, n, start, step) ==
    f[0] = start /\ \A k \in 1 .. n : f[k] = step[<<f[k - 1], k>>]

LEMMA RecursionExists ==
    ASSUME NEW S, NEW start \in S, NEW n \in Nat, NEW step \in [S \X (1 .. n) -> S]
    PROVE  \E f \in [0 .. n -> S] : Follows(f, n, start, step)
<1> DEFINE T == {m \in 0 .. n : \E f \in [0 .. m -> S] : Follows(f, m, start, step)}
<1>1. 0 \in T
  <2>1. [k \in 0 .. 0 |-> start] \in [0 .. 0 -> S]
    OBVIOUS
  <2>2. Follows([k \in 0 .. 0 |-> start], 0, start, step)
    BY DEF Follows
  <2> QED
    BY <2>1, <2>2
<1>2. ASSUME NEW m \in 1 .. n, m - 1 \in T
      PROVE  m \in T
  <2>1. PICK f \in [0 .. m - 1 -> S] : Follows(f, m - 1, start, step)
    BY <1>2
  <2> DEFINE last == step[<<f[m - 1], m>>]
             g == [k \in 0 .. m |-> IF k = m THEN last ELSE f[k]]
  <2>2. f[m - 1] \in S
    OBVIOUS
  <2>3. last \in S
    BY <2>2
  <2> HIDE DEF last
  <2>4. g \in [0 .. m -> S]
    BY <2>3
  <2>5. g[0] = start
    BY <2>1 DEF Follows
  <2>6. ASSUME NEW k \in 1 .. m
        PROVE  g[k] = step[<<g[k - 1], k>>]
    <3>1. g[m] = last /\ g[m - 1] = f[m - 1]
      OBVIOUS
    <3>2. g[m] = step[<<g[m - 1], m>>]
      BY <3>1 DEF last
    <3>3. CASE k = m
      BY <3>2, <3>3
    <3>4. CASE k # m
      BY <2>1, <3>4 DEF Follows
    <3> QED
      BY <3>3, <3>4
  <2>7. Follows(g, m, start, step)
    BY <2>5, <2>6 DEF Follows
  <2> HIDE DEF g
  <2> QED
    BY <2>4, <2>7
<1>3. n \in T
  <2> HIDE DEF T
  <2>1. \A k \in 0 .. n : k \in T
    BY <1>1, <1>2, UpTo
  <2> QED
    BY <2>1
<1> QED
  BY <1>3

-----------------------------------------------------------------------------
(* Where a model switch puts one mix.                                       *)

MixRecs == [id : MixIds, kind : UserMixKinds, slot : Nat, width : Widths \cup {"none"}]

SamePool(m, a, b) == PoolOf(m, a) = PoolOf(m, b)

LEMMA SlotWidthType ==
    ASSUME NEW m, NEW kind, NEW width
    PROVE  MixSlotWidth(m, kind, width) \in {1, 2}
  BY DEF MixSlotWidth

LEMMA CapacityType ==
    ASSUME NEW m \in AllModels, NEW kind \in UserMixKinds
    PROVE  PoolCapacity(m, kind) \in Nat
<1>1. PoolOf(m, kind) \in Pools
  BY DEF PoolOf, Pools
<1>2. ~Unbounded(m) => m \in RealModels
  BY DEF Unbounded, Engine, AllModels
<1> QED
  BY <1>1, <1>2, RulesAssumption DEF PoolCapacity

(* A mix that fits beside the others has a number none of its pool has. *)
LEMMA FitsApart ==
    ASSUME NEW m, NEW mix1, NEW others, MixSlotFits(m, mix1, others), mix1.slot \in Int,
           NEW x \in others, x.kind # "main", SamePool(m, x.kind, mix1.kind), x.slot \in Int
    PROVE  x.slot # mix1.slot
<1>1. Span(m, x) \cap Span(m, mix1) = {}
  BY DEF MixSlotFits, PoolMates, SamePool
<1>2. x.slot \in Span(m, x)
  BY SlotWidthType DEF Span
<1>3. mix1.slot \in Span(m, mix1)
  BY SlotWidthType DEF Span
<1> QED
  BY <1>1, <1>2, <1>3

(* A bump never goes back, and leaves the mix behind it. *)
LEMMA BumpPasses ==
    ASSUME NEW to, NEW mix1, NEW slot \in Nat, NEW p, p.slot \in Nat
    PROVE  /\ BumpPast(to, mix1, slot, p) \in Nat
           /\ slot <= BumpPast(to, mix1, slot, p)
           /\ SamePool(to, p.kind, mix1.kind) => p.slot < BumpPast(to, mix1, slot, p)
<1>1. MixSlotWidth(to, p.kind, p.width) \in {1, 2}
  BY SlotWidthType
<1>2. CASE SamePool(to, p.kind, mix1.kind) /\ p.slot >= slot
  <2>1. BumpPast(to, mix1, slot, p) = p.slot + MixSlotWidth(to, p.kind, p.width)
    BY <1>2 DEF BumpPast, SamePool
  <2> QED
    BY <1>1, <1>2, <2>1
<1>3. CASE ~(SamePool(to, p.kind, mix1.kind) /\ p.slot >= slot)
  <2>1. BumpPast(to, mix1, slot, p) = slot
    BY <1>3 DEF BumpPast, SamePool
  <2> QED
    BY <1>3, <2>1
<1> QED
  BY <1>2, <1>3

(* The walk past the end is the recursion it is written as. *)
LEMMA WalkFollows ==
    ASSUME NEW to \in AllModels, NEW mix1 \in MixRecs, NEW n \in Nat, NEW placed \in [1 .. n -> MixRecs],
           Len(placed) = n
    PROVE  \E w \in [0 .. n -> Nat] :
                /\ PastTheEnd(to, mix1, placed) = w[n]
                /\ \A k \in 1 .. n : w[k] = BumpPast(to, mix1, w[k - 1], placed[k])
<1> DEFINE End == PoolCapacity(to, mix1.kind) + 1
           start == IF mix1.slot > End THEN mix1.slot ELSE End
           step == [p \in Nat \X (1 .. n) |-> BumpPast(to, mix1, p[1], placed[p[2]])]
           walk == CHOOSE w : w = [k \in 0 .. n |-> IF k = 0 THEN start
                                                   ELSE BumpPast(to, mix1, w[k - 1], placed[k])]
<1>1. start \in Nat
  BY CapacityType DEF MixRecs
<1>2. step \in [Nat \X (1 .. n) -> Nat]
  <2>1. ASSUME NEW slot \in Nat, NEW k \in 1 .. n
        PROVE  BumpPast(to, mix1, slot, placed[k]) \in Nat
    <3>1. placed[k].slot \in Nat
      BY DEF MixRecs
    <3> QED
      BY <3>1, BumpPasses
  <2> QED
    BY <2>1
<1>3. PastTheEnd(to, mix1, placed) = walk[n]
  BY DEF PastTheEnd
<1> HIDE DEF start
<1>4. PICK f \in [0 .. n -> Nat] : Follows(f, n, start, step)
  <2> HIDE DEF step
  <2> QED
    BY <1>1, <1>2, RecursionExists
<1>5. \A k \in 1 .. n : f[k] = BumpPast(to, mix1, f[k - 1], placed[k])
  <2>1. \A k \in 1 .. n : f[k - 1] \in Nat /\ f[k] = step[<<f[k - 1], k>>]
    <3>1. \A k \in 1 .. n : k - 1 \in 0 .. n
      OBVIOUS
    <3> QED
      BY <1>4, <3>1 DEF Follows
  <2> QED
    BY <2>1
<1>6. f = [k \in 0 .. n |-> IF k = 0 THEN start ELSE BumpPast(to, mix1, f[k - 1], placed[k])]
  BY <1>4, <1>5 DEF Follows
<1>7. walk = [k \in 0 .. n |-> IF k = 0 THEN start ELSE BumpPast(to, mix1, walk[k - 1], placed[k])]
  BY <1>6
<1> HIDE DEF walk
<1>8. walk[0] = start /\ \A k \in 1 .. n : walk[k] = BumpPast(to, mix1, walk[k - 1], placed[k])
  <2>1. \A k \in 0 .. n : walk[k] = IF k = 0 THEN start ELSE BumpPast(to, mix1, walk[k - 1], placed[k])
    BY <1>7
  <2> QED
    BY <2>1
<1>9. \A k \in 0 .. n : walk[k] \in Nat
  <2> DEFINE T == {k \in 0 .. n : walk[k] \in Nat}
  <2>1. 0 \in T
    BY <1>1, <1>8
  <2>2. ASSUME NEW k \in 1 .. n, k - 1 \in T
        PROVE  k \in T
    <3>1. placed[k].slot \in Nat
      BY DEF MixRecs
    <3>2. walk[k - 1] \in Nat
      BY <2>2
    <3> QED
      BY <1>8, <3>1, <3>2, BumpPasses
  <2> HIDE DEF T
  <2>3. \A k \in 0 .. n : k \in T
    BY <2>1, <2>2, UpTo
  <2> QED
    BY <2>3 DEF T
<1>10. walk \in [0 .. n -> Nat]
  <2>1. walk = [k \in 0 .. n |-> walk[k]]
    BY <1>7
  <2> QED
    BY <1>9, <2>1
<1> QED
  BY <1>3, <1>8, <1>10

(* It ends past every mix of the pool. *)
LEMMA PastTheEndIsPast ==
    ASSUME NEW to \in AllModels, NEW mix1 \in MixRecs, NEW n \in Nat, NEW placed \in [1 .. n -> MixRecs],
           Len(placed) = n
    PROVE  /\ PastTheEnd(to, mix1, placed) \in Nat
           /\ \A j \in 1 .. n : SamePool(to, placed[j].kind, mix1.kind)
                => placed[j].slot < PastTheEnd(to, mix1, placed)
<1>1. PICK w \in [0 .. n -> Nat] :
        /\ PastTheEnd(to, mix1, placed) = w[n]
        /\ \A k \in 1 .. n : w[k] = BumpPast(to, mix1, w[k - 1], placed[k])
  BY WalkFollows
<1>2. \A k \in 0 .. n : w[k] \in Nat
  OBVIOUS
<1>3. \A k \in 1 .. n : placed[k].slot \in Nat
  BY DEF MixRecs
<1> DEFINE T == {k \in 0 .. n : \A j \in 1 .. k :
                    SamePool(to, placed[j].kind, mix1.kind) => placed[j].slot < w[k]}
<1>4. 0 \in T
  OBVIOUS
<1>5. ASSUME NEW k \in 1 .. n, k - 1 \in T
      PROVE  k \in T
  <2>1. w[k - 1] \in Nat /\ w[k] \in Nat /\ w[k] >= w[k - 1]
    <3>1. k - 1 \in 0 .. n
      OBVIOUS
    <3>2. w[k - 1] \in Nat /\ w[k] \in Nat
      BY <1>2, <3>1
    <3>3. w[k] = BumpPast(to, mix1, w[k - 1], placed[k])
      BY <1>1
    <3> QED
      BY <1>3, <3>2, <3>3, BumpPasses
  <2>2. SamePool(to, placed[k].kind, mix1.kind) => placed[k].slot < w[k]
    <3>1. w[k] = BumpPast(to, mix1, w[k - 1], placed[k])
      BY <1>1
    <3> QED
      BY <1>3, <2>1, <3>1, BumpPasses
  <2>3. ASSUME NEW j \in 1 .. k - 1, SamePool(to, placed[j].kind, mix1.kind)
        PROVE  placed[j].slot < w[k]
    <3>1. placed[j].slot < w[k - 1]
      BY <1>5, <2>3
    <3> QED
      BY <1>3, <2>1, <3>1
  <2> QED
    BY <2>2, <2>3
<1>6. n \in T
  <2> HIDE DEF T
  <2>1. \A k \in 0 .. n : k \in T
    BY <1>4, <1>5, UpTo
  <2> QED
    BY <2>1
<1> QED
  BY <1>1, <1>2, <1>6

LEMMA FreeIsApart ==
    ASSUME NEW m, NEW kind, NEW width, NEW slots, NEW others,
           NEW s \in FreeSlots(m, kind, width, slots, others), s \in Int,
           NEW x \in others, x.kind # "main", SamePool(m, x.kind, kind), x.slot \in Int
    PROVE  x.slot # s
<1> DEFINE mix1 == [kind |-> kind, slot |-> s, width |-> width]
<1>1. MixSlotFits(m, mix1, others) /\ mix1.kind = kind /\ mix1.slot = s
  BY DEF FreeSlots
<1> HIDE DEF mix1
<1> QED
  BY <1>1, FitsApart

(* Wherever a mix is put, on its own number, the next, the first or past    *)
(* the end, no mix of its pool placed before it is there.                   *)
LEMMA MappedSlotApart ==
    ASSUME NEW to \in AllModels, NEW mix1 \in MixRecs, NEW n \in Nat, NEW placed \in [1 .. n -> MixRecs],
           Len(placed) = n
    PROVE  /\ MappedSlot(to, mix1, placed) \in Nat
           /\ \A j \in 1 .. n : SamePool(to, placed[j].kind, mix1.kind)
                => placed[j].slot # MappedSlot(to, mix1, placed)
<1> DEFINE others == {placed[k] : k \in DOMAIN placed}
           above == FreeSlots(to, mix1.kind, mix1.width, mix1.slot + 1 .. PoolCapacity(to, mix1.kind), others)
           any == FreeSlots(to, mix1.kind, mix1.width, SlotRange(to, mix1.kind, others), others)
           mapped == MappedSlot(to, mix1, placed)
<1>1. mix1.slot \in Nat /\ mix1.kind \in UserMixKinds
  BY DEF MixRecs
<1>2. \A x \in others : x.slot \in Nat /\ x.kind # "main"
  BY DEF MixRecs, UserMixKinds, Buses
<1>3. \A j \in 1 .. n : placed[j] \in others
  OBVIOUS
<1>4. mapped = IF MixSlotFits(to, mix1, others) THEN mix1.slot
               ELSE IF above # {} THEN Least(above)
               ELSE IF any # {} THEN Least(any) ELSE PastTheEnd(to, mix1, placed)
  BY DEF MappedSlot
<1>5. Cardinality(others) \in Nat
  <2>1. placed \in Surjection(1 .. n, others)
    BY DEF Surjection
  <2>2. IsFiniteSet(1 .. n)
    BY FS_Interval
  <2>3. IsFiniteSet(others)
    <3> HIDE DEF others
    <3> QED
      BY <2>1, <2>2, FS_Surjection
  <2> QED
    BY <2>3, FS_CardinalityType
<1>6. PoolCapacity(to, mix1.kind) \in Nat
  BY <1>1, CapacityType
<1>7. above \subseteq Nat /\ any \subseteq Nat
  <2>1. mix1.slot + 1 .. PoolCapacity(to, mix1.kind) \subseteq Nat
    BY <1>1, <1>6
  <2>2. SlotRange(to, mix1.kind, others) \subseteq Nat
    BY <1>5, <1>6 DEF SlotRange
  <2> QED
    BY <2>1, <2>2 DEF FreeSlots
<1> HIDE DEF others, mapped
<1>8. CASE MixSlotFits(to, mix1, others)
  <2>1. mapped = mix1.slot
    BY <1>4, <1>8
  <2>2. \A x \in others : SamePool(to, x.kind, mix1.kind) => x.slot # mix1.slot
    BY <1>1, <1>2, <1>8, FitsApart
  <2> QED
    BY <1>1, <1>3, <2>1, <2>2 DEF mapped
<1>9. ASSUME ~MixSlotFits(to, mix1, others), NEW slots,
             NEW free, free = FreeSlots(to, mix1.kind, mix1.width, slots, others),
             free \subseteq Nat, free # {}, mapped = Least(free)
      PROVE  mapped \in Nat /\ \A j \in 1 .. n : SamePool(to, placed[j].kind, mix1.kind) => placed[j].slot # mapped
  <2>1. mapped \in free /\ mapped \in Nat
    BY <1>9, LeastIsLeast
  <2>2. \A x \in others : SamePool(to, x.kind, mix1.kind) => x.slot # mapped
    BY <1>2, <1>9, <2>1, FreeIsApart
  <2> QED
    BY <1>3, <2>1, <2>2
<1>10. CASE ~MixSlotFits(to, mix1, others) /\ above # {}
  BY <1>4, <1>7, <1>9, <1>10 DEF mapped
<1>11. CASE ~MixSlotFits(to, mix1, others) /\ above = {} /\ any # {}
  BY <1>4, <1>7, <1>9, <1>11 DEF mapped
<1>12. CASE ~MixSlotFits(to, mix1, others) /\ above = {} /\ any = {}
  <2>1. mapped = PastTheEnd(to, mix1, placed)
    BY <1>4, <1>12
  <2>2. \A j \in 1 .. n : placed[j].slot \in Nat
    BY <1>2, <1>3
  <2> QED
    BY <2>1, <2>2, PastTheEndIsPast DEF mapped
<1> QED
  BY <1>8, <1>10, <1>11, <1>12

-----------------------------------------------------------------------------
(* The order the mixes are placed in.                                       *)

LEMMA KindRanks ==
    \E rank \in [UserMixKinds -> 1 .. 6] :
        /\ \A k, l \in UserMixKinds : rank[k] = rank[l] => k = l
        /\ \A a, b : a.kind \in UserMixKinds /\ b.kind \in UserMixKinds =>
            (MapsBefore(a, b) <=>
                \/ rank[a.kind] < rank[b.kind]
                \/ a.kind = b.kind /\ a.slot < b.slot
                \/ a.kind = b.kind /\ a.slot = b.slot /\ a.id < b.id)
<1> DEFINE rank == [kind \in UserMixKinds |-> CHOOSE k \in DOMAIN MixKindOrder : MixKindOrder[k] = kind]
<1>1. DOMAIN MixKindOrder = 1 .. 6
  BY DEF MixKindOrder
<1>2. \A kind \in UserMixKinds : \E k \in 1 .. 6 : MixKindOrder[k] = kind
  <2>1. /\ MixKindOrder[1] = "subgroup" /\ MixKindOrder[2] = "monitor" /\ MixKindOrder[3] = "fx"
        /\ MixKindOrder[4] = "matrix" /\ MixKindOrder[5] = "dca" /\ MixKindOrder[6] = "mute"
    BY DEF MixKindOrder
  <2>2. 1 \in 1 .. 6 /\ 2 \in 1 .. 6 /\ 3 \in 1 .. 6 /\ 4 \in 1 .. 6 /\ 5 \in 1 .. 6 /\ 6 \in 1 .. 6
    OBVIOUS
  <2> QED
    BY <2>1, <2>2 DEF UserMixKinds, Buses
<1>3. \A kind \in UserMixKinds : rank[kind] \in 1 .. 6 /\ MixKindOrder[rank[kind]] = kind
  BY <1>1, <1>2
<1>4. \A a, b : a.kind \in UserMixKinds /\ b.kind \in UserMixKinds =>
        (MapsBefore(a, b) <=>
            \/ rank[a.kind] < rank[b.kind]
            \/ a.kind = b.kind /\ a.slot < b.slot
            \/ a.kind = b.kind /\ a.slot = b.slot /\ a.id < b.id)
  <2> DEFINE Rank(kind) == CHOOSE k \in DOMAIN MixKindOrder : MixKindOrder[k] = kind
  <2>1. \A a, b : MapsBefore(a, b) <=>
            \/ Rank(a.kind) < Rank(b.kind)
            \/ a.kind = b.kind /\ a.slot < b.slot
            \/ a.kind = b.kind /\ a.slot = b.slot /\ a.id < b.id
    BY DEF MapsBefore
  <2>2. \A kind \in UserMixKinds : rank[kind] = Rank(kind)
    OBVIOUS
  <2> HIDE DEF Rank, rank
  <2> QED
    BY <2>1, <2>2
<1>5. rank \in [UserMixKinds -> 1 .. 6]
  <2>1. rank = [kind \in UserMixKinds |-> rank[kind]]
    OBVIOUS
  <2> HIDE DEF rank
  <2> QED
    BY <1>3, <2>1
<1> HIDE DEF rank
<1>6. \A k, l \in UserMixKinds : rank[k] = rank[l] => k = l
  BY <1>3
<1> QED
  BY <1>4, <1>5, <1>6

(* A strict order of any mixes of a desk, which have different ids. *)
LEMMA MapsBeforeIsOrder ==
    ASSUME NEW S \in SUBSET MixRecs, \A x, y \in S : x.id = y.id => x = y
    PROVE  /\ \A x \in S : ~MapsBefore(x, x)
           /\ \A x, y \in S : x # y => MapsBefore(x, y) \/ MapsBefore(y, x)
           /\ \A x, y, z \in S : MapsBefore(x, y) /\ MapsBefore(y, z) => MapsBefore(x, z)
<1>1. PICK rank \in [UserMixKinds -> 1 .. 6] :
        /\ \A k, l \in UserMixKinds : rank[k] = rank[l] => k = l
        /\ \A a, b : a.kind \in UserMixKinds /\ b.kind \in UserMixKinds =>
            (MapsBefore(a, b) <=>
                \/ rank[a.kind] < rank[b.kind]
                \/ a.kind = b.kind /\ a.slot < b.slot
                \/ a.kind = b.kind /\ a.slot = b.slot /\ a.id < b.id)
  BY KindRanks
<1>2. \A x \in S : x.kind \in UserMixKinds /\ x.slot \in Int /\ x.id \in Int /\ rank[x.kind] \in Int
  <2>1. \A x \in S : x.kind \in UserMixKinds /\ x.slot \in Nat /\ x.id \in MixIds
    BY DEF MixRecs
  <2>2. \A i \in MixIds : i \in Int
    BY RoutingAssumption DEF MixIds
  <2> QED
    BY <2>1, <2>2
<1>3. \A x \in S : ~MapsBefore(x, x)
  BY <1>1, <1>2
<1>4. \A x, y \in S : x # y => MapsBefore(x, y) \/ MapsBefore(y, x)
  <2> SUFFICES ASSUME NEW x \in S, NEW y \in S, x # y PROVE MapsBefore(x, y) \/ MapsBefore(y, x)
    OBVIOUS
  <2>1. x.id # y.id
    OBVIOUS
  <2>2. x.kind # y.kind => rank[x.kind] # rank[y.kind]
    BY <1>1, <1>2
  <2> QED
    BY <1>1, <1>2, <2>1, <2>2
<1>5. \A x, y, z \in S : MapsBefore(x, y) /\ MapsBefore(y, z) => MapsBefore(x, z)
  <2> SUFFICES ASSUME NEW x \in S, NEW y \in S, NEW z \in S, MapsBefore(x, y), MapsBefore(y, z)
               PROVE  MapsBefore(x, z)
    OBVIOUS
  <2> QED
    BY <1>1, <1>2
<1> QED
  BY <1>3, <1>4, <1>5

(* Every place in the order is taken by a mix: the number of mixes before   *)
(* it is different for each, and less than there are.                       *)
LEMMA OrderHoldsMixes ==
    ASSUME NEW S \in SUBSET MixRecs, IsFiniteSet(S), \A x, y \in S : x.id = y.id => x = y
    PROVE  \A k \in 1 .. Cardinality(S) : InMapOrder(S)[k] \in S
<1> DEFINE n == Cardinality(S)
           Before(x) == {y \in S : MapsBefore(y, x)}
           rank == [x \in S |-> Cardinality(Before(x))]
<1>1. n \in Nat
  BY FS_CardinalityType
<1>2. /\ \A x \in S : ~MapsBefore(x, x)
      /\ \A x, y \in S : x # y => MapsBefore(x, y) \/ MapsBefore(y, x)
      /\ \A x, y, z \in S : MapsBefore(x, y) /\ MapsBefore(y, z) => MapsBefore(x, z)
  BY MapsBeforeIsOrder
<1>3. \A x \in S : IsFiniteSet(Before(x)) /\ Cardinality(Before(x)) \in Nat
  <2>1. \A x \in S : Before(x) \in SUBSET S
    OBVIOUS
  <2> HIDE DEF Before
  <2> QED
    BY <2>1, FS_Subset, FS_CardinalityType
<1>4. ASSUME NEW x \in S, NEW T \in SUBSET S, IsFiniteSet(T), Before(x) \subseteq T, x \in T
      PROVE  Cardinality(Before(x)) < Cardinality(T)
  <2>1. x \notin Before(x)
    BY <1>2
  <2>2. Cardinality(Before(x)) <= Cardinality(T) /\ Cardinality(T) \in Nat
    BY <1>3, <1>4, FS_Subset, FS_CardinalityType
  <2>3. Cardinality(Before(x)) # Cardinality(T)
    <3> HIDE DEF Before
    <3>1. Before(x) \in SUBSET T
      BY <1>4
    <3>2. Cardinality(T) = Cardinality(Before(x)) => T = Before(x)
      BY <1>4, <3>1, FS_Subset
    <3> QED
      BY <1>4, <2>1, <3>2
  <2>4. Cardinality(Before(x)) \in Nat
    BY <1>3
  <2> HIDE DEF Before
  <2> QED
    BY <2>2, <2>3, <2>4
<1>5. \A x \in S : Cardinality(Before(x)) \in 0 .. n - 1
  <2> SUFFICES ASSUME NEW x \in S PROVE Cardinality(Before(x)) \in 0 .. n - 1
    OBVIOUS
  <2>1. Before(x) \subseteq S
    OBVIOUS
  <2>2. Cardinality(Before(x)) < n /\ Cardinality(Before(x)) \in Nat
    BY <1>3, <1>4, <2>1
  <2> HIDE DEF Before, n
  <2> QED
    BY <1>1, <2>2
<1>6. \A x, y \in S : MapsBefore(x, y) => Cardinality(Before(x)) < Cardinality(Before(y))
  <2> SUFFICES ASSUME NEW x \in S, NEW y \in S, MapsBefore(x, y)
               PROVE  Cardinality(Before(x)) < Cardinality(Before(y))
    OBVIOUS
  <2>1. Before(x) \subseteq Before(y) /\ x \in Before(y) /\ Before(y) \in SUBSET S
    BY <1>2
  <2>2. IsFiniteSet(Before(y))
    BY <1>3
  <2> HIDE DEF Before
  <2> QED
    BY <1>4, <2>1, <2>2
<1>7. rank \in Injection(S, 0 .. n - 1)
  <2>1. \A x, y \in S : rank[x] = rank[y] => x = y
    <3> SUFFICES ASSUME NEW x \in S, NEW y \in S, x # y PROVE rank[x] # rank[y]
      OBVIOUS
    <3>1. Cardinality(Before(x)) \in Nat /\ Cardinality(Before(y)) \in Nat
      BY <1>3
    <3>2. Cardinality(Before(x)) < Cardinality(Before(y)) \/ Cardinality(Before(y)) < Cardinality(Before(x))
      BY <1>2, <1>6
    <3>3. rank[x] = Cardinality(Before(x)) /\ rank[y] = Cardinality(Before(y))
      OBVIOUS
    <3> HIDE DEF Before, rank
    <3> QED
      BY <3>1, <3>2, <3>3
  <2>2. rank \in [S -> 0 .. n - 1]
    <3> HIDE DEF Before, n
    <3> QED
      BY <1>5
  <2> HIDE DEF rank, n
  <2> QED
    BY <2>1, <2>2 DEF Injection, IsInjective
<1>8. rank \in Surjection(S, 0 .. n - 1)
  <2>1. IsFiniteSet(0 .. n - 1) /\ Cardinality(0 .. n - 1) = n
    <3> HIDE DEF n
    <3>1. 0 \in Int /\ n - 1 \in Int
      BY <1>1
    <3> QED
      BY <1>1, <3>1, FS_Interval
  <2> HIDE DEF rank
  <2> QED
    BY <1>7, <2>1, FS_Injection
<1>9. ASSUME NEW k \in 1 .. n
      PROVE  \E x \in S : Cardinality(Before(x)) = k - 1
  <2>1. k - 1 \in 0 .. n - 1
    <3> HIDE DEF n
    <3> QED
      BY <1>1
  <2>2. PICK x \in S : rank[x] = k - 1
    <3> HIDE DEF rank, n
    <3> QED
      BY <1>8, <2>1 DEF Surjection
  <2> QED
    BY <2>2
<1>10. \A k \in 1 .. n : InMapOrder(S)[k] = CHOOSE x \in S : Cardinality(Before(x)) = k - 1
  BY DEF InMapOrder
<1> HIDE DEF Before
<1> QED
  BY <1>9, <1>10

-----------------------------------------------------------------------------
(* The mapping.                                                             *)

(* One more mix is placed: with its id and kind, apart from its pool. *)
LEMMA PlaceNextApart ==
    ASSUME NEW to \in AllModels, NEW placed \in Seq(MixRecs), NEW old \in MixRecs
    PROVE  /\ PlaceNext(to, placed, old) \in Seq(MixRecs)
           /\ Len(PlaceNext(to, placed, old)) = Len(placed) + 1
           /\ \A j \in 1 .. Len(placed) : PlaceNext(to, placed, old)[j] = placed[j]
           /\ PlaceNext(to, placed, old)[Len(placed) + 1].id = old.id
           /\ PlaceNext(to, placed, old)[Len(placed) + 1].kind = old.kind
           /\ \A j \in 1 .. Len(placed) : SamePool(to, placed[j].kind, old.kind)
                => placed[j].slot # PlaceNext(to, placed, old)[Len(placed) + 1].slot
<1> DEFINE mix1 == [old EXCEPT !.width = StoredWidth(to, old.kind, old.width)]
           slot == MappedSlot(to, mix1, placed)
           new == [mix1 EXCEPT !.slot = slot]
           n == Len(placed)
<1>1. mix1 \in MixRecs /\ mix1.id = old.id /\ mix1.kind = old.kind
  <2>1. StoredWidth(to, old.kind, old.width) \in Widths \cup {"none"}
    BY StoredWidthType DEF MixRecs
  <2> QED
    BY <2>1 DEF MixRecs
<1>2. PlaceNext(to, placed, old) = Append(placed, new)
  BY DEF PlaceNext
<1> HIDE DEF mix1
<1>3. n \in Nat /\ placed \in [1 .. n -> MixRecs]
  OBVIOUS
<1>4. slot \in Nat /\ \A j \in 1 .. n : SamePool(to, placed[j].kind, mix1.kind) => placed[j].slot # slot
  <2> HIDE DEF n, slot
  <2>1. Len(placed) = n
    BY DEF n
  <2> QED
    BY <1>1, <1>3, <2>1, MappedSlotApart DEF slot
<1> HIDE DEF slot
<1>5. new \in MixRecs /\ new.id = old.id /\ new.kind = old.kind /\ new.slot = slot
  BY <1>1, <1>4 DEF MixRecs
<1> HIDE DEF new
<1>6. /\ Append(placed, new) \in Seq(MixRecs)
      /\ Len(Append(placed, new)) = n + 1
      /\ \A j \in 1 .. n : Append(placed, new)[j] = placed[j]
      /\ Append(placed, new)[n + 1] = new
  BY <1>5
<1> QED
  BY <1>1, <1>2, <1>4, <1>5, <1>6

(* MapMixes is the recursion it is written as. *)
Placing(to, order, n) ==
    CHOOSE p : p = [k \in 0 .. n |-> IF k = 0 THEN <<>> ELSE PlaceNext(to, p[k - 1], order[k])]

LEMMA PlacingFollows ==
    ASSUME NEW to \in AllModels, NEW order, NEW n \in Nat, \A k \in 1 .. n : order[k] \in MixRecs
    PROVE  /\ Placing(to, order, n)[0] = <<>>
           /\ \A k \in 1 .. n :
                Placing(to, order, n)[k] = PlaceNext(to, Placing(to, order, n)[k - 1], order[k])
<1> DEFINE placing == Placing(to, order, n)
<1> DEFINE step == [p \in Seq(MixRecs) \X (1 .. n) |-> PlaceNext(to, p[1], order[p[2]])]
<1>1. step \in [Seq(MixRecs) \X (1 .. n) -> Seq(MixRecs)]
  BY PlaceNextApart
<1>2. <<>> \in Seq(MixRecs)
  OBVIOUS
<1>3. PICK f \in [0 .. n -> Seq(MixRecs)] : Follows(f, n, <<>>, step)
  <2> HIDE DEF step
  <2> QED
    BY <1>1, <1>2, RecursionExists
<1>4. \A k \in 1 .. n : f[k] = PlaceNext(to, f[k - 1], order[k])
  <2>1. \A k \in 1 .. n : f[k - 1] \in Seq(MixRecs) /\ f[k] = step[<<f[k - 1], k>>]
    <3>1. \A k \in 1 .. n : k - 1 \in 0 .. n
      OBVIOUS
    <3> QED
      BY <1>3, <3>1 DEF Follows
  <2> QED
    BY <2>1
<1>5. f = [k \in 0 .. n |-> IF k = 0 THEN <<>> ELSE PlaceNext(to, f[k - 1], order[k])]
  BY <1>3, <1>4 DEF Follows
<1>6. placing = [k \in 0 .. n |-> IF k = 0 THEN <<>> ELSE PlaceNext(to, placing[k - 1], order[k])]
  BY <1>5 DEF Placing
<1> HIDE DEF placing, step
<1>7. \A k \in 0 .. n : placing[k] = IF k = 0 THEN <<>> ELSE PlaceNext(to, placing[k - 1], order[k])
  BY <1>6
<1>8. placing[0] = <<>>
  BY <1>7
<1>9. \A k \in 1 .. n : k \in 0 .. n /\ k # 0
  OBVIOUS
<1>10. \A k \in 1 .. n : placing[k] = PlaceNext(to, placing[k - 1], order[k])
  BY <1>7, <1>9
<1> QED
  BY <1>8, <1>10 DEF placing

(* The mapping of a model switch never gives two mixes of one pool the same *)
(* number, the ones it leaves out past the end included.                    *)
LEMMA MappedApart ==
    ASSUME NEW to \in AllModels, NEW S \in SUBSET MixRecs, IsFiniteSet(S),
           \A x, y \in S : x.id = y.id => x = y
    PROVE  /\ MapMixes(to, S) \in Seq(MixRecs)
           /\ \A j \in DOMAIN MapMixes(to, S) : \E x \in S :
                MapMixes(to, S)[j].id = x.id /\ MapMixes(to, S)[j].kind = x.kind
           /\ \A i, j \in DOMAIN MapMixes(to, S) :
                i # j /\ SamePool(to, MapMixes(to, S)[i].kind, MapMixes(to, S)[j].kind)
                    => MapMixes(to, S)[i].slot # MapMixes(to, S)[j].slot
<1> DEFINE n == Cardinality(S)
           order == InMapOrder(S)
           placing == Placing(to, order, n)
<1>1. n \in Nat /\ \A k \in 1 .. n : order[k] \in S /\ order[k] \in MixRecs
  BY OrderHoldsMixes, FS_CardinalityType
<1>2. MapMixes(to, S) = placing[n]
  BY DEF MapMixes, Placing
<1>3. /\ placing[0] = <<>>
      /\ \A k \in 1 .. n : placing[k] = PlaceNext(to, placing[k - 1], order[k])
  <2> HIDE DEF n, order
  <2> QED
    BY <1>1, PlacingFollows
<1> HIDE DEF n, order, placing
<1> DEFINE Good(p, k) ==
             /\ p \in Seq(MixRecs) /\ Len(p) = k
             /\ \A j \in 1 .. k : p[j].id = order[j].id /\ p[j].kind = order[j].kind
             /\ \A i, j \in 1 .. k : i # j /\ SamePool(to, p[i].kind, p[j].kind) => p[i].slot # p[j].slot
           T == {k \in 0 .. n : Good(placing[k], k)}
<1>4. 0 \in T
  <2>1. <<>> \in Seq(MixRecs) /\ Len(<<>>) = 0 /\ 1 .. 0 = {}
    OBVIOUS
  <2>2. Good(<<>>, 0)
    BY <2>1
  <2>3. 0 \in 0 .. n
    BY <1>1
  <2> HIDE DEF Good
  <2>4. Good(placing[0], 0)
    BY <1>3, <2>2
  <2> QED
    BY <2>3, <2>4
<1>5. ASSUME NEW k \in 1 .. n, k - 1 \in T
      PROVE  k \in T
  <2> DEFINE p == placing[k - 1]
             q == placing[k]
  <2>1. /\ p \in Seq(MixRecs) /\ Len(p) = k - 1
        /\ \A j \in 1 .. k - 1 : p[j].id = order[j].id /\ p[j].kind = order[j].kind
        /\ \A i, j \in 1 .. k - 1 : i # j /\ SamePool(to, p[i].kind, p[j].kind) => p[i].slot # p[j].slot
    BY <1>5
  <2>2. q = PlaceNext(to, p, order[k]) /\ order[k] \in MixRecs
    BY <1>1, <1>3
  <2> HIDE DEF p, q
  <2>3. /\ q \in Seq(MixRecs)
        /\ Len(q) = Len(p) + 1
        /\ \A j \in 1 .. Len(p) : q[j] = p[j]
        /\ q[Len(p) + 1].id = order[k].id
        /\ q[Len(p) + 1].kind = order[k].kind
        /\ \A j \in 1 .. Len(p) : SamePool(to, p[j].kind, order[k].kind) => p[j].slot # q[Len(p) + 1].slot
    <3> HIDE DEF Good, T
    <3> DEFINE x == order[k]
               new == PlaceNext(to, p, x)
    <3>1. p \in Seq(MixRecs) /\ x \in MixRecs
      BY <2>1, <2>2
    <3> HIDE DEF x
    <3>2. /\ new \in Seq(MixRecs)
          /\ Len(new) = Len(p) + 1
          /\ \A j \in 1 .. Len(p) : new[j] = p[j]
          /\ new[Len(p) + 1].id = x.id
          /\ new[Len(p) + 1].kind = x.kind
          /\ \A j \in 1 .. Len(p) : SamePool(to, p[j].kind, x.kind) => p[j].slot # new[Len(p) + 1].slot
      BY <3>1, PlaceNextApart
    <3>3. q = new /\ x = order[k]
      BY <2>2 DEF x
    <3> HIDE DEF new
    <3> QED
      BY <3>2, <3>3
  <2>4. Len(p) = k - 1 /\ Len(p) + 1 = k
    BY <2>1
  <2>5. \A j \in 1 .. k : q[j].id = order[j].id /\ q[j].kind = order[j].kind
    BY <2>1, <2>3, <2>4
  <2>6. \A j \in 1 .. k - 1 : SamePool(to, q[j].kind, q[k].kind) => q[j].slot # q[k].slot
    BY <2>3, <2>4
  <2>7. \A i, j \in 1 .. k - 1 : i # j /\ SamePool(to, q[i].kind, q[j].kind) => q[i].slot # q[j].slot
    BY <2>1, <2>3, <2>4
  <2>8. \A i, j \in 1 .. k : i # j /\ SamePool(to, q[i].kind, q[j].kind) => q[i].slot # q[j].slot
    <3> SUFFICES ASSUME NEW i \in 1 .. k, NEW j \in 1 .. k, i # j, SamePool(to, q[i].kind, q[j].kind)
                 PROVE  q[i].slot # q[j].slot
      OBVIOUS
    <3>1. CASE i = k
      <4>1. j \in 1 .. k - 1 /\ SamePool(to, q[j].kind, q[k].kind)
        BY <3>1 DEF SamePool
      <4> QED
        BY <2>6, <3>1, <4>1
    <3>2. CASE j = k
      <4>1. i \in 1 .. k - 1
        BY <3>2
      <4> QED
        BY <2>6, <3>2, <4>1
    <3>3. CASE i # k /\ j # k
      <4>1. i \in 1 .. k - 1 /\ j \in 1 .. k - 1
        BY <3>3
      <4> QED
        BY <2>7, <4>1
    <3> QED
      BY <3>1, <3>2, <3>3
  <2>9. Good(q, k)
    BY <2>3, <2>4, <2>5, <2>8
  <2> QED
    BY <2>9 DEF q
<1>6. Good(placing[n], n)
  <2>1. n \in T
    <3> HIDE DEF T
    <3>1. \A k \in 0 .. n : k \in T
      BY <1>1, <1>4, <1>5, UpTo
    <3> QED
      BY <1>1, <3>1
  <2> QED
    BY <2>1
<1>7. DOMAIN placing[n] = 1 .. n
  BY <1>6
<1> QED
  BY <1>1, <1>2, <1>6, <1>7

-----------------------------------------------------------------------------
(* The numbers of a desk's mixes.                                           *)

UserMix(table, i, c) == table[i].desk = c /\ table[i].kind # "main"

NumbersOnce(table, c, m) ==
    \A i, j \in MixIds :
        /\ UserMix(table, i, c) /\ UserMix(table, j, c)
        /\ SamePool(m, table[i].kind, table[j].kind)
        /\ table[i].slot = table[j].slot
        => i = j

KindsKnown == \A i \in MixIds : mix[i].desk # Absent => mix[i].kind \in MixKinds

NInv ==
    /\ KindsKnown
    /\ \A c \in Desks : NumbersOnce(mix, c, model[c])

(* Ensuring mains adds mains only. *)
LEMMA EnsureAddsOnlyMains ==
    ASSUME NEW STATE modelOf, NEW STATE some, NEW STATE table, NEW STATE rt,
           \A i \in MixIds : table[i].desk # NoDesk,
           table \in [MixIds -> MixRows],
           EnsureDeskMains(modelOf, some, table, rt)
    PROVE  \A i \in MixIds : mix'[i] = table[i] \/ mix'[i].kind = "main"
<1>1. AdoptedMixes(modelOf, table) = table
  BY DEF AdoptedMixes, Adopted
<1>2. PICK idOf \in [MissingMains(modelOf, table, some) -> Unused(table)] : mix' = WithMains(table, idOf)
  BY <1>1 DEF EnsureDeskMains
<1>3. ASSUME NEW i \in MixIds
      PROVE  mix'[i] = table[i] \/ mix'[i].kind = "main"
  <2>1. CASE \E m \in DOMAIN idOf : idOf[m] = i
    <3> DEFINE m == CHOOSE m \in DOMAIN idOf : idOf[m] = i
    <3>1. mix'[i] = [desk |-> m[1], kind |-> "main", slot |-> m[2], width |-> MainWidth(m[2])]
      BY <1>2, <2>1 DEF WithMains
    <3> QED
      BY <3>1
  <2>2. CASE ~ \E m \in DOMAIN idOf : idOf[m] = i
    BY <1>2, <2>2 DEF WithMains
  <2> QED
    BY <2>1, <2>2
<1> QED
  BY <1>3

(* A step that numbers no mix, and leaves the pools of the desks alone. *)
LEMMA NumbersUntouched ==
    ASSUME NInv,
           \A c \in Desks' : c \in Desks /\ Engine(model'[c]) = Engine(model[c]),
           \A c \in Desks' : \A i \in MixIds : UserMix(mix', i, c)
                => UserMix(mix, i, c) /\ mix'[i].kind = mix[i].kind /\ mix'[i].slot = mix[i].slot,
           KindsKnown'
    PROVE  NInv'
<1>1. ASSUME NEW c \in Desks'
      PROVE  NumbersOnce(mix', c, model'[c])
  <2>1. c \in Desks /\ NumbersOnce(mix, c, model[c])
    BY DEF NInv
  <2>2. \A a, b : SamePool(model'[c], a, b) <=> SamePool(model[c], a, b)
    BY DEF SamePool, PoolOf
  <2> QED
    BY <2>1, <2>2 DEF NumbersOnce
<1> QED
  BY <1>1 DEF NInv, NumbersOnce, UserMix

(* A step that numbers one mix, apart from its pool. *)
LEMMA NumberedApart ==
    ASSUME NInv, Desks' = Desks, model' = model, NEW i \in MixIds, NEW c \in Desks,
           \A j \in MixIds : j # i => mix'[j] = mix[j],
           mix'[i].desk = c, mix'[i].kind \in MixKinds,
           \A j \in MixIds :
                j # i /\ UserMix(mix, j, c) /\ SamePool(model[c], mix[j].kind, mix'[i].kind)
                    => mix[j].slot # mix'[i].slot
    PROVE  NInv'
<1>1. KindsKnown'
  BY DEF NInv, KindsKnown
<1>2. ASSUME NEW d \in Desks', d # c
      PROVE  NumbersOnce(mix', d, model'[d])
  BY <1>2 DEF NInv, NumbersOnce, UserMix
<1>3. NumbersOnce(mix', c, model'[c])
  <2>1. NumbersOnce(mix, c, model[c])
    BY DEF NInv
  <2> SUFFICES ASSUME NEW a \in MixIds, NEW b \in MixIds, a # b,
                      UserMix(mix', a, c), UserMix(mix', b, c),
                      SamePool(model[c], mix'[a].kind, mix'[b].kind),
                      mix'[a].slot = mix'[b].slot
               PROVE  FALSE
    BY DEF NumbersOnce
  <2>2. CASE a = i
    BY <2>2 DEF SamePool, UserMix
  <2>3. CASE b = i
    BY <2>3 DEF UserMix
  <2>4. CASE a # i /\ b # i
    BY <2>1, <2>4 DEF NumbersOnce, UserMix
  <2> QED
    BY <2>2, <2>3, <2>4
<1>4. \A d \in Desks' : NumbersOnce(mix', d, model'[d])
  BY <1>2, <1>3
<1> QED
  BY <1>1, <1>4 DEF NInv, NumbersOnce, UserMix

-----------------------------------------------------------------------------
(* The list a mix is placed beside.                                         *)

Listing(i) == [id |-> i, kind |-> mix[i].kind, slot |-> mix[i].slot, width |-> mix[i].width]

LEMMA ListedFinite ==
    ASSUME NEW c
    PROVE  IsFiniteSet(Listed(c)) /\ Cardinality(Listed(c)) \in Nat
<1>1. IsFiniteSet(MixesOf(c))
  <2>1. IsFiniteSet(MixIds)
    BY RoutingAssumption, FS_Interval DEF MixIds
  <2> QED
    BY <2>1, FS_Subset DEF MixesOf
<1> DEFINE f == [i \in MixesOf(c) |-> Listing(i)]
<1>2. f \in Surjection(MixesOf(c), Listed(c))
  BY DEF Surjection, Listed, Listing
<1>3. IsFiniteSet(Listed(c))
  <2> HIDE DEF f
  <2> QED
    BY <1>1, <1>2, FS_Surjection
<1> QED
  BY <1>3, FS_CardinalityType

LEMMA ListedMixes ==
    ASSUME IInv, NEW c, NEW i \in MixIds, mix[i].desk = c
    PROVE  /\ Listing(i) \in Listed(c)
           /\ Listing(i).id = i /\ Listing(i).kind = mix[i].kind
           /\ Listing(i).slot = mix[i].slot /\ mix[i].slot \in Nat
<1>1. mix[i] \in MixRows
  BY DEF IInv, TypeOK
<1> QED
  BY <1>1, RoutingAssumption DEF Listing, Listed, MixesOf, MixRows

-----------------------------------------------------------------------------
(* Mixes added, renumbered and deleted.                                     *)

LEMMA CreateDeskMixNumbers ==
    ASSUME IInv, NInv, NEW c \in Consoles, NEW kind \in UserKinds, NEW width, CreateDeskMix(c, kind, width)
    PROVE  NInv'
<1> DEFINE w == StoredWidth(model[c], kind, width)
           range == SlotRange(model[c], kind, Listed(c))
           free == FreeSlots(model[c], kind, w, range, Listed(c))
<1>1. c \in Desks /\ free # {} /\ UNCHANGED model
  BY DEF CreateDeskMix, desks
<1>2. PICK slot \in 1 .. MaxSlot, i \in Unused(mix) :
        /\ slot = Least(free)
        /\ mix' = [mix EXCEPT ![i] = [desk |-> c, kind |-> kind, slot |-> slot, width |-> w]]
  BY DEF CreateDeskMix
<1>3. kind \in UserMixKinds /\ model[c] \in AllModels
  BY <1>1, RoutingAssumption DEF IInv, TypeOK, Desks
<1>4. range \subseteq Nat
  <2>1. PoolCapacity(model[c], kind) \in Nat /\ Cardinality(Listed(c)) \in Nat
    BY <1>3, CapacityType, ListedFinite
  <2>2. \E last \in Nat : range = 1 .. last
    BY <2>1 DEF SlotRange
  <2> QED
    BY <2>2
<1> HIDE DEF w, range
<1>5. slot \in free
  <2>1. free \subseteq Nat
    BY <1>4 DEF FreeSlots
  <2> HIDE DEF free
  <2> QED
    BY <1>1, <1>2, <2>1, LeastIsLeast
<1>6. /\ i \in MixIds /\ mix'[i].desk = c /\ mix'[i].kind = kind /\ mix'[i].slot = slot
      /\ \A j \in MixIds : j # i => mix'[j] = mix[j]
  BY <1>2 DEF Unused, IInv, TypeOK
<1>7. ASSUME NEW j \in MixIds, UserMix(mix, j, c), SamePool(model[c], mix[j].kind, kind)
      PROVE  mix[j].slot # slot
  <2>1. /\ Listing(j) \in Listed(c) /\ Listing(j).kind = mix[j].kind
        /\ Listing(j).slot = mix[j].slot /\ mix[j].slot \in Nat
    BY <1>7, ListedMixes DEF UserMix
  <2>2. slot \in Int
    BY RoutingAssumption
  <2> QED
    BY <1>5, <1>7, <2>1, <2>2, FreeIsApart DEF UserMix
<1>8. Desks' = Desks /\ kind \in MixKinds
  BY <1>1, <1>3 DEF Desks, MixKinds
<1> QED
  BY <1>1, <1>6, <1>7, <1>8, NumberedApart

LEMMA RenumberedApart ==
    ASSUME IInv, NInv, NEW i \in MixIds, NEW slot \in 1 .. MaxSlot, NEW width \in Widths,
           mix[i].desk \in Desks, MixPlaced(i, slot, width), UNCHANGED model,
           mix' = [mix EXCEPT ![i].slot = slot, ![i].width = width]
    PROVE  NInv'
<1> DEFINE c == mix[i].desk
           moved == [kind |-> mix[i].kind, slot |-> slot, width |-> width]
           others == {x \in Listed(c) : x.id # i}
<1>1. mix[i] \in MixRows /\ c \in Consoles
  BY DEF IInv, TypeOK, Desks
<1>2. /\ mix'[i].desk = c /\ mix'[i].kind = mix[i].kind /\ mix'[i].slot = slot
      /\ \A j \in MixIds : j # i => mix'[j] = mix[j]
  BY <1>1 DEF IInv, TypeOK, MixRows
<1>3. Desks' = Desks /\ c # Absent
  BY <1>1, RoutingAssumption DEF Desks
<1>4. mix[i].kind \in MixKinds
  BY <1>3 DEF NInv, KindsKnown
<1>5. ASSUME NEW j \in MixIds, j # i, UserMix(mix, j, c), SamePool(model[c], mix[j].kind, mix[i].kind)
      PROVE  mix[j].slot # slot
  <2>1. /\ Listing(j) \in Listed(c) /\ Listing(j).id = j /\ Listing(j).kind = mix[j].kind
        /\ Listing(j).slot = mix[j].slot /\ mix[j].slot \in Nat
    BY <1>5, ListedMixes DEF UserMix
  <2>2. CASE MixSlotFits(model[c], moved, others)
    <3>1. Listing(j) \in others
      BY <1>5, <2>1
    <3>2. moved.kind = mix[i].kind /\ moved.slot = slot /\ slot \in Int
      BY RoutingAssumption
    <3> HIDE DEF moved, others
    <3> QED
      BY <1>5, <2>1, <2>2, <3>1, <3>2, FitsApart DEF UserMix
  <2>3. CASE ~MixSlotFits(model[c], moved, others)
    <3>1. slot = mix[i].slot
      BY <2>3 DEF MixPlaced
    <3>2. mix[i].kind # "main"
      BY <1>4, <1>5, <1>1 DEF SamePool, PoolOf, UserMix, Buses
    <3> QED
      BY <1>5, <3>1, <3>2 DEF NInv, NumbersOnce, UserMix
  <2> QED
    BY <2>2, <2>3
<1>6. /\ mix'[i].kind \in MixKinds
      /\ \A j \in MixIds : j # i /\ UserMix(mix, j, c) /\ SamePool(model[c], mix[j].kind, mix'[i].kind)
            => mix[j].slot # mix'[i].slot
  BY <1>2, <1>4, <1>5
<1>7. c \in Desks
  OBVIOUS
<1> HIDE DEF c, moved, others
<1> QED
  BY <1>2, <1>3, <1>6, <1>7, NumberedApart

LEMMA MixStepKeepsNumbers ==
    ASSUME IInv, NInv, MixStep
    PROVE  NInv'
<1>1. ASSUME NEW c \in Consoles, NEW kind \in UserKinds, NEW width \in Widths, CreateDeskMix(c, kind, width)
      PROVE  NInv'
  BY <1>1, CreateDeskMixNumbers
<1>2. ASSUME NEW i \in MixIds, DeleteDeskMix(i)
      PROVE  NInv'
  <2>1. mix' = [mix EXCEPT ![i] = NoMix] /\ model' = model
    BY <1>2 DEF DeleteDeskMix, desks
  <2>2. mix'[i].desk = Absent /\ \A j \in MixIds : j # i => mix'[j] = mix[j]
    BY <2>1 DEF NoMix, IInv, TypeOK
  <2>3. Desks' = Desks /\ Absent \notin Desks
    BY <2>1, RoutingAssumption DEF Desks
  <2>4. KindsKnown'
    BY <2>2 DEF NInv, KindsKnown
  <2>5. \A c \in Desks' : \A j \in MixIds : UserMix(mix', j, c)
            => UserMix(mix, j, c) /\ mix'[j].kind = mix[j].kind /\ mix'[j].slot = mix[j].slot
    BY <2>2, <2>3 DEF UserMix
  <2> QED
    BY <2>1, <2>3, <2>4, <2>5, NumbersUntouched
<1>3. ASSUME NEW i \in MixIds, NEW slot \in 1 .. MaxSlot, NEW width \in Widths,
             RenumberDeskMix(i, slot, width)
      PROVE  NInv'
  BY <1>3, RenumberedApart DEF RenumberDeskMix, desks
<1>4. ASSUME NEW i \in MixIds, NEW slot \in 1 .. MaxSlot, NEW width \in Widths,
             NEW n \in 0 .. MaxSources, NEW sources \in [1 .. n -> SourcePorts(mix[i].desk)],
             SaveColumn(i, slot, width, sources)
      PROVE  NInv'
  BY <1>4, RenumberedApart DEF SaveColumn, desks
<1> QED
  BY <1>1, <1>2, <1>3, <1>4 DEF MixStep

-----------------------------------------------------------------------------
(* Desks.                                                                   *)

(* A model switch: every mix of the desk takes a number the mapping gave    *)
(* it, and the mapping gave none of a pool twice.                           *)
LEMMA SwitchKeepsNumbers ==
    ASSUME IInv, MInv, NInv, NEW c \in Consoles, NEW to \in Models, SwitchConsoleModel(c, to)
    PROVE  NInv'
<1> DEFINE S == {x \in Listed(c) : x.kind # "main"}
           placed == MapMixes(to, S)
           dropped == DroppedMains(c, to)
           table == [i \in MixIds |->
                        IF mix[i].desk = c THEN SwitchedMix(i, to, placed, dropped) ELSE mix[i]]
           kept == {r \in routes : \A i \in dropped : ~Names(r, "mix", i)}
           modelOf == [model EXCEPT ![c] = to]
<1>1. to # Absent /\ to \in AllModels /\ model \in [Consoles -> AllModels \cup {Absent}] /\ c # Absent
  BY RoutingAssumption DEF IInv, TypeOK
<1>2. /\ c \in Desks
      /\ \A i \in MixesOf(c) :
            mix[i].kind # "main" => \E s \in 1 .. MaxSlot : s \in MappedTo(i, placed)
      /\ model' = modelOf
      /\ EnsureDeskMains(modelOf, {c}, table, kept)
  BY DEF SwitchConsoleModel
<1>3. Desks' = Desks /\ model'[c] = to /\ \A d \in Desks : d # c => model'[d] = model[d]
  BY <1>1, <1>2 DEF Desks
<1>4. \A i \in MixIds : /\ mix[i] \in MixRows /\ mix[i].desk # NoDesk
                        /\ mix[i].desk = c => mix[i].kind \in MixKinds
  BY <1>1 DEF IInv, TypeOK, NothingWaits, NInv, KindsKnown
<1>5. /\ \A x \in S : \E i \in MixIds : x = Listing(i) /\ UserMix(mix, i, c)
      /\ \A i \in MixIds : UserMix(mix, i, c) => Listing(i) \in S
  BY DEF Listed, Listing, MixesOf, UserMix
<1>6. S \in SUBSET MixRecs /\ \A x, y \in S : x.id = y.id => x = y
  <2>1. ASSUME NEW i \in MixIds, UserMix(mix, i, c)
        PROVE  Listing(i) \in MixRecs
    <3>1. /\ mix[i].kind \in UserMixKinds /\ mix[i].slot \in 0 .. MaxSlot
          /\ mix[i].width \in Widths \cup {"none"}
      BY <1>4, <2>1 DEF UserMix, MixKinds, MixRows
    <3>2. mix[i].slot \in Nat
      BY <3>1, RoutingAssumption
    <3> QED
      BY <3>1, <3>2 DEF Listing, MixRecs
  <2>2. \A i \in MixIds : Listing(i).id = i
    BY DEF Listing
  <2> HIDE DEF S
  <2> QED
    BY <1>5, <2>1, <2>2
<1>7. IsFiniteSet(S)
  BY ListedFinite, FS_Subset
<1> HIDE DEF S
<1>8. /\ \A j \in DOMAIN placed : \E x \in S : placed[j].id = x.id /\ placed[j].kind = x.kind
      /\ \A i, j \in DOMAIN placed : i # j /\ SamePool(to, placed[i].kind, placed[j].kind)
            => placed[i].slot # placed[j].slot
  BY <1>1, <1>6, <1>7, MappedApart
<1> HIDE DEF placed, kept, modelOf
<1>9. ASSUME NEW i \in MixIds, UserMix(mix, i, c)
      PROVE  \E k \in DOMAIN placed : /\ placed[k].id = i /\ placed[k].kind = mix[i].kind
                                      /\ placed[k].slot = table[i].slot
                                      /\ table[i].kind = mix[i].kind /\ table[i].desk = c
  <2> DEFINE slot == CHOOSE s \in 1 .. MaxSlot : s \in MappedTo(i, placed)
             width == StoredWidth(to, mix[i].kind, mix[i].width)
  <2>1. i \notin dropped /\ mix[i].kind # "main" /\ mix[i].desk = c
    BY <1>9 DEF DroppedMains, UserMix
  <2>2. table[i] = [mix[i] EXCEPT !.slot = slot, !.width = width]
    BY <2>1 DEF SwitchedMix
  <2>3. slot \in MappedTo(i, placed)
    BY <1>2, <2>1 DEF MixesOf
  <2> HIDE DEF slot, width, table
  <2>4. table[i].slot = slot /\ table[i].kind = mix[i].kind /\ table[i].desk = c
    BY <1>4, <2>1, <2>2 DEF MixRows
  <2>5. PICK k \in DOMAIN placed : placed[k].id = i /\ placed[k].slot = slot
    BY <2>3 DEF MappedTo
  <2>6. PICK x \in S : placed[k].id = x.id /\ placed[k].kind = x.kind
    BY <1>8
  <2>7. x = Listing(i)
    BY <1>5, <2>5, <2>6 DEF Listing
  <2>8. placed[k].kind = mix[i].kind
    BY <2>6, <2>7 DEF Listing
  <2> QED
    BY <2>4, <2>5, <2>8
<1>10. ASSUME NEW i \in MixIds, mix[i].desk = c
       PROVE  /\ table[i] \in MixRows
              /\ table[i].desk \in {c, Absent}
              /\ table[i].desk = c => table[i].kind = mix[i].kind
  <2>1. table[i] = SwitchedMix(i, to, placed, dropped)
    BY <1>10
  <2>2. mix[i].kind # "main" => \E s \in 1 .. MaxSlot : s \in MappedTo(i, placed)
    BY <1>2, <1>10 DEF MixesOf
  <2>3. table[i] \in MixRows /\ (i \notin dropped => table[i].desk = c)
    <3> HIDE DEF table, dropped
    <3> QED
      BY <1>10, <2>1, <2>2, SwitchedMixType DEF IInv
  <2>4. CASE i \in dropped
    BY <1>1, <2>1, <2>3, <2>4 DEF SwitchedMix, NoMix
  <2>5. CASE i \notin dropped /\ mix[i].kind # "main"
    <3>1. UserMix(mix, i, c)
      BY <1>10, <2>5 DEF UserMix
    <3> QED
      BY <1>9, <2>3, <2>5, <3>1
  <2>6. CASE i \notin dropped /\ mix[i].kind = "main"
    <3>1. table[i].kind = mix[i].kind
      BY <1>4, <2>1, <2>6 DEF SwitchedMix, MixRows
    <3> QED
      BY <2>3, <2>6, <3>1
  <2> QED
    BY <2>4, <2>5, <2>6
<1>11. \A i \in MixIds : mix[i].desk # c => table[i] = mix[i]
  OBVIOUS
<1>12. table \in [MixIds -> MixRows]
  BY <1>4, <1>10
<1> HIDE DEF table
<1>13. \A i \in MixIds : table[i].desk # NoDesk
  BY <1>4, <1>10, <1>11, RoutingAssumption
<1>14. \A i \in MixIds : mix'[i] = table[i] \/ mix'[i].kind = "main"
  BY <1>2, <1>12, <1>13, EnsureAddsOnlyMains
<1>15. ASSUME NEW i \in MixIds, NEW d, d # Absent, UserMix(mix', i, d)
       PROVE  mix'[i] = table[i] /\ UserMix(mix, i, d) /\ (d # c => mix'[i] = mix[i])
  BY <1>1, <1>10, <1>11, <1>14, <1>15 DEF UserMix
<1>16. KindsKnown'
  <2>1. ASSUME NEW i \in MixIds, mix'[i].desk # Absent
        PROVE  mix'[i].kind \in MixKinds
    <3>1. CASE mix'[i].kind = "main"
      BY <3>1 DEF MixKinds
    <3>2. CASE mix'[i] = table[i] /\ mix[i].desk = c
      BY <1>4, <1>10, <2>1, <3>2
    <3>3. CASE mix'[i] = table[i] /\ mix[i].desk # c
      BY <1>11, <2>1, <3>3 DEF NInv, KindsKnown
    <3> QED
      BY <1>14, <3>1, <3>2, <3>3
  <2> QED
    BY <2>1 DEF KindsKnown
<1>17. NumbersOnce(mix', c, to)
  <2> SUFFICES ASSUME NEW i \in MixIds, NEW j \in MixIds, i # j,
                      UserMix(mix', i, c), UserMix(mix', j, c),
                      SamePool(to, mix'[i].kind, mix'[j].kind), mix'[i].slot = mix'[j].slot
               PROVE  FALSE
    BY DEF NumbersOnce
  <2>1. UserMix(mix, i, c) /\ mix'[i] = table[i] /\ UserMix(mix, j, c) /\ mix'[j] = table[j]
    BY <1>1, <1>15
  <2>2. PICK k \in DOMAIN placed : /\ placed[k].id = i /\ placed[k].kind = mix[i].kind
                                   /\ placed[k].slot = table[i].slot /\ table[i].kind = mix[i].kind
    BY <1>9, <2>1
  <2>3. PICK l \in DOMAIN placed : /\ placed[l].id = j /\ placed[l].kind = mix[j].kind
                                   /\ placed[l].slot = table[j].slot /\ table[j].kind = mix[j].kind
    BY <1>9, <2>1
  <2>4. k # l /\ SamePool(to, placed[k].kind, placed[l].kind) /\ placed[k].slot = placed[l].slot
    BY <2>1, <2>2, <2>3
  <2> QED
    BY <1>8, <2>4
<1>18. ASSUME NEW d \in Desks, d # c
       PROVE  NumbersOnce(mix', d, model[d])
  <2>1. d # Absent /\ NumbersOnce(mix, d, model[d])
    BY RoutingAssumption DEF NInv, Desks
  <2>2. \A i \in MixIds : UserMix(mix', i, d) => UserMix(mix, i, d) /\ mix'[i] = mix[i]
    BY <1>15, <1>18, <2>1
  <2> QED
    BY <2>1, <2>2 DEF NumbersOnce
<1>19. \A d \in Desks' : NumbersOnce(mix', d, model'[d])
  BY <1>3, <1>17, <1>18
<1> QED
  BY <1>16, <1>19 DEF NInv, NumbersOnce, UserMix

(* Reading the patch and creating a desk add mains only, a bus mode keeps   *)
(* the pools, and a desk that is deleted takes its mixes with it.           *)
LEMMA DeskStepKeepsNumbers ==
    ASSUME IInv, MInv, NInv, DeskStep
    PROVE  NInv'
<1>1. model \in [Consoles -> AllModels \cup {Absent}] /\ mix \in [MixIds -> MixRows]
  BY DEF IInv, TypeOK
<1>2. \A i \in MixIds : mix[i].desk # NoDesk
  BY DEF IInv, NothingWaits
<1>3. Absent \notin Desks /\ Absent \notin Consoles
  BY RoutingAssumption DEF Desks
<1>4. ASSUME \A i \in MixIds : mix'[i] = mix[i] \/ mix'[i].kind = "main"
      PROVE  /\ KindsKnown'
             /\ \A c : \A i \in MixIds : UserMix(mix', i, c) => mix'[i] = mix[i] /\ UserMix(mix, i, c)
  <2>1. KindsKnown'
    BY <1>4 DEF NInv, KindsKnown, MixKinds
  <2> QED
    BY <1>4, <2>1 DEF UserMix
<1>5. CASE GetAudioPatch
  <2>1. EnsureDeskMains(model, Desks, mix, routes) /\ model' = model /\ Desks' = Desks
    BY <1>5, Frames DEF GetAudioPatch, Desks
  <2>2. \A i \in MixIds : mix'[i] = mix[i] \/ mix'[i].kind = "main"
    BY <1>1, <1>2, <2>1, EnsureAddsOnlyMains
  <2> QED
    BY <1>4, <2>1, <2>2, NumbersUntouched
<1>6. ASSUME NEW c \in Consoles, NEW m \in Models, CreateConsole(c, m)
      PROVE  NInv'
  <2> DEFINE modelOf == [model EXCEPT ![c] = m]
  <2>1. c \notin Desks /\ model' = modelOf /\ EnsureDeskMains(modelOf, {c}, mix, routes) /\ m # Absent
    BY <1>6, RoutingAssumption DEF CreateConsole
  <2>2. Desks' = Desks \cup {c} /\ \A d \in Desks : model'[d] = model[d]
    BY <1>1, <2>1 DEF Desks
  <2> HIDE DEF modelOf
  <2>3. \A i \in MixIds : mix'[i] = mix[i] \/ mix'[i].kind = "main"
    BY <1>1, <1>2, <2>1, EnsureAddsOnlyMains
  <2>4. \A i \in MixIds : ~UserMix(mix', i, c)
    BY <1>3, <1>4, <2>1, <2>3 DEF MInv, MixesStand, UserMix
  <2>5. \A d \in Desks : NumbersOnce(mix', d, model'[d])
    BY <1>4, <2>2, <2>3 DEF NInv, NumbersOnce
  <2>6. NumbersOnce(mix', c, model'[c])
    BY <2>4 DEF NumbersOnce
  <2> QED
    BY <1>4, <2>2, <2>3, <2>5, <2>6 DEF NInv, NumbersOnce, UserMix
<1>7. ASSUME NEW c \in Consoles, DeleteConsole(c)
      PROVE  NInv'
  <2>1. Desks' = Desks \ {c} /\ \A d \in Desks' : model'[d] = model[d]
    BY <1>1, <1>7, RoutingAssumption DEF DeleteConsole, Desks
  <2>2. \A i \in MixIds : mix'[i] = IF mix[i].desk = c THEN NoMix ELSE mix[i]
    BY <1>7 DEF DeleteConsole
  <2>3. NoMix.desk = Absent
    BY DEF NoMix
  <2>4. KindsKnown'
    BY <2>2, <2>3 DEF NInv, KindsKnown
  <2>5. \A d \in Desks' : \A i \in MixIds : UserMix(mix', i, d)
            => UserMix(mix, i, d) /\ mix'[i].kind = mix[i].kind /\ mix'[i].slot = mix[i].slot
    BY <1>3, <2>1, <2>2, <2>3 DEF UserMix
  <2> QED
    BY <2>1, <2>4, <2>5, NumbersUntouched
<1>8. ASSUME NEW c \in Consoles, NEW m \in Models, SetBusMode(c, m)
      PROVE  NInv'
  <2>1. model[c] \in BusModeModels /\ m \in BusModeModels /\ model' = [model EXCEPT ![c] = m] /\ mix' = mix
    BY <1>8 DEF SetBusMode
  <2>2. Engine(m) = Engine(model[c])
    BY <2>1 DEF Engine, BusModeModels
  <2>3. Desks' = Desks
    BY <1>1, <1>8, <2>1, RoutingAssumption DEF SetBusMode, Desks
  <2>4. \A d \in Desks' : Engine(model'[d]) = Engine(model[d])
    BY <1>1, <2>1, <2>2, <2>3 DEF Desks
  <2> QED
    BY <1>4, <2>1, <2>3, <2>4, NumbersUntouched
<1>9. ASSUME NEW c \in Consoles, NEW chs, NEW outs, PlaceOnConsole(c, chs, outs)
      PROVE  NInv'
  BY <1>9 DEF PlaceOnConsole, desks, NInv, KindsKnown, NumbersOnce, UserMix, Desks
<1> QED
  BY <1>5, <1>6, <1>7, <1>8, <1>9, SwitchKeepsNumbers DEF DeskStep

LEMMA NumbersKept ==
    ASSUME IInv, MInv, NInv, [Next]_vars
    PROVE  NInv'
<1>1. UNCHANGED vars \/ RowStep \/ RecorderStep => UNCHANGED <<model, mix>>
  BY Frames DEF vars
<1>2. CASE UNCHANGED <<model, mix>>
  BY <1>2 DEF NInv, KindsKnown, NumbersOnce, UserMix, Desks
<1> QED
  BY <1>1, <1>2, DeskStepKeepsNumbers, MixStepKeepsNumbers DEF Next

LEMMA InitNumbers == Init => NInv
<1> SUFFICES ASSUME Init PROVE NInv
  OBVIOUS
<1>1. PICK c \in Consoles : Fresh(c)
  BY DEF Init
<1>2. \A i \in MixIds : mix[i].desk = Absent \/ mix[i].kind = "main"
  BY <1>1 DEF Fresh, NoMix
<1>3. Absent \notin Desks
  BY RoutingAssumption DEF Desks
<1> QED
  BY <1>2, <1>3 DEF NInv, KindsKnown, NumbersOnce, UserMix, MixKinds

(* Two mixes of one pool never have the same number, however many switches, *)
(* creations and renumberings follow one another: what CreateDeskMix,       *)
(* MixSlotFits and MapMixes keep together.                            *)
THEOREM MixNumbersAlwaysUnique == Spec => []MixNumbersUnique
<1>1. NInv => MixNumbersUnique
  BY DEF NInv, NumbersOnce, UserMix, SamePool, MixNumbersUnique, MixesOf
<1>2. IInv /\ MInv /\ NInv /\ [Next]_vars => NInv'
  BY NumbersKept
<1> QED
  BY <1>1, <1>2, InitNumbers, InvariantHolds, MainsHold, PTL DEF Spec
=============================================================================

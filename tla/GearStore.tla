------------------------------ MODULE GearStore -----------------------------
(***************************************************************************)
(* The gear of an event beside its plans: the owner's own items with the   *)
(* lines that bring them, and the manual lines of the rental order         *)
(* (backend/internal/api: owned.go, rental.go; db: owned.go, rental.go),   *)
(* with the rows and the candidates the client makes of them               *)
(* (frontend/src/lib: equipmentRows.ts, equipmentCandidates.ts,            *)
(* rentalOrder.ts).  Item ids of the two catalogs overlap, as they do in   *)
(* the database.  Names, categories and prices are left out; a note is a   *)
(* set of at most one.                                                     *)
(***************************************************************************)
EXTENDS Integers, Sequences

CONSTANT Catalog   \* the event's rental catalog, records [id, lighting, stock, audio, light]:
                   \* audio and light are what the patch and the rig ask of the item

GearDone(gear, id) == {[store |-> gear, id |-> id, reply |-> {}]}
OfItem(lines, item) == {l \in lines : l.item = item}
Owns(gear, item) == \E i \in gear.items : i.id = item

\* A line of zero is no line; nothing is asked of what was there.
PutOwned(gear, req) ==
  IF ~Owns(gear, req.item) THEN {}
  ELSE GearDone([gear EXCEPT !.owned = (@ \ OfItem(@, req.item)) \cup
                   {l \in {[item |-> req.item, qty |-> req.qty, note |-> req.note]} : l.qty > 0}], 0)
DeleteOwned(gear, req) == GearDone([gear EXCEPT !.owned = @ \ OfItem(@, req.item)], 0)

PutManual(gear, req) ==
  IF ~\E i \in Catalog : i.id = req.item THEN {}
  ELSE GearDone([gear EXCEPT !.manual = (@ \ OfItem(@, req.item)) \cup
                   {l \in {[item |-> req.item, audio |-> req.audio, light |-> req.light, note |-> req.note]}
                      : l.audio > 0 \/ l.light > 0}], 0)
DeleteManual(gear, req) == GearDone([gear EXCEPT !.manual = @ \ OfItem(@, req.item)], 0)

\* An item is owned at least once.
Decoded(req) == IF req.qty = 0 THEN 1 ELSE req.qty
CreateItem(gear, req) ==
  GearDone([gear EXCEPT !.items = @ \cup {[id |-> gear.next, have |-> Decoded(req), note |-> req.note]}, !.next = @ + 1], gear.next)
UpdateItem(gear, req) ==
  IF ~Owns(gear, req.item) THEN {}
  ELSE GearDone([gear EXCEPT !.items = {IF i.id = req.item THEN [i EXCEPT !.have = Decoded(req), !.note = req.note] ELSE i : i \in @}], 0)
\* The lines that bring the item go with it.
DeleteItem(gear, req) ==
  GearDone([gear EXCEPT !.items = {i \in @ : i.id # req.item}, !.owned = @ \ OfItem(@, req.item)], 0)

ApplyGear(req, gear) ==
  CASE req.op = "putOwned" -> PutOwned(gear, req)
    [] req.op = "deleteOwned" -> DeleteOwned(gear, req)
    [] req.op = "putManual" -> PutManual(gear, req)
    [] req.op = "deleteManual" -> DeleteManual(gear, req)
    [] req.op = "createItem" -> CreateItem(gear, req)
    [] req.op = "updateItem" -> UpdateItem(gear, req)
    [] req.op = "deleteItem" -> DeleteItem(gear, req)

-----------------------------------------------------------------------------
(* The rows of the three sheets, under the key their editors know them by.  *)

Line(id, source, item, qty, audio, light, note, problem) ==
  [id |-> id, source |-> source, item |-> item, qty |-> qty, audio |-> audio, light |-> light, note |-> note, problem |-> problem]
RentedKey(item) == item + 1000000

EquipmentRows(gear) ==
  {Line(l.item, "owned", l.item, l.qty, 0, 0, l.note, \E i \in gear.items : i.id = l.item /\ l.qty > i.have) : l \in gear.owned}
  \cup {Line(RentedKey(l.item), "rented", l.item, 0, l.audio, l.light, l.note, FALSE) : l \in {m \in gear.manual : m.audio > 0 \/ m.light > 0}}

\* The order: whatever the plan or a manual line asks for; what is typed is the manual part.
ManualPart(gear, item) ==
  LET lines == OfItem(gear.manual, item) IN
  IF lines = {} THEN [audio |-> 0, light |-> 0, note |-> {}]
  ELSE CHOOSE part \in {[audio |-> l.audio, light |-> l.light, note |-> l.note] : l \in lines} : TRUE
OrderLine(item, part) ==
  Line(item.id, "rental", item.id, 0, part.audio, part.light, part.note,
       item.audio + item.light + part.audio + part.light > item.stock)
RentalRows(gear) ==
  {OrderLine(i, ManualPart(gear, i.id)) : i \in {j \in Catalog : j.audio + j.light > 0 \/ OfItem(gear.manual, j.id) # {}}}
HasManualPart(row) == row.audio > 0 \/ row.light > 0

ItemRows(gear) == {Line(i.id, "catalog", i.id, i.have, 0, 0, i.note, FALSE) : i \in gear.items}

-----------------------------------------------------------------------------
(* Choosing items for new lines.                                            *)

BlankLine == [qty |-> 1, audio |-> 0, light |-> 0]
Candidates(source, gear) ==
  IF source = "owned" THEN {[source |-> "owned", id |-> i.id, lighting |-> FALSE] : i \in gear.items}
  ELSE {[source |-> "rented", id |-> i.id, lighting |-> i.lighting] : i \in Catalog}
BatchDefaults(item) == IF item.lighting THEN [qty |-> 1, audio |-> 0, light |-> 1] ELSE [qty |-> 1, audio |-> 1, light |-> 0]
\* What is typed is kept under the item's id; before one is chosen, under no id.
ValueOf(values, id) == IF id \in DOMAIN values THEN values[id] ELSE BlankLine
LinesReady(source, ids, values) ==
  /\ ids # {}
  /\ \A id \in ids : LET v == ValueOf(values, id) IN IF source = "owned" THEN v.qty > 0 ELSE v.audio > 0 \/ v.light > 0
=============================================================================

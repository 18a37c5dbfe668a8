---------------------------- MODULE MCQueriedPage ---------------------------
(* A store of two rows: a row is added once and taken away while it is there. *)
EXTENDS QueriedPage

ApplyToSet(req, rows) ==
  IF req.op = "add"
  THEN IF req.row \in rows THEN {} ELSE {[store |-> rows \cup {req.row}, id |-> req.row, reply |-> {}]}
  ELSE IF req.row \in rows THEN {[store |-> rows \ {req.row}, id |-> req.row, reply |-> {}]} ELSE {}

Add(row) == [op |-> "add", row |-> row]
Take(row) == [op |-> "take", row |-> row]
MCStores == {{}}
MCChains == {<<Add(1)>>, <<Take(1), Add(2)>>}
MCOthers == {Take(1), Take(2)}
=============================================================================

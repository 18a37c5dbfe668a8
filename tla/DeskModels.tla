----------------------------- MODULE DeskModels -----------------------------
(***************************************************************************)
(* The in-code list of desk models (backend/internal/domain/desk_models.go)*)
(*                                                                         *)
(* Behaviour branches on the engine, never on the model, so the seventeen  *)
(* models are represented by one per code path; LV1 80's two bus modes are *)
(* two models with different pools.                                        *)
(***************************************************************************)
EXTENDS Integers

BusModeModels == {"lv1_80g", "lv1_80m"}
RealModels == {"x32", "lv1_16", "lv1_32"} \cup BusModeModels
AllModels == RealModels \cup {"generic"}

Engine(m) ==
    CASE m = "x32" -> "x32"
      [] m = "generic" -> "generic"
      [] OTHER -> "lv1"

Least(S) == CHOOSE s \in S : \A t \in S : s <= t
=============================================================================

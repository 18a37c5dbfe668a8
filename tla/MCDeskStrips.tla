---------------------------- MODULE MCDeskStrips ----------------------------
(***************************************************************************)
(* An instance of DeskStrips for TLC.  Every real model has two strips and *)
(* the X32 two aux, so that one pair or two channels fill a pool and the   *)
(* third channel is over.                                                  *)
(***************************************************************************)
EXTENDS DeskStrips

MCStrips == [m \in RealModels |-> 2]

(* None, and an even one; a suggestion gives the others. *)
MCAskedNumbers == {0, 2}
=============================================================================

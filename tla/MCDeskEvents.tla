---------------------------- MODULE MCDeskEvents ----------------------------
(***************************************************************************)
(* Two small events in one instance of DeskRouting.  In the one, rows come *)
(* and go between two desks; in the other nothing is planned but groups    *)
(* and monitors, and the only desk is switched among all models.  Each     *)
(* keeps to bounds of its own within those of the configuration.           *)
(***************************************************************************)
EXTENDS MCDeskRouting

VARIABLE event   \* which of the two this is

Rows == INSTANCE DeskRouting
        WITH SeedModel <- "x32", Models <- {"x32", "lv1_16"}, UserKinds <- {"matrix"}, MaxSlot <- 3

Crowd == INSTANCE DeskRouting
         WITH SeedModel <- "generic", UserKinds <- {"subgroup", "monitor"}, MaxSources <- 0

RowMixes == 1 .. 3

EventsInit ==
    \/ event = "rows" /\ Rows!Init
    \/ event = "crowd" /\ Crowd!Init

RowsStep ==
    /\ event = "rows"
    /\ Rows!Next
    /\ \A i \in MixIds \ RowMixes : mix'[i] = NoMix

CrowdStep ==
    /\ event = "crowd"
    /\ Crowd!DeskStep \/ Crowd!MixStep
    /\ Cardinality(Desks') <= 1

EventsSpec == EventsInit /\ [][(RowsStep \/ CrowdStep) /\ UNCHANGED event]_<<vars, event>>
=============================================================================

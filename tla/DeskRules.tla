------------------------------ MODULE DeskRules ------------------------------
(***************************************************************************)
(* The pure rules about mixes that the handlers consult: which mains a     *)
(* model has, which pool a mix draws its slot from, what may route to what,*)
(* and the mapping a model switch makes of a desk's mixes                  *)
(* (backend/internal/domain/desk_mixes.go and MapMixes of                  *)
(* backend/internal/service/deskmap.go).  The pool sizes are constants,    *)
(* scaled down for model checking and arbitrary in the proofs.             *)
(***************************************************************************)
EXTENDS DeskModels, Sequences, FiniteSets

CONSTANTS
    Capacity,      \* [RealModels -> [Pools -> Nat]], slots of each pool
    TrackCount,    \* [RealModels -> Nat], recorder tracks each way
    MatrixLimit    \* sources one LV1 matrix takes (12)

Buses == {"subgroup", "monitor", "fx"}
UserMixKinds == Buses \cup {"matrix", "dca", "mute"}
MixKinds == UserMixKinds \cup {"main"}
Pools == UserMixKinds \cup {"bus", "main"}
Widths == {"mono", "stereo"}

(* The kinds a channel's own row edits; the others are edited as columns. *)
RowKinds == {"main", "subgroup", "dca", "mute"}

ASSUME RulesAssumption ==
    /\ Capacity \in [RealModels -> [Pools -> Nat]]
    /\ TrackCount \in [RealModels -> Nat]
    /\ MatrixLimit \in Nat

(* The mains a model always has: slot 1 is LR, the rest are mono. *)
MainSlots(m) ==
    IF m = "x32" THEN 1 .. 2 ELSE IF m = "lv1_16" THEN {1} ELSE 1 .. 3

MainWidth(slot) == IF slot = 1 THEN "stereo" ELSE "mono"

-----------------------------------------------------------------------------
(* Pools and slots.  A mix is any record with kind, slot and width.         *)

PoolOf(m, kind) == IF Engine(m) = "x32" /\ kind \in Buses THEN "bus" ELSE kind

Unbounded(m) == Engine(m) = "generic"

PoolCapacity(m, kind) == IF Unbounded(m) THEN 0 ELSE Capacity[m][PoolOf(m, kind)]

StereoForced(m, kind) == Engine(m) = "lv1" /\ kind = "subgroup"

(* The width a mix is stored with, whatever was asked. *)
StoredWidth(m, kind, width) ==
    IF StereoForced(m, kind) THEN "stereo"
    ELSE IF kind \in {"dca", "mute"} THEN "mono" ELSE width

MixSlotWidth(m, kind, width) ==
    IF \/ width # "stereo"
       \/ kind \in {"dca", "mute", "main"}
       \/ Engine(m) = "generic"
       \/ StereoForced(m, kind)
    THEN 1 ELSE 2

Span(m, mix) == mix.slot .. mix.slot + MixSlotWidth(m, mix.kind, mix.width) - 1

PoolMates(m, kind, mixes) ==
    {x \in mixes : x.kind # "main" /\ PoolOf(m, x.kind) = PoolOf(m, kind)}

(* others is every mix of the desk but the one being placed. *)
MixSlotFits(m, mix, others) ==
    /\ mix.slot >= 1
    /\ Unbounded(m) \/ \A s \in Span(m, mix) : s <= PoolCapacity(m, mix.kind)
    /\ Engine(m) = "x32" /\ Cardinality(Span(m, mix)) = 2 => mix.slot % 2 = 1
    /\ \A x \in PoolMates(m, mix.kind, others) : Span(m, x) \cap Span(m, mix) = {}

FreeSlots(m, kind, width, slots, others) ==
    {s \in slots :
        MixSlotFits(m, [kind |-> kind, slot |-> s, width |-> width], others)}

(* Where + Mix looks for a slot: the pool, or one past everything on Generic. *)
SlotRange(m, kind, mixes) ==
    1 .. IF Unbounded(m) THEN Cardinality(mixes) + 2 ELSE PoolCapacity(m, kind)

-----------------------------------------------------------------------------
(* What may route to what.  A source is "channel" or a mix kind; the slots  *)
(* matter only for the feed-forward groups of LV1 and Generic.              *)

RouteAllowed(m, srcKind, srcSlot, dstKind, dstSlot) ==
    LET x32 == Engine(m) = "x32" IN
    IF srcKind = "channel"
    THEN dstKind \in MixKinds /\ (dstKind = "matrix" => ~x32)
    ELSE CASE dstKind = "main" -> IF x32 THEN srcKind \in Buses ELSE srcKind = "subgroup"
           [] dstKind = "subgroup" -> ~x32 /\ srcKind = "subgroup" /\ dstSlot > srcSlot
           [] dstKind = "matrix" ->
                srcKind \in {"main", "subgroup", "monitor"} \/ (x32 /\ srcKind = "fx")
           [] dstKind = "mute" -> srcKind \in Buses \cup {"main", "matrix"}
           [] OTHER -> FALSE

FedByAllowed(kind) == kind \in {"main", "subgroup", "monitor", "matrix"}

-----------------------------------------------------------------------------
(* The mapping a model switch makes of the mixes that are not mains: by kind *)
(* in this order, then by slot.                                              *)

MixKindOrder == <<"subgroup", "monitor", "fx", "matrix", "dca", "mute">>

MapsBefore(a, b) ==
    LET Rank(kind) == CHOOSE k \in DOMAIN MixKindOrder : MixKindOrder[k] = kind
    IN  \/ Rank(a.kind) < Rank(b.kind)
        \/ a.kind = b.kind /\ a.slot < b.slot
        \/ a.kind = b.kind /\ a.slot = b.slot /\ a.id < b.id

(* Mutant: every left-out mix goes right after the last strip. *)
AfterLastSlot(to, mix, placed) ==
    LET End == PoolCapacity(to, mix.kind) + 1 IN IF mix.slot > End THEN mix.slot ELSE End

(* A placed mix of the pool that stands at the slot, or after it, bumps it. *)
BumpPast(to, mix, slot, p) ==
    IF PoolOf(to, p.kind) = PoolOf(to, mix.kind) /\ p.slot >= slot
    THEN p.slot + MixSlotWidth(to, p.kind, p.width) ELSE slot

(* Past the end: after everything this pool holds, walking the mixes in the *)
(* order they were placed.                                                  *)
PastTheEnd(to, mix, placed) ==
    LET End == PoolCapacity(to, mix.kind) + 1
        walk[k \in 0 .. Len(placed)] ==
            IF k = 0 THEN IF mix.slot > End THEN mix.slot ELSE End
            ELSE BumpPast(to, mix, walk[k - 1], placed[k])
    IN  walk[Len(placed)]

(* Keep the slot where it is legal and free, else the next legal one above, *)
(* else the first legal one, else past the end.                             *)
MappedSlot(to, mix, placed) ==
    LET others == {placed[k] : k \in DOMAIN placed}
        Free(slots) == FreeSlots(to, mix.kind, mix.width, slots, others)
        above == Free(mix.slot + 1 .. PoolCapacity(to, mix.kind))
        any == Free(SlotRange(to, mix.kind, others))
    IN  CASE MixSlotFits(to, mix, others) -> mix.slot
          [] OTHER -> IF above # {} THEN Least(above)
                      ELSE IF any # {} THEN Least(any)
                      ELSE PastTheEnd(to, mix, placed)

InMapOrder(mixes) ==
    [k \in 1 .. Cardinality(mixes) |->
        CHOOSE x \in mixes : Cardinality({y \in mixes : MapsBefore(y, x)}) = k - 1]

PlaceNext(to, placed, old) ==
    LET mix == [old EXCEPT !.width = StoredWidth(to, old.kind, old.width)]
    IN  Append(placed, [mix EXCEPT !.slot = MappedSlot(to, mix, placed)])

(* mixes is a set of records with id, kind, slot and width, no mains. *)
MapMixes(to, mixes) ==
    LET order == InMapOrder(mixes)
        placing[k \in 0 .. Cardinality(mixes)] ==
            IF k = 0 THEN <<>> ELSE PlaceNext(to, placing[k - 1], order[k])
    IN  placing[Cardinality(mixes)]
=============================================================================

----------------------------- MODULE DeskStrips ------------------------------
(***************************************************************************)
(* The strips of an event's desks: where each input channel sits, how a    *)
(* new one is numbered, what a real model refuses, and how a model switch  *)
(* and "Put on <desk>" renumber the rows (domain/desk_strips.go, MapRows   *)
(* and PlaceRows of service/deskmap.go, placeChannel of api/desk_rows.go). *)
(*                                                                         *)
(* A channel is the row of input_channels with its id; ids are numbers     *)
(* because rows of one number are laid out in the order of their ids.      *)
(* Requests are taken one at a time: each action is a whole handler.       *)
(***************************************************************************)
EXTENDS DeskModels

CONSTANTS
    Consoles, Channels,   \* ids of event_consoles and input_channels
    Models, SeedModel,    \* models the planner picks from; the first desk's
    Strips,               \* [RealModels -> Nat], strips of the channel pool
    AuxIn,                \* aux strips of an X32
    AskedNumbers,         \* bound: numbers a request names, 0 for none
    TypedInputs,          \* bound: input counts typed on a Generic desk, 0 undeclared
    MaxNumber,            \* bound: strip numbers
    NoDesk, Absent        \* a NULL console_id; no such row

VARIABLES
    model,    \* event_consoles.desk_model, or Absent
    inputs,   \* event_consoles.input_count
    row       \* input_channels

vars == <<model, inputs, row>>

StripPools == {"channel", "aux"}

(* width and mixer_behavior in one: a mono row's behaviour has no effect    *)
(* until a save makes the row stereo, and every save sends it again.        *)
Shapes == {"mono", "stereo_channel", "linked_channels"}

ASSUME StripsAssumption ==
    /\ Channels \subseteq Nat
    /\ Models \subseteq AllModels /\ SeedModel \in Models
    /\ Strips \in [RealModels -> Nat \ {0}] /\ AuxIn \in Nat
    /\ Strips["x32"] % 2 = 0 /\ AuxIn % 2 = 0   \* an X32 has whole pairs
    /\ MaxNumber \in Nat /\ AskedNumbers \subseteq 0 .. MaxNumber
    /\ TypedInputs \subseteq Nat /\ 0 \in TypedInputs
    /\ NoDesk # Absent /\ {NoDesk, Absent} \cap Consoles = {}
    /\ Absent \notin AllModels

Rows ==
    [desk : Consoles \cup {NoDesk, Absent}, number : 0 .. MaxNumber, shape : Shapes, pool : StripPools]

NoRow == [desk |-> Absent, number |-> 0, shape |-> "mono", pool |-> "channel"]

(* What a request may ask for. *)
Asked == [number : AskedNumbers, shape : Shapes, pool : StripPools]

TypeOK ==
    /\ model \in [Consoles -> AllModels \cup {Absent}]
    /\ inputs \in [Consoles -> Nat]
    /\ row \in [Channels -> Rows]

Desks == {c \in Consoles : model[c] # Absent}
RowsOn(c) == {ch \in Channels : row[ch].desk = c}

-----------------------------------------------------------------------------
(* Strips and widths.  A row here is any record with number, shape and pool.*)

HasAux(m) == Engine(m) = "x32"

PoolCapacity(m, pool, typed) ==
    IF Engine(m) = "generic" THEN IF pool = "channel" THEN typed ELSE 0
    ELSE IF pool = "channel" THEN Strips[m]
    ELSE IF HasAux(m) THEN AuxIn ELSE 0

StripWidth(m, r) ==
    IF \/ Engine(m) = "x32" /\ r.shape # "mono"
       \/ Engine(m) = "generic" /\ r.shape = "linked_channels"
    THEN 2 ELSE 1

(* Mutant: the width is written where the behaviour goes. *)
WidthOnly(m, shape) == IF shape = "mono" THEN "mono" ELSE "stereo"

ForcedShape(m, shape) ==
    CASE shape = "mono" \/ Engine(m) = "generic" -> shape
      [] Engine(m) = "x32" -> "linked_channels"
      [] OTHER -> "stereo_channel"

Last(m, r) == r.number + StripWidth(m, r) - 1
StripsOf(m, r) == r.number .. Last(m, r)
Pair(m, r) == Engine(m) = "x32" /\ StripWidth(m, r) = 2

Fits(m, r, others) ==
    /\ r.number >= 1 /\ Last(m, r) <= PoolCapacity(m, r.pool, 0)
    /\ Pair(m, r) => r.number % 2 = 1
    /\ \A o \in others : o.pool = r.pool => StripsOf(m, o) \cap StripsOf(m, r) = {}

(* Generic refuses nothing. *)
CheckStrip(m, r, others) == Engine(m) = "generic" \/ Fits(m, r, others)

FreeStrips(m, r, others) ==
    {n \in 1 .. PoolCapacity(m, r.pool, 0) : Fits(m, [r EXCEPT !.number = n], others)}

FirstAfter(m, rs) == Least({n \in 1 .. MaxNumber + 2 : \A r \in rs : Last(m, r) < n})

(* Mutant: no look back for a strip left free below. *)
SuggestAboveOnly(m, r, others) ==
    LET next == FirstAfter(m, {o \in others : o.pool = r.pool \/ Engine(m) = "generic"})
        above == {n \in FreeStrips(m, r, others) : n >= next}
    IN  CASE Engine(m) = "generic" -> {next}
          [] OTHER -> IF above # {} THEN {Least(above)} ELSE {}

(* The number + Channel gives, or none when the pool is full: after the     *)
(* last one used, else the lowest free.                                     *)
SuggestNumber(m, r, others) ==
    LET next == FirstAfter(m, {o \in others : o.pool = r.pool \/ Engine(m) = "generic"})
        free == FreeStrips(m, r, others)
        above == {n \in free : n >= next}
    IN  CASE Engine(m) = "generic" -> {next}
          [] OTHER -> IF above # {} THEN {Least(above)} ELSE IF free # {} THEN {Least(free)} ELSE {}

-----------------------------------------------------------------------------
(* An event starts with one desk and no channels.                           *)

Init ==
    /\ \E c \in Consoles : model = [d \in Consoles |-> IF d = c THEN SeedModel ELSE Absent]
    /\ inputs = [c \in Consoles |->
                    IF model[c] \in RealModels THEN Strips[model[c]] ELSE 0]
    /\ row = [ch \in Channels |-> NoRow]

(* A real model's count is read from the profile, Generic's is typed. *)
CreateConsole(c, m, typed) ==
    /\ c \notin Desks
    /\ model' = [model EXCEPT ![c] = m]
    /\ inputs' = [inputs EXCEPT ![c] = IF m \in RealModels THEN Strips[m] ELSE typed]
    /\ UNCHANGED row

SetInputs(c, typed) ==
    /\ c \in Desks /\ model[c] \notin RealModels
    /\ inputs' = [inputs EXCEPT ![c] = typed]
    /\ UNCHANGED <<model, row>>

(* The rows keep number and pool, on no desk. *)
DeleteConsole(c) ==
    /\ c \in Desks
    /\ model' = [model EXCEPT ![c] = Absent]
    /\ inputs' = [inputs EXCEPT ![c] = 0]
    /\ row' = [ch \in Channels |-> IF row[ch].desk = c THEN [row[ch] EXCEPT !.desk = NoDesk] ELSE row[ch]]

-----------------------------------------------------------------------------
(* Creating, saving and deleting a channel.                                 *)

Others(c, ch) == {row[o] : o \in RowsOn(c) \ {ch}}

(* The desk, the pool where the desk has no aux, and the behaviour its      *)
(* model imposes, put on what was asked.                                    *)
AsOn(c, asked) ==
    [desk |-> c, number |-> asked.number, shape |-> ForcedShape(model[c], asked.shape),
     pool |-> IF HasAux(model[c]) THEN asked.pool ELSE "channel"]

CreateInputChannel(ch, c, asked) ==
    LET new == AsOn(c, asked) IN
    /\ row[ch].desk = Absent
    /\ c \in Desks
    /\ \E n \in IF asked.number = 0 THEN SuggestNumber(model[c], new, Others(c, ch)) ELSE {asked.number} :
        /\ n <= MaxNumber
        /\ CheckStrip(model[c], [new EXCEPT !.number = n], Others(c, ch))
        /\ row' = [row EXCEPT ![ch] = [new EXCEPT !.number = n]]
    /\ UNCHANGED <<model, inputs>>

SamePlace(a, b) ==
    /\ <<a.desk, a.number, a.pool>> = <<b.desk, b.number, b.pool>>
    /\ (a.shape = "mono") = (b.shape = "mono")

(* Only a change to where the row sits is checked, so that an over row      *)
(* stays editable.                                                          *)
SaveInputChannel(ch, c, asked) ==
    LET new == AsOn(c, asked) IN
    /\ row[ch].desk # Absent
    /\ c \in Desks
    /\ SamePlace(row[ch], new) \/ CheckStrip(model[c], new, Others(c, ch))
    /\ row' = [row EXCEPT ![ch] = new]
    /\ UNCHANGED <<model, inputs>>

DeleteInputChannel(ch) ==
    /\ row[ch].desk # Absent
    /\ row' = [row EXCEPT ![ch] = NoRow]
    /\ UNCHANGED <<model, inputs>>

-----------------------------------------------------------------------------
(* Switching a desk to another model.                                       *)

(* Mutant: rows laid out by number, whichever pool they are on. *)
ByNumber(a, b) ==
    \/ row[a].number < row[b].number
    \/ row[a].number = row[b].number /\ a < b

(* The order a desk lays its rows out in: channels, then aux, by number. *)
Before(a, b) ==
    \/ row[a].pool = "channel" /\ row[b].pool = "aux"
    \/ /\ row[a].pool = row[b].pool
       /\ row[a].number < row[b].number \/ (row[a].number = row[b].number /\ a < b)

Renumbered(r, from, to, n) ==
    [r EXCEPT !.number = n,
              !.shape = ForcedShape(to, @),
              !.pool = IF Engine(from) = "x32" /\ Engine(to) = "x32" THEN @ ELSE "channel"]

(* Mutant: a pair keeps an even number. *)
Unbumped(to, r, n) == n

Bumped(to, r, n) == IF Pair(to, r) /\ n % 2 = 0 THEN n + 1 ELSE n

(* Mutant: the cursor moves one strip on, whatever the row's width. *)
CursorByOne(to, rs) == Least({n \in 1 .. MaxNumber + 2 : \A r \in rs : r.number < n})

Cursor(to, rs) == FirstAfter(to, rs)

(* Mutant: every row follows the one above it. *)
PackedNumber(to, typed, old, new, placed) ==
    Bumped(to, new, Cursor(to, {p \in placed : p.pool = new.pool}))

(* Mutant: a row that does not fit where it was is left out at once. *)
LeftOutAtOnce(to, typed, old, new, placed) ==
    LET cursor == Cursor(to, {p \in placed : p.pool = new.pool}) IN
    Bumped(to, new, IF old.pool # new.pool \/ old.number < cursor THEN cursor ELSE old.number)

(* A row keeps its number where the rows before it leave it free, is bumped *)
(* to an odd number or moved along, and moves up only if it would be past   *)
(* the end.                                                                 *)
MappedNumber(to, typed, old, new, placed) ==
    LET cursor == Cursor(to, {p \in placed : p.pool = new.pool})
        capacity == PoolCapacity(to, new.pool, typed)
        wanted == Bumped(to, new, IF old.pool # new.pool \/ old.number < cursor THEN cursor ELSE old.number)
        up == Bumped(to, new, cursor)
        PastEnd(n) == capacity > 0 /\ n + StripWidth(to, new) - 1 > capacity
    IN  IF PastEnd(wanted) /\ ~PastEnd(up) THEN up ELSE wanted

MapRows(c, from, to, typed, number) ==
    LET New(ch) == Renumbered(row[ch], from, to, number[ch]) IN
    \A ch \in RowsOn(c) :
        number[ch] = MappedNumber(to, typed, row[ch], New(ch), {New(o) : o \in {x \in RowsOn(c) : Before(x, ch)}})

SwitchConsoleModel(c, to) ==
    LET typed == IF to \in RealModels THEN Strips[to] ELSE inputs[c] IN
    /\ c \in Desks
    /\ model' = [model EXCEPT ![c] = to]
    /\ inputs' = [inputs EXCEPT ![c] = typed]
    /\ \E number \in [RowsOn(c) -> 1 .. MaxNumber] :
        /\ MapRows(c, model[c], to, typed, number)
        /\ row' = [ch \in Channels |->
                    IF ch \in RowsOn(c) THEN Renumbered(row[ch], model[c], to, number[ch]) ELSE row[ch]]

-----------------------------------------------------------------------------
(* Placing rows that are on no desk.                                        *)

OnDesk(c, r, n) ==
    [r EXCEPT !.desk = c, !.number = n, !.pool = "channel", !.shape = ForcedShape(model[c], @)]

(* Mutant: a row whose number is taken goes after every other. *)
PlacedLast(m, new, occupants) ==
    IF CheckStrip(m, new, occupants) THEN new.number
    ELSE FirstAfter(m, {o \in occupants : o.pool = "channel"})

(* A row keeps its number where it is legal, else takes the lowest free     *)
(* strip, else goes past the end and past every other row.                  *)
PlacedNumber(m, new, occupants) ==
    LET free == FreeStrips(m, new, occupants)
        after == FirstAfter(m, {o \in occupants : o.pool = "channel"})
        end == PoolCapacity(m, "channel", 0) + 1
    IN  CASE CheckStrip(m, new, occupants) -> new.number
          [] OTHER -> IF free # {} THEN Least(free)
                      ELSE CHOOSE n \in {new.number, after, end} :
                                \A k \in {new.number, after, end} : k <= n

PlaceOnConsole(c, chs) ==
    /\ c \in Desks
    /\ chs # {} /\ chs \subseteq RowsOn(NoDesk)
    /\ \E number \in [chs -> 0 .. MaxNumber] :
        /\ \A ch \in chs :
            number[ch] = PlacedNumber(model[c], OnDesk(c, row[ch], row[ch].number),
                            {row[o] : o \in RowsOn(c)}
                                \cup {OnDesk(c, row[o], number[o]) : o \in {x \in chs : Before(x, ch)}})
        /\ row' = [ch \in Channels |-> IF ch \in chs THEN OnDesk(c, row[ch], number[ch]) ELSE row[ch]]
    /\ UNCHANGED <<model, inputs>>

-----------------------------------------------------------------------------
DeskStep ==
    \E c \in Consoles :
        \/ DeleteConsole(c)
        \/ \E typed \in TypedInputs : SetInputs(c, typed)
        \/ \E m \in Models, typed \in TypedInputs : CreateConsole(c, m, typed)
        \/ \E to \in Models : SwitchConsoleModel(c, to)
        \/ \E chs \in SUBSET Channels : PlaceOnConsole(c, chs)

ChannelStep ==
    \E ch \in Channels :
        \/ DeleteInputChannel(ch)
        \/ \E c \in Consoles, asked \in Asked : CreateInputChannel(ch, c, asked) \/ SaveInputChannel(ch, c, asked)

Next == DeskStep \/ ChannelStep

Spec == Init /\ [][Next]_vars

-----------------------------------------------------------------------------
(* Properties.                                                              *)

(* On a real model no two channels of one pool share a strip, the ones      *)
(* flagged over included: whatever Generic let overlap is pulled apart by   *)
(* the switch, and no save, placing or switch brings it back.               *)
StripsApart ==
    \A c \in Desks : model[c] \in RealModels =>
        \A a, b \in RowsOn(c) :
            a # b /\ row[a].pool = row[b].pool
                => StripsOf(model[c], row[a]) \cap StripsOf(model[c], row[b]) = {}

(* On a real model a channel is wholly inside its pool, on an odd number if *)
(* it is an X32 pair, or wholly past the end; only an X32 has rows on aux.  *)
(* No row straddles the end, so "over" is decided by its first strip.       *)
LegalOrOver ==
    \A c \in Desks : model[c] \in RealModels =>
        \A ch \in RowsOn(c) :
            LET r == row[ch]
                capacity == PoolCapacity(model[c], r.pool, 0)
            IN  /\ r.pool = "aux" => HasAux(model[c])
                /\ r.number >= 1
                /\ \/ r.number > capacity
                   \/ /\ Last(model[c], r) <= capacity
                      /\ Pair(model[c], r) => r.number % 2 = 1

(* + Channel finds a strip whenever one is legal, and the one it suggests   *)
(* is never refused.                                                        *)
SuggestionsLegal ==
    \A c \in Desks : model[c] \in RealModels =>
        \A p \in Asked :
            LET others == {row[o] : o \in RowsOn(c)}
                Legal(n) == CheckStrip(model[c], [AsOn(c, p) EXCEPT !.number = n], others)
                suggested == SuggestNumber(model[c], AsOn(c, p), others)
            IN  /\ \A n \in suggested : Legal(n)
                /\ suggested = {} => \A n \in 1 .. MaxNumber : ~Legal(n)

Switched(c) == model[c] # Absent /\ model'[c] \notin {model[c], Absent}

OrderKept ==
    \A c \in Consoles : Switched(c) =>
        \A a, b \in RowsOn(c) :
            /\ row'[a].pool = row'[b].pool
            /\ IF row[a].pool = row[b].pool THEN row[a].number < row[b].number ELSE row[b].pool = "aux"
            => Last(model'[c], row'[a]) < row'[b].number

(* A switch lays the channels of a desk out in the order they had, without  *)
(* overlap; when they leave the aux section, its rows come after all others.*)
SwitchKeepsOrder == [][OrderKept]_vars

MovesForced ==
    \A c \in Consoles :
        /\ Switched(c) /\ model'[c] \in RealModels
        /\ \A ch \in RowsOn(c) :
            /\ row'[ch].pool = row[ch].pool
            /\ Fits(model'[c], [row'[ch] EXCEPT !.number = row[ch].number],
                    {[row'[o] EXCEPT !.number = row[o].number] : o \in RowsOn(c) \ {ch}})
        => \A ch \in RowsOn(c) : row'[ch].number = row[ch].number

(* A desk whose channels could all stay where they are is not renumbered.   *)
SwitchMovesOnlyIfForced == [][MovesForced]_vars

LeftOutWhenFull ==
    \A c \in Consoles : Switched(c) =>
        \A ch \in RowsOn(c) :
            LET m == model'[c]
                r == row'[ch]
                capacity == PoolCapacity(m, r.pool, inputs'[c])
                room == {n \in 1 .. capacity :
                            /\ n + StripWidth(m, r) - 1 <= capacity
                            /\ Pair(m, r) => n % 2 = 1
                            /\ \A o \in RowsOn(c) :
                                row'[o].pool = r.pool /\ row'[o].number <= capacity => Last(m, row'[o]) < n}
            IN  /\ capacity > 0 /\ r.number > capacity
                /\ \A o \in RowsOn(c) : row'[o].pool = r.pool /\ Before(o, ch) => row'[o].number <= capacity
                => room = {}

(* A switch leaves a channel out only when the strips after the last one    *)
(* that fits would not take it.                                             *)
LeftOutOnlyWhenFull == [][LeftOutWhenFull]_vars

PlacedOverIfFull ==
    \A ch \in Channels :
        LET c == row'[ch].desk IN
        /\ row[ch].desk = NoDesk /\ c \in Consoles
        /\ model'[c] \in RealModels
        /\ row'[ch].number > PoolCapacity(model'[c], row'[ch].pool, 0)
        => FreeStrips(model'[c], row'[ch], {row'[o] : o \in {x \in Channels : row'[x].desk = c} \ {ch}}) = {}

(* A channel put on a real model ends past its strips only if no strip      *)
(* there is free for it.                                                    *)
PlacedOverOnlyIfFull == [][PlacedOverIfFull]_vars
=============================================================================

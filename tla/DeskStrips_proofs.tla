-------------------------- MODULE DeskStrips_proofs --------------------------
(***************************************************************************)
(* Two theories about a desk's channels, for any set of channels, any      *)
(* strip counts and any sequence of saves, placings, deletions and model   *)
(* switches.                                                               *)
(*                                                                         *)
(* First, no two channels of one pool of a real desk ever share a strip.   *)
(* The invariant is inductive with the types and with the fact that a      *)
(* channel's desk exists: without it a desk added under an old id would    *)
(* find rows on it.                                                        *)
(*                                                                         *)
(* Then how a desk's channels are laid out: a row is legal or wholly past  *)
(* the end, a suggestion is never refused, and what a model switch and     *)
(* "Put on <desk>" may do to the numbers.  That a row is legal or over is  *)
(* inductive with the first invariant; the X32's pools being whole pairs   *)
(* is what keeps a pair from straddling the end.  The switch walks the     *)
(* rows in order, each placed after the ones before it; that a desk whose  *)
(* rows all fit is not renumbered is shown on the first row, in that       *)
(* order, that would move.                                                 *)
(***************************************************************************)
EXTENDS DeskStrips, WellFoundedInduction, TLAPS

(* A channel's desk is one that exists: deleting a desk clears the column.  *)
RowsOnDesks == \A ch \in Channels : row[ch].desk \in Consoles => row[ch].desk \in Desks

IInv == TypeOK /\ RowsOnDesks /\ StripsApart

-----------------------------------------------------------------------------
(* Least and FirstAfter return what their names say.                        *)

(* A set of naturals that is not empty has a least element. *)
LEMMA LeastIsLeast ==
    ASSUME NEW S, S \subseteq Nat, S # {}
    PROVE  Least(S) \in S /\ \A t \in S : Least(S) <= t
<1>1. PICK s \in S : \A t \in S : ~(<<t, s>> \in OpToRel(<, Nat))
    BY NatLessThanWellFounded, WFMin
<1>2. ASSUME NEW t \in S
      PROVE  s <= t
  <2>1. ~(t < s)
    <3>1. OpToRel(<, Nat) = {p \in Nat \X Nat : p[1] < p[2]}
      BY DEF OpToRel
    <3>2. t < s => <<t, s>> \in {p \in Nat \X Nat : p[1] < p[2]}
      OBVIOUS
    <3>. QED BY <1>1, <3>1, <3>2
  <2>. QED BY <2>1
<1>. QED BY <1>2 DEF Least

(* A strip is one or two wide, so a row ends on its number or the next. *)
LEMMA WidthType ==
    ASSUME NEW m, NEW r
    PROVE  StripWidth(m, r) \in {1, 2}
BY DEF StripWidth

(* FirstAfter is past every one of the rows. *)
LEMMA FirstAfterIsAfter ==
    ASSUME NEW m, NEW rs, \A r \in rs : r.number \in 0 .. MaxNumber
    PROVE  /\ FirstAfter(m, rs) \in Nat \ {0}
           /\ \A r \in rs : Last(m, r) < FirstAfter(m, rs)
<1>. DEFINE S == {n \in 1 .. MaxNumber + 2 : \A r \in rs : Last(m, r) < n}
<1>. MaxNumber \in Nat BY StripsAssumption
<1>1. \A r \in rs : Last(m, r) < MaxNumber + 2
    BY WidthType DEF Last
<1>2. MaxNumber + 2 \in S
    BY <1>1
<1>3. S \subseteq Nat /\ S # {}
    BY <1>2
<1>4. Least(S) \in S
    BY <1>3, LeastIsLeast
<1>. QED BY <1>4 DEF FirstAfter

(* On a real model how wide a row is depends on mono or stereo alone. *)
LEMMA RealWidth ==
    ASSUME NEW m \in RealModels, NEW r, NEW s, (r.shape = "mono") = (s.shape = "mono")
    PROVE  StripWidth(m, r) = StripWidth(m, s)
BY DEF StripWidth, RealModels, BusModeModels, Engine

LEMMA RealIsNotGeneric ==
    ASSUME NEW m \in RealModels
    PROVE  Engine(m) # "generic"
BY DEF RealModels, BusModeModels, Engine

(* A shape a model forces is a shape. *)
LEMMA ForcedShapeType ==
    ASSUME NEW m, NEW s \in Shapes
    PROVE  ForcedShape(m, s) \in Shapes
BY DEF ForcedShape, Shapes

(* Of two channels one comes before the other. *)
LEMMA BeforeIsTotal ==
    ASSUME TypeOK, NEW a \in Channels, NEW b \in Channels, a # b
    PROVE  Before(a, b) \/ Before(b, a)
<1>1. a \in Nat /\ b \in Nat
    BY StripsAssumption
<1>2. row[a] \in Rows /\ row[b] \in Rows
    BY DEF TypeOK
<1>3. row[a].number \in Nat /\ row[b].number \in Nat /\ row[a].pool \in StripPools /\ row[b].pool \in StripPools
    BY <1>2, StripsAssumption DEF Rows
<1>. QED BY <1>1, <1>3 DEF Before, StripPools

-----------------------------------------------------------------------------
(* One lemma per action.                                                    *)

LEMMA InitInv == Init => IInv
<1>. SUFFICES ASSUME Init PROVE IInv
    OBVIOUS
<1>1. TypeOK
  <2>1. NoRow \in Rows
    BY StripsAssumption DEF NoRow, Rows, Shapes, StripPools
  <2>. QED BY <2>1, StripsAssumption DEF Init, TypeOK
<1>2. \A ch \in Channels : row[ch].desk \notin Consoles
    BY StripsAssumption DEF Init, NoRow
<1>. QED BY <1>1, <1>2 DEF IInv, RowsOnDesks, StripsApart, RowsOn, Desks

LEMMA CreateConsoleKeeps ==
    ASSUME IInv, NEW c \in Consoles, NEW m \in Models, NEW typed \in TypedInputs, CreateConsole(c, m, typed)
    PROVE  IInv'
<1>. USE DEF CreateConsole
<1>1. TypeOK'
    BY StripsAssumption DEF IInv, TypeOK
<1>2. \A ch \in Channels : row[ch].desk # c
    BY DEF IInv, RowsOnDesks
<1>3. \A d \in Consoles : d # c => model'[d] = model[d]
    BY DEF IInv, TypeOK
<1>4. RowsOnDesks'
    BY <1>2, <1>3 DEF IInv, RowsOnDesks, Desks
<1>5. ASSUME NEW d \in Desks', NEW a \in RowsOn(d)'
      PROVE  d \in Desks /\ model'[d] = model[d]
    BY <1>2, <1>3, <1>5 DEF RowsOn, Desks
<1>6. StripsApart'
    BY <1>5 DEF IInv, StripsApart, RowsOn, StripsOf, Last, StripWidth
<1>. QED BY <1>1, <1>4, <1>6 DEF IInv

LEMMA SetInputsKeeps ==
    ASSUME IInv, NEW c \in Consoles, NEW typed \in TypedInputs, SetInputs(c, typed)
    PROVE  IInv'
<1>1. TypeOK'
    BY StripsAssumption DEF SetInputs, IInv, TypeOK
<1>. QED BY <1>1 DEF SetInputs, IInv, RowsOnDesks, StripsApart, RowsOn, Desks, StripsOf, Last, StripWidth

LEMMA DeleteConsoleKeeps ==
    ASSUME IInv, NEW c \in Consoles, DeleteConsole(c)
    PROVE  IInv'
<1>. USE DEF DeleteConsole
<1>1. TypeOK'
  <2>1. \A ch \in Channels : [row[ch] EXCEPT !.desk = NoDesk] \in Rows
    BY DEF IInv, TypeOK, Rows
  <2>. QED BY <2>1, StripsAssumption DEF IInv, TypeOK
<1>2. \A ch \in Channels : row'[ch].desk \in Consoles => row'[ch] = row[ch] /\ row[ch].desk # c
    BY StripsAssumption DEF IInv, TypeOK, Rows
<1>3. \A d \in Consoles : d # c => model'[d] = model[d]
    BY DEF IInv, TypeOK
<1>4. RowsOnDesks'
    BY <1>2, <1>3 DEF IInv, RowsOnDesks, Desks
<1>5. ASSUME NEW d \in Desks', NEW a \in RowsOn(d)'
      PROVE  d \in Desks /\ model'[d] = model[d] /\ a \in RowsOn(d) /\ row'[a] = row[a]
    BY <1>2, <1>3, <1>5 DEF RowsOn, Desks
<1>6. StripsApart'
  <2>. SUFFICES ASSUME NEW d \in Desks', model'[d] \in RealModels,
                       NEW a \in RowsOn(d)', NEW b \in RowsOn(d)',
                       a # b, row'[a].pool = row'[b].pool
                PROVE  StripsOf(model'[d], row'[a]) \cap StripsOf(model'[d], row'[b]) = {}
    BY DEF StripsApart
  <2>1. d \in Desks /\ model'[d] = model[d] /\ a \in RowsOn(d) /\ b \in RowsOn(d)
    BY <1>5
  <2>2. row'[a] = row[a] /\ row'[b] = row[b]
    BY <1>5
  <2>. QED BY <2>1, <2>2 DEF IInv, StripsApart
<1>. QED BY <1>1, <1>4, <1>6 DEF IInv

LEMMA DeleteInputChannelKeeps ==
    ASSUME IInv, NEW ch \in Channels, DeleteInputChannel(ch)
    PROVE  IInv'
<1>. USE DEF DeleteInputChannel
<1>1. TypeOK'
  <2>1. NoRow \in Rows
    BY StripsAssumption DEF NoRow, Rows, Shapes, StripPools
  <2>. QED BY <2>1 DEF IInv, TypeOK
<1>2. \A o \in Channels : row'[o].desk \in Consoles => row'[o] = row[o]
    BY StripsAssumption DEF IInv, TypeOK, NoRow
<1>3. RowsOnDesks'
    BY <1>2 DEF IInv, RowsOnDesks, Desks
<1>4. ASSUME NEW d \in Desks', NEW a \in RowsOn(d)'
      PROVE  d \in Desks /\ model'[d] = model[d] /\ a \in RowsOn(d) /\ row'[a] = row[a]
    BY <1>2, <1>4 DEF RowsOn, Desks
<1>5. StripsApart'
    BY <1>4 DEF IInv, StripsApart, StripsOf, Last, StripWidth
<1>. QED BY <1>1, <1>3, <1>5 DEF IInv

(* A row the strip check passed on a real model shares no strip with any of *)
(* the rows it was checked against.                                         *)
LEMMA CheckedIsApart ==
    ASSUME NEW m \in RealModels, NEW r, NEW others, CheckStrip(m, r, others),
           NEW o \in others, o.pool = r.pool
    PROVE  StripsOf(m, o) \cap StripsOf(m, r) = {}
BY RealIsNotGeneric DEF CheckStrip, Fits

(* What one new row needs for its desk to stay apart: every other row is as *)
(* it was, and the new one shares no strip with those of its desk.          *)
LEMMA OneRowKeepsApart ==
    ASSUME TypeOK, StripsApart, NEW ch \in Channels, NEW c \in Consoles, NEW r,
           UNCHANGED model, row' = [row EXCEPT ![ch] = r], r.desk = c,
           model[c] \in RealModels =>
               \A o \in RowsOn(c) \ {ch} :
                   row[o].pool = r.pool => StripsOf(model[c], row[o]) \cap StripsOf(model[c], r) = {}
    PROVE  StripsApart'
<1>. SUFFICES ASSUME NEW d \in Desks', model'[d] \in RealModels,
                     NEW a \in RowsOn(d)', NEW b \in RowsOn(d)',
                     a # b, row'[a].pool = row'[b].pool
              PROVE  StripsOf(model'[d], row'[a]) \cap StripsOf(model'[d], row'[b]) = {}
    BY DEF StripsApart
<1>1. row'[ch] = r /\ \A o \in Channels \ {ch} : row'[o] = row[o]
    BY DEF TypeOK
<1>2. d \in Desks /\ model'[d] = model[d] /\ a \in Channels /\ b \in Channels
    BY DEF Desks, RowsOn
<1>3. CASE a # ch /\ b # ch
  <2>1. a \in RowsOn(d) /\ b \in RowsOn(d) /\ row'[a] = row[a] /\ row'[b] = row[b]
    BY <1>1, <1>2, <1>3 DEF RowsOn
  <2>. QED BY <1>2, <2>1 DEF StripsApart
<1>4. CASE a = ch
  <2>1. d = c /\ b \in RowsOn(c) \ {ch} /\ row'[b] = row[b]
    BY <1>1, <1>2, <1>4 DEF RowsOn
  <2>. QED BY <1>1, <1>2, <1>4, <2>1
<1>5. CASE b = ch
  <2>1. d = c /\ a \in RowsOn(c) \ {ch} /\ row'[a] = row[a]
    BY <1>1, <1>2, <1>5 DEF RowsOn
  <2>. QED BY <1>1, <1>2, <1>5, <2>1
<1>. QED BY <1>3, <1>4, <1>5

LEMMA AsOnType ==
    ASSUME NEW c \in Consoles, NEW asked \in Asked
    PROVE  /\ AsOn(c, asked) \in Rows
           /\ AsOn(c, asked).desk = c
           /\ AsOn(c, asked).number = asked.number
BY StripsAssumption, ForcedShapeType DEF AsOn, Asked, Rows, StripPools

(* A suggested number is a strip number. *)
LEMMA SuggestionType ==
    ASSUME TypeOK, NEW m, NEW r, NEW c, NEW ch, NEW n \in SuggestNumber(m, r, Others(c, ch))
    PROVE  n \in Nat
<1>. DEFINE others == Others(c, ch)
            mates == {o \in others : o.pool = r.pool \/ Engine(m) = "generic"}
            free == FreeStrips(m, r, others)
            above == {k \in free : k >= FirstAfter(m, mates)}
<1>1. \A o \in mates : o.number \in 0 .. MaxNumber
    BY DEF TypeOK, Rows, Others, RowsOn
<1>2. FirstAfter(m, mates) \in Nat
    BY <1>1, FirstAfterIsAfter
<1>3. free \subseteq Nat /\ above \subseteq Nat
    BY DEF FreeStrips
<1>4. (free # {} => Least(free) \in Nat) /\ (above # {} => Least(above) \in Nat)
    BY <1>3, LeastIsLeast
<1>. HIDE DEF free, above, others
<1>. QED BY <1>2, <1>4 DEF SuggestNumber, free, above, others

LEMMA CreateInputChannelKeeps ==
    ASSUME IInv, NEW ch \in Channels, NEW c \in Consoles, NEW asked \in Asked,
           CreateInputChannel(ch, c, asked)
    PROVE  IInv'
<1>. DEFINE new == AsOn(c, asked)
<1>1. PICK n : /\ n \in IF asked.number = 0 THEN SuggestNumber(model[c], new, Others(c, ch)) ELSE {asked.number}
               /\ n <= MaxNumber
               /\ CheckStrip(model[c], [new EXCEPT !.number = n], Others(c, ch))
               /\ row' = [row EXCEPT ![ch] = [new EXCEPT !.number = n]]
    BY DEF CreateInputChannel
<1>2. c \in Desks /\ UNCHANGED model /\ UNCHANGED inputs
    BY DEF CreateInputChannel
<1>. DEFINE r == [new EXCEPT !.number = n]
<1>3. n \in 0 .. MaxNumber
  <2>1. CASE asked.number # 0
    BY <1>1, <2>1, StripsAssumption DEF Asked
  <2>2. CASE asked.number = 0
    <3>1. n \in SuggestNumber(model[c], new, Others(c, ch))
      BY <1>1, <2>2
    <3>2. n \in Nat
      BY <3>1, SuggestionType DEF IInv
    <3>. QED BY <1>1, <3>2, StripsAssumption
  <2>. QED BY <2>1, <2>2
<1>4. r \in Rows /\ r.desk = c
    BY <1>3, AsOnType DEF Rows
<1>5. TypeOK'
    BY <1>1, <1>2, <1>4 DEF IInv, TypeOK
<1>6. RowsOnDesks'
    BY <1>1, <1>2, <1>4 DEF IInv, TypeOK, RowsOnDesks, Desks
<1>7. ASSUME model[c] \in RealModels, NEW o \in RowsOn(c) \ {ch}, row[o].pool = r.pool
      PROVE  StripsOf(model[c], row[o]) \cap StripsOf(model[c], r) = {}
  <2>1. row[o] \in Others(c, ch) /\ row[o].pool = r.pool
    BY <1>7 DEF Others
  <2>2. CheckStrip(model[c], r, Others(c, ch))
    BY <1>1
  <2>. HIDE DEF r
  <2>. QED BY <1>7, <2>1, <2>2, CheckedIsApart
<1>8. StripsApart'
    BY <1>1, <1>2, <1>4, <1>7, OneRowKeepsApart DEF IInv
<1>. QED BY <1>5, <1>6, <1>8 DEF IInv

LEMMA SaveInputChannelKeeps ==
    ASSUME IInv, NEW ch \in Channels, NEW c \in Consoles, NEW asked \in Asked,
           SaveInputChannel(ch, c, asked)
    PROVE  IInv'
<1>. DEFINE new == AsOn(c, asked)
<1>1. /\ c \in Desks
      /\ SamePlace(row[ch], new) \/ CheckStrip(model[c], new, Others(c, ch))
      /\ row' = [row EXCEPT ![ch] = new]
      /\ UNCHANGED <<model, inputs>>
    BY DEF SaveInputChannel
<1>2. new \in Rows /\ new.desk = c
    BY AsOnType
<1>3. TypeOK'
    BY <1>1, <1>2 DEF IInv, TypeOK
<1>4. RowsOnDesks'
    BY <1>1, <1>2 DEF IInv, TypeOK, RowsOnDesks, Desks
<1>5. ASSUME model[c] \in RealModels, NEW o \in RowsOn(c) \ {ch}, row[o].pool = new.pool
      PROVE  StripsOf(model[c], row[o]) \cap StripsOf(model[c], new) = {}
  <2>1. CASE CheckStrip(model[c], new, Others(c, ch))
    BY <1>5, <2>1, CheckedIsApart DEF Others
  <2>2. CASE SamePlace(row[ch], new)
    <3>1. ch \in RowsOn(c) /\ row[ch].pool = new.pool /\ row[ch].number = new.number
      BY <1>2, <2>2 DEF SamePlace, RowsOn
    <3>2. StripWidth(model[c], row[ch]) = StripWidth(model[c], new)
      BY <1>5, <2>2, RealWidth DEF SamePlace
    <3>3. StripsOf(model[c], row[ch]) = StripsOf(model[c], new)
      BY <3>1, <3>2 DEF StripsOf, Last
    <3>4. StripsOf(model[c], row[o]) \cap StripsOf(model[c], row[ch]) = {}
      BY <1>1, <1>5, <3>1 DEF IInv, StripsApart
    <3>. QED BY <3>3, <3>4
  <2>. QED BY <1>1, <2>1, <2>2
<1>6. StripsApart'
    BY <1>1, <1>2, <1>5, OneRowKeepsApart DEF IInv
<1>. QED BY <1>3, <1>4, <1>6 DEF IInv

(* Bumping a number to an odd one only raises it. *)
LEMMA BumpRaises ==
    ASSUME NEW m, NEW r, NEW n \in Nat
    PROVE  Bumped(m, r, n) \in Nat /\ Bumped(m, r, n) >= n
BY DEF Bumped

(* A switched row starts after every row placed before it in its pool. *)
LEMMA MappedIsAfter ==
    ASSUME NEW to, NEW typed, NEW old, old.number \in Nat, NEW new, NEW placed,
           \A p \in placed : p.number \in 0 .. MaxNumber,
           NEW p \in placed, p.pool = new.pool
    PROVE  Last(to, p) < MappedNumber(to, typed, old, new, placed)
<1>. DEFINE mates == {q \in placed : q.pool = new.pool}
            cursor == Cursor(to, mates)
            start == IF old.pool # new.pool \/ old.number < cursor THEN cursor ELSE old.number
            capacity == PoolCapacity(to, new.pool, typed)
            wanted == Bumped(to, new, start)
            up == Bumped(to, new, cursor)
            PastEnd(n) == capacity > 0 /\ n + StripWidth(to, new) - 1 > capacity
<1>1. cursor \in Nat /\ Last(to, p) < cursor
    BY FirstAfterIsAfter DEF Cursor
<1>2. start \in Nat /\ cursor <= start
    BY <1>1
<1>3. wanted \in Nat /\ cursor <= wanted /\ up \in Nat /\ cursor <= up
  <2>. HIDE DEF cursor, start
  <2>. QED BY <1>1, <1>2, BumpRaises
<1>4. Last(to, p) \in Int
    BY WidthType DEF Last
<1>5. Last(to, p) < wanted /\ Last(to, p) < up
  <2>. HIDE DEF wanted, up, cursor
  <2>. QED BY <1>1, <1>3, <1>4
<1>6. MappedNumber(to, typed, old, new, placed) = IF PastEnd(wanted) /\ ~PastEnd(up) THEN up ELSE wanted
    BY DEF MappedNumber
<1>. HIDE DEF wanted, up, PastEnd
<1>. QED BY <1>5, <1>6

LEMMA SwitchConsoleModelKeeps ==
    ASSUME IInv, NEW c \in Consoles, NEW to \in Models, SwitchConsoleModel(c, to)
    PROVE  IInv'
<1>. DEFINE typed == IF to \in RealModels THEN Strips[to] ELSE inputs[c]
            New(ch, number) == Renumbered(row[ch], model[c], to, number[ch])
<1>1. PICK number \in [RowsOn(c) -> 1 .. MaxNumber] :
          /\ MapRows(c, model[c], to, typed, number)
          /\ row' = [ch \in Channels |-> IF ch \in RowsOn(c) THEN New(ch, number) ELSE row[ch]]
    BY DEF SwitchConsoleModel
<1>2. c \in Desks /\ model' = [model EXCEPT ![c] = to] /\ inputs' = [inputs EXCEPT ![c] = typed]
    BY DEF SwitchConsoleModel
<1>3. \A ch \in Channels : row[ch] \in Rows
    BY DEF IInv, TypeOK
<1>4. ASSUME NEW ch \in RowsOn(c)
      PROVE  /\ New(ch, number) \in Rows
             /\ New(ch, number).desk = c
             /\ New(ch, number).number = number[ch]
             /\ New(ch, number).pool = IF Engine(model[c]) = "x32" /\ Engine(to) = "x32"
                                       THEN row[ch].pool ELSE "channel"
  <2>1. number[ch] \in 0 .. MaxNumber
    BY <1>1, StripsAssumption
  <2>2. row[ch] \in Rows /\ row[ch].desk = c
    BY <1>3 DEF RowsOn
  <2>3. ForcedShape(to, row[ch].shape) \in Shapes
    BY <2>2, ForcedShapeType DEF Rows
  <2>. QED BY <2>1, <2>2, <2>3 DEF Renumbered, Rows, StripPools
<1>5. \A ch \in Channels : row'[ch] = IF ch \in RowsOn(c) THEN New(ch, number) ELSE row[ch]
    BY <1>1
<1>6. TypeOK'
  <2>1. row' \in [Channels -> Rows]
    BY <1>1, <1>3, <1>4
  <2>2. typed \in Nat /\ to \in AllModels
    BY StripsAssumption DEF IInv, TypeOK
  <2>. QED BY <1>2, <2>1, <2>2 DEF IInv, TypeOK
<1>7. \A ch \in Channels : row'[ch].desk = row[ch].desk
    BY <1>4, <1>5 DEF RowsOn
<1>8. \A d \in Consoles : model'[d] = IF d = c THEN to ELSE model[d]
    BY <1>2 DEF IInv, TypeOK
<1>9. RowsOnDesks'
    BY <1>7, <1>8, StripsAssumption DEF IInv, RowsOnDesks, Desks
<1>10. ASSUME NEW a \in RowsOn(c), NEW b \in RowsOn(c), Before(a, b), row'[a].pool = row'[b].pool
       PROVE  StripsOf(to, row'[a]) \cap StripsOf(to, row'[b]) = {}
  <2>. DEFINE placed == {New(o, number) : o \in {x \in RowsOn(c) : Before(x, b)}}
  <2>1. row'[a] = New(a, number) /\ row'[b] = New(b, number)
    BY <1>5 DEF RowsOn
  <2>2. \A p \in placed : p.number \in 0 .. MaxNumber
    BY <1>4 DEF Rows
  <2>3. number[b] = MappedNumber(to, typed, row[b], New(b, number), placed)
    BY <1>1 DEF MapRows
  <2>4. New(a, number) \in placed
    BY <1>10
  <2>5. row[b].number \in Nat
    BY <1>3, StripsAssumption DEF RowsOn, Rows
  <2>6. Last(to, New(a, number)) < number[b]
    <3>. HIDE DEF New, placed, typed
    <3>. QED BY <1>10, <2>1, <2>2, <2>3, <2>4, <2>5, MappedIsAfter
  <2>7. Last(to, row'[a]) < row'[b].number
    BY <1>4, <2>1, <2>6
  <2>8. row'[a].number \in Nat /\ row'[b].number \in Nat
    BY <1>6, StripsAssumption DEF TypeOK, Rows, RowsOn
  <2>9. Last(to, row'[a]) \in Int /\ Last(to, row'[b]) \in Int
    BY <2>8, WidthType DEF Last
  <2>. QED BY <2>7, <2>8, <2>9 DEF StripsOf
<1>11. StripsApart'
  <2>. SUFFICES ASSUME NEW d \in Desks', model'[d] \in RealModels,
                       NEW a \in RowsOn(d)', NEW b \in RowsOn(d)',
                       a # b, row'[a].pool = row'[b].pool
                PROVE  StripsOf(model'[d], row'[a]) \cap StripsOf(model'[d], row'[b]) = {}
    BY DEF StripsApart
  <2>1. d \in Consoles /\ a \in Channels /\ b \in Channels /\ a \in RowsOn(d) /\ b \in RowsOn(d)
    BY <1>7 DEF Desks, RowsOn
  <2>2. CASE d = c
    <3>1. Before(a, b) \/ Before(b, a)
      BY <2>1, BeforeIsTotal DEF IInv
    <3>2. model'[d] = to
      BY <1>8, <2>2
    <3>. QED BY <1>10, <2>1, <2>2, <3>1, <3>2
  <2>3. CASE d # c
    <3>1. a \notin RowsOn(c) /\ b \notin RowsOn(c)
      BY <2>1, <2>3 DEF RowsOn
    <3>2. row'[a] = row[a] /\ row'[b] = row[b] /\ model'[d] = model[d] /\ d \in Desks
      BY <1>5, <1>8, <2>1, <2>3, <3>1 DEF Desks
    <3>. QED BY <2>1, <3>2 DEF IInv, StripsApart
  <2>. QED BY <2>2, <2>3
<1>. QED BY <1>6, <1>9, <1>11 DEF IInv

(* A row put on a real model shares no strip with the rows it was put       *)
(* beside: it keeps a number that was checked, or takes a free one, or goes *)
(* past them all.                                                           *)
LEMMA PlacedIsApart ==
    ASSUME NEW m \in RealModels, NEW new \in Rows, new.pool = "channel",
           NEW occupants, \A o \in occupants : o.number \in 0 .. MaxNumber,
           NEW o \in occupants, o.pool = "channel",
           NEW r \in Rows, r = [new EXCEPT !.number = PlacedNumber(m, new, occupants)]
    PROVE  StripsOf(m, o) \cap StripsOf(m, r) = {}
<1>. DEFINE free == FreeStrips(m, new, occupants)
            after == FirstAfter(m, {x \in occupants : x.pool = "channel"})
            end == PoolCapacity(m, "channel", 0) + 1
            highest == CHOOSE n \in {new.number, after, end} : \A k \in {new.number, after, end} : k <= n
<1>1. r.number = PlacedNumber(m, new, occupants) /\ r.pool = "channel" /\ r.shape = new.shape
    BY DEF Rows
<1>2. CASE CheckStrip(m, new, occupants)
  <2>1. r.number = new.number
    BY <1>1, <1>2 DEF PlacedNumber
  <2>2. r = new
    BY <2>1 DEF Rows
  <2>. QED BY <1>2, <2>2, CheckedIsApart
<1>3. CASE ~CheckStrip(m, new, occupants) /\ free # {}
  <2>1. free \subseteq Nat
    BY DEF FreeStrips
  <2>2. r.number \in free
    BY <1>1, <1>3, <2>1, LeastIsLeast DEF PlacedNumber
  <2>3. Fits(m, [new EXCEPT !.number = r.number], occupants)
    BY <2>2 DEF FreeStrips
  <2>4. [new EXCEPT !.number = r.number] = r
    BY <1>1
  <2>. QED BY <1>1, <2>3, <2>4 DEF Fits
<1>4. CASE ~CheckStrip(m, new, occupants) /\ free = {}
  <2>1. r.number = highest
    BY <1>1, <1>4 DEF PlacedNumber
  <2>2. after \in Nat /\ Last(m, o) < after
    BY FirstAfterIsAfter
  <2>3. new.number \in Nat /\ r.number \in Nat /\ o.number \in Nat
    BY StripsAssumption DEF Rows
  <2>4. end \in Int
    BY StripsAssumption, RealIsNotGeneric DEF PoolCapacity
  <2>5. after <= highest
    <3>1. \E n \in {new.number, after, end} : \A k \in {new.number, after, end} : k <= n
      <4>. HIDE DEF after, end
      <4>. QED BY <2>2, <2>3, <2>4
    <3>. HIDE DEF after, end
    <3>. QED BY <3>1
  <2>6. Last(m, o) \in Int /\ Last(m, r) \in Int
    BY <2>3, WidthType DEF Last
  <2>7. Last(m, o) < r.number
    <3>. HIDE DEF after, highest
    <3>. QED BY <2>1, <2>2, <2>3, <2>5, <2>6
  <2>. QED BY <2>3, <2>6, <2>7 DEF StripsOf
<1>. QED BY <1>2, <1>3, <1>4

LEMMA PlaceOnConsoleKeeps ==
    ASSUME IInv, NEW c \in Consoles, NEW chs \in SUBSET Channels, PlaceOnConsole(c, chs)
    PROVE  IInv'
<1>. DEFINE Here(ch) == OnDesk(c, row[ch], row[ch].number)
            At(ch, number) == OnDesk(c, row[ch], number[ch])
            Beside(ch, number) == {row[o] : o \in RowsOn(c)} \cup {At(o, number) : o \in {x \in chs : Before(x, ch)}}
<1>1. PICK number \in [chs -> 0 .. MaxNumber] :
          /\ \A ch \in chs : number[ch] = PlacedNumber(model[c], Here(ch), Beside(ch, number))
          /\ row' = [ch \in Channels |-> IF ch \in chs THEN At(ch, number) ELSE row[ch]]
    BY DEF PlaceOnConsole
<1>2. c \in Desks /\ UNCHANGED model /\ UNCHANGED inputs /\ chs \subseteq RowsOn(NoDesk)
    BY DEF PlaceOnConsole
<1>3. \A ch \in Channels : row[ch] \in Rows /\ row[ch].number \in 0 .. MaxNumber
    BY DEF IInv, TypeOK, Rows
<1>4. ASSUME NEW ch \in chs
      PROVE  /\ At(ch, number) \in Rows /\ At(ch, number).desk = c
             /\ At(ch, number).number = number[ch] /\ At(ch, number).pool = "channel"
             /\ Here(ch) \in Rows /\ Here(ch).pool = "channel"
             /\ At(ch, number) = [Here(ch) EXCEPT !.number = number[ch]]
  <2>1. number[ch] \in 0 .. MaxNumber /\ row[ch] \in Rows
    BY <1>1, <1>3
  <2>2. ForcedShape(model[c], row[ch].shape) \in Shapes
    BY <2>1, ForcedShapeType DEF Rows
  <2>. QED BY <2>1, <2>2 DEF OnDesk, Rows, StripPools
<1>5. \A ch \in Channels : row'[ch] = IF ch \in chs THEN At(ch, number) ELSE row[ch]
    BY <1>1
<1>6. TypeOK'
  <2>1. row' \in [Channels -> Rows]
    BY <1>1, <1>3, <1>4
  <2>. QED BY <1>2, <2>1 DEF IInv, TypeOK
<1>7. RowsOnDesks'
    BY <1>2, <1>4, <1>5 DEF IInv, RowsOnDesks, Desks
<1>8. ASSUME NEW a \in Channels, NEW b \in chs, model[c] \in RealModels,
             a \in RowsOn(c) \/ (a \in chs /\ Before(a, b)),
             row'[a].pool = row'[b].pool
      PROVE  StripsOf(model[c], row'[a]) \cap StripsOf(model[c], row'[b]) = {}
  <2>1. row'[b] = At(b, number) /\ row'[b].pool = "channel" /\ row'[b] \in Rows
    BY <1>4, <1>5
  <2>2. row'[a] \in Beside(b, number)
    <3>1. CASE a \in RowsOn(c)
      <4>1. a \notin chs
        BY <1>2, <3>1, StripsAssumption DEF RowsOn
      <4>. QED BY <1>5, <3>1, <4>1
    <3>2. CASE a \in chs /\ Before(a, b)
      BY <1>5, <3>2
    <3>. QED BY <1>8, <3>1, <3>2
  <2>3. \A o \in Beside(b, number) : o.number \in 0 .. MaxNumber
    BY <1>3, <1>4, ZenonT(60) DEF RowsOn, Rows
  <2>4. row'[b] = [Here(b) EXCEPT !.number = PlacedNumber(model[c], Here(b), Beside(b, number))]
    BY <1>1, <1>4, <2>1
  <2>5. Here(b) \in Rows /\ Here(b).pool = "channel"
    BY <1>4
  <2>6. \A o \in Beside(b, number), r \in Rows :
            o.pool = "channel" /\ r = [Here(b) EXCEPT !.number = PlacedNumber(model[c], Here(b), Beside(b, number))]
            => StripsOf(model[c], o) \cap StripsOf(model[c], r) = {}
    <3>. HIDE DEF Here, Beside, At
    <3>. QED BY <1>8, <2>3, <2>5, PlacedIsApart
  <2>. HIDE DEF Here, Beside, At
  <2>. QED BY <1>8, <2>1, <2>2, <2>4, <2>6
<1>9. StripsApart'
  <2>. SUFFICES ASSUME NEW d \in Desks', model'[d] \in RealModels,
                       NEW a \in RowsOn(d)', NEW b \in RowsOn(d)',
                       a # b, row'[a].pool = row'[b].pool
                PROVE  StripsOf(model'[d], row'[a]) \cap StripsOf(model'[d], row'[b]) = {}
    BY DEF StripsApart
  <2>1. d \in Desks /\ model'[d] = model[d] /\ a \in Channels /\ b \in Channels
    BY <1>2 DEF Desks, RowsOn
  <2>2. \A ch \in {a, b} : (ch \in chs => d = c) /\ (ch \notin chs => ch \in RowsOn(d) /\ row'[ch] = row[ch])
    BY <1>4, <1>5, <2>1, ZenonT(60) DEF RowsOn
  <2>3. CASE a \notin chs /\ b \notin chs
    BY <2>1, <2>2, <2>3 DEF IInv, StripsApart
  <2>4. CASE a \notin chs /\ b \in chs
    BY <1>8, <2>1, <2>2, <2>4
  <2>5. CASE a \in chs /\ b \notin chs
    BY <1>8, <2>1, <2>2, <2>5
  <2>6. CASE a \in chs /\ b \in chs
    <3>1. Before(a, b) \/ Before(b, a)
      BY <2>1, BeforeIsTotal DEF IInv
    <3>. QED BY <1>8, <2>1, <2>2, <2>6, <3>1
  <2>. QED BY <2>3, <2>4, <2>5, <2>6
<1>. QED BY <1>6, <1>7, <1>9 DEF IInv

-----------------------------------------------------------------------------
LEMMA StutterInv == IInv /\ UNCHANGED vars => IInv'
BY DEF IInv, vars, TypeOK, RowsOnDesks, StripsApart, RowsOn, Desks, StripsOf, Last, StripWidth

LEMMA NextInv == IInv /\ Next => IInv'
<1>1. IInv /\ DeskStep => IInv'
    BY DeleteConsoleKeeps, SetInputsKeeps, CreateConsoleKeeps, SwitchConsoleModelKeeps, PlaceOnConsoleKeeps
    DEF DeskStep
<1>2. IInv /\ ChannelStep => IInv'
    BY DeleteInputChannelKeeps, CreateInputChannelKeeps, SaveInputChannelKeeps DEF ChannelStep
<1>. QED BY <1>1, <1>2 DEF Next

(* The inductive invariant holds of every reachable state. *)
THEOREM StripsInvariant == Spec => []IInv
<1>1. IInv /\ [Next]_vars => IInv'
    BY NextInv, StutterInv
<1>. QED BY <1>1, InitInv, PTL DEF Spec

(* The columns of event_consoles and input_channels keep their ranges       *)
(* through every handler that writes them.                                  *)
THEOREM StripsTyped == Spec => []TypeOK
<1>1. IInv => TypeOK
    BY DEF IInv
<1>. QED BY <1>1, StripsInvariant, PTL

(* No two channels of one pool of a real desk share a strip, over rows      *)
(* included, whatever saves, placings and model switches follow one another.*)
THEOREM StripsStayApart == Spec => []StripsApart
<1>1. IInv => StripsApart
    BY DEF IInv
<1>. QED BY <1>1, StripsInvariant, PTL

-----------------------------------------------------------------------------
(* How the channels are laid out.                                           *)

(* A row wholly inside its pool, or wholly past the end. *)
LegalRow(m, r) ==
    LET capacity == PoolCapacity(m, r.pool, 0)
    IN  /\ r.pool = "aux" => HasAux(m)
        /\ r.number >= 1
        /\ \/ r.number > capacity
           \/ /\ Last(m, r) <= capacity
              /\ Pair(m, r) => r.number % 2 = 1

-----------------------------------------------------------------------------
(* Lemmas on the pools and on single rows.                                  *)

(* A typed input count means nothing to a real model. *)
LEMMA RealCapacity ==
    ASSUME NEW m \in RealModels, NEW pool \in StripPools, NEW typed
    PROVE  /\ PoolCapacity(m, pool, typed) \in Nat
           /\ PoolCapacity(m, pool, typed) = PoolCapacity(m, pool, 0)
           /\ Engine(m) = "x32" => PoolCapacity(m, pool, typed) % 2 = 0
<1>1. Engine(m) = "x32" => m = "x32"
    BY DEF RealModels, BusModeModels, Engine
<1>2. Strips[m] \in Nat /\ AuxIn \in Nat /\ Strips["x32"] % 2 = 0 /\ AuxIn % 2 = 0
    BY StripsAssumption
<1>. QED BY <1>1, <1>2, RealIsNotGeneric DEF PoolCapacity, HasAux, StripPools

(* On a real model only an X32's linked pair is two strips wide. *)
LEMMA WideIsPair ==
    ASSUME NEW m \in RealModels, NEW r
    PROVE  StripWidth(m, r) = IF Pair(m, r) THEN 2 ELSE 1
BY RealIsNotGeneric DEF Pair, StripWidth

(* What the strip check passes is legal. *)
LEMMA CheckedIsLegal ==
    ASSUME NEW m \in RealModels, NEW r \in Rows, NEW others, CheckStrip(m, r, others),
           r.pool = "aux" => HasAux(m)
    PROVE  LegalRow(m, r)
BY RealIsNotGeneric DEF CheckStrip, Fits, LegalRow

(* A number typed into the pool of a real desk is one the check looks at. *)
LEMMA CheckedIsInside ==
    ASSUME NEW m \in RealModels, NEW r \in Rows, NEW others, CheckStrip(m, r, others)
    PROVE  r.number \in 1 .. PoolCapacity(m, r.pool, 0)
<1>1. r.number \in Nat /\ r.pool \in StripPools
    BY StripsAssumption DEF Rows
<1>2. PoolCapacity(m, r.pool, 0) \in Nat
    BY <1>1, RealCapacity
<1>3. Fits(m, r, others)
    BY RealIsNotGeneric DEF CheckStrip
<1>. QED BY <1>1, <1>2, <1>3, WidthType DEF Fits, Last

(* A row of AsOn is on aux only on a desk that has it. *)
LEMMA AsOnPool ==
    ASSUME NEW c, NEW asked \in Asked
    PROVE  AsOn(c, asked).pool = "aux" => HasAux(model[c])
BY DEF AsOn

-----------------------------------------------------------------------------
(* What a switch makes of the rows of its desk.                             *)

(* The input count a desk has after a switch. *)
TypedAfter(c, to) == IF to \in RealModels THEN Strips[to] ELSE inputs[c]

(* The rows placed before a row when a switch comes to it, as the switch    *)
(* leaves them; and the rows one put on the desk is placed beside.          *)
PlacedBefore(c, ch) == {row'[o] : o \in {x \in RowsOn(c) : Before(x, ch)}}
PlacedBeside(c, chs, ch) == {row[o] : o \in RowsOn(c)} \cup {row'[o] : o \in {x \in chs : Before(x, ch)}}

(* Every row of the desk gets the number MappedNumber gives it after the    *)
(* rows before it, a shape of the new model, and aux only from X32 to X32.  *)
LEMMA SwitchLaysOut ==
    ASSUME IInv, NEW c \in Consoles, NEW to \in Models, SwitchConsoleModel(c, to)
    PROVE  /\ c \in Desks
           /\ \A d \in Consoles : model'[d] = IF d = c THEN to ELSE model[d]
           /\ inputs'[c] = TypedAfter(c, to)
           /\ \A ch \in Channels \ RowsOn(c) : row'[ch] = row[ch]
           /\ \A ch \in RowsOn(c) :
                /\ row'[ch] \in Rows /\ row'[ch].desk = c /\ row'[ch].number >= 1
                /\ row'[ch].pool = IF Engine(model[c]) = "x32" /\ Engine(to) = "x32"
                                   THEN row[ch].pool ELSE "channel"
                /\ row'[ch].number = MappedNumber(to, TypedAfter(c, to), row[ch], row'[ch], PlacedBefore(c, ch))
<1>. DEFINE New(ch, number) == Renumbered(row[ch], model[c], to, number[ch])
<1>1. PICK number \in [RowsOn(c) -> 1 .. MaxNumber] :
          /\ MapRows(c, model[c], to, TypedAfter(c, to), number)
          /\ row' = [ch \in Channels |-> IF ch \in RowsOn(c) THEN New(ch, number) ELSE row[ch]]
    BY DEF SwitchConsoleModel, TypedAfter
<1>2. c \in Desks /\ model' = [model EXCEPT ![c] = to] /\ inputs' = [inputs EXCEPT ![c] = TypedAfter(c, to)]
    BY DEF SwitchConsoleModel, TypedAfter
<1>3. \A d \in Consoles : model'[d] = IF d = c THEN to ELSE model[d]
    BY <1>2 DEF IInv, TypeOK
<1>4. inputs'[c] = TypedAfter(c, to)
    BY <1>2 DEF IInv, TypeOK
<1>5. \A ch \in Channels \ RowsOn(c) : row'[ch] = row[ch]
    BY <1>1
<1>6. \A ch \in RowsOn(c) : row'[ch] = New(ch, number)
    BY <1>1 DEF RowsOn
<1>7. ASSUME NEW ch \in RowsOn(c)
      PROVE  /\ New(ch, number) \in Rows /\ New(ch, number).desk = c
             /\ New(ch, number).number = number[ch] /\ number[ch] >= 1
             /\ New(ch, number).pool = IF Engine(model[c]) = "x32" /\ Engine(to) = "x32"
                                       THEN row[ch].pool ELSE "channel"
  <2>1. number[ch] \in 0 .. MaxNumber /\ number[ch] >= 1
    BY <1>1, StripsAssumption
  <2>2. row[ch] \in Rows /\ row[ch].desk = c
    BY DEF IInv, TypeOK, RowsOn
  <2>3. ForcedShape(to, row[ch].shape) \in Shapes
    BY <2>2, ForcedShapeType DEF Rows
  <2>. QED BY <2>1, <2>2, <2>3 DEF Renumbered, Rows, StripPools
<1>8. ASSUME NEW ch \in RowsOn(c)
      PROVE  row'[ch].number = MappedNumber(to, TypedAfter(c, to), row[ch], row'[ch], PlacedBefore(c, ch))
  <2>1. number[ch] = MappedNumber(to, TypedAfter(c, to), row[ch], New(ch, number),
                         {New(o, number) : o \in {x \in RowsOn(c) : Before(x, ch)}})
    BY <1>1 DEF MapRows
  <2>2. {New(o, number) : o \in {x \in RowsOn(c) : Before(x, ch)}}
            = PlacedBefore(c, ch)
    <3>. HIDE DEF New
    <3>. QED BY <1>6 DEF PlacedBefore
  <2>3. row'[ch] = New(ch, number) /\ row'[ch].number = number[ch]
    BY <1>6, <1>7
  <2>. HIDE DEF New
  <2>. QED BY <2>1, <2>2, <2>3
<1>9. ASSUME NEW ch \in RowsOn(c)
      PROVE  /\ row'[ch] \in Rows /\ row'[ch].desk = c /\ row'[ch].number >= 1
             /\ row'[ch].pool = IF Engine(model[c]) = "x32" /\ Engine(to) = "x32"
                                THEN row[ch].pool ELSE "channel"
  <2>. HIDE DEF New
  <2>. QED BY <1>6, <1>7
<1>. QED BY <1>2, <1>3, <1>4, <1>5, <1>8, <1>9

(* The first number after the rows placed in a row's pool. *)
CursorOf(to, new, placed) == FirstAfter(to, {p \in placed : p.pool = new.pool})

(* Where MappedNumber puts a row: at or after the cursor, on an odd number  *)
(* if it is a pair, and past the end only if right after the cursor would   *)
(* be past the end too.                                                     *)
LEMMA MappedPlace ==
    ASSUME NEW to, NEW typed, NEW old, old.number \in Nat, NEW new, NEW placed,
           \A p \in placed : p.number \in 0 .. MaxNumber,
           PoolCapacity(to, new.pool, typed) \in Nat
    PROVE  LET cursor == CursorOf(to, new, placed)
               capacity == PoolCapacity(to, new.pool, typed)
               n == MappedNumber(to, typed, old, new, placed)
           IN  /\ cursor \in Nat /\ n \in Nat /\ cursor <= n
               /\ Pair(to, new) => n % 2 = 1
               /\ capacity > 0 /\ n + StripWidth(to, new) - 1 > capacity
                    => Bumped(to, new, cursor) + StripWidth(to, new) - 1 > capacity
               /\ new.pool = old.pool /\ cursor <= old.number
                    /\ Bumped(to, new, old.number) = old.number
                    /\ old.number + StripWidth(to, new) - 1 <= capacity
                    => n = old.number
<1>. DEFINE cursor == CursorOf(to, new, placed)
            capacity == PoolCapacity(to, new.pool, typed)
            n == MappedNumber(to, typed, old, new, placed)
            start == IF old.pool # new.pool \/ old.number < cursor THEN cursor ELSE old.number
            wanted == Bumped(to, new, start)
            up == Bumped(to, new, cursor)
            PastEnd(k) == capacity > 0 /\ k + StripWidth(to, new) - 1 > capacity
<1>1. cursor \in Nat
    BY FirstAfterIsAfter DEF CursorOf
<1>2. start \in Nat /\ cursor <= start
    BY <1>1
<1>3. wanted \in Nat /\ cursor <= wanted /\ up \in Nat /\ cursor <= up
  <2>. HIDE DEF start
  <2>. QED BY <1>1, <1>2, BumpRaises
<1>4. Pair(to, new) => wanted % 2 = 1 /\ up % 2 = 1
  <2>. HIDE DEF start
  <2>. QED BY <1>1, <1>2 DEF Bumped
<1>5. n = IF PastEnd(wanted) /\ ~PastEnd(up) THEN up ELSE wanted
    BY DEF MappedNumber, Cursor, CursorOf
<1>6. new.pool = old.pool /\ cursor <= old.number => start = old.number
    BY <1>1
<1>7. start = old.number /\ Bumped(to, new, old.number) = old.number => wanted = old.number
    OBVIOUS
<1>8. wanted = old.number /\ old.number + StripWidth(to, new) - 1 <= capacity => ~PastEnd(wanted)
  <2>. HIDE DEF wanted
  <2>. QED BY WidthType
<1>. HIDE DEF wanted, up, start, cursor, capacity, n
<1>9. n \in Nat /\ cursor <= n /\ (Pair(to, new) => n % 2 = 1)
    BY <1>3, <1>4, <1>5
<1>10. PastEnd(n) => PastEnd(up)
    BY <1>5
<1>11. /\ new.pool = old.pool /\ cursor <= old.number
       /\ Bumped(to, new, old.number) = old.number
       /\ old.number + StripWidth(to, new) - 1 <= capacity
       => n = old.number
    BY <1>5, <1>6, <1>7, <1>8
<1>. QED BY <1>1, <1>9, <1>10, <1>11 DEF up, cursor, capacity, n

(* A row a switch has placed on a real model is legal or over. *)
LEMMA SwitchedIsLegal ==
    ASSUME IInv, NEW c \in Consoles, NEW to \in Models, SwitchConsoleModel(c, to),
           to \in RealModels, NEW ch \in RowsOn(c)
    PROVE  LegalRow(to, row'[ch])
<1>. DEFINE placed == PlacedBefore(c, ch)
            typed == TypedAfter(c, to)
            capacity == PoolCapacity(to, row'[ch].pool, typed)
            width == StripWidth(to, row'[ch])
<1>1. /\ row'[ch] \in Rows /\ row'[ch].number >= 1
      /\ row'[ch].pool = "aux" => Engine(to) = "x32"
      /\ row'[ch].number = MappedNumber(to, typed, row[ch], row'[ch], placed)
    BY SwitchLaysOut
<1>2. row'[ch].number \in Nat /\ row'[ch].pool \in StripPools
    BY <1>1, StripsAssumption DEF Rows
<1>3. row[ch].number \in Nat
  <2>1. row[ch] \in Rows
    BY DEF IInv, TypeOK, RowsOn
  <2>. QED BY <2>1, StripsAssumption DEF Rows
<1>4. \A p \in placed : p.number \in 0 .. MaxNumber
  <2>1. \A o \in RowsOn(c) : row'[o] \in Rows
    BY SwitchLaysOut
  <2>. QED BY <2>1 DEF Rows, PlacedBefore
<1>5. /\ capacity \in Nat /\ capacity = PoolCapacity(to, row'[ch].pool, 0)
      /\ Engine(to) = "x32" => capacity % 2 = 0
    BY <1>2, RealCapacity
<1>6. Pair(to, row'[ch]) => row'[ch].number % 2 = 1
  <2>. DEFINE n == MappedNumber(to, typed, row[ch], row'[ch], placed)
  <2>1. Pair(to, row'[ch]) => n % 2 = 1
    <3>. HIDE DEF placed, typed
    <3>. QED BY <1>3, <1>4, <1>5, MappedPlace
  <2>. QED BY <1>1, <2>1
<1>7. width = IF Pair(to, row'[ch]) THEN 2 ELSE 1
    BY WideIsPair
<1>8. row'[ch].number > capacity \/ row'[ch].number + width - 1 <= capacity
  <2>1. Pair(to, row'[ch]) => Engine(to) = "x32"
    BY DEF Pair
  <2>. HIDE DEF capacity, width
  <2>. QED BY <1>2, <1>5, <1>6, <1>7, <2>1
<1>9. row'[ch].pool = "aux" => HasAux(to)
    BY <1>1 DEF HasAux
<1>. HIDE DEF capacity, placed, typed
<1>. QED BY <1>1, <1>5, <1>6, <1>8, <1>9 DEF LegalRow, Last

(* A row put on a real model is legal or over: it kept a number that was    *)
(* checked, took a free one, or went past the end.                          *)
LEMMA PlacedIsLegal ==
    ASSUME NEW m \in RealModels, NEW new \in Rows, new.pool = "channel", NEW occupants,
           \A o \in occupants : o.number \in 0 .. MaxNumber,
           NEW r \in Rows, r = [new EXCEPT !.number = PlacedNumber(m, new, occupants)]
    PROVE  /\ LegalRow(m, r)
           /\ r.number > PoolCapacity(m, "channel", 0) => FreeStrips(m, new, occupants) = {}
<1>. DEFINE free == FreeStrips(m, new, occupants)
            after == FirstAfter(m, {x \in occupants : x.pool = "channel"})
            end == PoolCapacity(m, "channel", 0) + 1
            highest == CHOOSE n \in {new.number, after, end} : \A k \in {new.number, after, end} : k <= n
<1>1. r.number = PlacedNumber(m, new, occupants) /\ r.pool = "channel" /\ r.shape = new.shape
    BY DEF Rows
<1>2. PoolCapacity(m, "channel", 0) \in Nat
    BY RealCapacity DEF StripPools
<1>3. CASE CheckStrip(m, new, occupants)
  <2>1. r.number = new.number
    BY <1>1, <1>3 DEF PlacedNumber
  <2>2. r = new
    BY <2>1 DEF Rows
  <2>3. r.number \in 1 .. PoolCapacity(m, "channel", 0)
    BY <1>1, <1>3, <2>2, CheckedIsInside
  <2>. QED BY <1>1, <1>2, <1>3, <2>2, <2>3, CheckedIsLegal
<1>4. CASE ~CheckStrip(m, new, occupants) /\ free # {}
  <2>1. free \subseteq Nat
    BY DEF FreeStrips
  <2>2. r.number \in free
    BY <1>1, <1>4, <2>1, LeastIsLeast DEF PlacedNumber
  <2>3. Fits(m, [new EXCEPT !.number = r.number], occupants)
    BY <2>2 DEF FreeStrips
  <2>4. [new EXCEPT !.number = r.number] = r
    BY <1>1
  <2>5. CheckStrip(m, r, occupants)
    BY <2>3, <2>4 DEF CheckStrip
  <2>6. r.number \in 1 .. PoolCapacity(m, "channel", 0)
    BY <1>1, <2>5, CheckedIsInside
  <2>7. LegalRow(m, r)
    BY <1>1, <2>5, CheckedIsLegal
  <2>8. ~(r.number > PoolCapacity(m, "channel", 0))
    <3>. HIDE DEF free
    <3>. QED BY <1>1, <1>2, <2>6
  <2>. QED BY <2>7, <2>8
<1>5. CASE ~CheckStrip(m, new, occupants) /\ free = {}
  <2>1. r.number = highest
    BY <1>1, <1>5 DEF PlacedNumber
  <2>2. after \in Nat /\ new.number \in Nat /\ end \in Nat
    BY <1>2, FirstAfterIsAfter, StripsAssumption DEF Rows
  <2>3. end <= highest /\ highest \in Nat
    <3>1. \E n \in {new.number, after, end} : \A k \in {new.number, after, end} : k <= n
      <4>. HIDE DEF after, end
      <4>. QED BY <2>2
    <3>. HIDE DEF after, end
    <3>. QED BY <2>2, <3>1
  <2>4. r.number > PoolCapacity(m, "channel", 0) /\ r.number >= 1
    <3>. HIDE DEF highest
    <3>. QED BY <1>2, <2>1, <2>3
  <2>. QED BY <1>1, <1>5, <2>4 DEF LegalRow
<1>. QED BY <1>3, <1>4, <1>5

-----------------------------------------------------------------------------
(* Legal or over, action by action.                                         *)

(* It is enough to look at the rows that changed, or whose desk did. *)
LEMMA LegalByRows ==
    ASSUME LegalOrOver,
           \A d \in Desks' : \A ch \in RowsOn(d)' : model'[d] \in RealModels =>
                \/ d \in Desks /\ model[d] = model'[d] /\ ch \in RowsOn(d) /\ row'[ch] = row[ch]
                \/ LegalRow(model'[d], row'[ch])
    PROVE  LegalOrOver'
BY DEF LegalOrOver, LegalRow

(* A step that leaves every row and every model of a desk with rows alone. *)
LEMMA LegalByDesk ==
    ASSUME IInv, LegalOrOver, NEW c \in Consoles,
           UNCHANGED row, \A d \in Consoles : d # c \/ d \in Desks => model'[d] = model[d]
    PROVE  LegalOrOver'
<1>1. ASSUME NEW d \in Desks', NEW ch \in RowsOn(d)', model'[d] \in RealModels
      PROVE  d \in Desks /\ model[d] = model'[d] /\ ch \in RowsOn(d) /\ row'[ch] = row[ch]
  <2>1. d \in Consoles /\ ch \in RowsOn(d)
    BY DEF Desks, RowsOn
  <2>2. d \in Desks
    BY <2>1 DEF IInv, RowsOnDesks, RowsOn
  <2>. QED BY <2>1, <2>2
<1>. QED BY <1>1, LegalByRows

LEMMA DeleteConsoleLegal ==
    ASSUME IInv, LegalOrOver, NEW c \in Consoles, DeleteConsole(c)
    PROVE  LegalOrOver'
<1>. USE DEF DeleteConsole
<1>1. \A ch \in Channels : row'[ch].desk \in Consoles => row'[ch] = row[ch] /\ row[ch].desk # c
    BY StripsAssumption DEF IInv, TypeOK, Rows
<1>2. \A d \in Consoles : d # c => model'[d] = model[d]
    BY DEF IInv, TypeOK
<1>3. ASSUME NEW d \in Desks', NEW a \in RowsOn(d)'
      PROVE  d \in Desks /\ model'[d] = model[d] /\ a \in RowsOn(d) /\ row'[a] = row[a]
    BY <1>1, <1>2, <1>3 DEF RowsOn, Desks
<1>. QED BY <1>3, LegalByRows

LEMMA SwitchConsoleModelLegal ==
    ASSUME IInv, LegalOrOver, NEW c \in Consoles, NEW to \in Models, SwitchConsoleModel(c, to)
    PROVE  LegalOrOver'
<1>1. ASSUME NEW d \in Desks', NEW ch \in RowsOn(d)', model'[d] \in RealModels
      PROVE  \/ d \in Desks /\ model[d] = model'[d] /\ ch \in RowsOn(d) /\ row'[ch] = row[ch]
             \/ LegalRow(model'[d], row'[ch])
  <2>1. d \in Consoles /\ ch \in Channels /\ row'[ch].desk = d
    BY DEF Desks, RowsOn
  <2>2. CASE ch \in RowsOn(c)
    <3>1. row'[ch].desk = c
      BY <2>2, SwitchLaysOut
    <3>2. model'[d] = to
      BY <2>1, <3>1, SwitchLaysOut
    <3>. QED BY <1>1, <2>2, <3>2, SwitchedIsLegal
  <2>3. CASE ch \notin RowsOn(c)
    <3>1. row'[ch] = row[ch]
      BY <2>1, <2>3, SwitchLaysOut
    <3>2. ch \in RowsOn(d) /\ d # c
      BY <2>1, <2>3, <3>1 DEF RowsOn
    <3>3. model'[d] = model[d]
      BY <2>1, <3>2, SwitchLaysOut
    <3>. QED BY <3>1, <3>2, <3>3 DEF Desks
  <2>. QED BY <2>2, <2>3
<1>. QED BY <1>1, LegalByRows

(* What PlaceOnConsole makes of the rows it places, beside the ones there.  *)
LEMMA PlaceLaysOut ==
    ASSUME IInv, NEW c \in Consoles, NEW chs \in SUBSET Channels, PlaceOnConsole(c, chs)
    PROVE  /\ c \in Desks /\ UNCHANGED model /\ \A ch \in chs : row[ch].desk = NoDesk
           /\ \A ch \in Channels \ chs : row'[ch] = row[ch]
           /\ \A ch \in chs : row'[ch].desk = c
           /\ \A ch \in chs :
                LET beside == PlacedBeside(c, chs, ch)
                    new == OnDesk(c, row[ch], row[ch].number)
                IN  /\ new \in Rows /\ new.pool = "channel"
                    /\ row'[ch] \in Rows /\ row'[ch].desk = c /\ row'[ch].pool = "channel"
                    /\ row'[ch] = [new EXCEPT !.number = PlacedNumber(model[c], new, beside)]
                    /\ \A o \in beside : o.number \in 0 .. MaxNumber
<1>. DEFINE Here(ch) == OnDesk(c, row[ch], row[ch].number)
            At(ch, number) == OnDesk(c, row[ch], number[ch])
            Beside(ch, number) == {row[o] : o \in RowsOn(c)} \cup {At(o, number) : o \in {x \in chs : Before(x, ch)}}
<1>1. PICK number \in [chs -> 0 .. MaxNumber] :
          /\ \A ch \in chs : number[ch] = PlacedNumber(model[c], Here(ch), Beside(ch, number))
          /\ row' = [ch \in Channels |-> IF ch \in chs THEN At(ch, number) ELSE row[ch]]
    BY DEF PlaceOnConsole
<1>2. c \in Desks /\ UNCHANGED model /\ \A ch \in chs : row[ch].desk = NoDesk
    BY DEF PlaceOnConsole, RowsOn
<1>3. \A ch \in Channels : row[ch] \in Rows /\ row[ch].number \in 0 .. MaxNumber
    BY DEF IInv, TypeOK, Rows
<1>4. ASSUME NEW ch \in chs
      PROVE  /\ At(ch, number) \in Rows /\ At(ch, number).desk = c
             /\ At(ch, number).number = number[ch] /\ At(ch, number).pool = "channel"
             /\ Here(ch) \in Rows /\ Here(ch).pool = "channel"
             /\ At(ch, number) = [Here(ch) EXCEPT !.number = number[ch]]
  <2>1. number[ch] \in 0 .. MaxNumber /\ row[ch] \in Rows
    BY <1>1, <1>3
  <2>2. ForcedShape(model[c], row[ch].shape) \in Shapes
    BY <2>1, ForcedShapeType DEF Rows
  <2>. QED BY <2>1, <2>2 DEF OnDesk, Rows, StripPools
<1>5. \A ch \in Channels : row'[ch] = IF ch \in chs THEN At(ch, number) ELSE row[ch]
    BY <1>1
<1>6. ASSUME NEW ch \in chs
      PROVE  LET beside == PlacedBeside(c, chs, ch)
             IN  /\ row'[ch] \in Rows /\ row'[ch].desk = c /\ row'[ch].pool = "channel"
                 /\ row'[ch] = [Here(ch) EXCEPT !.number = PlacedNumber(model[c], Here(ch), beside)]
                 /\ \A o \in beside : o.number \in 0 .. MaxNumber
  <2>. DEFINE beside == PlacedBeside(c, chs, ch)
  <2>1. beside = Beside(ch, number)
    <3>. HIDE DEF At
    <3>. QED BY <1>5 DEF PlacedBeside
  <2>2. row'[ch] = At(ch, number)
    BY <1>5
  <2>3. \A o \in Beside(ch, number) : o.number \in 0 .. MaxNumber
    BY <1>3, <1>4 DEF RowsOn, Rows
  <2>4. number[ch] = PlacedNumber(model[c], Here(ch), beside)
    <3>. HIDE DEF Here, Beside, beside
    <3>. QED BY <1>1, <2>1
  <2>5. row'[ch] = [Here(ch) EXCEPT !.number = PlacedNumber(model[c], Here(ch), beside)]
    <3>. HIDE DEF Here, At, beside
    <3>. QED BY <1>4, <2>2, <2>4
  <2>6. row'[ch] \in Rows /\ row'[ch].desk = c /\ row'[ch].pool = "channel"
    <3>. HIDE DEF At
    <3>. QED BY <1>4, <2>2
  <2>7. \A o \in beside : o.number \in 0 .. MaxNumber
    <3>. HIDE DEF Beside, beside
    <3>. QED BY <2>1, <2>3
  <2>. QED BY <2>5, <2>6, <2>7
<1>7. \A ch \in Channels \ chs : row'[ch] = row[ch]
    BY <1>5
<1>8. \A ch \in chs : row'[ch].desk = c
    BY <1>6
<1>. QED BY <1>2, <1>4, <1>6, <1>7, <1>8

LEMMA PlaceOnConsoleLegal ==
    ASSUME IInv, LegalOrOver, NEW c \in Consoles, NEW chs \in SUBSET Channels, PlaceOnConsole(c, chs)
    PROVE  LegalOrOver'
<1>1. ASSUME NEW d \in Desks', NEW ch \in RowsOn(d)', model'[d] \in RealModels
      PROVE  \/ d \in Desks /\ model[d] = model'[d] /\ ch \in RowsOn(d) /\ row'[ch] = row[ch]
             \/ LegalRow(model'[d], row'[ch])
  <2>1. d \in Desks /\ model'[d] = model[d] /\ ch \in Channels /\ row'[ch].desk = d
    BY PlaceLaysOut DEF Desks, RowsOn
  <2>2. CASE ch \in chs
    <3>. DEFINE beside == PlacedBeside(c, chs, ch)
                new == OnDesk(c, row[ch], row[ch].number)
    <3>1. /\ new \in Rows /\ new.pool = "channel"
          /\ row'[ch] \in Rows /\ row'[ch].desk = c
          /\ row'[ch] = [new EXCEPT !.number = PlacedNumber(model[c], new, beside)]
          /\ \A o \in beside : o.number \in 0 .. MaxNumber
      BY <2>2, PlaceLaysOut
    <3>. HIDE DEF new, beside
    <3>2. model[c] \in RealModels
      BY <1>1, <2>1, <3>1
    <3>3. LegalRow(model[c], row'[ch])
      BY <3>1, <3>2, PlacedIsLegal
    <3>. QED BY <2>1, <3>1, <3>3
  <2>3. CASE ch \notin chs
    <3>1. row'[ch] = row[ch]
      BY <2>1, <2>3, PlaceLaysOut
    <3>. QED BY <2>1, <3>1 DEF RowsOn
  <2>. QED BY <2>2, <2>3
<1>. QED BY <1>1, LegalByRows

(* One row is written, and it is legal. *)
LEMMA OneRowLegal ==
    ASSUME TypeOK, LegalOrOver, NEW ch \in Channels, NEW r, UNCHANGED model,
           row' = [row EXCEPT ![ch] = r],
           \A d \in Desks : r.desk = d /\ model[d] \in RealModels => LegalRow(model[d], r)
    PROVE  LegalOrOver'
<1>1. row'[ch] = r /\ \A o \in Channels \ {ch} : row'[o] = row[o]
    BY DEF TypeOK
<1>2. ASSUME NEW d \in Desks', NEW o \in RowsOn(d)', model'[d] \in RealModels
      PROVE  \/ d \in Desks /\ model[d] = model'[d] /\ o \in RowsOn(d) /\ row'[o] = row[o]
             \/ LegalRow(model'[d], row'[o])
  <2>1. d \in Desks /\ model'[d] = model[d] /\ o \in Channels /\ row'[o].desk = d
    BY DEF Desks, RowsOn
  <2>. QED BY <1>1, <1>2, <2>1 DEF RowsOn
<1>. QED BY <1>2, LegalByRows

LEMMA DeleteInputChannelLegal ==
    ASSUME IInv, LegalOrOver, NEW ch \in Channels, DeleteInputChannel(ch)
    PROVE  LegalOrOver'
<1>1. NoRow.desk \notin Consoles
    BY StripsAssumption DEF NoRow
<1>. QED BY <1>1, OneRowLegal DEF DeleteInputChannel, IInv, Desks

LEMMA CreateInputChannelLegal ==
    ASSUME IInv, LegalOrOver, NEW ch \in Channels, NEW c \in Consoles, NEW asked \in Asked,
           CreateInputChannel(ch, c, asked)
    PROVE  LegalOrOver'
<1>. DEFINE new == AsOn(c, asked)
<1>1. PICK n : /\ n \in IF asked.number = 0 THEN SuggestNumber(model[c], new, Others(c, ch)) ELSE {asked.number}
               /\ n <= MaxNumber
               /\ CheckStrip(model[c], [new EXCEPT !.number = n], Others(c, ch))
               /\ row' = [row EXCEPT ![ch] = [new EXCEPT !.number = n]]
    BY DEF CreateInputChannel
<1>2. n \in 0 .. MaxNumber
  <2>1. CASE asked.number # 0
    BY <1>1, <2>1, StripsAssumption DEF Asked
  <2>2. CASE asked.number = 0
    BY <1>1, <2>2, SuggestionType, StripsAssumption DEF IInv
  <2>. QED BY <2>1, <2>2
<1>. DEFINE r == [new EXCEPT !.number = n]
<1>3. r \in Rows /\ r.desk = c /\ r.pool = new.pool
    BY <1>2, AsOnType DEF Rows
<1>4. model[c] \in RealModels => LegalRow(model[c], r)
  <2>1. r.pool = "aux" => HasAux(model[c])
    BY <1>3, AsOnPool
  <2>2. CheckStrip(model[c], r, Others(c, ch))
    BY <1>1
  <2>. HIDE DEF r
  <2>. QED BY <1>3, <2>1, <2>2, CheckedIsLegal
<1>5. row' = [row EXCEPT ![ch] = r] /\ UNCHANGED model
    BY <1>1 DEF CreateInputChannel
<1>. HIDE DEF r
<1>. QED BY <1>3, <1>4, <1>5, OneRowLegal DEF IInv

LEMMA SaveInputChannelLegal ==
    ASSUME IInv, LegalOrOver, NEW ch \in Channels, NEW c \in Consoles, NEW asked \in Asked,
           SaveInputChannel(ch, c, asked)
    PROVE  LegalOrOver'
<1>. DEFINE new == AsOn(c, asked)
<1>1. /\ c \in Desks
      /\ SamePlace(row[ch], new) \/ CheckStrip(model[c], new, Others(c, ch))
      /\ row' = [row EXCEPT ![ch] = new] /\ UNCHANGED model
    BY DEF SaveInputChannel
<1>2. new \in Rows /\ new.desk = c /\ (new.pool = "aux" => HasAux(model[c]))
    BY AsOnType, AsOnPool
<1>. HIDE DEF new
<1>3. ASSUME model[c] \in RealModels, SamePlace(row[ch], new)
      PROVE  LegalRow(model[c], new)
  <2>1. ch \in RowsOn(c) /\ row[ch].pool = new.pool /\ row[ch].number = new.number
    BY <1>2, <1>3 DEF SamePlace, RowsOn
  <2>2. StripWidth(model[c], row[ch]) = StripWidth(model[c], new)
    BY <1>3, RealWidth DEF SamePlace
  <2>3. LegalRow(model[c], row[ch])
    BY <1>1, <1>3, <2>1 DEF LegalOrOver, LegalRow
  <2>. QED BY <2>1, <2>2, <2>3 DEF LegalRow, Last, Pair
<1>4. model[c] \in RealModels => LegalRow(model[c], new)
    BY <1>1, <1>2, <1>3, CheckedIsLegal
<1>. QED BY <1>1, <1>2, <1>4, OneRowLegal DEF IInv

LEMMA NextLegal == IInv /\ LegalOrOver /\ [Next]_vars => LegalOrOver'
<1>1. ASSUME IInv, LegalOrOver, DeskStep PROVE LegalOrOver'
  <2>1. ASSUME NEW c \in Consoles, NEW typed \in TypedInputs, SetInputs(c, typed) PROVE LegalOrOver'
    BY <1>1, <2>1, LegalByDesk DEF SetInputs
  <2>2. ASSUME NEW c \in Consoles, NEW m \in Models, NEW typed \in TypedInputs, CreateConsole(c, m, typed)
        PROVE  LegalOrOver'
    <3>1. UNCHANGED row /\ c \notin Desks
      BY <2>2 DEF CreateConsole
    <3>2. \A d \in Consoles : d # c => model'[d] = model[d]
      BY <1>1, <2>2 DEF CreateConsole, IInv, TypeOK
    <3>3. \A d \in Consoles : d # c \/ d \in Desks => model'[d] = model[d]
      BY <3>1, <3>2
    <3>. QED BY <1>1, <3>1, <3>3, LegalByDesk
  <2>. QED BY <1>1, <2>1, <2>2, DeleteConsoleLegal, SwitchConsoleModelLegal, PlaceOnConsoleLegal DEF DeskStep
<1>2. ASSUME IInv, LegalOrOver, ChannelStep PROVE LegalOrOver'
    BY <1>2, DeleteInputChannelLegal, CreateInputChannelLegal, SaveInputChannelLegal DEF ChannelStep
<1>3. LegalOrOver /\ UNCHANGED vars => LegalOrOver'
    BY DEF vars, LegalOrOver, LegalRow, RowsOn, Desks
<1>. QED BY <1>1, <1>2, <1>3 DEF Next

(* On a real model a channel is wholly inside its pool and on an odd number *)
(* if it is a pair, or wholly past the end: no row straddles the end, and   *)
(* only an X32 has rows on aux.                                             *)
THEOREM RowsAlwaysLegalOrOver == Spec => []LegalOrOver
<1>1. Init => LegalOrOver
  <2>1. Init => \A c \in Consoles : RowsOn(c) = {}
    BY StripsAssumption DEF Init, NoRow, RowsOn
  <2>. QED BY <2>1 DEF LegalOrOver, Desks
<1>. QED BY <1>1, NextLegal, StripsInvariant, PTL DEF Spec

-----------------------------------------------------------------------------
(* Suggestions.                                                             *)

(* + Channel finds a strip whenever one is legal, and the one it suggests   *)
(* is never refused.                                                        *)
THEOREM SuggestionsAlwaysLegal == Spec => []SuggestionsLegal
<1>1. ASSUME TypeOK PROVE SuggestionsLegal
  <2>. SUFFICES ASSUME NEW c \in Desks, model[c] \in RealModels, NEW p \in Asked
                PROVE  LET others == {row[o] : o \in RowsOn(c)}
                           Legal(n) == CheckStrip(model[c], [AsOn(c, p) EXCEPT !.number = n], others)
                           suggested == SuggestNumber(model[c], AsOn(c, p), others)
                       IN  /\ \A n \in suggested : Legal(n)
                           /\ suggested = {} => \A n \in 1 .. MaxNumber : ~Legal(n)
    BY DEF SuggestionsLegal
  <2>. DEFINE others == {row[o] : o \in RowsOn(c)}
              r == AsOn(c, p)
              suggested == SuggestNumber(model[c], r, others)
              free == FreeStrips(model[c], r, others)
              above == {n \in free : n >= FirstAfter(model[c], {o \in others : o.pool = r.pool \/ Engine(model[c]) = "generic"})}
  <2>1. free \subseteq Nat /\ above \subseteq free
    BY DEF FreeStrips
  <2>2. suggested = IF above # {} THEN {Least(above)} ELSE IF free # {} THEN {Least(free)} ELSE {}
    BY RealIsNotGeneric DEF SuggestNumber
  <2>3. suggested \subseteq free /\ (suggested = {} => free = {})
    <3>1. (above # {} => Least(above) \in above) /\ (free # {} => Least(free) \in free)
      <4>. HIDE DEF above, free
      <4>. QED BY <2>1, LeastIsLeast
    <3>. HIDE DEF above, free, suggested
    <3>. QED BY <2>1, <2>2, <3>1
  <2>4. ASSUME NEW n \in free
        PROVE  CheckStrip(model[c], [r EXCEPT !.number = n], others)
    BY DEF FreeStrips, CheckStrip
  <2>5. ASSUME NEW n \in 1 .. MaxNumber, CheckStrip(model[c], [r EXCEPT !.number = n], others)
        PROVE  n \in free
    <3>1. r \in Rows /\ c \in Consoles
      BY AsOnType DEF Desks
    <3>. DEFINE s == [r EXCEPT !.number = n]
    <3>2. s \in Rows /\ s.number = n /\ s.pool = r.pool
      BY <3>1 DEF Rows
    <3>3. Fits(model[c], s, others)
      BY <2>5, RealIsNotGeneric DEF CheckStrip
    <3>4. n \in 1 .. PoolCapacity(model[c], r.pool, 0)
      <4>1. CheckStrip(model[c], s, others)
        BY <2>5
      <4>. HIDE DEF s, others, r
      <4>. QED BY <3>2, <4>1, CheckedIsInside
    <3>. QED BY <3>3, <3>4 DEF FreeStrips
  <2>. HIDE DEF suggested, free, others, r
  <2>6. (\A n \in suggested : CheckStrip(model[c], [r EXCEPT !.number = n], others))
        /\ (suggested = {} => \A n \in 1 .. MaxNumber : ~CheckStrip(model[c], [r EXCEPT !.number = n], others))
    BY <2>3, <2>4, <2>5
  <2>. QED BY <2>6 DEF suggested, others, r
<1>. QED BY <1>1, StripsTyped, PTL

-----------------------------------------------------------------------------
(* What a model switch may do to the numbers.                               *)

(* Only SwitchConsoleModel changes the model of a desk to another. *)
LEMMA SwitchedBySwitch ==
    ASSUME IInv, [Next]_vars, NEW c \in Consoles, Switched(c)
    PROVE  model'[c] \in Models /\ SwitchConsoleModel(c, model'[c])
<1>. USE DEF Switched
<1>1. ASSUME NEW d \in Consoles, DeskStep
      PROVE  \E e \in Consoles, to \in Models : SwitchConsoleModel(e, to) /\ e = c
  <2>1. ASSUME NEW e \in Consoles, DeleteConsole(e) PROVE FALSE
    BY <2>1 DEF DeleteConsole, IInv, TypeOK
  <2>2. ASSUME NEW e \in Consoles, NEW typed \in TypedInputs, SetInputs(e, typed) PROVE FALSE
    BY <2>2 DEF SetInputs
  <2>3. ASSUME NEW e \in Consoles, NEW m \in Models, NEW typed \in TypedInputs, CreateConsole(e, m, typed)
        PROVE  FALSE
    BY <2>3 DEF CreateConsole, IInv, TypeOK, Desks
  <2>4. ASSUME NEW e \in Consoles, NEW chs \in SUBSET Channels, PlaceOnConsole(e, chs) PROVE FALSE
    BY <2>4 DEF PlaceOnConsole
  <2>5. ASSUME NEW e \in Consoles, NEW to \in Models, SwitchConsoleModel(e, to) PROVE e = c
    <3>1. model' = [model EXCEPT ![e] = to]
      BY <2>5 DEF SwitchConsoleModel
    <3>. QED BY <3>1 DEF IInv, TypeOK
  <2>. QED BY <1>1, <2>1, <2>2, <2>3, <2>4, <2>5 DEF DeskStep
<1>2. ~ChannelStep
  <2>1. ChannelStep => UNCHANGED model
    BY DEF ChannelStep, DeleteInputChannel, CreateInputChannel, SaveInputChannel
  <2>. QED BY <2>1
<1>3. ~UNCHANGED vars
    BY DEF vars
<1>4. DeskStep
    BY <1>2, <1>3 DEF Next
<1>5. PICK to \in Models : SwitchConsoleModel(c, to)
    BY <1>1, <1>4
<1>6. model'[c] = to
    BY <1>5, SwitchLaysOut
<1>. QED BY <1>5, <1>6

(* Of any channels one comes before all the others. *)
LEMMA FirstOfSome ==
    ASSUME TypeOK, NEW S \in SUBSET Channels, S # {}
    PROVE  \E f \in S : \A o \in S : ~Before(o, f)
<1>1. \A ch \in S : ch \in Nat /\ row[ch].number \in Nat /\ row[ch].pool \in StripPools
  <2>1. ASSUME NEW ch \in S
        PROVE  ch \in Nat /\ row[ch].number \in Nat /\ row[ch].pool \in StripPools
    <3>1. ch \in Channels /\ ch \in Nat /\ MaxNumber \in Nat
      BY StripsAssumption
    <3>2. row[ch] \in Rows
      BY <3>1 DEF TypeOK
    <3>3. row[ch].number \in 0 .. MaxNumber /\ row[ch].pool \in StripPools
      BY <3>2 DEF Rows
    <3>. QED BY <3>1, <3>3
  <2>. QED BY <2>1
<1>2. PICK pool \in StripPools :
          /\ \E ch \in S : row[ch].pool = pool
          /\ \A ch \in S : row[ch].pool = "channel" => pool = "channel"
  <2>1. CASE \E ch \in S : row[ch].pool = "channel"
    BY <2>1 DEF StripPools
  <2>2. CASE \A ch \in S : row[ch].pool # "channel"
    BY <1>1, <2>2 DEF StripPools
  <2>. QED BY <2>1, <2>2
<1>. DEFINE T == {ch \in S : row[ch].pool = pool}
            numbers == {row[ch].number : ch \in T}
            lowest == Least(numbers)
<1>3. lowest \in numbers /\ \A n \in numbers : lowest <= n
  <2>1. numbers \subseteq Nat /\ numbers # {}
    BY <1>1, <1>2
  <2>. QED BY <2>1, LeastIsLeast
<1>. DEFINE U == {ch \in T : row[ch].number = lowest}
<1>4. Least(U) \in U /\ \A ch \in U : Least(U) <= ch
  <2>1. U \subseteq Nat /\ U # {}
    BY <1>1, <1>3
  <2>. HIDE DEF U
  <2>. QED BY <2>1, LeastIsLeast
<1>5. PICK f \in U : \A ch \in U : f <= ch
    BY <1>4
<1>6. \A o \in T : lowest <= row[o].number
    BY <1>3
<1>7. f \in S /\ row[f].pool = pool /\ row[f].number = lowest
    BY <1>5
<1>8. ASSUME NEW o \in S, Before(o, f) PROVE FALSE
  <2>1. row[o].pool = pool
    BY <1>1, <1>2, <1>7, <1>8 DEF Before, StripPools
  <2>2. lowest <= row[o].number
    BY <1>6, <2>1
  <2>3. row[o].number = lowest => f <= o
    BY <1>5, <2>1
  <2>. HIDE DEF lowest, U, T
  <2>. QED BY <1>1, <1>7, <1>8, <2>1, <2>2, <2>3 DEF Before
<1>. QED BY <1>7, <1>8

(* No number before FirstAfter is past all the rows. *)
LEMMA FirstAfterIsFirst ==
    ASSUME NEW m, NEW rs, \A r \in rs : r.number \in 0 .. MaxNumber,
           NEW n \in Nat \ {0}, \A r \in rs : Last(m, r) < n
    PROVE  FirstAfter(m, rs) <= n
<1>. DEFINE S == {k \in 1 .. MaxNumber + 2 : \A r \in rs : Last(m, r) < k}
<1>. MaxNumber \in Nat BY StripsAssumption
<1>1. \A r \in rs : Last(m, r) < MaxNumber + 2
    BY WidthType DEF Last
<1>2. S \subseteq Nat /\ MaxNumber + 2 \in S
    BY <1>1
<1>3. Least(S) \in S /\ \A k \in S : Least(S) <= k
    BY <1>2, LeastIsLeast
<1>4. CASE n <= MaxNumber + 2
  <2>1. n \in S
    BY <1>4
  <2>. QED BY <1>3, <2>1 DEF FirstAfter
<1>5. CASE n > MaxNumber + 2
  <2>1. Least(S) <= MaxNumber + 2 /\ Least(S) \in Nat
    BY <1>2, <1>3
  <2>. HIDE DEF S
  <2>2. Least(S) <= n
    BY <1>5, <2>1
  <2>. QED BY <2>2 DEF FirstAfter, S
<1>. QED BY <1>4, <1>5

(* A switch lays the channels of a desk out in the order they had, without  *)
(* overlap; when they leave the aux section, its rows come after all others.*)
THEOREM SwitchesKeepOrder == Spec => SwitchKeepsOrder
<1>1. ASSUME IInv, [Next]_vars PROVE OrderKept
  <2>. SUFFICES ASSUME NEW c \in Consoles, Switched(c), NEW a \in RowsOn(c), NEW b \in RowsOn(c),
                       row'[a].pool = row'[b].pool,
                       IF row[a].pool = row[b].pool THEN row[a].number < row[b].number ELSE row[b].pool = "aux"
                PROVE  Last(model'[c], row'[a]) < row'[b].number
    BY DEF OrderKept
  <2>. DEFINE to == model'[c]
              placed == PlacedBefore(c, b)
  <2>1. to \in Models /\ SwitchConsoleModel(c, to)
    BY <1>1, SwitchedBySwitch
  <2>2. row[a] \in Rows /\ row[b] \in Rows
    BY <1>1 DEF IInv, TypeOK, RowsOn
  <2>3. Before(a, b)
    BY <2>2 DEF Before, Rows, StripPools
  <2>4. \A o \in RowsOn(c) : row'[o] \in Rows
    BY <1>1, <2>1, SwitchLaysOut
  <2>5. row'[b].number = MappedNumber(to, TypedAfter(c, to), row[b], row'[b], placed)
    BY <1>1, <2>1, SwitchLaysOut
  <2>6. \A p \in placed : p.number \in 0 .. MaxNumber
    BY <2>4 DEF Rows, PlacedBefore
  <2>7. row'[a] \in placed /\ row[b].number \in Nat
    BY <2>2, <2>3, StripsAssumption DEF Rows, PlacedBefore
  <2>. HIDE DEF placed, to
  <2>8. Last(to, row'[a]) < row'[b].number
    BY <2>5, <2>6, <2>7, MappedIsAfter
  <2>. QED BY <2>8 DEF to
<1>. QED BY <1>1, StripsInvariant, PTL DEF Spec, SwitchKeepsOrder

(* Where a row would stay: beside rows that have stayed, and fitting there. *)
LEMMA FittingRowStays ==
    ASSUME NEW to \in RealModels, NEW typed, NEW old \in Rows, NEW new \in Rows, new.pool = old.pool,
           NEW placed \in SUBSET Rows,
           \A p \in placed : p.pool = new.pool =>
               /\ p.number <= old.number
               /\ StripsOf(to, p) \cap StripsOf(to, [new EXCEPT !.number = old.number]) = {},
           NEW others, Fits(to, [new EXCEPT !.number = old.number], others)
    PROVE  MappedNumber(to, typed, old, new, placed) = old.number
<1>. DEFINE kept == [new EXCEPT !.number = old.number]
            mates == {p \in placed : p.pool = new.pool}
            n == old.number
            capacity == PoolCapacity(to, new.pool, typed)
<1>1. kept.number = n /\ kept.pool = new.pool /\ kept.shape = new.shape /\ n \in Nat /\ new.pool \in StripPools
    BY StripsAssumption DEF Rows
<1>2. StripWidth(to, kept) = StripWidth(to, new) /\ Pair(to, kept) = Pair(to, new)
    BY <1>1 DEF StripWidth, Pair
<1>3. /\ n >= 1 /\ n + StripWidth(to, new) - 1 <= PoolCapacity(to, new.pool, 0)
      /\ Pair(to, new) => n % 2 = 1
  <2>. HIDE DEF kept
  <2>. QED BY <1>1, <1>2 DEF Fits, Last, kept
<1>4. capacity \in Nat /\ capacity = PoolCapacity(to, new.pool, 0)
    BY <1>1, RealCapacity
<1>5. \A p \in placed : p.number \in 0 .. MaxNumber
    BY DEF Rows
<1>6. ASSUME NEW p \in mates PROVE Last(to, p) < n
  <2>1. p.number \in Nat /\ p.number <= n
    BY <1>5, StripsAssumption
  <2>2. n \in StripsOf(to, kept)
    <3>. HIDE DEF kept
    <3>. QED BY <1>1, WidthType DEF StripsOf, Last
  <2>3. n \notin StripsOf(to, p)
    BY <2>2
  <2>. QED BY <1>1, <2>1, <2>3, WidthType DEF StripsOf, Last
<1>7. CursorOf(to, new, placed) <= n
  <2>. HIDE DEF n
  <2>. QED BY <1>1, <1>3, <1>5, <1>6, FirstAfterIsFirst DEF CursorOf
<1>8. Bumped(to, new, n) = n
    BY <1>1, <1>3 DEF Bumped
<1>9. old.number \in Nat
    BY <1>1
<1>. HIDE DEF n, capacity
<1>10. LET m == MappedNumber(to, typed, old, new, placed)
       IN  new.pool = old.pool /\ CursorOf(to, new, placed) <= old.number
             /\ Bumped(to, new, old.number) = old.number
             /\ old.number + StripWidth(to, new) - 1 <= PoolCapacity(to, new.pool, typed)
             => m = old.number
    BY <1>4, <1>5, <1>9, MappedPlace DEF capacity
<1>. QED BY <1>3, <1>4, <1>7, <1>8, <1>10 DEF n, capacity

(* A desk whose channels could all stay where they are is not renumbered:   *)
(* the first that moved would have followed rows that had all stayed.       *)
THEOREM SwitchesMoveOnlyIfForced == Spec => SwitchMovesOnlyIfForced
<1>1. ASSUME IInv, [Next]_vars PROVE MovesForced
  <2>. SUFFICES ASSUME NEW c \in Consoles, Switched(c), model'[c] \in RealModels,
                       \A ch \in RowsOn(c) :
                          /\ row'[ch].pool = row[ch].pool
                          /\ Fits(model'[c], [row'[ch] EXCEPT !.number = row[ch].number],
                                  {[row'[o] EXCEPT !.number = row[o].number] : o \in RowsOn(c) \ {ch}})
                PROVE  \A ch \in RowsOn(c) : row'[ch].number = row[ch].number
    BY DEF MovesForced
  <2>. DEFINE to == model'[c]
              moved == {ch \in RowsOn(c) : row'[ch].number # row[ch].number}
              Kept(ch) == [row'[ch] EXCEPT !.number = row[ch].number]
  <2>1. to \in Models /\ SwitchConsoleModel(c, to)
    BY <1>1, SwitchedBySwitch
  <2>2. \A ch \in RowsOn(c) : row[ch] \in Rows /\ row'[ch] \in Rows /\ ch \in Channels
    BY <1>1, <2>1, SwitchLaysOut DEF IInv, TypeOK, RowsOn
  <2>3. SUFFICES ASSUME moved # {} PROVE FALSE
    OBVIOUS
  <2>4. moved \in SUBSET Channels
    BY <2>2
  <2>5. PICK f \in moved : \A o \in moved : ~Before(o, f)
    <3>. HIDE DEF moved
    <3>. QED BY <1>1, <2>3, <2>4, FirstOfSome DEF IInv
  <2>. DEFINE placed == PlacedBefore(c, f)
  <2>6. f \in RowsOn(c) /\ row'[f].number # row[f].number
    BY <2>5
  <2>7. \A o \in RowsOn(c) : Before(o, f) => row'[o].number = row[o].number /\ o # f
    <3>1. ~Before(f, f)
      BY <2>5
    <3>. QED BY <2>5, <3>1
  <2>8. row'[f].number = MappedNumber(to, TypedAfter(c, to), row[f], row'[f], placed)
    BY <1>1, <2>1, <2>6, SwitchLaysOut
  <2>9. ASSUME NEW o \in RowsOn(c), Before(o, f), row'[o].pool = row'[f].pool
        PROVE  /\ row'[o].number <= row[f].number
               /\ StripsOf(to, row'[o]) \cap StripsOf(to, Kept(f)) = {}
    <3>1. row[o].pool = row[f].pool
      BY <2>6, <2>9
    <3>2. row[o].number <= row[f].number
      <4>1. row[o].number \in Nat /\ row[f].number \in Nat /\ row[o].pool \in StripPools
        BY <2>2, <2>6, StripsAssumption DEF Rows
      <4>. QED BY <2>9, <3>1, <4>1 DEF Before, StripPools
    <3>3. Kept(o) = row'[o]
      BY <2>2, <2>7, <2>9 DEF Rows
    <3>4. Kept(o) \in {Kept(x) : x \in RowsOn(c) \ {f}}
      BY <2>7, <2>9
    <3>5. Kept(f).pool = row'[f].pool
      BY <2>2, <2>6 DEF Rows
    <3>6. Fits(to, Kept(f), {Kept(x) : x \in RowsOn(c) \ {f}})
      BY <2>6
    <3>. HIDE DEF Kept
    <3>7. StripsOf(to, Kept(o)) \cap StripsOf(to, Kept(f)) = {}
      BY <2>9, <3>3, <3>4, <3>5, <3>6 DEF Fits
    <3>. QED BY <2>7, <2>9, <3>2, <3>3, <3>7
  <2>10. Fits(to, Kept(f), {Kept(x) : x \in RowsOn(c) \ {f}})
    BY <2>6
  <2>11. placed \in SUBSET Rows
    BY <2>2 DEF PlacedBefore
  <2>12. \A p \in placed : p.pool = row'[f].pool =>
            p.number <= row[f].number /\ StripsOf(to, p) \cap StripsOf(to, Kept(f)) = {}
    <3>. HIDE DEF Kept
    <3>. QED BY <2>9 DEF PlacedBefore
  <2>13. row[f] \in Rows /\ row'[f] \in Rows /\ row'[f].pool = row[f].pool
    BY <2>2, <2>6
  <2>14. MappedNumber(to, TypedAfter(c, to), row[f], row'[f], placed) = row[f].number
    <3>. HIDE DEF placed, to
    <3>. QED BY <2>10, <2>11, <2>12, <2>13, FittingRowStays DEF to
  <2>. QED BY <2>6, <2>8, <2>14
<1>. QED BY <1>1, StripsInvariant, PTL DEF Spec, SwitchMovesOnlyIfForced

(* A switch leaves a channel out only when the strips after the last one    *)
(* that fits would not take it.                                             *)
THEOREM SwitchesLeaveOutOnlyWhenFull == Spec => LeftOutOnlyWhenFull
<1>1. ASSUME IInv, [Next]_vars PROVE LeftOutWhenFull
  <2>. SUFFICES ASSUME NEW c \in Consoles, Switched(c), NEW ch \in RowsOn(c),
                       NEW capacity, capacity = PoolCapacity(model'[c], row'[ch].pool, inputs'[c]),
                       capacity > 0, row'[ch].number > capacity,
                       \A o \in RowsOn(c) : row'[o].pool = row'[ch].pool /\ Before(o, ch) => row'[o].number <= capacity,
                       NEW n \in 1 .. capacity,
                       n + StripWidth(model'[c], row'[ch]) - 1 <= capacity,
                       Pair(model'[c], row'[ch]) => n % 2 = 1,
                       \A o \in RowsOn(c) : row'[o].pool = row'[ch].pool /\ row'[o].number <= capacity
                                                => Last(model'[c], row'[o]) < n
                PROVE  FALSE
    BY DEF LeftOutWhenFull
  <2>. DEFINE to == model'[c]
              new == row'[ch]
              typed == TypedAfter(c, to)
              placed == PlacedBefore(c, ch)
              mates == {p \in placed : p.pool = new.pool}
              cursor == CursorOf(to, new, placed)
              width == StripWidth(to, new)
  <2>1. to \in Models /\ SwitchConsoleModel(c, to)
    BY <1>1, SwitchedBySwitch
  <2>2. /\ inputs'[c] = typed
        /\ \A o \in RowsOn(c) : row'[o] \in Rows
        /\ new.number = MappedNumber(to, typed, row[ch], new, placed)
    <3>1. inputs'[c] = typed
      BY <1>1, <2>1, SwitchLaysOut
    <3>2. \A o \in RowsOn(c) : row'[o] \in Rows
      BY <1>1, <2>1, SwitchLaysOut
    <3>3. \A b \in RowsOn(c) :
              row'[b].number = MappedNumber(to, typed, row[b], row'[b], PlacedBefore(c, b))
      <4>. HIDE DEF to
      <4>. QED BY <1>1, <2>1, SwitchLaysOut DEF to
    <3>4. new.number = MappedNumber(to, typed, row[ch], new, placed)
      BY <3>3
    <3>. QED BY <3>1, <3>2, <3>4
  <2>3. row[ch].number \in Nat /\ new.number \in Nat /\ new.pool \in StripPools
    <3>1. row[ch] \in Rows /\ new \in Rows
      BY <1>1, <2>2 DEF IInv, TypeOK, RowsOn
    <3>. QED BY <3>1, StripsAssumption DEF Rows
  <2>4. capacity = PoolCapacity(to, new.pool, typed) /\ capacity \in Nat
    <3>1. typed \in Nat
      BY <1>1, StripsAssumption DEF TypedAfter, IInv, TypeOK, RowsOn
    <3>2. to \in AllModels /\ (Engine(to) # "generic" => to \in RealModels)
      BY <2>1, StripsAssumption DEF AllModels, Engine
    <3>3. PoolCapacity(to, new.pool, typed) \in Nat
      <4>. HIDE DEF to, typed, new
      <4>. QED BY <2>3, <3>1, <3>2, StripsAssumption DEF PoolCapacity, StripPools
    <3>. QED BY <2>2, <3>3
  <2>5. \A p \in placed : p.number \in 0 .. MaxNumber
    BY <2>2 DEF Rows, PlacedBefore
  <2>6. width \in {1, 2} /\ (width = 2 => Pair(to, new) \/ Engine(to) = "generic")
    BY WidthType DEF StripWidth, Pair
  <2>7. /\ cursor \in Nat
        /\ new.number + width - 1 > capacity => Bumped(to, new, cursor) + width - 1 > capacity
    <3>. HIDE DEF to, placed, typed, new
    <3>. QED BY <2>2, <2>3, <2>4, <2>5, MappedPlace DEF cursor, width
  <2>8. Bumped(to, new, cursor) + width - 1 > capacity
    <3>. HIDE DEF to, placed, new, width, cursor
    <3>. QED BY <2>3, <2>4, <2>6, <2>7 DEF new
  <2>9. cursor <= n
    <3>1. \A p \in mates : Last(to, p) < n
      BY DEF PlacedBefore
    <3>2. \A p \in mates : p.number \in 0 .. MaxNumber
      BY <2>5
    <3>3. n \in Nat \ {0}
      BY <2>4
    <3>4. FirstAfter(to, mates) <= n
      <4>. HIDE DEF mates, to
      <4>. QED BY <3>1, <3>2, <3>3, FirstAfterIsFirst
    <3>. QED BY <3>4 DEF CursorOf
  <2>10. Bumped(to, new, cursor) <= n
    <3>1. Pair(to, new) => n % 2 = 1
      OBVIOUS
    <3>. HIDE DEF to, new, cursor
    <3>. QED BY <2>4, <2>7, <2>9, <3>1 DEF Bumped
  <2>11. n + width - 1 <= capacity
    OBVIOUS
  <2>12. Bumped(to, new, cursor) \in Nat
    <3>. HIDE DEF to, new, cursor
    <3>. QED BY <2>7, BumpRaises
  <2>. HIDE DEF to, new, cursor, width
  <2>. QED BY <2>4, <2>6, <2>8, <2>10, <2>11, <2>12
<1>. QED BY <1>1, StripsInvariant, PTL DEF Spec, LeftOutOnlyWhenFull

-----------------------------------------------------------------------------
(* "Put on <desk>".                                                         *)

(* Nothing is free beside more rows that was not free beside fewer. *)
LEMMA FreeBesideFewer ==
    ASSUME NEW m, NEW r, NEW s, NEW some, NEW all, some \subseteq all,
           s = [r EXCEPT !.number = s.number], r \in Rows, FreeStrips(m, r, some) = {}
    PROVE  FreeStrips(m, s, all) = {}
<1>1. s.pool = r.pool /\ \A n : [s EXCEPT !.number = n] = [r EXCEPT !.number = n]
  <2>1. DOMAIN s = DOMAIN r /\ \A f \in DOMAIN r \ {"number"} : s[f] = r[f]
    BY DEF Rows
  <2>. QED BY <2>1 DEF Rows
<1>2. ASSUME NEW n \in FreeStrips(m, s, all) PROVE FALSE
  <2>1. n \in 1 .. PoolCapacity(m, r.pool, 0) /\ Fits(m, [r EXCEPT !.number = n], all)
    BY <1>1 DEF FreeStrips
  <2>2. Fits(m, [r EXCEPT !.number = n], some)
    BY <2>1 DEF Fits
  <2>. QED BY <2>1, <2>2 DEF FreeStrips
<1>. QED BY <1>2

(* A channel put on a real model ends past its strips only if no strip      *)
(* there is free for it.                                                    *)
THEOREM PlacedOverOnlyWhenFull == Spec => PlacedOverOnlyIfFull
<1>1. ASSUME IInv, [Next]_vars PROVE PlacedOverIfFull
  <2>. SUFFICES ASSUME NEW ch \in Channels, row[ch].desk = NoDesk, row'[ch].desk \in Consoles,
                       model'[row'[ch].desk] \in RealModels,
                       row'[ch].number > PoolCapacity(model'[row'[ch].desk], row'[ch].pool, 0)
                PROVE  LET c == row'[ch].desk IN
                       FreeStrips(model'[c], row'[ch], {row'[o] : o \in {x \in Channels : row'[x].desk = c} \ {ch}}) = {}
    BY DEF PlacedOverIfFull
  <2>. DEFINE beside == {row'[o] : o \in {x \in Channels : row'[x].desk = row'[ch].desk} \ {ch}}
  <2>0. NoDesk \notin Consoles /\ Absent # NoDesk
    BY StripsAssumption
  <2>1. ASSUME NEW c \in Consoles, NEW chs \in SUBSET Channels, PlaceOnConsole(c, chs)
        PROVE  FreeStrips(model'[row'[ch].desk], row'[ch], beside) = {}
    <3>. DEFINE seen == PlacedBeside(c, chs, ch)
                new == OnDesk(c, row[ch], row[ch].number)
    <3>1. ch \in chs
      <4>1. ch \notin chs => row'[ch] = row[ch]
        BY <1>1, <2>1, PlaceLaysOut
      <4>. QED BY <2>0, <4>1
    <3>2. /\ new \in Rows /\ new.pool = "channel"
          /\ row'[ch] \in Rows /\ row'[ch].desk = c /\ row'[ch].pool = "channel"
          /\ row'[ch] = [new EXCEPT !.number = PlacedNumber(model[c], new, seen)]
          /\ \A o \in seen : o.number \in 0 .. MaxNumber
      BY <1>1, <2>1, <3>1, PlaceLaysOut, Zenon
    <3>3. model'[c] = model[c] /\ model[c] \in RealModels
      <4>1. UNCHANGED model
        BY <1>1, <2>1, PlaceLaysOut
      <4>2. row'[ch].desk = c
        <5>. HIDE DEF new, seen
        <5>. QED BY <3>2
      <4>. QED BY <4>1, <4>2
    <3>4. seen \subseteq beside
      <4>1. \A o \in RowsOn(c) : o \in Channels /\ o # ch /\ row'[o] = row[o] /\ row'[o].desk = c
        <5>1. \A o \in RowsOn(c) : o \notin chs /\ row[o].desk = c /\ o \in Channels
          BY <1>1, <2>0, <2>1, PlaceLaysOut DEF RowsOn
        <5>2. \A o \in Channels \ chs : row'[o] = row[o]
          BY <1>1, <2>1, PlaceLaysOut
        <5>3. ASSUME NEW o \in RowsOn(c)
              PROVE  o \in Channels /\ o # ch /\ row'[o] = row[o] /\ row'[o].desk = c
          <6>1. o \in Channels \ chs /\ row[o].desk = c
            BY <5>1
          <6>2. row'[o] = row[o]
            BY <5>2, <6>1
          <6>. QED BY <3>1, <6>1, <6>2
        <5>. QED BY <5>3
      <4>2. \A o \in chs : row'[o].desk = c
        BY <1>1, <2>1, PlaceLaysOut
      <4>3. ~Before(ch, ch)
        <5>1. ch \in Nat /\ row[ch].number \in Nat /\ row[ch].pool \in StripPools
          BY <1>1, StripsAssumption DEF IInv, TypeOK, Rows
        <5>. QED BY <5>1 DEF Before, StripPools
      <4>. QED BY <3>2, <4>1, <4>2, <4>3 DEF PlacedBeside
    <3>. HIDE DEF new, seen, beside
    <3>5. FreeStrips(model[c], new, seen) = {}
      BY <3>2, <3>3, PlacedIsLegal
    <3>6. row'[ch] = [new EXCEPT !.number = row'[ch].number]
      BY <3>2 DEF Rows
    <3>. QED BY <3>2, <3>3, <3>4, <3>5, <3>6, FreeBesideFewer
  <2>2. ASSUME NEW o \in Channels, NEW c \in Consoles, NEW asked \in Asked, SaveInputChannel(o, c, asked)
        PROVE  FALSE
    <3>. DEFINE new == AsOn(c, asked)
    <3>1. /\ SamePlace(row[o], new) \/ CheckStrip(model[c], new, Others(c, o))
          /\ row' = [row EXCEPT ![o] = new] /\ UNCHANGED model
      BY <2>2 DEF SaveInputChannel
    <3>2. new \in Rows /\ new.desk = c
      BY AsOnType
    <3>. HIDE DEF new
    <3>3. o = ch /\ row'[ch] = new
      BY <1>1, <2>0, <3>1 DEF IInv, TypeOK
    <3>4. CheckStrip(model[c], new, Others(c, o)) /\ model[c] \in RealModels
      BY <2>0, <3>1, <3>2, <3>3 DEF SamePlace
    <3>5. new.number \in 1 .. PoolCapacity(model[c], new.pool, 0)
      BY <3>2, <3>4, CheckedIsInside
    <3>6. PoolCapacity(model[c], new.pool, 0) \in Nat
      BY <3>2, <3>4, RealCapacity DEF Rows
    <3>7. new.number > PoolCapacity(model[c], new.pool, 0)
      BY <3>1, <3>2, <3>3
    <3>. QED BY <3>5, <3>6, <3>7
  <2>3. row'[ch] # row[ch]
    BY <2>0
  <2>4. ASSUME NEW o \in Channels, DeleteInputChannel(o) PROVE FALSE
    BY <1>1, <2>0, <2>3, <2>4, StripsAssumption DEF DeleteInputChannel, IInv, TypeOK, NoRow
  <2>5. ASSUME NEW o \in Channels, NEW c \in Consoles, NEW asked \in Asked, CreateInputChannel(o, c, asked)
        PROVE  FALSE
    <3>1. row[o].desk = Absent /\ \E r : row' = [row EXCEPT ![o] = r]
      BY <2>5 DEF CreateInputChannel
    <3>. QED BY <1>1, <2>0, <2>3, <3>1 DEF IInv, TypeOK
  <2>6. ASSUME NEW c \in Consoles, DeleteConsole(c) PROVE FALSE
    BY <1>1, <2>0, <2>6 DEF DeleteConsole, IInv, TypeOK, Rows
  <2>7. ASSUME NEW c \in Consoles, NEW to \in Models, SwitchConsoleModel(c, to) PROVE FALSE
    <3>1. ch \in RowsOn(c)
      BY <1>1, <2>3, <2>7, SwitchLaysOut
    <3>. QED BY <2>0, <3>1, <2>7 DEF RowsOn
  <2>8. ASSUME NEW c \in Consoles, NEW typed \in TypedInputs, SetInputs(c, typed) PROVE FALSE
    BY <2>3, <2>8 DEF SetInputs
  <2>9. ASSUME NEW c \in Consoles, NEW m \in Models, NEW typed \in TypedInputs, CreateConsole(c, m, typed)
        PROVE  FALSE
    BY <2>3, <2>9 DEF CreateConsole
  <2>10. ~UNCHANGED vars
    BY <2>3 DEF vars
  <2>11. DeskStep \/ ChannelStep
    BY <1>1, <2>10 DEF Next
  <2>12. FreeStrips(model'[row'[ch].desk], row'[ch], beside) = {}
    <3>. HIDE DEF beside
    <3>. QED BY <2>1, <2>2, <2>4, <2>5, <2>6, <2>7, <2>8, <2>9, <2>11 DEF DeskStep, ChannelStep
  <2>. QED BY <2>12
<1>. QED BY <1>1, StripsInvariant, PTL DEF Spec, PlacedOverOnlyIfFull
=============================================================================

---------------------------- MODULE LightingStore ---------------------------
(***************************************************************************)
(* The lighting rig of an event: its fixtures, what the server does with   *)
(* them (backend/internal: api/lighting.go, db/lighting.go), the map of    *)
(* the DMX channels they take, and the three plans that give them new      *)
(* addresses (frontend/src/lib: dmxMap.ts, dmxPlan.ts, lightingRig.ts).    *)
(*                                                                         *)
(* A fixture is [id, number, position, parent, universe, start, count]: a  *)
(* number, a parent or a start of 0 is none.  Names, models, modes and     *)
(* connectors are left out.                                                *)
(***************************************************************************)
EXTENDS SequencesExt

CONSTANTS UniverseSize,   \* 512 in the code
          NewCount        \* channels a new fixture starts with: 8 in the code

Unset == 0
AtLeastOne(n) == IF n >= 1 THEN n ELSE 1
UniverseOf(f) == AtLeastOne(f.universe)
SpanOf(f) == [start |-> f.start, count |-> AtLeastOne(f.count)]
EndOf(span) == span.start + AtLeastOne(span.count) - 1
Meet(a, b) == a.start <= EndOf(b) /\ b.start <= EndOf(a)

-----------------------------------------------------------------------------
(* The map.                                                                 *)

Universes(rig) == {UniverseOf(f) : f \in rig}
Addressed(rig, u) == {f \in rig : UniverseOf(f) = u /\ f.start # Unset}
Unaddressed(rig) == {f \in rig : f.start = Unset}

\* Fixtures with one and the same span are one group: they share, and do not clash.
Groups(rig, u) ==
  {[start |-> s.start, count |-> s.count, ids |-> {f.id : f \in {g \in Addressed(rig, u) : SpanOf(g) = s}}]
     : s \in {SpanOf(f) : f \in Addressed(rig, u)}}
Clashing(rig, u) == {g \in Groups(rig, u) : \E h \in Groups(rig, u) : h # g /\ Meet(g, h)}
PastEnd(rig, u) == {g \in Groups(rig, u) : EndOf(g) > UniverseSize}
Faulty(rig) == UNION {g.ids : g \in UNION {Clashing(rig, u) \cup PastEnd(rig, u) : u \in Universes(rig)}}
StatusState(rig) == IF Faulty(rig) # {} THEN "errors" ELSE IF Unaddressed(rig) # {} THEN "unaddressed" ELSE "clean"

\* Channels, not a sum of widths; the part of a span past the end takes none.
Taken(rig, u) == UNION {g.start .. EndOf(g) : g \in Groups(rig, u)} \cap (1 .. UniverseSize)
Runs(rig, u) ==
  {[start |-> r[1], count |-> r[2] - r[1] + 1] :
     r \in {p \in (1 .. UniverseSize) \X (1 .. UniverseSize) :
              /\ p[1] <= p[2] /\ (p[1] .. p[2]) \cap Taken(rig, u) = {}
              /\ p[1] - 1 \in Taken(rig, u) \cup {0} /\ p[2] + 1 \in Taken(rig, u) \cup {UniverseSize + 1}}}
\* The start of the first gap wide enough, if there is one.
FirstRunFitting(rig, u, count) ==
  LET fitting == {r \in Runs(rig, u) : r.count >= AtLeastOne(count)}
  IN {r.start : r \in {q \in fitting : \A o \in fitting : q.start <= o.start}}

\* The groups a span would meet; the fixture that is edited is not in its own way.
Others(rig, except) == {f \in rig : f.id # except}
GroupsInTheWay(rig, insert) == {g \in Groups(Others(rig, insert.except), insert.universe) : Meet(g, insert)}

NextFixtureNumber(rig) ==
  LET numbers == {f.number : f \in rig} \ {Unset} IN IF numbers = {} THEN 101 ELSE Max(numbers) + 1

-----------------------------------------------------------------------------
(* The plans.  They move groups, never a part of one.                       *)

\* The members of a set in an order (SetToSortSeq looks through all sequences of them).
InOrder(set, Less(_, _)) ==
  [i \in 1 .. Cardinality(set) |-> CHOOSE x \in set : Cardinality({y \in set : Less(y, x)}) = i - 1]
Before(f, g) == f.position < g.position \/ (f.position = g.position /\ f.id < g.id)
RigOrder(rig) == InOrder(rig, Before)
Rank(rig, id) == Cardinality({g \in rig : \E f \in rig : f.id = id /\ Before(g, f)})
Earliest(rig, group) == Min({Rank(rig, id) : id \in group.ids})

\* Mutant of PlanGroups: fixtures without an address are put together by their width.
PlanGroupsTogether(rig, u, all) ==
  LET waiting == {f \in Unaddressed(rig) : all /\ UniverseOf(f) = u}
  IN Groups(rig, u) \cup {[start |-> Unset, count |-> n, ids |-> {f.id : f \in {g \in waiting : AtLeastOne(g.count) = n}}]
                            : n \in {AtLeastOne(f.count) : f \in waiting}}
\* A fixture without an address shares with none: a group of its own.
PlanGroups(rig, u, all) ==
  Groups(rig, u) \cup {[start |-> Unset, count |-> AtLeastOne(f.count), ids |-> {f.id}]
                         : f \in {g \in Unaddressed(rig) : all /\ UniverseOf(g) = u}}

Changes(group, u, start) == {[id |-> id, universe |-> u, start |-> start] : id \in group.ids}
\* Each group right after the one before it, from address 1. A universe too narrow is left alone.
Pack(u, ordered) ==
  LET cursor[i \in 1 .. Len(ordered) + 1] == IF i = 1 THEN 1 ELSE cursor[i - 1] + ordered[i - 1].count
  IN [fits |-> cursor[Len(ordered) + 1] - 1 <= UniverseSize,
      changes |-> UNION {Changes(ordered[i], u, cursor[i]) : i \in {k \in DOMAIN ordered : ordered[k].start # cursor[k]}}]
Plan(packed) ==
  [changes |-> UNION {packed[u].changes : u \in {v \in DOMAIN packed : packed[v].fits}},
   skipped |-> {v \in DOMAIN packed : ~packed[v].fits}]

\* In rig order, those without an address too.
AutoAssign(rig) ==
  Plan([u \in Universes(rig) |->
          Pack(u, InOrder(PlanGroups(rig, u, TRUE), LAMBDA g, h : Earliest(rig, g) < Earliest(rig, h)))])
\* In the order of the addresses.
Optimise(rig) ==
  Plan([u \in Universes(rig) |->
          Pack(u, InOrder(PlanGroups(rig, u, FALSE), LAMBDA g, h :
                    g.start < h.start \/ (g.start = h.start /\ Earliest(rig, g) < Earliest(rig, h))))])
NothingToDo(plan) == plan.changes = {} /\ plan.skipped = {}

\* Mutant of Ahead: a group that starts below the new span is not in its way.
AheadFrom(rig, insert) == {g \in Groups(Others(rig, insert.except), insert.universe) : g.start >= insert.start}
\* What is not wholly below the new span.
Ahead(rig, insert) == {g \in Groups(Others(rig, insert.except), insert.universe) : EndOf(g) >= insert.start}
\* Each of them moves up by no more than it must; the first that is clear ends it.
MakeRoom(rig, insert) ==
  LET ahead == InOrder(Ahead(rig, insert), LAMBDA g, h :
                 g.start < h.start \/ (g.start = h.start /\ Earliest(rig, g) < Earliest(rig, h)))
      cursor[i \in 1 .. Len(ahead) + 1] ==
        IF i = 1 THEN insert.start + AtLeastOne(insert.count) ELSE cursor[i - 1] + ahead[i - 1].count
      moved == {i \in DOMAIN ahead : \A k \in 1 .. i : ahead[k].start < cursor[k]}
      possible == \A i \in moved : cursor[i + 1] - 1 <= UniverseSize
  IN [possible |-> possible,
      changes |-> UNION {Changes(ahead[i], insert.universe, cursor[i]) : i \in {k \in moved : possible}}]

-----------------------------------------------------------------------------
(* The server.                                                              *)

LightDone(rig, id) == {[store |-> rig, id |-> id, reply |-> {}]}
Exists(rig, id) == \E f \in rig.fixtures : f.id = id
\* A parent is a fixture (a foreign key).
ParentStands(rig, parent) == parent = Unset \/ Exists(rig, parent)

FixtureOf(id, parent, row) ==
  [id |-> id, number |-> row.number, position |-> row.position, parent |-> parent, universe |-> row.universe,
   start |-> row.start, count |-> row.count]
CreateFixture(rig, req) ==
  LightDone([rig EXCEPT !.fixtures = @ \cup {FixtureOf(rig.next, Unset, req.row)}, !.next = @ + 1], rig.next)
UpdateFixture(rig, req) ==
  IF ~Exists(rig, req.id) \/ ~ParentStands(rig, req.parent) THEN {}
  ELSE LightDone([rig EXCEPT !.fixtures = Others(@, req.id) \cup {FixtureOf(req.id, req.parent, req.row)}], 0)
\* What hung on it is detached.
DeleteFixture(rig, req) ==
  IF ~Exists(rig, req.id) THEN {}
  ELSE LightDone([rig EXCEPT !.fixtures =
         {IF f.parent = req.id THEN [f EXCEPT !.parent = Unset] ELSE f : f \in Others(@, req.id)}], 0)

\* A batch is made whole or not at all: from the address given, or behind the last.
BatchStart(rig, req) ==
  IF req.start # Unset THEN req.start
  ELSE Max({1} \cup {f.start + f.count : f \in {g \in rig.fixtures : g.universe = AtLeastOne(req.universe) /\ g.start # Unset}})
BulkFixtures(rig, req) ==
  LET start == BatchStart(rig, req)
      width == IF req.share THEN req.count ELSE req.quantity * req.count
      position == Max({0} \cup {f.position : f \in rig.fixtures})
      fixture(i) == [id |-> rig.next + i, number |-> IF req.number = Unset THEN Unset ELSE req.number + i,
                     position |-> position + 1 + i, parent |-> Unset, universe |-> AtLeastOne(req.universe),
                     start |-> IF req.share THEN start ELSE start + i * req.count, count |-> req.count]
  IN IF req.start > UniverseSize \/ start + width - 1 > UniverseSize THEN {}
     ELSE LightDone([fixtures |-> rig.fixtures \cup {fixture(i) : i \in 0 .. req.quantity - 1},
                     next |-> rig.next + req.quantity], 0)

\* New addresses, all of them or none.
Readdressed(fixtures, changes) ==
  {LET mine == {c \in changes : c.id = f.id}
   IN IF mine = {} THEN f ELSE [f EXCEPT !.universe = (CHOOSE c \in mine : TRUE).universe, !.start = (CHOOSE c \in mine : TRUE).start]
     : f \in fixtures}
UpdateAddresses(rig, req) ==
  IF \E c \in req.changes : c.start \notin 1 .. UniverseSize \/ ~Exists(rig, c.id) THEN {}
  ELSE LightDone([rig EXCEPT !.fixtures = Readdressed(@, req.changes)], 0)

ApplyLighting(req, rig) ==
  CASE req.op = "createFixture" -> CreateFixture(rig, req)
    [] req.op = "updateFixture" -> UpdateFixture(rig, req)
    [] req.op = "deleteFixture" -> DeleteFixture(rig, req)
    [] req.op = "bulkFixtures" -> BulkFixtures(rig, req)
    [] req.op = "addresses" -> UpdateAddresses(rig, req)

-----------------------------------------------------------------------------
(* What the plans promise.                                                  *)

Sharing(rig) ==
  {pair \in {<<h.id, k.id>> : h, k \in rig} :
     /\ pair[1] # pair[2]
     /\ \E u \in Universes(rig) : \E group \in Groups(rig, u) : {pair[1], pair[2]} \subseteq group.ids}
UniverseKept(rig, after) == \A f \in rig, g \in after : f.id = g.id => UniverseOf(f) = UniverseOf(g)
\* What shared still shares and nothing else does, no fixture leaves its universe, and one
\* that was not skipped is without a fault.
KeepsSharing(rig, plan) ==
  LET after == Readdressed(rig, plan.changes)
  IN /\ Sharing(after) = Sharing(rig) /\ UniverseKept(rig, after)
     /\ \A u \in Universes(rig) \ plan.skipped : Clashing(after, u) \cup PastEnd(after, u) = {}
     /\ \A u \in plan.skipped : Addressed(after, u) = Addressed(rig, u)
\* In a universe without clashes, room is what is made: nothing but the fixture that is
\* edited meets the span, what shared still shares, what was below it stays.
FreesTheSpan(rig, insert, room) ==
  LET others == Others(rig, insert.except)
      after == Readdressed(others, room.changes)
  IN Clashing(others, insert.universe) = {} /\ room.possible =>
       /\ \A g \in Groups(after, insert.universe) : ~Meet(g, insert)
       /\ Clashing(after, insert.universe) = {} /\ Sharing(after) = Sharing(others)
       /\ \A f \in others \ after : EndOf(SpanOf(f)) >= insert.start
=============================================================================

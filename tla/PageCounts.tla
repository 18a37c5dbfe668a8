----------------------------- MODULE PageCounts -----------------------------
(***************************************************************************)
(* What the counters of PageQueries have to do with each other, for every  *)
(* page: said of a page before a step and after it, so that whatever tab   *)
(* it is on, and whatever its handlers send, its steps need only be told   *)
(* apart by what they do to requests and GETs.                             *)
(*                                                                         *)
(* A page `q` has the counters `made`, `others`, `written` and `told` of   *)
(* PageQueries, its `calls` and its `fetch`, and `at`, the count at which  *)
(* the copy it shows was read.                                             *)
(***************************************************************************)
EXTENDS Integers, Sequences, FiniteSetTheorems, TLAPS

States == {"sent", "done", "refused", "lost"}
CallFields == {"n", "req", "then", "state", "at", "id", "reply"}

\* The numbers of the requests the server may still do.
Undone(q) == {c.n : c \in {x \in q.calls : x.state = "sent"}}

\* In order: requests are numbered once, the saves done and those to be done are within the
\* requests made, and there is one GET, no older than what is shown.
Ordered(q, maxCalls, maxOthers) ==
  /\ q.made \in 0 .. maxCalls /\ q.others \in 0 .. maxOthers
  /\ q.written \in Nat /\ q.told \in 0 .. q.written /\ q.at \in 0 .. q.written
  /\ \A g, h \in q.fetch : g = h
  /\ \A g \in q.fetch : g.phase = "asked" \/ (g.phase = "read" /\ g.at \in q.at .. q.written)
  /\ \A c \in q.calls : /\ DOMAIN c = CallFields /\ c.n \in 1 .. q.made
                        /\ c.at \in 0 .. q.written /\ c.state \in States
  /\ \A c, d \in q.calls : c.n = d.n => c = d
  /\ q.written + Cardinality(Undone(q)) <= q.made

\* A request as it goes out.
GoesOut(c, q, r) == /\ DOMAIN c = CallFields /\ c.n \in q.made + 1 .. r.made
                    /\ c.at = 0 /\ c.state = "sent"
\* The page sends requests, hears an answer, asks for a GET in the place of any other:
Asks(q, r, maxCalls) ==
  /\ r.made \in q.made .. maxCalls
  /\ \A c \in r.calls : c \in q.calls \/ GoesOut(c, q, r)
  /\ \A c, d \in r.calls \ q.calls : c.n = d.n => c = d
  /\ r.others = q.others /\ r.written = q.written /\ r.at = q.at
  /\ \/ r.fetch = q.fetch /\ r.told = q.told
     \/ r.fetch = {[phase |-> "asked"]} /\ (r.told = q.told \/ \E c \in q.calls : r.told = c.at /\ c.at > q.told)
\* a request is done, refused or lost:
Ends(q, r) ==
  /\ \E c \in q.calls : \E d :
       /\ r.calls = (q.calls \ {c}) \cup {d} /\ DOMAIN d = CallFields /\ d.n = c.n
       /\ d.state \in {"done", "refused", "lost"}
       /\ \/ r.written = q.written /\ d.at = c.at
          \/ c.state = "sent" /\ r.written = q.written + 1 /\ d.at = q.written + 1
  /\ r.made = q.made /\ r.others = q.others /\ r.told = q.told /\ r.fetch = q.fetch /\ r.at = q.at
\* the store is read for a GET, the answer is shown, another client is served.
IsRead(q, r) ==
  /\ \E g \in q.fetch : \E h : r.fetch = (q.fetch \ {g}) \cup {h} /\ h.phase = "read" /\ h.at = q.written
  /\ r.made = q.made /\ r.others = q.others /\ r.written = q.written /\ r.told = q.told
  /\ r.calls = q.calls /\ r.at = q.at
IsShown(q, r) ==
  /\ \E g \in q.fetch : g.phase = "read" /\ r.fetch = q.fetch \ {g} /\ r.at = g.at
  /\ r.made = q.made /\ r.others = q.others /\ r.written = q.written /\ r.told = q.told
  /\ r.calls = q.calls
IsServed(q, r, maxOthers) ==
  /\ q.others < maxOthers /\ r.others = q.others + 1
  /\ r.made = q.made /\ r.written = q.written /\ r.told = q.told
  /\ r.calls = q.calls /\ r.fetch = q.fetch /\ r.at = q.at
Steps(q, r, maxCalls, maxOthers) ==
  Asks(q, r, maxCalls) \/ Ends(q, r) \/ IsRead(q, r) \/ IsShown(q, r) \/ IsServed(q, r, maxOthers)

-----------------------------------------------------------------------------
(* The numbers of requests to be done are within those made.                *)

LEMMA UndoneCounted ==
  ASSUME NEW q, q.made \in Nat, \A c \in q.calls : c.n \in 1 .. q.made
  PROVE  IsFiniteSet(Undone(q)) /\ Cardinality(Undone(q)) \in Nat
  <1>1. Undone(q) \subseteq 1 .. q.made
    BY DEF Undone
  <1>2. IsFiniteSet(1 .. q.made)
    BY FS_Interval
  <1>3. IsFiniteSet(Undone(q))
    BY <1>1, <1>2, FS_Subset
  <1> QED BY <1>3, FS_CardinalityType

LEMMA AsksOrdered ==
  ASSUME NEW maxCalls \in Nat, NEW maxOthers \in Nat, NEW q, NEW r, Ordered(q, maxCalls, maxOthers),
         Asks(q, r, maxCalls)
  PROVE  Ordered(r, maxCalls, maxOthers)
  <1>1. q.made \in Nat /\ r.made \in Nat /\ q.made <= r.made /\ q.written \in Nat
    BY DEF Ordered, Asks
  <1>2. \A c \in r.calls : DOMAIN c = CallFields /\ c.n \in 1 .. r.made /\ c.at \in 0 .. r.written /\ c.state \in States
    BY <1>1 DEF Ordered, Asks, GoesOut, States
  <1>3. \A c, d \in r.calls : c.n = d.n => c = d
    BY <1>1 DEF Ordered, Asks, GoesOut
  <1>4. r.written + Cardinality(Undone(r)) <= r.made
    <2> DEFINE more == q.made + 1 .. r.made
    <2>1. Undone(r) \subseteq Undone(q) \cup more
      BY DEF Asks, GoesOut, Undone
    <2>2. IsFiniteSet(Undone(q)) /\ Cardinality(Undone(q)) \in Nat
      BY <1>1, UndoneCounted DEF Ordered
    <2>3. IsFiniteSet(more) /\ Cardinality(more) = r.made - q.made
      <3>1. q.made + 1 \in Int /\ r.made \in Int
        BY <1>1
      <3>2. /\ IsFiniteSet(more)
            /\ Cardinality(more) = IF q.made + 1 > r.made THEN 0 ELSE r.made - (q.made + 1) + 1
        BY <3>1, FS_Interval
      <3> QED BY <1>1, <3>2
    <2>4. Undone(q) \cap more = {}
      BY <1>1 DEF Ordered, Undone
    <2> HIDE DEF more
    <2>5. /\ IsFiniteSet(Undone(q) \cup more)
          /\ Cardinality(Undone(q) \cup more) = Cardinality(Undone(q)) + Cardinality(more) - Cardinality(Undone(q) \cap more)
      BY <2>2, <2>3, FS_Union
    <2>6. Cardinality(Undone(q) \cap more) = 0
      BY <2>4, FS_EmptySet
    <2>7. Cardinality(Undone(r)) <= Cardinality(Undone(q) \cup more) /\ IsFiniteSet(Undone(r))
      BY <2>1, <2>5, FS_Subset
    <2>8. Cardinality(Undone(r)) \in Nat
      BY <2>7, FS_CardinalityType
    <2>9. r.written = q.written /\ q.written + Cardinality(Undone(q)) <= q.made
      BY DEF Ordered, Asks
    <2> QED BY <1>1, <2>2, <2>3, <2>5, <2>6, <2>7, <2>8, <2>9
  <1>5. r.told \in 0 .. r.written
    BY <1>1 DEF Ordered, Asks
  <1>6. r.made \in 0 .. maxCalls
    BY <1>1 DEF Asks
  <1>7. \A g \in r.fetch : g.phase = "asked" \/ (g.phase = "read" /\ g.at \in r.at .. r.written)
    BY DEF Ordered, Asks
  <1>8. \A g, h \in r.fetch : g = h
    BY DEF Ordered, Asks
  <1> QED BY <1>1, <1>2, <1>3, <1>4, <1>5, <1>6, <1>7, <1>8 DEF Ordered, Asks

LEMMA EndsOrdered ==
  ASSUME NEW maxCalls \in Nat, NEW maxOthers \in Nat, NEW q, NEW r, Ordered(q, maxCalls, maxOthers), Ends(q, r)
  PROVE  Ordered(r, maxCalls, maxOthers)
  <1>1. PICK c \in q.calls : \E d :
               /\ r.calls = (q.calls \ {c}) \cup {d} /\ DOMAIN d = CallFields /\ d.n = c.n
               /\ d.state \in {"done", "refused", "lost"}
               /\ \/ r.written = q.written /\ d.at = c.at
                  \/ c.state = "sent" /\ r.written = q.written + 1 /\ d.at = q.written + 1
    BY DEF Ends
  <1>2. PICK d : /\ r.calls = (q.calls \ {c}) \cup {d} /\ DOMAIN d = CallFields /\ d.n = c.n
                 /\ d.state \in {"done", "refused", "lost"}
                 /\ \/ r.written = q.written /\ d.at = c.at
                    \/ c.state = "sent" /\ r.written = q.written + 1 /\ d.at = q.written + 1
    BY <1>1
  <1>3. r.made = q.made /\ r.others = q.others /\ r.told = q.told /\ r.fetch = q.fetch /\ r.at = q.at
    BY DEF Ends
  <1>4. q.made \in Nat /\ q.written \in Nat /\ c.n \in 1 .. q.made /\ c.at \in 0 .. q.written
    BY DEF Ordered
  <1>5. r.written \in Nat /\ q.written <= r.written /\ d.at \in 0 .. r.written /\ d.state \in States
    BY <1>2, <1>4 DEF States
  <1>6. \A x \in r.calls : DOMAIN x = CallFields /\ x.n \in 1 .. r.made /\ x.at \in 0 .. r.written /\ x.state \in States
    BY <1>2, <1>3, <1>4, <1>5 DEF Ordered
  <1>7. \A x, y \in r.calls : x.n = y.n => x = y
    BY <1>2 DEF Ordered
  <1>8. Undone(r) = Undone(q) \ {c.n}
    BY <1>2 DEF Undone, Ordered
  <1>9. IsFiniteSet(Undone(q)) /\ Cardinality(Undone(q)) \in Nat
    BY <1>4, UndoneCounted DEF Ordered
  <1>10. /\ IsFiniteSet(Undone(r)) /\ Cardinality(Undone(r)) \in Nat
         /\ Cardinality(Undone(r)) = IF c.n \in Undone(q) THEN Cardinality(Undone(q)) - 1 ELSE Cardinality(Undone(q))
    BY <1>8, <1>9, FS_RemoveElement, FS_CardinalityType
  <1>11. c.state = "sent" => c.n \in Undone(q)
    BY DEF Undone
  <1>12. q.written + Cardinality(Undone(q)) <= q.made
    BY DEF Ordered
  <1>13. r.written + Cardinality(Undone(r)) <= r.made
    BY <1>2, <1>3, <1>4, <1>9, <1>10, <1>11, <1>12
  <1>14. r.told \in 0 .. r.written /\ r.at \in 0 .. r.written
    BY <1>3, <1>4, <1>5 DEF Ordered
  <1>15. \A g \in r.fetch : g.phase = "asked" \/ (g.phase = "read" /\ g.at \in r.at .. r.written)
    BY <1>3, <1>4, <1>5 DEF Ordered
  <1> QED BY <1>3, <1>5, <1>6, <1>7, <1>13, <1>14, <1>15 DEF Ordered

\* Whatever a page sends and hears, its counters stay in order.
THEOREM StepsStayOrdered ==
  ASSUME NEW maxCalls \in Nat, NEW maxOthers \in Nat, NEW q, NEW r, Ordered(q, maxCalls, maxOthers),
         Steps(q, r, maxCalls, maxOthers)
  PROVE  Ordered(r, maxCalls, maxOthers)
  <1>1. CASE IsRead(q, r)
    BY <1>1 DEF IsRead, Ordered, Undone
  <1>2. CASE IsShown(q, r)
    BY <1>2 DEF IsShown, Ordered, Undone
  <1>3. CASE IsServed(q, r, maxOthers)
    BY <1>3 DEF IsServed, Ordered, Undone
  <1> QED BY <1>1, <1>2, <1>3, AsksOrdered, EndsOrdered DEF Steps
=============================================================================

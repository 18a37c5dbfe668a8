------------------------- MODULE QueriedPage_proofs -------------------------
(***************************************************************************)
(* Proofs about QueriedPage: the ranges of its counters, and that every    *)
(* page is the PageSession it should be, whatever the server makes of a    *)
(* request, however many requests are sent, served and lost, and whatever  *)
(* the chains they are sent in.                                            *)
(*                                                                         *)
(* The argument: the saves done never outrun the requests made, since each *)
(* request the server does leaves those still to be done; and there is one *)
(* GET at a time, whose copy of the store is no older than the one shown,  *)
(* because a page that asks again abandons the GET on its way.             *)
(***************************************************************************)
EXTENDS QueriedPage, FiniteSetTheorems, TLAPS

States == {"sent", "done", "refused", "lost"}

\* A request on its way and a GET on its way are what the actions make of them.
Fields == {"n", "req", "then", "state", "at", "id", "reply"}
ACall(c) ==
  /\ c = [f \in Fields |-> c[f]]
  /\ c.n \in 1 .. made /\ c.at \in 0 .. written /\ c.state \in States
AGet(g) ==
  \/ g = [phase |-> "asked"]
  \/ g = [phase |-> "read", data |-> g.data, at |-> g.at] /\ g.at \in view.at .. written

Undone == {c \in calls : c.state = "sent"}

Counters ==
  /\ made \in 0 .. MaxCalls /\ others \in 0 .. MaxOthers
  /\ written \in Nat /\ told \in 0 .. written
Copies ==
  /\ view = [data |-> view.data, at |-> view.at] /\ view.at \in 0 .. written
  /\ \A g \in fetch : AGet(g)
  /\ \A g, h \in fetch : g = h
Requests ==
  /\ \A c \in calls : ACall(c)
  /\ IsFiniteSet(Undone) /\ written + Cardinality(Undone) <= made

IInv == Counters /\ Copies /\ Requests

USE BoundsAssumption

-----------------------------------------------------------------------------
(* What is sent.                                                            *)

NewCall(x, k) ==
  [n |-> k, req |-> x.req, then |-> x.then, state |-> "sent", at |-> 0, id |-> 0, reply |-> {}]

LEMMA NewCallFields ==
  ASSUME NEW x, NEW k
  PROVE  /\ NewCall(x, k) = [f \in Fields |-> NewCall(x, k)[f]]
         /\ NewCall(x, k).n = k /\ NewCall(x, k).at = 0 /\ NewCall(x, k).state = "sent"
  BY DEF NewCall, Fields

\* A page sends one request at a time, or none.
LEMMA SentNone == Sent(<<>>) = {} /\ Len(<<>>) = 0
  BY DEF Sent

LEMMA SentOne ==
  ASSUME NEW x
  PROVE  Sent(<<x>>) = {NewCall(x, made + 1)} /\ Len(<<x>>) = 1
  BY DEF Sent, NewCall

\* Taking a request out of those to be done, or leaving them as they are.
LEMMA OneDone ==
  ASSUME NEW S, IsFiniteSet(S), NEW c \in S
  PROVE  IsFiniteSet(S \ {c}) /\ Cardinality(S \ {c}) + 1 = Cardinality(S) /\ Cardinality(S) \in Nat
         /\ Cardinality(S \ {c}) \in Nat
  <1>1. /\ IsFiniteSet(S \ {c})
        /\ Cardinality(S \ {c}) = IF c \in S THEN Cardinality(S) - 1 ELSE Cardinality(S)
    BY FS_RemoveElement
  <1>2. Cardinality(S) \in Nat /\ Cardinality(S \ {c}) \in Nat
    BY <1>1, FS_CardinalityType
  <1> QED BY <1>1, <1>2

LEMMA OneMore ==
  ASSUME NEW S, IsFiniteSet(S), NEW c
  PROVE  IsFiniteSet(S \cup {c}) /\ Cardinality(S \cup {c}) <= Cardinality(S) + 1
         /\ Cardinality(S) \in Nat /\ Cardinality(S \cup {c}) \in Nat
  <1>1. /\ IsFiniteSet(S \cup {c})
        /\ Cardinality(S \cup {c}) = IF c \in S THEN Cardinality(S) ELSE Cardinality(S) + 1
    BY FS_AddElement
  <1>2. Cardinality(S) \in Nat /\ Cardinality(S \cup {c}) \in Nat
    BY <1>1, FS_CardinalityType
  <1> QED BY <1>1, <1>2

-----------------------------------------------------------------------------
(* One lemma per operation: the invariant, and what the page's own saves    *)
(* see of it.                                                               *)

Unseen == UNCHANGED <<written, told, view.at>>

LEMMA SendStep ==
  ASSUME IInv, NEW x, Send(<<x>>)
  PROVE  IInv' /\ Unseen
  <1> DEFINE new == NewCall(x, made + 1)
  <1>1. /\ made' = made + 1 /\ made + 1 <= MaxCalls
        /\ calls' = calls \cup {new}
        /\ UNCHANGED <<stored, others, written, told, fetch, view>>
    BY SentOne DEF Send
  <1>2. Counters' /\ Copies' /\ Unseen
    BY <1>1 DEF IInv, Counters, Copies, AGet, Unseen
  <1>3. \A c \in calls' : ACall(c)'
    <2> SUFFICES ASSUME NEW c \in calls' PROVE ACall(c)'
      OBVIOUS
    <2>1. CASE c \in calls
      BY <1>1, <2>1 DEF IInv, Counters, Requests, ACall
    <2>2. CASE c = new
      BY <1>1, <2>2, NewCallFields DEF IInv, Counters, ACall, States
    <2> QED BY <1>1, <2>1, <2>2
  <1>4. Undone' = Undone \cup {new}
    BY <1>1 DEF Undone, NewCall
  <1>5. IsFiniteSet(Undone') /\ written' + Cardinality(Undone') <= made'
    <2> HIDE DEF new
    <2>1. IsFiniteSet(Undone)
      BY DEF IInv, Requests
    <2>2. /\ IsFiniteSet(Undone \cup {new}) /\ Cardinality(Undone \cup {new}) <= Cardinality(Undone) + 1
          /\ Cardinality(Undone) \in Nat /\ Cardinality(Undone \cup {new}) \in Nat
      BY <2>1, OneMore
    <2> QED BY <1>1, <1>4, <2>2 DEF IInv, Counters, Requests
  <1> QED BY <1>2, <1>3, <1>5 DEF IInv, Requests

\* A request that is heard of leaves those still to be done as they are, and may send one more.
LEMMA AnswerStep ==
  ASSUME IInv, NEW c \in calls, HearAnswer(c)
  PROVE  IInv' /\ told' \in told .. written /\ UNCHANGED <<written, view>>
  <1> DEFINE next == NewCall([req |-> Head(c.then), then |-> Tail(c.then)], made + 1)
             more == c.state = "done" /\ c.then # <<>>
             asks == c.state = "done" /\ ~more
  <1>1. /\ c.state # "sent"
        /\ IF more THEN made' = made + 1 /\ made + 1 <= MaxCalls /\ calls' = (calls \ {c}) \cup {next}
                   ELSE made' = made /\ calls' = calls \ {c}
        /\ IF asks THEN fetch' = Asked /\ told' = IF c.at > told THEN c.at ELSE told
                   ELSE UNCHANGED <<fetch, told>>
        /\ UNCHANGED <<stored, others, written, view>>
    <2>1. CASE more
      BY <2>1, SentOne DEF HearAnswer, Answer, Answered
    <2>2. CASE ~more
      <3>1. made + 0 = made
        BY DEF IInv, Counters
      <3> QED BY <2>2, <3>1, SentNone DEF HearAnswer, Answer, Answered
    <2> QED BY <2>1, <2>2
  <1>2. c.at \in 0 .. written
    BY DEF IInv, Requests, ACall
  <1>3. told' \in told .. written
    BY <1>1, <1>2 DEF IInv, Counters
  <1>4. Counters' /\ Copies'
    BY <1>1, <1>3 DEF IInv, Counters, Copies, AGet, Asked
  <1>5. \A d \in calls' : ACall(d)'
    <2> SUFFICES ASSUME NEW d \in calls' PROVE ACall(d)'
      OBVIOUS
    <2>1. CASE d \in calls
      BY <1>1, <2>1 DEF IInv, Counters, Requests, ACall
    <2>2. CASE more /\ d = next
      <3>1. /\ d = [f \in Fields |-> d[f]] /\ d.n = made + 1 /\ d.at = 0 /\ d.state = "sent"
        BY <2>2, NewCallFields, SMTT(30)
      <3>2. made' = made + 1 /\ written' = written /\ made \in Nat /\ written \in Nat
        BY <1>1, <2>2 DEF IInv, Counters
      <3> QED BY <3>1, <3>2 DEF ACall, States
    <2> QED BY <1>1, <2>1, <2>2
  <1>6. Undone' = IF more THEN Undone \cup {next} ELSE Undone
    BY <1>1 DEF Undone, NewCall
  <1>7. IsFiniteSet(Undone') /\ written' + Cardinality(Undone') <= made'
    <2>0. IsFiniteSet(Undone)
      BY DEF IInv, Requests
    <2>1. CASE more
      <3> HIDE DEF next
      <3>1. /\ IsFiniteSet(Undone \cup {next}) /\ Cardinality(Undone \cup {next}) <= Cardinality(Undone) + 1
            /\ Cardinality(Undone) \in Nat /\ Cardinality(Undone \cup {next}) \in Nat
        BY <2>0, OneMore
      <3> QED BY <1>1, <1>6, <2>1, <3>1 DEF IInv, Counters, Requests
    <2>2. CASE ~more
      BY <1>1, <1>6, <2>2 DEF IInv, Requests
    <2> QED BY <2>1, <2>2
  <1> QED BY <1>1, <1>3, <1>4, <1>5, <1>7 DEF IInv, Requests

\* The server does one of the saves that are to be done, or refuses it.
LEMMA ServeStep ==
  ASSUME IInv, NEW c \in calls, Serve(c)
  PROVE  IInv' /\ written' \in {written, written + 1} /\ UNCHANGED <<told, view>>
  <1>0. ACall(c) /\ c.state = "sent" /\ written \in Nat /\ UNCHANGED <<made, others, told, fetch, view>>
    BY DEF Serve, IInv, Counters, Requests
  <1>1. PICK new : calls' = (calls \ {c}) \cup {new} /\ ACall(new)' /\ new.state # "sent"
                   /\ written' \in {written, written + 1}
    <2>1. CASE calls' = (calls \ {c}) \cup {[c EXCEPT !.state = "refused"]} /\ written' = written
      <3> DEFINE new == [c EXCEPT !.state = "refused"]
      <3>1. new = [f \in Fields |-> new[f]] /\ new.n = c.n /\ new.at = c.at /\ new.state = "refused"
        BY <1>0 DEF ACall, Fields
      <3> HIDE DEF new
      <3> QED BY <1>0, <2>1, <3>1 DEF ACall, States, new
    <2>2. CASE /\ written' = written + 1
               /\ \E r : calls' = (calls \ {c}) \cup
                            {[c EXCEPT !.state = "done", !.at = written + 1, !.id = r.id, !.reply = r.reply]}
      <3>0. PICK r, n : calls' = (calls \ {c}) \cup
                           {[c EXCEPT !.state = "done", !.at = n, !.id = r.id, !.reply = r.reply]}
                        /\ n = written' /\ written' = written + 1
        BY <2>2
      <3> DEFINE new == [c EXCEPT !.state = "done", !.at = n, !.id = r.id, !.reply = r.reply]
      <3>1. new = [f \in Fields |-> new[f]] /\ new.n = c.n /\ new.at = n /\ new.state = "done"
        BY <1>0 DEF ACall, Fields
      <3>2. calls' = (calls \ {c}) \cup {new}
        BY <3>0
      <3> HIDE DEF new
      <3>3. ACall(new)'
        <4>1. n \in 0 .. written' /\ made' = made
          BY <1>0, <3>0
        <4> QED BY <1>0, <3>1, <4>1 DEF ACall, States
      <3> QED BY <3>0, <3>1, <3>2, <3>3
    <2> QED BY <2>1, <2>2 DEF Serve
  <1>3. written' \in {written, written + 1} /\ written \in Nat
    BY <1>0, <1>1
  <1>4. \A d \in calls' : ACall(d)'
    <2> SUFFICES ASSUME NEW d \in calls' PROVE ACall(d)'
      OBVIOUS
    <2>1. CASE d \in calls
      BY <1>0, <1>3, <2>1 DEF IInv, Requests, ACall
    <2> QED BY <1>1, <2>1
  <1>5. Undone' = Undone \ {c} /\ c \in Undone
    BY <1>0, <1>1 DEF Undone
  <1>6. IsFiniteSet(Undone') /\ Cardinality(Undone') + 1 = Cardinality(Undone) /\ Cardinality(Undone') \in Nat
    BY <1>5, OneDone DEF IInv, Requests
  <1>7. written' + Cardinality(Undone') <= made'
    BY <1>0, <1>3, <1>6 DEF IInv, Counters, Requests
  <1>8. Counters' /\ Copies'
    BY <1>0, <1>3, <1>6, <1>7 DEF IInv, Counters, Copies, AGet
  <1> QED BY <1>0, <1>3, <1>4, <1>6, <1>7, <1>8 DEF IInv, Requests

\* A connection that fails takes a request out of those to be done, or an answer away.
LEMMA LoseStep ==
  ASSUME IInv, NEW c \in calls, Lose(c)
  PROVE  IInv' /\ Unseen
  <1> DEFINE new == [c EXCEPT !.state = "lost"]
  <1>1. new = [f \in Fields |-> new[f]] /\ new.n = c.n /\ new.at = c.at /\ new.state = "lost"
    BY DEF IInv, Requests, ACall, Fields
  <1>2. /\ calls' = (calls \ {c}) \cup {new}
        /\ UNCHANGED <<stored, made, others, written, told, fetch, view>>
    BY DEF Lose
  <1> HIDE DEF new
  <1>3. \A d \in calls' : ACall(d)'
    BY <1>1, <1>2 DEF IInv, Requests, ACall, States
  <1>4. Undone' = Undone \ {c}
    BY <1>1, <1>2 DEF Undone
  <1>5. IsFiniteSet(Undone') /\ written' + Cardinality(Undone') <= made'
    <2>1. CASE c \in Undone
      BY <1>2, <1>4, <2>1, OneDone DEF IInv, Counters, Requests
    <2>2. CASE c \notin Undone
      <3>1. Undone' = Undone
        BY <1>4, <2>2
      <3> QED BY <1>2, <3>1 DEF IInv, Requests
    <2> QED BY <2>1, <2>2
  <1>6. Counters' /\ Copies' /\ Unseen
    BY <1>2 DEF IInv, Counters, Copies, AGet, Unseen
  <1> QED BY <1>3, <1>5, <1>6 DEF IInv, Requests

\* The requests are left alone by everything that has to do with a GET.
LEMMA RequestsKept ==
  ASSUME IInv, UNCHANGED <<made, written, calls>>
  PROVE  Requests'
  BY DEF IInv, Requests, ACall, Undone

LEMMA GetStep ==
  ASSUME IInv, ReadStore \/ LoseRead \/ Focus
  PROVE  IInv' /\ Unseen
  <1>1. UNCHANGED <<made, others, written, told, calls, view>>
    BY DEF ReadStore, LoseRead, Focus
  <1>2. \E g : fetch' = {g} /\ AGet(g)
    <2>1. CASE ReadStore
      <3> DEFINE read == [phase |-> "read", data |-> stored, at |-> written]
      <3>1. AGet(read)
        BY DEF AGet, IInv, Counters, Copies
      <3>2. fetch' = {read}
        BY <2>1 DEF ReadStore, IInv, Copies
      <3> QED BY <3>1, <3>2
    <2>2. CASE LoseRead
      BY <2>2 DEF LoseRead, Asked, AGet, IInv, Copies
    <2>3. CASE Focus
      BY <2>3 DEF Focus, Asked, AGet
    <2> QED BY <2>1, <2>2, <2>3
  <1>3. Counters' /\ Copies' /\ Unseen
    BY <1>1, <1>2 DEF IInv, Counters, Copies, AGet, Unseen
  <1> QED BY <1>1, <1>3, RequestsKept DEF IInv

\* What arrives is no older than what is on show.
LEMMA ArriveStep ==
  ASSUME IInv, Arrive
  PROVE  IInv' /\ view'.at \in view.at .. written /\ UNCHANGED <<written, told>>
  <1>1. PICK g \in fetch : g.phase = "read" /\ view' = [data |-> g.data, at |-> g.at] /\ fetch' = fetch \ {g}
    BY DEF Arrive, ArriveShowing
  <1>2. UNCHANGED <<made, others, written, told, calls>>
    BY DEF Arrive, ArriveShowing
  <1>3. g.at \in view.at .. written
    BY <1>1 DEF IInv, Copies, AGet
  <1>4. fetch' = {}
    BY <1>1 DEF IInv, Copies
  <1>5. Counters' /\ Copies'
    BY <1>1, <1>2, <1>3, <1>4 DEF IInv, Counters, Copies
  <1> QED BY <1>1, <1>2, <1>3, <1>5, RequestsKept DEF IInv

LEMMA OtherStep ==
  ASSUME IInv, NEW req \in OthersRequests, OtherClient(req)
  PROVE  IInv' /\ Unseen
  <1>1. others < MaxOthers /\ others' = others + 1 /\ UNCHANGED <<made, written, told, calls, fetch, view>>
    BY DEF OtherClient
  <1>2. Counters' /\ Copies' /\ Unseen
    BY <1>1 DEF IInv, Counters, Copies, AGet, Unseen
  <1> QED BY <1>1, <1>2, RequestsKept DEF IInv

-----------------------------------------------------------------------------
(* The invariant.                                                           *)

LEMMA InitIInv == Init => IInv
  <1> SUFFICES ASSUME NEW store \in Stores, Opened(store, 0) PROVE IInv
    BY DEF Init
  <1>1. Undone = {}
    BY DEF Opened, Undone
  <1> QED BY <1>1, FS_EmptySet DEF Opened, Idle, IInv, Counters, Copies, Requests

\* What a step means to the page's own saves.
Seen == \/ Session!Next
        \/ UNCHANGED Session!sessionVars

LEMMA NextStep == IInv /\ [Next]_queryVars => IInv' /\ Seen
  <1> SUFFICES ASSUME IInv, [Next]_queryVars PROVE IInv' /\ Seen
    OBVIOUS
  <1> USE DEF Seen, Unseen, Session!Next, Session!Write, Session!Tell, Session!Show, Session!sessionVars
  <1>1. ASSUME NEW chain \in Chains, Save(chain) PROVE IInv' /\ Seen
    BY <1>1, SendStep DEF Save
  <1>2. ASSUME NEW c \in calls, Serve(c) PROVE IInv' /\ Seen
    BY <1>2, ServeStep
  <1>3. ASSUME NEW c \in calls, Lose(c) PROVE IInv' /\ Seen
    BY <1>3, LoseStep
  <1>4. ASSUME NEW c \in calls, HearAnswer(c) PROVE IInv' /\ Seen
    BY <1>4, AnswerStep
  <1>5. CASE ReadStore \/ LoseRead \/ Focus
    BY <1>5, GetStep
  <1>6. CASE Arrive
    BY <1>6, ArriveStep
  <1>7. ASSUME NEW req \in OthersRequests, OtherClient(req) PROVE IInv' /\ Seen
    BY <1>7, OtherStep
  <1>8. CASE UNCHANGED queryVars
    BY <1>8 DEF queryVars, IInv, Counters, Copies, Requests, AGet, ACall, Undone
  <1> QED BY <1>1, <1>2, <1>3, <1>4, <1>5, <1>6, <1>7, <1>8 DEF Next

\* The inductive invariant of every page: the counters are in order, the saves done and
\* those to be done are within the requests made, and there is one GET at a time.
THEOREM PageInvariant == Spec => []IInv
  <1>1. Init /\ [][Next]_queryVars => []IInv
    BY InitIInv, NextStep, PTL
  <1> QED BY <1>1, PTL DEF Spec

\* Types and ranges (client.ts, `get`): one GET at a time, no older than the page.
THEOREM PageTyped == Spec => []TypeOK
  <1>1. IInv => TypeOK
    <2> SUFFICES ASSUME IInv PROVE TypeOK
      OBVIOUS
    <2>1. written <= made
      BY FS_CardinalityType DEF IInv, Counters, Requests
    <2>2. \A g \in fetch : g.phase = "asked" \/ (g.phase = "read" /\ g.at \in view.at .. written)
      BY DEF IInv, Copies, AGet
    <2> QED BY <2>1, <2>2 DEF TypeOK, IInv, Counters, Copies, Requests, ACall, States
  <1> QED BY <1>1, PageInvariant, PTL

\* Every page implements PageSession: whatever requests cross with whatever GETs, it never
\* shows an older store than it showed and is never ahead of the server.
THEOREM PageIsASession == Spec => NeverShowsOlder
  <1>1. Init => Session!Init
    BY DEF Init, Opened, Session!Init
  <1>2. IInv /\ [Next]_queryVars => [Session!Next]_(Session!sessionVars)
    BY NextStep DEF Seen
  <1> QED BY <1>1, <1>2, PageInvariant, PTL DEF Spec, NeverShowsOlder, Session!Safety
=============================================================================

----------------------------- MODULE PageQueries ----------------------------
(***************************************************************************)
(* How a page of the client reads and writes the server.  A page shows the *)
(* answer of its last GET; a save is a request of its own, and only its    *)
(* success makes the page ask again.  Asking again abandons the GET that   *)
(* is on its way (frontend/src/api/client.ts and the query client it is    *)
(* written for).  Several requests of one page may be on their way at      *)
(* once, the server takes them in any order, and a request or its answer   *)
(* may be lost.                                                            *)
(*                                                                         *)
(* `written` counts the page's own saves the server has done, `told` the   *)
(* last of them the page knows of, and a copy of the store is stamped with *)
(* the count it was read at: the three are history, and no action depends  *)
(* on them.                                                                *)
(***************************************************************************)
EXTENDS Integers, Sequences, FiniteSets

CONSTANTS Apply(_, _),   \* what the server makes of a request in a store: a set of at most one
                         \* [store, id, reply]: the id of the row made, the row answered; none is a refusal
          MaxCalls,      \* bound: requests a page sends
          MaxOthers      \* bound: requests of other clients

ASSUME BoundsAssumption == MaxCalls \in Nat /\ MaxOthers \in Nat

VARIABLES stored, made, others, written, told, calls, fetch, view
queryVars == <<stored, made, others, written, told, calls, fetch, view>>

\* `fetch` holds the GETs on their way: none, one that was asked, one the server has read
\* the store for.
Idle == {}
Asked == {[phase |-> "asked"]}

\* The page opens on the answer of its first GET, with `spent` of its requests used up.
Opened(store, spent) ==
  /\ stored = store /\ made = spent /\ others = 0 /\ written = 0 /\ told = 0
  /\ calls = {} /\ fetch = Idle /\ view = [data |-> store, at |-> 0]

\* Requests are sent together, each with what its callbacks will need.
Sent(requests) ==
  {[n |-> made + i, req |-> requests[i].req, then |-> requests[i].then, state |-> "sent", at |-> 0, id |-> 0, reply |-> {}]
     : i \in DOMAIN requests}
Send(requests) ==
  /\ made + Len(requests) <= MaxCalls
  /\ made' = made + Len(requests)
  /\ calls' = calls \cup Sent(requests)
  /\ UNCHANGED <<stored, others, written, told, fetch, view>>
\* Sent with what they will come to already shown.
SendShowing(requests, data) ==
  /\ made + Len(requests) <= MaxCalls
  /\ made' = made + Len(requests)
  /\ calls' = calls \cup Sent(requests)
  /\ view' = [view EXCEPT !.data = data]
  /\ UNCHANGED <<stored, others, written, told, fetch>>

\* The server does what is asked, or refuses it.
Serve(call) ==
  /\ call.state = "sent"
  /\ LET results == Apply(call.req, stored) IN
     IF results = {}
     THEN /\ calls' = (calls \ {call}) \cup {[call EXCEPT !.state = "refused"]}
          /\ UNCHANGED <<stored, written>>
     ELSE \E r \in results :
          /\ stored' = r.store
          /\ written' = written + 1
          /\ calls' = (calls \ {call}) \cup {[call EXCEPT !.state = "done", !.at = written + 1, !.id = r.id, !.reply = r.reply]}
  /\ UNCHANGED <<made, others, told, fetch, view>>

\* The connection fails, before the server has done it or after.
Lose(call) ==
  /\ call.state \in {"sent", "done"}
  /\ calls' = (calls \ {call}) \cup {[call EXCEPT !.state = "lost"]}
  /\ UNCHANGED <<stored, made, others, written, told, fetch, view>>

Answered(call) == call.state \in {"refused", "done", "lost"}

\* Mutant of Answer: the GET on its way goes on beside the new one.
AnswerKeepingGets(call, asks, requests) ==
  /\ Answered(call)
  /\ made + Len(requests) <= MaxCalls
  /\ made' = made + Len(requests)
  /\ calls' = (calls \ {call}) \cup Sent(requests)
  /\ IF asks
     THEN fetch' = fetch \cup Asked /\ told' = IF call.at > told THEN call.at ELSE told
     ELSE UNCHANGED <<fetch, told>>
  /\ UNCHANGED <<stored, others, written, view>>
\* Mutant of Answer: a GET on its way is taken for the one to be asked.
AnswerSharingGet(call, asks, requests) ==
  /\ Answered(call)
  /\ made + Len(requests) <= MaxCalls
  /\ made' = made + Len(requests)
  /\ calls' = (calls \ {call}) \cup Sent(requests)
  /\ IF asks
     THEN /\ fetch' = IF fetch = Idle THEN Asked ELSE fetch
          /\ told' = IF call.at > told THEN call.at ELSE told
     ELSE UNCHANGED <<fetch, told>>
  /\ UNCHANGED <<stored, others, written, view>>
\* The page learns how a request ended, and a callback may send more at once. A page that
\* asks again abandons whatever GET is on its way (client.ts, `get`: "an old response
\* landing after a newer one silently reverts a just-saved change").
Answer(call, asks, requests) ==
  /\ Answered(call)
  /\ made + Len(requests) <= MaxCalls
  /\ made' = made + Len(requests)
  /\ calls' = (calls \ {call}) \cup Sent(requests)
  /\ IF asks
     THEN fetch' = Asked /\ told' = IF call.at > told THEN call.at ELSE told
     ELSE UNCHANGED <<fetch, told>>
  /\ UNCHANGED <<stored, others, written, view>>

\* The page puts what was answered where it shows it, and asks for nothing: a GET on its way
\* goes on, and what it was answered is shown after this.
AnswerShowing(call, data) ==
  /\ Answered(call)
  /\ calls' = calls \ {call}
  /\ view' = [view EXCEPT !.data = data]
  /\ UNCHANGED <<stored, made, others, written, told, fetch>>

\* The server answers the GET; later the answer arrives, or is lost and asked for again.
\* The window taking the focus again asks too, unless a GET is on its way.
ReadStore ==
  /\ \E g \in fetch : /\ g.phase = "asked"
                      /\ fetch' = (fetch \ {g}) \cup {[phase |-> "read", data |-> stored, at |-> written]}
  /\ UNCHANGED <<stored, made, others, written, told, calls, view>>
ArriveShowing(g, data) ==
  /\ g.phase = "read"
  /\ view' = [data |-> data, at |-> g.at]
  /\ fetch' = fetch \ {g}
  /\ UNCHANGED <<stored, made, others, written, told, calls>>
Arrive == \E g \in fetch : ArriveShowing(g, g.data)
LoseRead ==
  /\ \E g \in fetch : g.phase = "read" /\ fetch' = (fetch \ {g}) \cup Asked
  /\ UNCHANGED <<stored, made, others, written, told, calls, view>>
Focus == /\ fetch = Idle
         /\ fetch' = Asked
         /\ UNCHANGED <<stored, made, others, written, told, calls, view>>

\* Another client's request. Nothing tells this page of it.
OtherClient(req) ==
  /\ others < MaxOthers
  /\ \E r \in Apply(req, stored) : stored' = r.store
  /\ others' = others + 1
  /\ UNCHANGED <<made, written, told, calls, fetch, view>>

\* Types and ranges: the counters are in order, and there is one GET at a time, its copy
\* no older than the one on show.
TypeOK ==
  /\ {made, others, written, told, view.at} \subseteq Nat
  /\ made <= MaxCalls /\ others <= MaxOthers
  /\ told <= written /\ written <= made /\ view.at <= written
  /\ \A c \in calls : c.n \in 1 .. made /\ c.at \in 0 .. written
                      /\ c.state \in {"sent", "done", "refused", "lost"}
  /\ \A g, h \in fetch : g = h
  /\ \A g \in fetch : g.phase = "asked" \/ (g.phase = "read" /\ g.at \in view.at .. written)
=============================================================================

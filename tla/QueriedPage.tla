----------------------------- MODULE QueriedPage ----------------------------
(***************************************************************************)
(* Any page of the client, for what it promises of its own saves: it sends *)
(* chains of requests, each sent when the one before it is done, and asks  *)
(* for the page again at the end of a chain.  PageSession says what that   *)
(* has to amount to.                                                       *)
(***************************************************************************)
EXTENDS PageQueries

CONSTANTS Stores,         \* what the page opens on
          Chains,         \* what a save sends: non-empty sequences of requests
          OthersRequests

ASSUME ChainsAssumption == <<>> \notin Chains

Save(chain) == Send(<<[req |-> Head(chain), then |-> Tail(chain)]>>)
\* A request that fails ends its chain, and asks for nothing.
HearAnswer(call) ==
  LET more == IF call.state = "done" /\ call.then # <<>>
              THEN <<[req |-> Head(call.then), then |-> Tail(call.then)]>> ELSE <<>>
  IN Answer(call, call.state = "done" /\ more = <<>>, more)

Init == \E store \in Stores : Opened(store, 0)
Next ==
  \/ \E chain \in Chains : Save(chain)
  \/ \E c \in calls : Serve(c) \/ Lose(c) \/ HearAnswer(c)
  \/ ReadStore \/ Arrive \/ LoseRead \/ Focus
  \/ \E req \in OthersRequests : OtherClient(req)

\* An answer that is there is heard, and a GET that is out is answered; of the GETs that
\* are asked again because their answer was lost, one arrives in the end (the query client
\* asks four times).  Nothing makes the server take a save.
Fairness == /\ WF_queryVars(\E c \in calls : HearAnswer(c))
            /\ WF_queryVars(ReadStore) /\ SF_queryVars(Arrive)
Spec == Init /\ [][Next]_queryVars /\ Fairness

Session == INSTANCE PageSession WITH MaxWrites <- MaxCalls, shown <- view.at
\* The page is a PageSession: its saves are counted as they are done, it never shows an
\* older store than it showed, and is never ahead of the server.
NeverShowsOlder == Session!Safety
\* A save the page was told of comes to be seen on it, whatever else it sends, however its
\* GETs cross with the saves, and though answers are lost.
ReadYourWrites == Session!ReadYourWrites
=============================================================================

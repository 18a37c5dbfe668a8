----------------------------- MODULE LightingPage ---------------------------
(***************************************************************************)
(* The Lighting tab of an event, on a desk and on a phone                  *)
(* (frontend/src/components: event/LightingTab, LightingSheet,             *)
(* AddressPrompt, UniversesDrawer, LightingStatusRail,                     *)
(* mobile/MobileFixtureEditSheet): fixtures edited in place, a question    *)
(* when the address that is wanted is taken, an editor that adds a batch,  *)
(* and the plans that address a whole rig anew.                            *)
(***************************************************************************)
EXTENDS LightingStore, RowEditor

CONSTANTS Starts,          \* what the page opens on: records [patch, phone, parts, readOnly, spent]
          LightDrafts,     \* what is typed over a fixture: [number, universe, start, count]
          Batches,         \* what is typed for a batch: [quantity, count, start, share]
          MaxCalls, MaxOthers,
          OthersRequests

VARIABLES stored, made, others, written, told, calls, fetch, view, page
queryVars == <<stored, made, others, written, told, calls, fetch, view>>
pageVars == <<queryVars, page>>

Q == INSTANCE PageQueries WITH Apply <- ApplyLighting

fixtures == view.data.fixtures
Ask(req, then) == Q!Send(<<[req |-> req, then |-> then]>>)
Addresses(changes) == [op |-> "addresses", changes |-> changes]

\* `prompt` is the question that stands, as it was when it was raised. `ending` are the
\* requests answered whose lists are being read again, `due` those read again as far as the
\* rig goes: the order of rental items is read after it.
\* Bound: GETs under way together are answered together, and `parts` are those of the page
\* a run uses.
NewPage(start) ==
  [phone |-> start.phone, parts |-> start.parts, readOnly |-> start.readOnly, filter |-> "all",
   editor |-> Closed, prompt |-> {}, applying |-> FALSE, doomed |-> {}, plan |-> {},
   adding |-> {}, sheet |-> {}, ending |-> {}, due |-> {}]
Part(name) == name \in page.parts /\ page.doomed = {} /\ page.plan = {}
Visible == {f \in fixtures : CASE page.filter = "all" -> TRUE
                               [] page.filter = "errors" -> f.id \in Faulty(fixtures)
                               [] page.filter = "unaddressed" -> f.start = Unset}

\* The strip shows only what it complains of, or everything again.
ToggleFilter ==
  /\ Part("filter") /\ ~page.readOnly /\ (page.filter # "all" \/ StatusState(fixtures) # "clean")
  /\ page' = [page EXCEPT !.filter = IF @ # "all" THEN "all" ELSE StatusState(fixtures)]
  /\ UNCHANGED queryVars

-----------------------------------------------------------------------------
(* What is asked when an address is taken.                                  *)

Insertion(universe, start, count, except) == [universe |-> universe, start |-> start, count |-> count, except |-> except]
\* Sharing is offered when what is in the way is one group with exactly this span.
CollisionFor(insert) ==
  LET inTheWay == GroupsInTheWay(fixtures, insert) IN
  IF insert.start = Unset \/ inTheWay = {} THEN {}
  ELSE {[insert |-> insert, canShare |-> \A g \in inTheWay : g.start = insert.start /\ g.count = insert.count,
         room |-> MakeRoom(fixtures, insert)]}

-----------------------------------------------------------------------------
(* Fixtures edited in place.                                                *)

OnSheet == Part("rows") /\ ~page.phone /\ ~page.readOnly
OpenFixture == OpenId(page.editor, fixtures)
Editing == OnSheet /\ \E f \in Visible : f.id \in OpenFixture
DraftOf(f) == [number |-> f.number, position |-> f.position, universe |-> f.universe, start |-> f.start, count |-> f.count]

\* The whole row goes back, the fixture it hangs on as it is shown.
RowRequests(step) ==
  [i \in DOMAIN step.writes |->
     [op |-> "updateFixture", id |-> step.writes[i].row, row |-> step.writes[i].draft,
      parent |-> (CHOOSE f \in fixtures : f.id = step.writes[i].row).parent]]
RowSaves(requests) == [i \in DOMAIN requests |-> [req |-> requests[i], then |-> [kind |-> "row"]]]
Persist(step, prompt) ==
  /\ page' = [page EXCEPT !.editor = step.editor, !.prompt = prompt]
  /\ IF step.writes = <<>> THEN UNCHANGED queryVars ELSE Q!Send(RowSaves(RowRequests(step)))

\* Opening another row writes the open one, and asks nothing. A question stays where it is.
OpenRowOf(f) == /\ OnSheet /\ OpenFixture # {f.id}
                /\ Persist(OpenRow(page.editor, f, DraftOf(f), fixtures), page.prompt)
\* Bound: what is typed is typed while nothing is on its way.
Quiet == calls = {} /\ fetch = Q!Idle
TypeRow(typed) ==
  /\ Editing /\ Quiet /\ \E d \in page.editor.draft :
       /\ typed @@ d # d
       /\ page' = [page EXCEPT !.editor = SetDraft(@, typed @@ d)]
  /\ UNCHANGED queryVars
SaveRow ==
  /\ Editing
  /\ \E d \in page.editor.draft, id \in OpenFixture :
       LET collision == CollisionFor(Insertion(d.universe, d.start, d.count, id))
       IN IF collision = {} THEN Persist(Save(page.editor, fixtures), page.prompt)
          ELSE page' = [page EXCEPT !.prompt = collision] /\ UNCHANGED queryVars
\* The keyboard's save asks nothing, and does nothing while a question stands.
NextOf(id) ==
  LET order == RigOrder(fixtures)
  IN {[row |-> order[i + 1].id, draft |-> DraftOf(order[i + 1])] : i \in {j \in 1 .. Len(order) - 1 : order[j].id = id}}
SaveAndNextRow ==
  /\ Editing /\ page.prompt = {}
  /\ \E id \in OpenFixture : Persist(SaveAndNext(page.editor, NextOf(id), fixtures), page.prompt)
CancelRow == Editing /\ page' = [page EXCEPT !.editor = Closed, !.prompt = {}] /\ UNCHANGED queryVars
EscapeRow == Editing /\ page.prompt # {} /\ page' = [page EXCEPT !.editor = Closed] /\ UNCHANGED queryVars

DeleteRow == Editing /\ "delete" \in page.parts /\ page' = [page EXCEPT !.doomed = OpenFixture] /\ UNCHANGED queryVars
ConfirmDelete == /\ \E id \in page.doomed : Ask([op |-> "deleteFixture", id |-> id], [kind |-> "row"])
                 /\ page' = [page EXCEPT !.doomed = {}]
CancelDelete == page.doomed # {} /\ page' = [page EXCEPT !.doomed = {}] /\ UNCHANGED queryVars

Answering == Editing /\ page.prompt # {} /\ ~page.applying
\* Sharing and placing anyway both save the row as it is.
ShareOrPlace == Answering /\ Persist(Save(page.editor, fixtures), {})
BackToRow == Answering /\ page' = [page EXCEPT !.prompt = {}] /\ UNCHANGED queryVars
\* `alone` is history: no other request of this page was on its way.
RoomFor(kind, key, saves) == [kind |-> kind, key |-> key, saves |-> saves, alone |-> calls = {}]
\* "Shift first, then save": what is saved afterwards is the row as it is now.
RowRoom ==
  /\ Answering
  /\ \E p \in page.prompt :
       /\ p.room.possible
       /\ IF p.room.changes = {} THEN Persist(Save(page.editor, fixtures), {})
          ELSE /\ Ask(Addresses(p.room.changes),
                      RoomFor("rowRoom", 0, RowSaves(RowRequests(Save(page.editor, fixtures)))))
               /\ page' = [page EXCEPT !.applying = TRUE]

-----------------------------------------------------------------------------
(* The editor that adds a batch.                                            *)

NewBatch ==
  [draft |-> [quantity |-> 1, number |-> NextFixtureNumber(fixtures), count |-> NewCount, universe |-> 1, share |-> FALSE,
              start |-> IF FirstRunFitting(fixtures, 1, NewCount) = {} THEN Unset
                        ELSE CHOOSE s \in FirstRunFitting(fixtures, 1, NewCount) : TRUE],
   prompt |-> {}, applying |-> FALSE, key |-> made]
Adding(batch) == Part("add") /\ ~page.readOnly /\ page.adding = {batch}
Rebatch(batch, new) == page' = [page EXCEPT !.adding = {new}] /\ new # batch /\ UNCHANGED queryVars
StartAdding == Part("add") /\ ~page.readOnly /\ ~page.phone /\ page.adding = {} /\ page' = [page EXCEPT !.adding = {NewBatch}] /\ UNCHANGED queryVars
CancelAdding(batch) == Adding(batch) /\ page' = [page EXCEPT !.adding = {}] /\ UNCHANGED queryVars
TypeBatch(batch, typed) == Adding(batch) /\ Quiet /\ Rebatch(batch, [batch EXCEPT !.draft = typed @@ @])
\* Another universe, another place in it.
PickUniverse(batch, u) ==
  /\ Adding(batch) /\ Part("universe") /\ Quiet /\ u # batch.draft.universe
  /\ LET first == FirstRunFitting(fixtures, u, batch.draft.count)
     IN Rebatch(batch, [batch EXCEPT !.draft.universe = u,
                                     !.draft.start = IF first = {} THEN Unset ELSE CHOOSE s \in first : TRUE])

\* A batch is one span as wide as all of it, or as one fixture if they share.
Demand(draft) == IF draft.share THEN AtLeastOne(draft.count) ELSE AtLeastOne(draft.quantity) * AtLeastOne(draft.count)
Payload(draft) ==
  [op |-> "bulkFixtures", quantity |-> AtLeastOne(draft.quantity), number |-> draft.number, count |-> AtLeastOne(draft.count),
   universe |-> draft.universe, share |-> draft.share, start |-> draft.start]
Submission(draft) == [req |-> Payload(draft), then |-> [kind |-> "bulk"]]
Submit(batch) == /\ Q!Send(<<Submission(batch.draft)>>)
                 /\ page' = [page EXCEPT !.adding = {[batch EXCEPT !.prompt = {}]}]
AttemptAdd(batch) ==
  /\ Adding(batch)
  /\ LET d == batch.draft
         found == CollisionFor(Insertion(d.universe, d.start, Demand(d), Unset))
     IN IF found = {} THEN Q!Send(<<Submission(d)>>) /\ UNCHANGED page
        ELSE Rebatch(batch, [batch EXCEPT !.prompt = found])
\* The answers wait while a batch of this page is on its way.
AnsweringBatch(batch) ==
  Adding(batch) /\ batch.prompt # {} /\ ~batch.applying /\ ~\E c \in calls : c.then.kind = "bulk"
ShareOrPlaceBatch(batch) == AnsweringBatch(batch) /\ Submit(batch)
BackToBatch(batch) == AnsweringBatch(batch) /\ Rebatch(batch, [batch EXCEPT !.prompt = {}])
BatchRoom(batch) ==
  /\ AnsweringBatch(batch)
  /\ \E p \in batch.prompt :
       /\ p.room.possible
       /\ IF p.room.changes = {} THEN Submit(batch)
          ELSE /\ Ask(Addresses(p.room.changes), RoomFor("batchRoom", batch.key, <<Submission(batch.draft)>>))
               /\ page' = [page EXCEPT !.adding = {[batch EXCEPT !.applying = TRUE]}]

-----------------------------------------------------------------------------
(* A plan for the rig.                                                      *)

\* Both operations are those of the drawer, and wait while addresses are on their way.
\* Bound: "on their way" is any request for addresses of this page; in the code the last.
Busy == (\E c \in calls : c.req.op = "addresses") \/ \E e \in page.ending \cup page.due : e.then.kind # "sheet"
ProposePlan(plan) ==
  /\ Part("drawer") /\ ~page.readOnly /\ ~Busy /\ ~NothingToDo(plan)
  /\ page' = [page EXCEPT !.plan = {plan}]
  /\ UNCHANGED queryVars
\* The plan that was confirmed is the one that was counted, whatever arrived since.
ConfirmPlan == /\ \E p \in page.plan : Ask(Addresses(p.changes), [kind |-> "plan", key |-> 0, saves |-> <<>>])
               /\ page' = [page EXCEPT !.plan = {}]
CancelPlan == page.plan # {} /\ page' = [page EXCEPT !.plan = {}] /\ UNCHANGED queryVars

-----------------------------------------------------------------------------
(* A phone's sheet over a fixture, or a new one.                            *)

\* It is known by the fixture's id, and filled from the fixture as it is when it opens.
PhoneDraft(f) == [number |-> f.number, universe |-> f.universe, start |-> f.start, count |-> f.count]
OpenSheet(id, draft) ==
  /\ Part("sheet") /\ page.phone /\ page.sheet = {}
  /\ page' = [page EXCEPT !.sheet = {[id |-> id, draft |-> draft, saving |-> FALSE, key |-> made]}]
  /\ UNCHANGED queryVars
OpenFixtureSheet(f) == OpenSheet(f.id, PhoneDraft(f))
OpenNewSheet == ~page.readOnly /\ OpenSheet(0, [number |-> Unset, universe |-> 1, start |-> Unset, count |-> NewCount])
CloseSheet == page.sheet # {} /\ page' = [page EXCEPT !.sheet = {}] /\ UNCHANGED queryVars
TypeSheet(typed) ==
  /\ Part("sheet") /\ ~page.readOnly /\ Quiet
  /\ \E s \in page.sheet : s.draft # typed /\ page' = [page EXCEPT !.sheet = {[s EXCEPT !.draft = typed]}]
  /\ UNCHANGED queryVars
\* A fixture that is gone by now is a new one.
SheetRequest(s) ==
  LET mine == {f \in fixtures : f.id = s.id}
      last == Max({0} \cup {f.position : f \in fixtures})
  IN IF mine = {} THEN [op |-> "createFixture", row |-> [position |-> last + 1] @@ s.draft]
     ELSE LET f == CHOOSE g \in mine : TRUE
          IN [op |-> "updateFixture", id |-> f.id, parent |-> f.parent, row |-> [position |-> f.position] @@ s.draft]
SaveSheet ==
  /\ Part("sheet") /\ ~page.readOnly
  /\ \E s \in page.sheet : /\ ~s.saving
                           /\ Ask(SheetRequest(s), [kind |-> "sheet", key |-> s.key, saves |-> <<>>])
                           /\ page' = [page EXCEPT !.sheet = {[s EXCEPT !.saving = TRUE]}]

-----------------------------------------------------------------------------
(* What the page hears.                                                     *)

Ended(c) == [n |-> c.n, then |-> c.then, changes |-> IF c.req.op = "addresses" THEN c.req.changes ELSE {}]
HearRow(c) == Q!Answer(c, c.state = "done", <<>>) /\ UNCHANGED page
\* A batch that was made closes the editor that is open.
HearBulk(c) == /\ Q!Answer(c, c.state = "done", <<>>)
               /\ page' = [page EXCEPT !.adding = IF c.state = "done" THEN {} ELSE @]
HearSheet(c) ==
  /\ Q!Answer(c, c.state = "done", <<>>)
  /\ page' = IF c.state = "done" THEN [page EXCEPT !.ending = @ \cup {Ended(c)}]
             ELSE [page EXCEPT !.sheet = {IF s.key = c.then.key THEN [s EXCEPT !.saving = FALSE] ELSE s : s \in @}]
HearPlan(c) ==
  /\ Q!Answer(c, c.state = "done", <<>>)
  /\ page' = [page EXCEPT !.ending = IF c.state = "done" THEN @ \cup {Ended(c)} ELSE @]
NotApplying(batches, key) == {IF b.key = key THEN [b EXCEPT !.applying = FALSE] ELSE b : b \in batches}
\* Mutant of HearRoom: the row is saved whatever became of the room.
HearRoomAnyhow(c) ==
  /\ Q!Answer(c, TRUE, <<>>)
  /\ page' = [page EXCEPT !.ending = @ \cup {Ended(c)}]
\* Room that could not be made ends it: nothing is saved.
HearRoom(c) ==
  /\ Q!Answer(c, c.state = "done", <<>>)
  /\ page' = IF c.state = "done" THEN [page EXCEPT !.ending = @ \cup {Ended(c)}]
             ELSE IF c.then.kind = "rowRoom" THEN [page EXCEPT !.applying = FALSE]
             ELSE [page EXCEPT !.adding = NotApplying(@, c.then.key)]
HearAnswer(c) ==
  \/ c.then.kind = "row" /\ HearRow(c)
  \/ c.then.kind = "bulk" /\ HearBulk(c)
  \/ c.then.kind = "sheet" /\ HearSheet(c)
  \/ c.then.kind = "plan" /\ HearPlan(c)
  \/ c.then.kind \in {"rowRoom", "batchRoom"} /\ HearRoom(c)

ViewArrives == Q!Arrive /\ page' = [page EXCEPT !.ending = {}, !.due = @ \cup page.ending]
\* A row saved after room was made closes the row that is open by then; a phone's save the
\* sheet that is open by then.
Finish(e) ==
  /\ IF e.then.saves = <<>> THEN UNCHANGED queryVars ELSE Q!Send(e.then.saves)
  /\ LET done == [page EXCEPT !.due = @ \ {e}] IN
     page' = CASE e.then.kind = "plan" -> done
               [] e.then.kind = "sheet" -> [done EXCEPT !.sheet = {}]
               [] e.then.kind = "rowRoom" -> [done EXCEPT !.editor = Closed, !.prompt = {}, !.applying = FALSE]
               [] e.then.kind = "batchRoom" ->
                    [done EXCEPT !.adding = {IF b.key = e.then.key THEN [b EXCEPT !.prompt = {}, !.applying = FALSE] ELSE b : b \in @}]

-----------------------------------------------------------------------------
Init == \E start \in Starts : Q!Opened(start.patch, start.spent) /\ page = NewPage(start)

RowStep ==
  \/ \E f \in Visible : OpenRowOf(f)
  \/ \E typed \in LightDrafts : TypeRow(typed)
  \/ SaveRow \/ SaveAndNextRow \/ CancelRow \/ EscapeRow
  \/ DeleteRow \/ ConfirmDelete \/ CancelDelete
  \/ ShareOrPlace \/ BackToRow \/ RowRoom
BatchStep ==
  \/ StartAdding
  \/ \E batch \in page.adding :
       \/ CancelAdding(batch) \/ AttemptAdd(batch)
       \/ \E typed \in Batches : TypeBatch(batch, typed)
       \/ \E u \in Universes(fixtures) \cup {1, 2} : PickUniverse(batch, u)
       \/ ShareOrPlaceBatch(batch) \/ BackToBatch(batch) \/ BatchRoom(batch)
PlanStep == ProposePlan(AutoAssign(fixtures)) \/ ProposePlan(Optimise(fixtures)) \/ ConfirmPlan \/ CancelPlan
SheetStep ==
  \/ \E f \in Visible : OpenFixtureSheet(f)
  \/ \E typed \in LightDrafts : TypeSheet(typed)
  \/ OpenNewSheet \/ CloseSheet \/ SaveSheet
Elsewhere ==
  \/ \E c \in calls : Q!Serve(c) \/ Q!Lose(c)
  \/ Q!ReadStore \/ Q!LoseRead
  \/ stored # view.data /\ Q!Focus
  \/ \E req \in {r \in OthersRequests : "others" \in page.parts} : Q!OtherClient(req)
Next ==
  \/ ToggleFilter \/ RowStep \/ BatchStep \/ PlanStep \/ SheetStep
  \/ \E c \in calls : HearAnswer(c)
  \/ \E e \in page.due : Finish(e)
  \/ ViewArrives
  \/ Elsewhere /\ UNCHANGED page
Spec == Init /\ [][Next]_pageVars

-----------------------------------------------------------------------------
(* What is promised of the plans the page offers, on the rig it shows.      *)

PlansKeepSharingStep == \A plan \in page'.plan \ page.plan : KeepsSharing(fixtures, plan)
Prompts(p) == p.prompt \cup UNION {b.prompt : b \in p.adding}
RoomIsMadeStep == \A p \in Prompts(page') \ Prompts(page) : FreesTheSpan(fixtures, p.insert, p.room)

\* What waits for room is sent after the rig has it, if no other request of this page came
\* between and nobody else's.
RoomIsFirstStep ==
  others = 0 => \A e \in page.due \ page'.due : e.n = made /\ e.then.kind \in {"rowRoom", "batchRoom"} /\ e.then.alone =>
    /\ \A ch \in e.changes : Exists(stored, ch.id)
    /\ Readdressed(stored.fixtures, e.changes) = stored.fixtures
=============================================================================

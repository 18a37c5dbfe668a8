# Formal models of PatchPlanner

PatchPlanner plans audio, video and lighting for events. A Go server
(`backend/`) keeps each event's plan in SQLite and serves it to a React client
(`frontend/`). Two parts of it have behaviour that tests hardly reach, and these
modules are about the two:

- the desks of an event: the strips their channels sit on, the mixes, the
  recorder and the routes inside them, and what a change of desk model does to
  all of it;
- the pages of an event: what a client with an old view, several requests on
  their way and a dialog left open does to the cables, the plot, the rig, the
  lines and the routes that the server keeps and other clients change.

`PROJECT.json` lists every component, the hazards of the code with the
properties that cover them, the runs, the mutant each property was tried on, the
source lines behind every definition, the findings and the theorems.

## The system

| Component | State | What is hard | Model |
|---|---|---|---|
| Desk strips and channels: `domain/desk_strips.go`, `api/desk_rows.go` | desk, number, width and pool of every channel | widths that depend on the model, pairs on odd numbers, rows left over past the end | `DeskStrips` |
| Mixes and routes: `domain/desk_mixes.go`, `db/desk_mixes.go`, `api/desk_mixes.go` | `desk_mixes`, `desk_routes` | routes name ports of four kinds with no foreign key; five lists edit one table | `DeskRules`, `DeskRouting` |
| Model switch and placing: `service/deskmap.go`, `api/consoles.go` | all of the above | nothing may be lost; what does not fit is kept and flagged over | `DeskStrips` (rows), `DeskRouting` (mixes, routes) |
| Recorder: `api/desk_mixes.go` | recorder columns, routes to and from tracks | fewer tracks after a switch than routes | `DeskRouting`, `RoutingPage` |
| Queries of a page: `api/client.ts`, React Query as `App.tsx` sets it up | what a page shows, its requests and GETs on their way | answers out of order, lost answers, reads that begin before a save and end after it | `PageQueries`, `PageSession`, `QueriedPage` |
| Signal graphs: `api/audio_patch.go`, `lib/inputGraph.ts`, `lib/outputGraph.ts`, the Inputs and Outputs tabs | cables between ports of eight kinds | two pages at one jack, deletes under cables, dialogs on cables that are gone, two walks that should mirror each other | `InputGraph`, `OutputGraph`, `PatchSheets`, `PatchStore`, `InputPatchPage`, `OutputPatchPage`, `EventPages` |
| Stage plots and trusses: `api/stage_plots.go`, `api/plot_trusses.go`, `lib/stagePlot.ts`, the Stage Plot tab | elements, layers, links, measurements, trusses | drags from stale rows, links without foreign keys, anchor rules written twice | `PlotGeometry`, `PlotStore`, `StagePlotPage`, `EventPages` |
| Equipment and rental order: `api/rental.go`, `api/owned.go`, their tabs | lines, batches | a batch of requests of which some fail | `GearStore`, `GearPage`, `EventSheets` |
| Lighting and DMX: `api/lighting.go`, `lib/dmxMap.ts`, `lib/dmxPlan.ts`, the Lighting tab | fixtures, addresses | plans that move groups, room made before what needs it | `LightingStore`, `LightingPage`, `EventSheets` |
| Rig drawer: `api/consoles.go`, `api/audio_patch.go`, the sections of the drawer | desks, boxes, multis, devices, their counts | counts that shrink under another client's cable | `RigStore`, `RigPage`, `EventSheets` |
| Desk Routing tab: `DeskRoutingTab.tsx`, `routing/*`, `lib/deskRouting.ts` | columns and tracks being edited | a rule written twice; a table replaced whole from drafts | `RoutingStore`, `RoutingPage`, `EventSheets` |
| Migrations and conversions | the schema version | a crash between the steps | what 055 leaves is an initial state of `DeskRouting`; the rest is not modelled |
| Sign-in and event access, inventories, vocabularies, exports, scripts | | a role read before the handler; in-use checks; rendering | not modelled |

Components meet in the database: a handler reads what it needs, decides, and
writes in one transaction (sometimes two, sometimes none). Deleting a console
reaches the rows by `ON DELETE SET NULL` and its mixes and routes by `CASCADE`;
everything else about a route or a cable is kept up by the handlers. Clients
meet only there too: a page asks again after its own saves, and learns what
others did when it happens to ask.

## Modules

### The desks

- `DeskModels`: the list of desk models. Behaviour branches on the engine, so
  one model stands for each code path: an X32 or M32, an LV1 with one main, one
  with three, the two bus modes of an LV1 80, and Generic.
- `DeskRules`: the pure rules about mixes. Which mains a model has, which pool a
  kind draws from, when a slot fits, what may route to what, and `MapMixes`, the
  mapping a switch makes, a recursive function over the mixes in order with a
  second one inside it, the walk past the end. Pool sizes are the constant
  `Capacity`.
- `DeskRouting`: the state machine over desks, mixes and routes. `model` and
  `recorder` are columns of `event_consoles` (a desk that does not exist has
  model `Absent`), `channelDesk` and `outputDesk` the `console_id` of channels
  and outputs (`NoDesk` for NULL), `mix` the table `desk_mixes` by id, `routes`
  the rows of `desk_routes`. One action per request; `GetAudioPatch` ensures the
  mains of every desk before it reads. `Spec` starts from an event as
  `CreateEvent` leaves it, `MigratedSpec` from an event without desks after
  migration 055.
- `DeskStrips`: the state machine over desks and the strips of their channels.
  The code walks the rows with a cursor in `MapRows` and a growing list of
  occupants in `PlaceRows`; the model says the same of each row in terms of the
  rows before it, which determines the numbers uniquely.

The two state machines split the same requests between them because neither
reads what the other keeps: no rule about a route looks at a channel's number,
and no strip rule looks at a route.

### The pages

- `PageSession` is the abstract page: what it shows is a store the server has
  had, never an older one than before, and it comes to show what it was told is
  saved. `PageQueries` is how a page reads and writes: a call is sent, the
  server does it or refuses it, the answer arrives or is lost, a success makes
  the page ask again and abandon the GET on its way. `QueriedPage` is a client
  of it with saves of one and of two requests, shown to implement `PageSession`.
- `PatchStore`, `PlotStore`, `GearStore`, `LightingStore`, `RigStore`,
  `RoutingStore` are the server's half: what a request makes of a store, or that
  it is refused. `InputGraph`, `OutputGraph`, `PlotGeometry` and `PatchSheets`
  are the pure functions of the client (ports, walks, colours, projections,
  snapping, chains, the phone's routing save), `RowEditor` the hook that keeps a
  row in edit.
- `InputPatchPage`, `OutputPatchPage`, `StagePlotPage`, `GearPage`,
  `LightingPage`, `RigPage` and `RoutingPage` are the tabs: their state is what
  is open, selected, typed or dragged, their actions the handlers.
- `EventPages` and `EventSheets` put the tabs on one client, next to the
  requests of another one, over `PageQueries`. A tab is chosen by the start.

`PageCounts` holds what the proofs about both page systems share: the counters
of a page (what was made, written, told and shown) and that every step keeps
them in order.

`MCDeskRouting`, `MCDeskStrips`, `MCQueriedPage`, `MCEventPages` and
`MCEventSheets` hold the values TLC uses; the `_proofs` modules the theorems.
`MCDeskEvents` holds two small events of `DeskRouting` side by side, one in which
rows move between two desks and one in which a crowded desk is switched among
all models, each an `INSTANCE` with bounds of its own.

### What the modules abstract

Of the server: requests are taken one at a time and a request is one step, its
reads and its transaction together. So clients interleave between requests, not
inside one; the gaps between read and write that remain are listed as a hazard
without a property. A new mix takes the lowest unused id: the ids never come
back in the code, but no route outlives its mix (`RoutesResolve`, proved), so
reusing one cannot be told apart. Names, colours, notes and positions that
decide nothing are left out everywhere, as are prices.

Of the pages:

- A GET may begin at any time the query client would begin one; the refetch on
  focus is taken only when the page shows something else than is stored, since
  it changes nothing otherwise. A phone form is opened only when nothing is on
  its way. Typing is taken while the page is quiet on the Equipment and Lighting
  tabs: what is typed goes into a draft that no answer touches.
- `PlotGeometry` works in whole centimetres at one pixel a centimetre, with
  quarter turns, even sizes, elements pressed in their middle and knobs dragged
  along an axis, so that no rounding is needed. `parts` of a start names the
  area of the Stage Plot, Equipment or Lighting tab that is exercised.
- `LightingStore` has universes of `UniverseSize` channels (512 in the code) and
  new fixtures of `NewCount` (8). GETs of the Equipment tab that are on their
  way together are answered together, and a batch is sent lowest id first.
- `RigStore` says that a model switch may be refused or done and which counts it
  gives; which rows move is `DeskStrips` and `DeskRouting`. Whether a preview
  has anything to say is a free choice.
- `RoutingStore` has sources of one side and strip order by channel id; which
  channels are patched is given with the start. A page that has no desk offers
  nothing and is left out.

## Runs

| Run | Question | Size |
|---|---|---|
| `routing_desks` | Do routes survive any order of requests on two desks, with two channels, one output and a matrix? And what do chains of switches over every engine do to a crowded desk's mixes and mains? | 71 781 states |
| `routing_recorder` | Does the recorder table stay exclusive through saves, fills, switches and moves? | 23 997 |
| `desk_strips` | Where does every handler put three channels on a desk of two strips and two aux strips? | 116 063 |
| `queried_page` | Is a page with overlapping GETs a `PageSession`? | |
| `event_pages` | What do stale Inputs, Outputs and Stage Plot pages do to cables, boxes, chains and plots? | |
| `event_sheets` | What do the Equipment, Lighting, Rig and Desk Routing pages do to lines, addresses, counts and routes? | |
| `feed_forward` | violation: a group is renumbered and a route it keeps turns backward | |
| `left_out_overlap` | violation: two left-out mixes share a number | |
| `waiting_channels` | violation: adopted routes without their channels | |
| `splitter_trace` | violation: behind a splitter the two walks disagree | |
| `refused_save` | violation: a refused row is not opened again | |
| `matrix_limit` | violation: a source is offered to an LV1 matrix that is full | |

Properties, and where they would break:

- `RoutesResolve`: the ends of every route exist, on its desk. Broken by any
  deletion, move or switch that forgets one of the two ends.
- `DesksHaveMains`, `MixNumbersUnique`: what a chain of switches leaves.
- `OneFedBy`, `TracksExclusive`, `NewTracksFit`: lists the table's key does not
  enforce.
- `SwitchKeepsRoutes`, `NewcomersJoinMain`, `LossesAreEdits`: a route goes only
  with one of its ends, or in an edit of a list that held it.
- `StripsApart`, `LegalOrOver`, `SuggestionsLegal`, `SwitchKeepsOrder`,
  `SwitchMovesOnlyIfForced`, `LeftOutOnlyWhenFull`, `PlacedOverOnlyIfFull`: no
  two channels on one strip; suggestions and checks agree; what a switch or a
  placing may do to a channel.
- `NeverShowsOlder`, `ReadYourWrites`: the refinement, and its liveness.
- `InputCablesEndOnRows`, `OneCableToAJack`, `CablesKeepTheirPorts`: no cable in
  the air, two in one jack, or on a port that a smaller count took away.
- `TracesAgree`, `PhoneRoutingLands`: chains traced backward and forward, and
  the routing the phone saves in several requests.
- `DialogsTouchTheirCable`, `BoxMovesKeepCounts`, `DragMovesInItsPlane`,
  `PlotRowsStand`: what a stale page may not undo or leave behind.
- `PicksAreAccepted`, `OfferedIsTaken`: rules that client and server both have.
  `OfferedIsTaken` is about a page that shows what is stored and a column of the
  desk on show that keeps its slot and width: of a slot just typed it is not
  true. Left out too is the one column of which it is false, an LV1 matrix with
  more sources than one takes: `NoOfferRefused` is the same without that
  exception, and the finding `matrix_limit`.
- `BatchIsAccounted`, `PlansKeepSharing`, `RoomIsMade`, `RoomIsFirst`: batches,
  address plans, and the room made before what needs it.
- `PastTracksStay`: a table that is taken leaves the tracks past the count, as
  the table showed them when it was sent. Of a track that another client filled
  meanwhile nothing is promised: the table is replaced whole and the last writer
  wins.

Each is violated by a plausible bug in the definition it is about; those
variants stand in the modules next to the definition and are marked Mutant.

### Bounds

- Two desks are enough for a move between desks and for adoption to be refused;
  two channels for two rows of one list; one output for Fed by. Pools hold one
  or two slots and the recorder one or two tracks, so that full pools, mixes
  past the end and tracks past the count are a step or two away. `MaxMixes`,
  `MaxSlot` and `MaxNumber` bound the tables; a request that would go over is
  not taken. Three channels in `desk_strips` are what it takes for a stereo row
  to be pushed over one neighbour and onto another.
- `MaxCalls` (3) bounds what a page sends and `MaxOthers` (1) what another
  client does. A hazard here is one stale view and one request across it; three
  calls allow a save that takes several requests to be crossed by one more.
- The starts of the pages are small patches, plots, rigs and rigs of lights, one
  or two for each situation a property is about (a box between a source and a
  channel, a splitter, a stereo channel, a fixture sharing an address).
- In `MCDeskEvents` the event with two desks has three mixes at most
  (`RowMixes`), and the crowded one a single desk.
- `MatrixLimit` is 1 or 2 (12 in the code), so that a matrix is full with one or
  two sources in it.
- `ChannelPorts` is `{0}` in the runs: a table of tracks may name any port of a
  channel, which the server does not look at (`validRecorderRoutes`), and the
  page sends 0. The theorems hold for any set of ports.
- Symmetry over desks, channels and outputs in the routing runs. In
  `DeskStrips` and the pages ids are ordered, so there is none.

### Fairness and deadlock

Requests are a planner's choice and none is owed. The desks therefore have no
fairness and no liveness, and their runs check for deadlock. A page has: weak
fairness of hearing an answer and of the server reading the store for a GET, and
strong fairness of a GET's answer arriving. The first two stay enabled until
they are done. The third does not, because every save abandons the GET on its
way; a GET that is asked again and again must arrive some time, which is what
the retries of the query client amount to on a network that does not lose
everything. The page runs switch the deadlock check off: a page with its calls
spent and everything heard stops.

## Proofs

The theorems hold for every value of the constants that meets the assumptions of
the modules, which TLC evaluates in the runs. Some of them deserve a word.

- `MainSlots(SeedModel) \subseteq MixIds` (`RoutingAssumption`): the bound on rows
  leaves room for the mains of the first desk. The strips and the aux inputs of
  an X32 are even (`StripsAssumption`), as they are in `desk_models.go`: a pool
  of whole pairs is what makes a pair at the end either fit or lie wholly past
  it.
- What a page opens on is such as the server keeps it. The patch of an event has
  its fields, one cable to a jack, no input cable without its rows, ids that
  were given once, and boxes apart by their ids (`StartsAssumption`); rows of a
  plot stand on rows
  (`StagesAssumption`); a rig's cables are on ports there are
  (`RigsAssumption`); rows of a rig of lights have their columns
  (`LightsAssumption`). The theorems say that the server's requests keep all of
  that.
- The desks of the Desk Routing tab are as requests have made them: what feeds a
  mix is on the desk of the mix (`DesksAssumption`). The desk of a migrated event
  that adopted waiting routes is not: that is the finding `waiting_channels`.
  Another client's request there is one the handlers answer.
- Another client of the patch is this program too: of a box it sends the place or
  the counts, never both (`OthersAssumption`). `StageboxSection.tsx` sends one
  count, a canvas the place. Only `BoxMovesAlwaysKeepCounts` needs it, though the
  steps of the pages are proved with it; what the store keeps, it keeps for any
  request.
- A start may have spent some of its calls already, and no more than there are.

`DeskRouting_proofs`: `IInv == TypeOK /\ NothingWaits /\ RoutesResolve`.
`RoutesResolve` alone is not inductive: a desk that adopts waiting mixes would
change the desk of a mix under the routes that name it, so the proof needs that
from an event as created no mix is ever without a desk.

Its second part adds `Exclusive == FedOnce /\ PlaysChannels /\
TracksExclusive`. That a track plays into one channel would break where a
channel moves to another desk whose recorder already plays into it; it does not,
because by `RoutesResolve` a track plays into channels of its own desk only and
a channel that moves leaves its routes (`PlaysChannels`). From the two
invariants follow `OneFedBy`, `TracksExclusive` and the four action properties.
For `LossesAreEdits` every action names the list whose edit it is; what else
goes, goes with one of its ends.

`DeskMixes_proofs`: the mains, `MInv`, which says also that no mix is on a desk
that is gone, since a desk created under that id would find it; and the numbers,
`NInv == KindsKnown /\ NumbersOnce`. A creation or a renumbering takes a slot
that fits, so apart from its pool (`FitsApart`). A switch takes the slots that
`MapMixes` gives, and those are apart whatever it is given (`MappedApart`):
the order it places mixes in is total, so ranks are the numbers `1 .. n`
(`OrderHoldsMixes`); the two recursive functions exist (`RecursionExists`,
`WalkFollows`, `PlacingFollows`); the walk past the end never goes back and
passes every mix of the pool (`PastTheEndIsPast`); so each mix placed is apart
from those before it (`MappedSlotApart`, `PlaceNextApart`). Induction here is
over sets of numbers (`UpTo`), which is first-order: the least number for which
something fails is neither 0 nor a successor. That two *spans* may still meet
past the end is the finding `left_out_overlap`.

`DeskStrips_proofs`: `IInv == TypeOK /\ RowsOnDesks /\ StripsApart`. A mapped
row starts after the last strip of every row before it in its pool
(`MappedIsAfter`), a placed one fits or is past everything (`PlacedIsApart`),
and the order of the rows is total (`BeforeIsTotal`). The second half of the
module proves the rest of what `desk_strips` checks: `LegalOrOver` is inductive together with
`IInv`; `SwitchMovesOnlyIfForced` takes the first row that moves and shows that
it would not have moved if the rows could stay.

`QueriedPage_proofs`: the page implements `PageSession` as far as safety goes
(`PageIsASession`), by the invariant that the saves the server has done, with
those on their way, are no more than were made, that one GET is on its way at a
time, and that what it was read at lies between what is shown and what is
stored.

`EventPages_proofs`: first the store. `OneCableToAJack` and
`InputCablesEndOnRows` hold for whatever pages and other clients ask: nothing is
assumed of a request, since that is what a server has to be right about. Of the
server's requests `createCable` alone puts a cable in, and looks at the ports
there are and at the cables on them; every other one leaves cables with the ends
they had (`NoNewCables`), and rows or none of their cables (`Kept`, one lemma
per request). No step of a page touches the store but the server's
(`InputsStep`, `OutputsStep`). Inductive with the shape of a patch (`IsPatch`):
what an update leaves of a row that lacks its fields is not known. The pages
take the store's definitions under names of their own, so two lemmas say that a
page's requests are the store's (`InputsApplyPatch`, `OutputsApplyPatch`).

Then the pages. `DialogsTouchTheirCable` needs an invariant about every copy of
a cable there is: in the view, in a GET that was read, in the dialog, and in the
requests on their way (`DialogInv`). Each is still itself (`StillItself`): no
cable of its id is stored with other ends, and none will be, since ids are given
once. Handler by handler, what a tab sends is fine (`Fine`), and what the server
does keeps the copies true.

`BoxMovesKeepCounts` needs to know of every request, sent or still to be sent,
that it moves a box or counts its jacks and not both (`MovesAlone`). For the
phone that means its plans: whatever sets of requests they are sorted from, none
is about a box (`InputPlansListed`, `OutputPlansListed`), and what is left of a
plan is such a plan again (`NextOfPlan`). The routing it was made for may have
been read from a patch or chosen from what is offered (`RoutingsFit`,
`OfferedFit`). With boxes apart by their ids (`BoxInv`), a request that changes
a box's place is one that leaves its counts where the server has them
(`UpdateBoxMoves`), and no other request makes a box (`OthersMakeNoBoxes`).

`StagePlots_proofs`: the store of the plots as above (`StageInv`, one lemma per
request; what is added is checked, what is taken out takes with it what stands
on it) gives `PlotRowsStand`. `DragMovesInItsPlane` needs `PlotInv`: every save
on its way that came of a drag has the fields of the plane of the view it was
dragged in, and no other. `PagesAlwaysTyped` joins the counters of the
three tabs: `CountsInv` of the patch with `PlotInv`.

`PageCounts`: `InOrder` is what a page's counters keep whatever it sends, hears
or loses; `StepsStayOrdered` proves it once over the ways a step may go
(`SendsOne`, `HearsOne`, `ShowsOne`, ...), and the page systems show that each
of their handlers goes one of those ways.

`EventSheets_proofs`, by sheet:

- Rig: `CablesKeepTheirPorts`. A request that leaves the devices alone and
  brings no cable cannot take a port from under one. Five requests are left, a
  cable put in and a device put in, changed or taken out.
- Desk Routing, the rules: the table the server sends says what `RouteAllowed`
  says (`RulesServed`), a square is offered exactly when the save takes its route
  (`OfferedIsAllowed`), and a column of offered sources is saved, unless it is an
  LV1 matrix of more sources than one takes (`OfferedColumnIsSaved`), for every
  plan.
- Desk Routing, the steps: every request leaves desks in order (`IsRouting`: a
  mix as wide as its desk makes it, what feeds a mix on the desk of the mix). With
  the rules that makes `OfferedIsTaken`. And every table on its way was sent with
  the tracks past its count (`DesksKept`), which makes `PastTracksStay`.
- Lighting: `RoomIsFirst`. A request that waits for room is sent when the answer
  of the one that makes it has been heard. `RoomStands` follows the addresses
  from there: once done they are stored, and stay so while nobody else asks.
- All four: `SheetsAlwaysTyped`. On three sheets a handler sends one request or a
  batch (`Turn`); on the Lighting sheet a request may have another waiting for
  it, to be sent when it is answered (`LightsWait`), so that what waits is
  counted too.

### What stays with TLC

- Liveness: `ReadYourWrites`.
- `TracesAgree`: the walks follow cables as far as they go, so what they return is
  a matter of induction over data.
- `BatchIsAccounted`, `PlansKeepSharing`, `RoomIsMade`: a batch and a plan go
  through a sequence sorted from a set, with a cursor that moves along it;
  again induction over data.
- `PicksAreAccepted`: projections and snapping multiply coordinates, which the
  arithmetic of the provers does not reach.
- `PhoneRoutingLands`: it needs what the store will be when the requests still to
  come of a save are done, in the order they were sorted in, which is not
  written. What is proved is what those requests may be (`PlanFits`).
- The violation runs, where there is nothing to prove.

## Where code and documentation disagree

- `feed_forward`: the routing rules say a group feeds only groups after it. The
  rule is applied to the sources sent with a save. Renumbering a group checks
  that the slot is free and keeps the routes it has. TLC's trace: group 2 feeds
  group 3, which is then put on number 1; the route stays and points backward.
  The property is about routes that were stored and pointed forward. That a save
  compares a source's old slot with the new one of the column
  (`desk_mixes.go:212`), so that a group which moves up may name itself, is in
  `SourceAccepted` and not what this run shows.
- `matrix_limit`: a cell is said never to be offered that the save would refuse.
  The grid offers every cell that the rules allow, also of an LV1 matrix that has
  its 12 sources; the count is shown, and the save is refused. In TLC's trace the
  limit is 2, a matrix holds one source, and two more are ticked.
- `left_out_overlap`: two mixes left out past the end are meant never to share
  a number. A stereo mix occupies two, and the next one is compared with its
  first only.
- `waiting_channels`: mixes and channels route on their own desk, and a channel
  on no desk has no routes. The first desk of a migrated event adopts the
  waiting memberships and leaves their channels where they are.
- `splitter_trace`: the forward walk of the input graph is said to mirror the
  backward one. A device with one input and two outputs is left by its first
  output only, so a channel behind the second is traced back to a source that
  does not reach it.
- `refused_save`: a refused row is said to open again with what was typed. The
  callback belongs to the render in which the row was still open, and opening an
  open row does nothing.

## Not modelled, and why

Start-up migrations run once, before a request is answered. Roles are read once
per request and nothing modelled depends on them. Inventories and vocabularies
are lists that the modelled pages pick from. Prices, day factors and exports
read the plan and change nothing. Two requests whose reads and writes interleave
inside the server are not modelled: a request is one step.

## What is left

Still to be proved: `PhoneRoutingLands`, with an invariant over the patch as it
will be when what a save has still to send is done; `PlanFits` says what that
may be. Not modelled and worth it: two
requests whose reads and writes interleave inside the server, for the handlers
that read outside their transaction.

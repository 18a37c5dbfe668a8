----------------------------- MODULE RoutingStore ---------------------------
(***************************************************************************)
(* What the server makes of the Desk Routing tab's requests                *)
(* (backend/internal/api/desk_mixes.go): a desk's mixes, what feeds each,  *)
(* and the tracks of its recorder.  DeskRouting has every request that     *)
(* writes a route; here is what one list of them, as a page sends it,      *)
(* comes to.  A route is [desk, src, dst, mode], its ends [kind, id, port].*)
(* A channel has `patched`, whether a cable lands on it; its id stands for *)
(* its place in strip order.  Names and colours are left out.              *)
(***************************************************************************)
EXTENDS DeskRules

RoutingDone(s) == {[store |-> s, id |-> 0, reply |-> {}]}
OfId(rows, id) == {r \in rows : r.id = id}
MixesOn(s, desk) == {m \in s.mixes : m.desk = desk}
RoutesOn(s, desk) == {r \in s.routes : r.desk = desk}
Into(routes, kind, id) == {r \in routes : r.dst.kind = kind /\ r.dst.id = id}
Port(kind, id, port) == [kind |-> kind, id |-> id, port |-> port]
Joined(desk, src, dst, mode) == [desk |-> desk, src |-> src, dst |-> dst, mode |-> mode]
WithoutPort(routes, kind, id) ==
  {r \in routes : \A end \in {r.src, r.dst} : ~(end.kind = kind /\ end.id = id)}

-----------------------------------------------------------------------------
(* Mixes.                                                                   *)

CreateMix(req, s) ==
  UNION {LET width == StoredWidth(d.model, req.kind, "mono")
             free == FreeSlots(d.model, req.kind, width, SlotRange(d.model, req.kind, MixesOn(s, d.id)), MixesOn(s, d.id))
             mix == [id |-> s.next, desk |-> d.id, kind |-> req.kind, slot |-> Least(free), width |-> width]
         IN IF req.kind \notin UserMixKinds \/ free = {} THEN {}
            ELSE {[store |-> [s EXCEPT !.mixes = @ \cup {mix}, !.next = @ + 1], id |-> s.next, reply |-> {mix}]}
           : d \in OfId(s.desks, req.desk)}

\* A main keeps its slot and its width, whatever is sent.
Renumbered(model, mix, req) ==
  IF mix.kind = "main" THEN mix
  ELSE [mix EXCEPT !.slot = req.slot, !.width = StoredWidth(model, mix.kind, req.width)]
\* A route that is there stays saveable as it is; a new one has to be one the engine makes.
SourceFits(model, mix, key, s) ==
  LET stored == \E r \in Into(RoutesOn(s, mix.desk), "mix", mix.id) : r.src = Port(key.kind, key.id, 0)
  IN \/ /\ key.kind = "channel" /\ \E c \in OfId(s.channels, key.id) : c.desk = mix.desk
        /\ stored \/ RouteAllowed(model, "channel", 0, mix.kind, mix.slot)
     \/ /\ key.kind = "mix"
        /\ \E m \in OfId(s.mixes, key.id) :
             m.desk = mix.desk /\ (stored \/ RouteAllowed(model, m.kind, m.slot, mix.kind, mix.slot))
\* The column save: the fields and every source, together or not at all.
PastMatrixLimit(model, m, req) ==
  Engine(model) = "lv1" /\ m.kind = "matrix" /\ Cardinality(req.sources) > MatrixLimit
SaveMix(m, req, s) ==
  LET model == (CHOOSE d \in s.desks : d.id = m.desk).model
      next == Renumbered(model, m, req)
  IN IF \/ next # m /\ ~MixSlotFits(model, next, MixesOn(s, m.desk) \ {m})
        \/ \E key \in req.sources : ~SourceFits(model, next, key, s)
        \/ PastMatrixLimit(model, m, req)
     THEN {}
     ELSE RoutingDone([s EXCEPT !.mixes = (@ \ {m}) \cup {next},
                                !.routes = (@ \ Into(@, "mix", m.id)) \cup
                                  {Joined(m.desk, Port(k.kind, k.id, 0), Port("mix", m.id, 0), "") : k \in req.sources}])
UpdateMix(req, s) == UNION {SaveMix(m, req, s) : m \in OfId(s.mixes, req.id)}

DeleteMix(req, s) ==
  UNION {IF m.kind = "main" THEN {}
         ELSE RoutingDone([s EXCEPT !.mixes = @ \ {m}, !.routes = WithoutPort(@, "mix", m.id)])
           : m \in OfId(s.mixes, req.id)}

-----------------------------------------------------------------------------
(* The recorder.                                                            *)

TracksOf(desk) == IF desk.model \in RealModels THEN TrackCount[desk.model] ELSE desk.tracks
Recorder(desk, track) == Port("recorder", desk, track)
Recording(r) == r.dst.kind = "recorder"
Playing(r) == r.src.kind = "recorder"
TrackOf(r) == IF Recording(r) THEN r.dst.port ELSE r.src.port
RecorderRoutes(s, desk) == {r \in RoutesOn(s, desk) : Recording(r) \/ Playing(r)}
PutRecorderRoutes(s, desk, routes) ==
  RoutingDone([s EXCEPT !.routes = WithoutPort(@, "recorder", desk) \cup routes])

OnDesk(s, desk, id) == \E c \in OfId(s.channels, id) : c.desk = desk
\* A track of the desk's recorder records a preamp or a side of a mix, or plays into a channel.
RecorderSourceFits(s, desk, r) ==
  \/ /\ r.dst.kind = "recorder" /\ r.dst.id = desk
     /\ \/ r.src.kind = "channel" /\ OnDesk(s, desk, r.src.id)
        \/ /\ r.src.kind = "mix"
           /\ \E m \in OfId(s.mixes, r.src.id) : m.desk = desk /\ (r.src.port = 0 \/ (r.src.port = 1 /\ m.width = "stereo"))
  \/ /\ r.src.kind = "recorder" /\ r.src.id = desk /\ r.dst.kind = "channel"
     /\ OnDesk(s, desk, r.dst.id) /\ r.mode \in {"soundcheck", "source"}
Clash(r, q) ==
  \/ Recording(r) /\ Recording(q) /\ TrackOf(r) = TrackOf(q)
  \/ Playing(r) /\ Playing(q) /\ (TrackOf(r) = TrackOf(q) \/ r.dst.id = q.dst.id)
\* A track past the count is taken only as it is stored.
TrackFits(s, desk, r) ==
  \/ TrackOf(r) \in 1 .. TracksOf(desk)
  \/ TrackOf(r) > TracksOf(desk) /\ \E q \in RecorderRoutes(s, desk.id) : q.src = r.src /\ q.dst = r.dst
\* The list is what the rows of the table say and, after them, the routes it has no row for:
\* one named in both is there twice.
SetTracks(req, s) ==
  LET sent == ({"rows"} \X req.rows) \cup ({"kept"} \X req.kept)
  IN UNION {IF /\ d.recorder
               /\ \A x \in sent : RecorderSourceFits(s, d.id, x[2]) /\ TrackFits(s, d, x[2])
               /\ \A x, y \in sent : x # y => ~Clash(x[2], y[2])
            THEN PutRecorderRoutes(s, d.id, req.rows \cup req.kept) ELSE {}
              : d \in OfId(s.desks, req.desk)}

\* Record every preamp: those not recorded take the lowest free tracks, in strip order, each
\* played back into its own channel unless something is; refused when they do not fit.
Nth(S, n) == CHOOSE x \in S : Cardinality({y \in S : y < x}) = n
FillRecorder(req, s) ==
  UNION {LET there == RecorderRoutes(s, d.id)
             free == 1 .. TracksOf(d) \ {TrackOf(r) : r \in there}
             heard == {r.src.id : r \in {x \in there : Recording(x) /\ x.src.kind = "channel"}}
             todo == {c.id : c \in {x \in s.channels : x.desk = d.id /\ x.patched}} \ heard
             track == [c \in todo |-> Nth(free, Cardinality({b \in todo : b < c}))]
         IN IF ~d.recorder \/ Cardinality(todo) > Cardinality(free) THEN {}
            ELSE PutRecorderRoutes(s, d.id, there
                   \cup {Joined(d.id, Port("channel", c, 0), Recorder(d.id, track[c]), "") : c \in todo}
                   \cup {Joined(d.id, Recorder(d.id, track[c]), Port("channel", c, 0), "soundcheck")
                           : c \in {x \in todo : ~\E r \in there : Playing(r) /\ r.dst.id = x}})
           : d \in OfId(s.desks, req.desk)}

\* From the Rig drawer: a recorder taken away takes its tracks with it, a lower count does not.
SetRecorder(req, s) ==
  UNION {RoutingDone([s EXCEPT !.desks = (@ \ {d}) \cup {[d EXCEPT !.recorder = req.on, !.tracks = req.tracks]},
                               !.routes = IF req.on THEN @ ELSE WithoutPort(@, "recorder", d.id)])
           : d \in OfId(s.desks, req.desk)}

ApplyRouting(req, s) ==
  CASE req.op = "createMix" -> CreateMix(req, s)
    [] req.op = "updateMix" -> UpdateMix(req, s)
    [] req.op = "deleteMix" -> DeleteMix(req, s)
    [] req.op = "setTracks" -> SetTracks(req, s)
    [] req.op = "fillRecorder" -> FillRecorder(req, s)
    [] req.op = "setRecorder" -> SetRecorder(req, s)

-----------------------------------------------------------------------------
(* What the client is served of the rules, and what it makes of them: the   *)
(* cells a table offers.                                                    *)

MixSources == {"channel"} \cup MixKinds
RuleOf(model, src, dst) ==
  LET up == RouteAllowed(model, src, 1, dst, 2)
      down == RouteAllowed(model, src, 2, dst, 1)
  IN IF up /\ down THEN "yes" ELSE IF up THEN "forward" ELSE "no"
\* Mutant of CellAllowed: a group may feed the one it is.
CellAllowedAtSlot(model, src, dst) ==
  LET rule == RuleOf(model, src.kind, dst.kind) IN rule = "yes" \/ (rule = "forward" /\ src.slot <= dst.slot)
CellAllowed(model, src, dst) ==
  /\ src.kind = "channel" \/ src.id # dst.id
  /\ LET rule == RuleOf(model, src.kind, dst.kind) IN rule = "yes" \/ (rule = "forward" /\ src.slot < dst.slot)
=============================================================================

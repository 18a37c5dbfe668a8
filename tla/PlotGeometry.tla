---------------------------- MODULE PlotGeometry ----------------------------
(***************************************************************************)
(* The geometry of the stage plot (frontend/src/lib/stagePlot.ts): how an  *)
(* element's box falls in the three views, what a drag snaps to, where a   *)
(* fixture lands on a truss, and which features of a box a measurement may *)
(* be anchored to.  Lengths are whole centimetres, sizes even, and yaw and *)
(* tilt are quarter turns: nothing is rounded, every silhouette is a       *)
(* rectangle, and every side of it is a face seen edge-on.                 *)
(*                                                                         *)
(* An element has [id, kind, shape, truss, fixture, layer, x, y, z, width, *)
(* depth, height, yaw, tilt], (x, y) its middle and z its bottom.          *)
(***************************************************************************)
EXTENDS Integers, Sequences, SequencesExt, FiniteSetsExt

Views == {"top", "front", "side"}
Cos(turn) == <<1, 0, -1, 0>>[(turn % 4) + 1]
Sin(turn) == <<0, 1, 0, -1>>[(turn % 4) + 1]
Magnitude(n) == IF n < 0 THEN -n ELSE n
Least(s) == CHOOSE n \in s : \A m \in s : n <= m
Most(s) == CHOOSE n \in s : \A m \in s : n >= m

Plane(u, v) == [u |-> u, v |-> v]
Plus(a, b) == Plane(a.u + b.u, a.v + b.v)
Times(n, a) == Plane(n * a.u, n * a.v)
Dot(a, b) == a.u * b.u + a.v * b.v
Cross(a, b) == a.u * b.v - a.v * b.u
Zero == Plane(0, 0)
Distance2(a, b) == LET d == Plus(a, Times(-1, b)) IN Dot(d, d)
Turned(a, turn) == Plane(a.u * Cos(turn) - a.v * Sin(turn), a.u * Sin(turn) + a.v * Cos(turn))

-----------------------------------------------------------------------------
(* Projection.                                                              *)

\* The world directions of an element's own width, depth and height.
LocalAxes(yaw, tilt) ==
  <<[x |-> Cos(yaw) * Cos(tilt), y |-> Sin(yaw) * Cos(tilt), z |-> -Sin(tilt)],
    [x |-> -Sin(yaw), y |-> Cos(yaw), z |-> 0],
    [x |-> Cos(yaw) * Sin(tilt), y |-> Sin(yaw) * Sin(tilt), z |-> Cos(tilt)]>>
ScreenDirection(a, view) == CASE view = "top" -> Plane(a.x, a.y)
                              [] view = "front" -> Plane(a.x, -a.z)
                              [] view = "side" -> Plane(a.y, -a.z)
DrawnRotation(e, view) == CASE view = "top" -> e.yaw [] view = "front" -> e.tilt [] view = "side" -> 0
Halves(e) == <<e.width \div 2, e.depth \div 2, e.height \div 2>>

\* Where the axes point in the frame the element is drawn in.
ProjectedAxes(e, view) ==
  [i \in 1 .. 3 |-> Turned(ScreenDirection(LocalAxes(e.yaw, e.tilt)[i], view), -DrawnRotation(e, view))]
\* How far a box reaches along a side of the frame, whose share of each axis is given.
Extent(e, share) == Magnitude(share[1]) * e.width + Magnitude(share[2]) * e.depth + Magnitude(share[3]) * e.height
\* The drawn rectangle: its middle, and how far the box reaches along it and across it.
RectAlong(e, view, axes) ==
  [u |-> IF view = "side" THEN e.y ELSE e.x,
   v |-> IF view = "top" THEN e.y ELSE e.z + (e.height \div 2),
   width |-> Extent(e, [i \in 1 .. 3 |-> axes[i].u]),
   height |-> Extent(e, [i \in 1 .. 3 |-> axes[i].v]),
   turn |-> DrawnRotation(e, view)]
ProjectElement(e, view) == RectAlong(e, view, ProjectedAxes(e, view))
\* An element as a view shows it.
SeenAlong(e, view, axes) ==
  [id |-> e.id, ellipse |-> e.shape = "ellipse", view |-> view, axes |-> axes, halves |-> Halves(e), rect |-> RectAlong(e, view, axes)]
Seen(e, view) == SeenAlong(e, view, ProjectedAxes(e, view))

\* A vertex is where the box reaches so far along the three axes; at right angles the hull
\* is the vertices extreme both ways.
Vertex(s, signs) == Plus(Times(signs[1] * s.halves[1], s.axes[1]),
                         Plus(Times(signs[2] * s.halves[2], s.axes[2]), Times(signs[3] * s.halves[3], s.axes[3])))
ExtremePoints(points, us, vs) == {q \in points : q.u \in {Least(us), Most(us)} /\ q.v \in {Least(vs), Most(vs)}}
ConvexHull(points) == ExtremePoints(points, {q.u : q \in points}, {q.v : q \in points})
Signs == {1, -1}
ProjectedOutline(s) == ConvexHull({Vertex(s, <<a, b, c>>) : a \in Signs, b \in Signs, c \in Signs})

\* The stored fields a drag in a view writes.
ViewAxisFields(view) == CASE view = "top" -> [u |-> "x", v |-> "y"]
                          [] view = "front" -> [u |-> "x", v |-> "z"]
                          [] view = "side" -> [u |-> "y", v |-> "z"]

BoundsAround(rect, halfW, halfH) ==
  [minU |-> rect.u - halfW, maxU |-> rect.u + halfW, minV |-> rect.v - halfH, maxV |-> rect.v + halfH]
RectBounds(rect) ==
  BoundsAround(rect, (rect.width * Magnitude(Cos(rect.turn)) + rect.height * Magnitude(Sin(rect.turn))) \div 2,
                     (rect.width * Magnitude(Sin(rect.turn)) + rect.height * Magnitude(Cos(rect.turn))) \div 2)
ProjectedBounds(e, view) == RectBounds(ProjectElement(e, view))

ClampDimension(n) == IF n < 1 THEN 1 ELSE n

-----------------------------------------------------------------------------
(* Trusses.                                                                 *)

TrussLength(pieces) == MapThenSumSet(LAMBDA piece : piece.length, pieces)
LengthWithoutPiece(pieces, id) == TrussLength({piece \in pieces : piece.id # id})
\* A bar shorter than a fixture's offset draws it at its end.
ClampFixtureOffset(offset, length) == IF offset <= length THEN offset ELSE length

TrussDropMargin == 25
\* A point of the view (its v down) in the frame of a drawn rectangle.
RectLocalPoint(point, rect, view) ==
  Turned(Plane(point.u - rect.u, point.v - (IF view = "top" THEN rect.v ELSE -rect.v)), -rect.turn)
\* Three equal bands of the bar's depth, and the line each lane is drawn on.
TrussSideForLocalV(v, halfDepth) ==
  IF 3 * v < -halfDepth THEN "top" ELSE IF 3 * v > halfDepth THEN "bottom" ELSE "middle"
TrussLaneLocalV(side, halfDepth) ==
  CASE side = "top" -> -halfDepth [] side = "bottom" -> halfDepth [] side = "middle" -> 0
FixtureDropOnTruss(local, length, halfDepth) ==
  IF Magnitude(local.u) > (length \div 2) + TrussDropMargin \/ Magnitude(local.v) > halfDepth + TrussDropMargin THEN {}
  ELSE {[offset |-> Least({length, Most({0, local.u + (length \div 2)})}),
         side |-> TrussSideForLocalV(local.v, halfDepth)]}

-----------------------------------------------------------------------------
(* Snapping, one axis at a time.                                            *)

SnapThresholdPx == 8
\* The first of the nearest, in the order they are looked at; none of none.
FirstNearest(candidates) ==
  IF candidates = <<>> THEN {}
  ELSE LET best == Least({candidates[i].distance : i \in DOMAIN candidates})
       IN {candidates[Least({i \in DOMAIN candidates : candidates[i].distance = best})]}
AxisReferencePoints(center, half) == <<center, center - half, center + half>>
Towards(center, own, target) == [center |-> center + target - own, distance |-> Magnitude(target - own)]

BestObjectCandidate(center, half, targets, pxPerCm) ==
  LET ofOne(own) == [i \in DOMAIN targets |-> Towards(center, own, targets[i])]
      points == AxisReferencePoints(center, half)
  IN FirstNearest(SelectSeq(ofOne(points[1]) \o ofOne(points[2]) \o ofOne(points[3]),
                            LAMBDA c : c.distance * pxPerCm <= SnapThresholdPx))
BestGridCandidate(center, half, grid) ==
  LET points == AxisReferencePoints(center, half)
      nearest(own) == ((2 * own + grid) \div (2 * grid)) * grid
  IN FirstNearest([i \in 1 .. 3 |-> Towards(center, points[i], nearest(points[i]))])
\* Where one axis comes to lie: by a neighbour near enough, else by the grid.
SnapAxis(center, half, targets, settings, pxPerCm) ==
  LET byObject == IF settings.snapObjects THEN BestObjectCandidate(center, half, targets, pxPerCm) ELSE {}
      byGrid == IF settings.snapGrid /\ settings.grid > 0 THEN BestGridCandidate(center, half, settings.grid) ELSE {}
  IN IF byObject # {} THEN (CHOOSE c \in byObject : TRUE).center
     ELSE IF byGrid # {} THEN (CHOOSE c \in byGrid : TRUE).center ELSE center
SnapPosition(proposed, halves, neighbors, settings, pxPerCm) ==
  LET us == FlattenSeq([i \in DOMAIN neighbors |->
              <<neighbors[i].minU, (neighbors[i].minU + neighbors[i].maxU) \div 2, neighbors[i].maxU>>])
      vs == FlattenSeq([i \in DOMAIN neighbors |->
              <<neighbors[i].minV, (neighbors[i].minV + neighbors[i].maxV) \div 2, neighbors[i].maxV>>])
  IN Plane(SnapAxis(proposed.u, halves.w, us, settings, pxPerCm), SnapAxis(proposed.v, halves.h, vs, settings, pxPerCm))

-----------------------------------------------------------------------------
(* What a measurement may be anchored to.                                   *)

Centre == [kind |-> "centre"]
Corner(signs) == [kind |-> "corner", signs |-> signs]
Face(axis, sign) == [kind |-> "face", axis |-> axis, sign |-> sign]
Edge(axis, signs) == [kind |-> "edge", axis |-> axis, signs |-> signs]
EdgeCrossAxes(axis) == <<(<<2, 3>>), <<1, 3>>, <<1, 2>>>>[axis]

\* A point of an element's drawn frame, in the plane of the view.
ViewFlip(view) == IF view = "top" THEN 1 ELSE -1
Flipped(a, view) == Plane(a.u, a.v * ViewFlip(view))
DrawnToProjected(offset, s) == Flipped(Turned(offset, s.rect.turn), s.view)
InPlane(offset, s) == Plus(Plane(s.rect.u, s.rect.v), DrawnToProjected(offset, s))

\* A feature is a point of the box as far along its axes as it says.
SignsOf(f) ==
  CASE f.kind = "centre" -> <<0, 0, 0>>
    [] f.kind = "corner" -> f.signs
    [] f.kind = "face" -> [i \in 1 .. 3 |-> IF i = f.axis THEN f.sign ELSE 0]
    [] f.kind = "edge" -> [i \in 1 .. 3 |-> IF i = f.axis THEN 0 ELSE f.signs[IF i = EdgeCrossAxes(f.axis)[1] THEN 1 ELSE 2]]
FeatureDrawnOffset(s, f) == Vertex(s, SignsOf(f))
AnchorPoint(s, f) == InPlane(FeatureDrawnOffset(s, f), s)
EdgeDrawnEnds(s, f) ==
  [n \in 1 .. 2 |-> Vertex(s, [SignsOf(f) EXCEPT ![f.axis] = <<-1, 1>>[n]])]

Largest(a) == Most({Magnitude(a.u), Magnitude(a.v)})
Normalize(a) == IF a = Zero THEN Zero ELSE Plane(a.u \div Largest(a), a.v \div Largest(a))
\* A line, its normal pointing the way `outward` does.
Outwards(n, outward) == IF Dot(n, outward) < 0 THEN Times(-1, n) ELSE n
Line(point, dir, outward, ends) ==
  [point |-> point, dir |-> dir, normal |-> Outwards(Plane(dir.v, -dir.u), outward), segment |-> ends]

\* A face seen edge-on: its in-plane axes fall on one line, and the side reaches as far as
\* the corners of the face do.
FaceSpans(s, f) == [n \in 1 .. 2 |-> LET i == EdgeCrossAxes(f.axis)[n] IN DrawnToProjected(Times(s.halves[i], s.axes[i]), s)]
Longer(a, b) == IF Dot(a, a) >= Dot(b, b) THEN a ELSE b
ReachAlong(dir, spans) == Magnitude(Dot(spans[1], dir)) + Magnitude(Dot(spans[2], dir))
FaceLineAlong(s, f, spans, point, dir) ==
  IF dir = Zero \/ Cross(spans[1], spans[2]) # 0 THEN {}
  ELSE {Line(point, dir, DrawnToProjected(Times(f.sign, s.axes[f.axis]), s),
             <<Plus(point, Times(-ReachAlong(dir, spans), dir)), Plus(point, Times(ReachAlong(dir, spans), dir))>>)}
LegacyFaceLine(s, f) ==
  UNION {FaceLineAlong(s, f, spans, AnchorPoint(s, f), Normalize(Longer(spans[1], spans[2]))) : spans \in {FaceSpans(s, f)}}
\* The line a side runs along; an edge that points into the screen has none.
EdgeLineBetween(s, f, ends, point) ==
  IF ends[1] = ends[2] THEN {}
  ELSE {Line(point, Normalize(Plus(ends[2], Times(-1, ends[1]))), Plus(point, Plane(-s.rect.u, -s.rect.v)), ends)}
SideLine(s, f) ==
  CASE f.kind = "face" -> LegacyFaceLine(s, f)
    [] f.kind = "edge" -> UNION {EdgeLineBetween(s, f, <<InPlane(drawn[1], s), InPlane(drawn[2], s)>>, AnchorPoint(s, f)) : drawn \in {EdgeDrawnEnds(s, f)}}
    [] OTHER -> {}

\* Seen along its extrusion an ellipse has no straight side.
AllowsPlaneAnchor(s) == s.ellipse => s.axes[3] # Zero

\* What an element offers: its centre, the corners of its silhouette (of those that fall on
\* one point the first), and the faces seen edge-on. An ellipse has no corners.
SignOrder == <<1, -1>>
CornerOrder == [n \in 1 .. 8 |-> Corner(<<SignOrder[((n - 1) \div 4) + 1], SignOrder[(((n - 1) \div 2) % 2) + 1],
                                         SignOrder[((n - 1) % 2) + 1]>>)]
FaceOrder == [n \in 1 .. 6 |-> Face(((n - 1) \div 2) + 1, SignOrder[((n - 1) % 2) + 1])]
Offer(s, f, slide) == [feature |-> f, point |-> AnchorPoint(s, f), slide |-> slide]
CornersOn(hull, at) == SelectSeq(<<1, 2, 3, 4, 5, 6, 7, 8>>, LAMBDA n : at[n] \in hull /\ \A m \in 1 .. (n - 1) : at[m] # at[n])
OfferEach(s, features, slide) == [i \in DOMAIN features |-> Offer(s, features[i], slide)]
Among(order, numbers) == [i \in DOMAIN numbers |-> order[numbers[i]]]
OfferedCorners(s) ==
  IF s.ellipse THEN <<>>
  ELSE OfferEach(s, Among(CornerOrder, CornersOn(ProjectedOutline(s), [n \in 1 .. 8 |-> Vertex(s, CornerOrder[n].signs)])), FALSE)
OfferedSides(s) == OfferEach(s, SelectSeq(FaceOrder, LAMBDA f : SideLine(s, f) # {}), AllowsPlaneAnchor(s))
OfferedAnchors(s) == <<Offer(s, Centre, FALSE)>> \o OfferedCorners(s) \o OfferedSides(s)

-----------------------------------------------------------------------------
(* What a measurement measures.                                             *)

\* An end is a point or, taken as a sliding plane, a line.
PointEnd(point) == [kind |-> "point", point |-> point]
LineEnd(line) == [kind |-> "line", line |-> line]
RayMeetsLine(origin, dir, line) ==
  LET d == Dot(dir, line.normal)
  IN IF d = 0 THEN {} ELSE {Plus(origin, Times(Dot(Plus(line.point, Times(-1, origin)), line.normal) * d, dir))}
AxisDir(type) == CASE type = "horizontal" -> {Plane(1, 0)} [] type = "vertical" -> {Plane(0, 1)} [] type = "aligned" -> {}
\* Between two points any distance but none at all; between lines that are parallel; a locked
\* type never along the line it measures to.
MeasurementSpan(from, to, type) ==
  LET along(default) == IF AxisDir(type) = {} THEN default ELSE CHOOSE d \in AxisDir(type) : TRUE
      span(a, b, dir) == [a |-> a, b |-> b, dir |-> dir]
  IN IF from.kind = "point" /\ to.kind = "point"
     THEN LET dir == along(Plus(to.point, Times(-1, from.point)))
          IN IF dir = Zero THEN {} ELSE {span(from.point, to.point, dir)}
     ELSE IF from.kind = "line" /\ to.kind = "line"
     THEN IF Cross(from.line.normal, to.line.normal) # 0 THEN {}
          ELSE {span(from.line.point, b, along(from.line.normal)) :
                  b \in RayMeetsLine(from.line.point, along(from.line.normal), to.line)}
     ELSE LET line == IF from.kind = "line" THEN from.line ELSE to.line
              point == IF from.kind = "point" THEN from.point ELSE to.point
          IN {IF from.kind = "point" THEN span(point, foot, along(line.normal)) ELSE span(foot, point, along(line.normal)) :
                foot \in RayMeetsLine(point, along(line.normal), line)}

\* An anchor is [element{}, feature{}, slide, point{}]: a feature of an element or a free point.
Free(point) == [element |-> {}, feature |-> {}, slide |-> FALSE, point |-> {point}]
On(id, f, slide) == [element |-> {id}, feature |-> {f}, slide |-> slide, point |-> {}]
MeasurementAnchorElementIds(m) == m.from.element \cup m.to.element
MeasurementsAnchoredTo(measurements, id) == {m \in measurements : id \in MeasurementAnchorElementIds(m)}

\* A side that has turned flat falls back to the middle of its face.
EndsAt(point, lines) == IF lines = {} THEN {PointEnd(point)} ELSE {LineEnd(l) : l \in lines}
EndsOn(s, f, slide) == EndsAt(AnchorPoint(s, f), IF slide THEN SideLine(s, f) ELSE {})
ResolveEnd(anchor, elements, view) ==
  {PointEnd(q) : q \in anchor.point}
  \cup UNION {EndsOn(s, f, anchor.slide) : f \in anchor.feature, s \in {Seen(e, view) : e \in {x \in elements : x.id \in anchor.element}}}
MeasurementGeometry(m, elements, view) ==
  UNION {MeasurementSpan(a, b, m.type) : a \in ResolveEnd(m.from, elements, view), b \in ResolveEnd(m.to, elements, view)}

\* Drawn when their own layer shows and so does every element they are anchored to.
VisibleMeasurements(measurements, view, elements, layers) ==
  LET shown(id) == \A l \in layers : l.id = id => l.visible
  IN {m \in measurements :
        /\ m.view = view /\ shown(m.layer)
        /\ \A id \in MeasurementAnchorElementIds(m) : \E e \in elements : e.id = id /\ shown(e.layer)}

\* Which anchor a pointer takes. Along a side there is a corner at each end, its middle, and
\* the side itself; a side too short to hold all three is the side itself all along.
Clamped(n, low, high) == Least({high, Most({low, n})})
Taken(s, f, slide, at, point) == [element |-> s.id, feature |-> f, slide |-> slide, point |-> at, distance |-> Distance2(point, at)]
NearestCorner(s, end, point) ==
  {Taken(s, n.at.feature, FALSE, n.at.point, point) :
     n \in UNION {FirstNearest([i \in DOMAIN corners |-> [at |-> corners[i], distance |-> Distance2(corners[i].point, end)]])
                  : corners \in {OfferedCorners(s)}}}
\* Mutant of TakenAlong: any side can be slid along.
TakenAlongAny(s, side, corners, inMiddle, on, point) ==
  IF corners # {} THEN corners ELSE {IF inMiddle THEN Taken(s, side.feature, FALSE, side.point, point) ELSE Taken(s, side.feature, TRUE, on, point)}
TakenAlong(s, side, corners, inMiddle, on, point) ==
  IF corners # {} THEN corners
  ELSE IF inMiddle THEN {Taken(s, side.feature, FALSE, side.point, point)}
  ELSE {Taken(s, side.feature, TRUE, on, point) : slides \in {TRUE} \cap {AllowsPlaneAnchor(s)}}
AimAlong(s, side, line, drawn, along, on, zone, point) ==
  TakenAlong(s, side,
             IF zone > 0 /\ Least({along, drawn - along}) <= zone
             THEN NearestCorner(s, line.segment[IF 2 * along < drawn THEN 1 ELSE 2], point) ELSE {},
             zone > 0 /\ Magnitude(2 * along - drawn) <= 2 * zone, on, point)
AimOnLine(s, side, line, drawn, along, point, reach, pointReach) ==
  UNION {AimAlong(s, side, line, drawn, along, on, IF drawn >= 5 * pointReach THEN pointReach ELSE 0, point)
         : on \in {q \in {Plus(line.segment[1], Times(along, line.dir))} : drawn > 0 /\ Distance2(point, q) <= reach * reach}}
LengthOf(segment) == Largest(Plus(segment[2], Times(-1, segment[1])))
AimOnSide(s, side, point, reach, pointReach) ==
  UNION {AimOnLine(s, side, ld[1], ld[2], Clamped(Dot(Plus(point, Times(-1, ld[1].segment[1])), ld[1].dir), 0, ld[2]), point, reach, pointReach)
         : ld \in {<<line, LengthOf(line.segment)>> : line \in SideLine(s, side.feature)}}
AimOnSides(s, sides, point, reach, pointReach) ==
  FlattenSeq([i \in DOMAIN sides |-> SetToSeq(AimOnSide(s, sides[i], point, reach, pointReach))])
AimAtElement(s, point, reach, pointReach) ==
  SelectSeq(<<Taken(s, Centre, FALSE, AnchorPoint(s, Centre), point)>>, LAMBDA t : t.distance <= reach * reach)
  \o AimOnSides(s, OfferedSides(s), point, reach, pointReach)
\* Nearest first; where an element lies over another, what the pointer is nearest to.
AimAtAnchor(elements, view, point, reach, pointReach) ==
  FirstNearest(FlattenSeq([i \in DOMAIN elements |-> AimAtElement(Seen(elements[i], view), point, reach, pointReach)]))

\* The elements whose anchors are shown: all those near the pointer.
NearestInside(point, b) == Plane(Clamped(point.u, b.minU, b.maxU), Clamped(point.v, b.minV, b.maxV))
AnchorHintsFor(elements, view, point, radius) ==
  {e \in elements : Distance2(point, NearestInside(point, ProjectedBounds(e, view))) <= radius * radius}
=============================================================================

-------------------------------- MODULE Spatial -------------------------------
(***************************************************************************)
(* struct/octree.c: points in a box, in leaves that split into eight when  *)
(* they are full.  A box has both its faces, so neighbouring octants share *)
(* one and a point on it goes to the first that takes it.  Coordinates are *)
(* integers here, in boxes that halve evenly.                              *)
(*                                                                         *)
(* algo/kd_tree.c: points split by the median along x, y and z in turn.    *)
(* The build permutes the caller's array, [0 .. n - 1], and copies every   *)
(* median into a node once its range is selected; later selections stay    *)
(* inside the ranges to its two sides, so a node is the middle of its      *)
(* range in the array as the build leaves it.                              *)
(*                                                                         *)
(* algo/bvh.c: boxes in a binary tree of the boxes around them, and the    *)
(* first box a ray enters.  Coordinates are integers here and a ray goes   *)
(* along axes and diagonals, so that a distance is an integer too; the     *)
(* inverse of a direction of zero is 1e30 in the code and Big here.        *)
(*                                                                         *)
(* struct/sphere_array.c and struct/circle_array.c: a cube or a square of  *)
(* 2 r + 1 cells a side, of which only those at most r from the centre may *)
(* be used.  A cell is addressed by its place in the grid, from 0, or by   *)
(* its offset from the centre.                                             *)
(*                                                                         *)
(* algo/dijkstra.c: shortest paths over adjacency lists.  The queue is a   *)
(* binary heap of fixed size: a node is pushed again each time its         *)
(* distance improves and older entries are passed over, and a push on a    *)
(* full queue is dropped.  Nodes are 0 .. N - 1; graph[u] is the sequence  *)
(* of u's edges. The four refused allocations, which answer 0 as well, are *)
(* left out.  A graph is built edge by edge, in memory that may run out.   *)
(*                                                                         *)
(* algo/tree_sit.c: a syntax tree in one growing array, whose nodes name   *)
(* their parent, first child and siblings by index.  Node n of the code is *)
(* nodes[n + 1]; None is the index -1.                                     *)
(***************************************************************************)
EXTENDS Integers, Sequences, FiniteSets

SX == INSTANCE SequencesExt

-----------------------------------------------------------------------------
(* The octree *)

CONSTANTS
  MaxDepth, MaxItems,  \* per tree
  LeafMax              \* the largest item array there is memory for

Axes == 1 .. 3

ContainsPoint(box, p) == \A i \in Axes : box.min[i] <= p[i] /\ p[i] <= box.max[i]
Intersects(a, b) == \A i \in Axes : a.min[i] <= b.max[i] /\ b.min[i] <= a.max[i]

DistanceSquared(p, q) ==
  (p[1] - q[1]) * (p[1] - q[1]) + (p[2] - q[2]) * (p[2] - q[2]) + (p[3] - q[3]) * (p[3] - q[3])

\* The point of the box nearest to p.
Closest(box, p) ==
  [i \in Axes |-> IF p[i] < box.min[i] THEN box.min[i] ELSE IF p[i] > box.max[i] THEN box.max[i] ELSE p[i]]
IntersectsSphere(box, center, radius) ==
  DistanceSquared(center, Closest(box, center)) <= radius * radius

\* OctreeNode_2
Leaf(box) == [box |-> box, items |-> <<>>, cap |-> MaxItems, kids |-> <<>>]

\* The octants: the first bit of c - 1 tells the half along x, then y, then z.
Upper(c) == <<(c - 1) % 2 = 1, ((c - 1) \div 2) % 2 = 1, (c - 1) \div 4 = 1>>
Octant(box, c) ==
  LET mid == [i \in Axes |-> (box.min[i] + box.max[i]) \div 2] IN
  [min |-> [i \in Axes |-> IF Upper(c)[i] THEN mid[i] ELSE box.min[i]],
   max |-> [i \in Axes |-> IF Upper(c)[i] THEN box.max[i] ELSE mid[i]]]

\* OctreeNode_subdivide
Subdivided(node) == [node EXCEPT !.items = <<>>, !.kids = [c \in 1 .. 8 |-> Leaf(Octant(node.box, c))]]

IsLeaf(node) == node.kids = <<>>

\* A leaf with a free slot takes the item, one without it first doubles its array.
IntoLeaf(node, item) ==
  IF Len(node.items) < node.cap
  THEN [ok |-> TRUE, node |-> [node EXCEPT !.items = Append(@, item)]]
  ELSE IF 2 * node.cap > LeafMax THEN [ok |-> FALSE, node |-> node]
  ELSE [ok |-> TRUE, node |-> [node EXCEPT !.items = Append(@, item), !.cap = 2 * @]]

RECURSIVE InsertIn(_, _, _), IntoKids(_, _, _, _), AfterKid(_, _, _, _, _), Reinserted(_, _, _),
          QueryRange(_, _, _, _), QueryRangeKids(_, _, _, _, _),
          QuerySphere(_, _, _, _, _), QuerySphereKids(_, _, _, _, _, _)

\* Into the first child, from child c on, that takes the item.
AfterKid(node, c, item, depth, tried) ==
  IF tried.ok THEN [ok |-> TRUE, node |-> [node EXCEPT !.kids[c] = tried.node]]
  ELSE IntoKids([node EXCEPT !.kids[c] = tried.node], c + 1, item, depth)
IntoKids(node, c, item, depth) ==
  IF c > 8 THEN [ok |-> FALSE, node |-> node]
  ELSE AfterKid(node, c, item, depth, InsertIn(node.kids[c], item, depth + 1))

Reinserted(node, items, depth) ==
  IF items = <<>> THEN node
  ELSE Reinserted(IntoKids(node, 1, Head(items), depth).node, Tail(items), depth)

\* OctreeNode_insert: whether the item was taken, and the node after it.
InsertIn(node, item, depth) ==
  IF ~ContainsPoint(node.box, item.point) THEN [ok |-> FALSE, node |-> node]
  ELSE IF IsLeaf(node)
  THEN IF Len(node.items) < MaxItems \/ depth >= MaxDepth THEN IntoLeaf(node, item)
       ELSE IntoKids(Reinserted(Subdivided(node), node.items, depth), 1, item, depth)
  ELSE IntoKids(node, 1, item, depth)

\* Octree_insert, with totalItems.
Inserted(tree, item) ==
  LET r == InsertIn(tree.root, item, 0) IN
  [root |-> r.node, total |-> IF r.ok THEN tree.total + 1 ELSE tree.total,
   taken |-> IF r.ok THEN Append(tree.taken, item) ELSE tree.taken]

\* Octree_3, Octree_clear; taken is auxiliary, what Octree_insert answered true for.
EmptyTree(box) == [root |-> Leaf(box), total |-> 0, taken |-> <<>>]

\* Those of the items that pass, as many as there is room for.
Taking(items, out, max, Passes(_)) ==
  LET all == out \o SelectSeq(items, Passes) IN IF Len(all) > max THEN SubSeq(all, 1, max) ELSE all

QueryRangeKids(node, c, range, out, max) ==
  IF c > 8 \/ Len(out) >= max THEN out
  ELSE QueryRangeKids(node, c + 1, range, QueryRange(node.kids[c], range, out, max), max)
QueryRange(node, range, out, max) ==
  IF Len(out) >= max \/ ~Intersects(node.box, range) THEN out
  ELSE IF IsLeaf(node) THEN Taking(node.items, out, max, LAMBDA item : ContainsPoint(range, item.point))
  ELSE QueryRangeKids(node, 1, range, out, max)

QuerySphereKids(node, c, center, radius, out, max) ==
  IF c > 8 \/ Len(out) >= max THEN out
  ELSE QuerySphereKids(node, c + 1, center, radius, QuerySphere(node.kids[c], center, radius, out, max), max)
QuerySphere(node, center, radius, out, max) ==
  IF Len(out) >= max \/ ~IntersectsSphere(node.box, center, radius) THEN out
  ELSE IF IsLeaf(node)
  THEN Taking(node.items, out, max, LAMBDA item : DistanceSquared(item.point, center) <= radius * radius)
  ELSE QuerySphereKids(node, 1, center, radius, out, max)

-----------------------------------------------------------------------------
\* A query finds what a scan of the accepted points finds, each point as often
\* as it was accepted, or as many of those as the caller has room for.
Finds(out, items, max) ==
  LET times(seq, x) == Len(SelectSeq(seq, LAMBDA y : y = x)) IN
  /\ \A n \in 1 .. Len(out) : times(out, out[n]) <= times(items, out[n])
  /\ Len(out) = IF Len(items) > max THEN max ELSE Len(items)

RangesAgree(tree, ranges, maxes) ==
  \A range \in ranges, max \in maxes :
    Finds(QueryRange(tree.root, range, <<>>, max),
          SelectSeq(tree.taken, LAMBDA item : ContainsPoint(range, item.point)), max)
SpheresAgree(tree, centers, radii, maxes) ==
  \A center \in centers, radius \in radii, max \in maxes :
    Finds(QuerySphere(tree.root, center, radius, <<>>, max),
          SelectSeq(tree.taken, LAMBDA item : DistanceSquared(item.point, center) <= radius * radius), max)

OctreeAgrees(tree, ranges, centers, radii, maxes) ==
  /\ tree.total = Len(tree.taken)
  /\ RangesAgree(tree, ranges, maxes)
  /\ SpheresAgree(tree, centers, radii, maxes)

-----------------------------------------------------------------------------
(* The k-d tree *)

Far == 1000000   \* 1e30f

RECURSIVE PartitionFrom(_, _, _, _, _), QuickSelect(_, _, _, _, _), SelectIn(_, _, _, _, _),
          BuildRange(_, _, _, _), NearestIn(_, _, _, _, _, _), NearestFar(_, _, _, _, _, _),
          RadiusIn(_, _, _, _, _, _, _, _), RadiusFar(_, _, _, _, _, _, _, _)

Axis(depth) == (depth % 3) + 1
Mid(left, right) == left + (right - left) \div 2
Swapped(v, i, j) == [v EXCEPT ![i] = v[j], ![j] = v[i]]

\* partitionAxis, its loop at j with i smaller ones found: the array, and where
\* the pivot went.
PartitionFrom(v, i, j, right, axis) ==
  IF j = right THEN [v |-> Swapped(v, i, right), at |-> i]
  ELSE IF v[j].coord[axis] < v[right].coord[axis]
  THEN PartitionFrom(Swapped(v, i, j), i + 1, j + 1, right, axis)
  ELSE PartitionFrom(v, i, j + 1, right, axis)

SelectIn(p, left, right, k, axis) ==
  IF p.at = k THEN p.v
  ELSE IF k < p.at THEN QuickSelect(p.v, left, p.at - 1, k, axis)
  ELSE QuickSelect(p.v, p.at + 1, right, k, axis)
QuickSelect(v, left, right, k, axis) ==
  IF left >= right THEN v
  ELSE SelectIn(PartitionFrom(v, left, left, right, axis), left, right, k, axis)

\* KdTree_buildRecursive on [left, right]
BuildRange(v, left, right, depth) ==
  IF left > right THEN v
  ELSE BuildRange(
         BuildRange(QuickSelect(v, left, right, Mid(left, right), Axis(depth)),
                    left, Mid(left, right) - 1, depth + 1),
         Mid(left, right) + 1, right, depth + 1)

DistSq(p, q) ==
  (p[1] - q[1]) * (p[1] - q[1]) + (p[2] - q[2]) * (p[2] - q[2]) + (p[3] - q[3]) * (p[3] - q[3])

PlaneDelta(v, left, right, depth, query) ==
  query[Axis(depth)] - v[Mid(left, right)].coord[Axis(depth)]

\* The range on the query's side of the plane, and the one beyond it.
NearSide(v, left, right, depth, query) ==
  IF PlaneDelta(v, left, right, depth, query) <= 0
  THEN <<left, Mid(left, right) - 1>> ELSE <<Mid(left, right) + 1, right>>
FarSide(v, left, right, depth, query) ==
  IF PlaneDelta(v, left, right, depth, query) <= 0
  THEN <<Mid(left, right) + 1, right>> ELSE <<left, Mid(left, right) - 1>>

Closer(best, point, query) ==
  IF DistSq(query, point.coord) < best.dist THEN [point |-> point, dist |-> DistSq(query, point.coord)]
  ELSE best

\* nearestRecursive: the near side, then the far one if its plane is closer than the best.
NearestFar(v, left, right, depth, query, best) ==
  IF PlaneDelta(v, left, right, depth, query) * PlaneDelta(v, left, right, depth, query) < best.dist
  THEN NearestIn(v, FarSide(v, left, right, depth, query)[1], FarSide(v, left, right, depth, query)[2],
                 depth + 1, query, best)
  ELSE best
NearestIn(v, left, right, depth, query, best) ==
  IF left > right THEN best
  ELSE NearestFar(v, left, right, depth, query,
         NearestIn(v, NearSide(v, left, right, depth, query)[1], NearSide(v, left, right, depth, query)[2],
                   depth + 1, query, Closer(best, v[Mid(left, right)], query)))

\* KdTree_nearest in a tree of n points.
Nearest(v, n, query) ==
  NearestIn(v, 0, n - 1, 0, query, [point |-> v[Mid(0, n - 1)], dist |-> Far])

Near(out, point, query, radiusSq) ==
  IF DistSq(query, point.coord) <= radiusSq THEN Append(out, point.payload) ELSE out

\* A variant for checking: the far side is left out when its plane is at the radius.
RadiusFarWithin(v, left, right, depth, query, radiusSq, max, out) ==
  IF Len(out) < max
     /\ PlaneDelta(v, left, right, depth, query) * PlaneDelta(v, left, right, depth, query) < radiusSq
  THEN RadiusIn(v, FarSide(v, left, right, depth, query)[1], FarSide(v, left, right, depth, query)[2],
                depth + 1, query, radiusSq, max, out)
  ELSE out

\* radiusRecursive
RadiusFar(v, left, right, depth, query, radiusSq, max, out) ==
  IF Len(out) < max
     /\ PlaneDelta(v, left, right, depth, query) * PlaneDelta(v, left, right, depth, query) <= radiusSq
  THEN RadiusIn(v, FarSide(v, left, right, depth, query)[1], FarSide(v, left, right, depth, query)[2],
                depth + 1, query, radiusSq, max, out)
  ELSE out
RadiusIn(v, left, right, depth, query, radiusSq, max, out) ==
  IF left > right \/ Len(out) >= max THEN out
  ELSE RadiusFar(v, left, right, depth, query, radiusSq, max,
         RadiusIn(v, NearSide(v, left, right, depth, query)[1], NearSide(v, left, right, depth, query)[2],
                  depth + 1, query, radiusSq, max, Near(out, v[Mid(left, right)], query, radiusSq)))

\* KdTree_queryRadius
QueryRadius(v, n, query, radius, max) == RadiusIn(v, 0, n - 1, 0, query, radius * radius, max, <<>>)

-----------------------------------------------------------------------------
\* The nearest point is one at the least distance of all, and a radius query has
\* each point within the radius once, or as many of them as there is room for.
KdAgrees(points, n, queries, radii, maxes) ==
  LET v == BuildRange(points, 0, n - 1, 0)
      all == {points[i] : i \in 0 .. n - 1}
  IN \A query \in queries :
       /\ LET best == Nearest(v, n, query) IN
          /\ best.point \in all
          /\ best.dist = DistSq(query, best.point.coord)
          /\ \A p \in all : best.dist <= DistSq(query, p.coord)
       /\ \A radius \in radii, max \in maxes :
            LET out == QueryRadius(v, n, query, radius, max)
                within == {i \in 0 .. n - 1 : DistSq(query, points[i].coord) <= radius * radius}
            IN /\ {out[i] : i \in 1 .. Len(out)} \subseteq {points[i].payload : i \in within}
               /\ \A i, j \in 1 .. Len(out) : out[i] = out[j] => i = j
               /\ Len(out) <= max
               /\ Len(out) < max => Len(out) = Cardinality(within)

-----------------------------------------------------------------------------
(* The bounding volumes *)

CONSTANTS
  LeafPrims,   \* max_leaf_prims, 2
  StackMax,    \* the slots of the traversal's stack, 64
  Big

MinOf(S) == CHOOSE x \in S : \A y \in S : x <= y
MaxOf(S) == CHOOSE x \in S : \A y \in S : x >= y

\* BvhAabb_merge and expand_point, over a whole range of primitives.
BoundsOf(prims, ids) ==
  [min |-> [i \in Axes |-> MinOf({prims[ids[n]].min[i] : n \in 1 .. Len(ids)})],
   max |-> [i \in Axes |-> MaxOf({prims[ids[n]].max[i] : n \in 1 .. Len(ids)})]]
CentroidBounds(prims, ids) ==
  [min |-> [i \in Axes |-> MinOf({prims[ids[n]].centroid[i] : n \in 1 .. Len(ids)})],
   max |-> [i \in Axes |-> MaxOf({prims[ids[n]].centroid[i] : n \in 1 .. Len(ids)})]]

RECURSIVE SlabFrom(_, _, _, _, _), PartPrims(_, _, _, _, _, _), BuildNode(_, _),
          Traverse(_, _, _, _), LeafHits(_, _, _, _, _)

Inverse(d) == IF d = 0 THEN Big ELSE d
SlabNear(ray, box, i) ==
  (IF ray.dir[i] < 0 THEN box.max[i] - ray.origin[i] ELSE box.min[i] - ray.origin[i]) * Inverse(ray.dir[i])
SlabFar(ray, box, i) ==
  (IF ray.dir[i] < 0 THEN box.min[i] - ray.origin[i] ELSE box.max[i] - ray.origin[i]) * Inverse(ray.dir[i])

SlabOf(ray, box, i, near, far) ==
  IF far < near THEN [hit |-> FALSE, t |-> 0] ELSE SlabFrom(ray, box, i + 1, near, far)
SlabFrom(ray, box, i, near, far) ==
  IF i > 3 THEN [hit |-> TRUE, t |-> near]
  ELSE SlabOf(ray, box, i, MaxOf({near, SlabNear(ray, box, i)}), MinOf({far, SlabFar(ray, box, i)}))

\* BvhAabb_intersect_ray: one slab after another, up to the distance far.
IntersectRay(ray, box, far) == SlabFrom(ray, box, 1, ray.tmin, far)

\* The axis along which the centroids spread most, the first of equals.
Extent(box, i) == box.max[i] - box.min[i]
SplitAxis(box) ==
  LET first == IF Extent(box, 2) > Extent(box, 1) THEN 2 ELSE 1 IN
  IF Extent(box, 3) > Extent(box, first) THEN 3 ELSE first

\* The ids whose centroid is below the middle first, the others exchanged to the
\* back: the order, and how many are below.
PartPrims(prims, ids, left, right, axis, twice) ==
  IF left > right THEN [ids |-> ids, below |-> left - 1]
  ELSE IF 2 * prims[ids[left]].centroid[axis] < twice
  THEN PartPrims(prims, ids, left + 1, right, axis, twice)
  ELSE PartPrims(prims, [ids EXCEPT ![left] = ids[right], ![right] = ids[left]],
                     left, right - 1, axis, twice)

HalfIfOneSided(below, count) == IF below = 0 \/ below = count THEN count \div 2 ELSE below

InnerNode(prims, ids, order, below) ==
  [bounds |-> BoundsOf(prims, ids), ids |-> <<>>,
   kids |-> <<BuildNode(prims, SubSeq(order, 1, below)),
              BuildNode(prims, SubSeq(order, below + 1, Len(order)))>>]
PartedNode(prims, ids, p) == InnerNode(prims, ids, p.ids, HalfIfOneSided(p.below, Len(ids)))
SplitNode(prims, ids, box, axis) ==
  IF Extent(box, axis) = 0 THEN [bounds |-> BoundsOf(prims, ids), ids |-> ids, kids |-> <<>>]
  ELSE PartedNode(prims, ids,
         PartPrims(prims, ids, 1, Len(ids), axis, box.min[axis] + box.max[axis]))

\* bvh_build_recursive on the primitives of a range, in the order they have there.
BuildNode(prims, ids) ==
  IF Len(ids) <= LeafPrims THEN [bounds |-> BoundsOf(prims, ids), ids |-> ids, kids |-> <<>>]
  ELSE SplitNode(prims, ids, CentroidBounds(prims, ids), SplitAxis(CentroidBounds(prims, ids)))

\* BvhTree_build
BuildTree(prims) == BuildNode(prims, [n \in 1 .. Len(prims) |-> n])

\* A primitive that is entered before the best so far.  All of a leaf are tried
\* with the distance that was the best when the leaf was reached.
NearerHit(best, id, slab) == IF slab.hit /\ slab.t < best.t THEN [id |-> id, t |-> slab.t] ELSE best
LeafHits(prims, ray, ids, far, best) ==
  IF ids = <<>> THEN best
  ELSE LeafHits(prims, ray, Tail(ids), far,
         NearerHit(best, Head(ids), IntersectRay(ray, prims[Head(ids)], far)))

Pushed(stack, node) == IF Len(stack) < StackMax THEN Append(stack, node) ELSE stack

\* BvhTree_intersect_ray with a stack of nodes and the best hit so far.
Visit(prims, ray, node, rest, best) ==
  IF ~IntersectRay(ray, node.bounds, best.t).hit THEN Traverse(prims, ray, rest, best)
  ELSE IF node.kids = <<>> THEN Traverse(prims, ray, rest, LeafHits(prims, ray, node.ids, best.t, best))
  ELSE Traverse(prims, ray, Pushed(Pushed(rest, node.kids[1]), node.kids[2]), best)
Traverse(prims, ray, stack, best) ==
  IF stack = <<>> THEN best
  ELSE Visit(prims, ray, stack[Len(stack)], SubSeq(stack, 1, Len(stack) - 1), best)

NoHit == 0
FirstHit(prims, ray) == Traverse(prims, ray, <<BuildTree(prims)>>, [id |-> NoHit, t |-> ray.tmax])

-----------------------------------------------------------------------------
\* The tree finds the box a ray enters first, as a test of every box would, and
\* none when there is none before the ray's end.
BvhAgrees(prims, rays) ==
  \A ray \in rays :
    LET slab == [n \in 1 .. Len(prims) |-> IntersectRay(ray, prims[n], ray.tmax)]
        hits == {n \in 1 .. Len(prims) : slab[n].hit /\ slab[n].t < ray.tmax}
        best == FirstHit(prims, ray)
    IN IF hits = {} THEN best.id = NoHit /\ best.t = ray.tmax
       ELSE best.id \in hits /\ slab[best.id].t = best.t /\ \A n \in hits : best.t <= slab[n].t

-----------------------------------------------------------------------------
(* The round arrays *)

Diameter(r) == 2 * r + 1
GridLine(r) == 0 .. 2 * r

-----------------------------------------------------------------------------
(* SphereArray: a cell is <<x, y, z>> *)

Sphere_offset(r, g) == <<g[1] - r, g[2] - r, g[3] - r>>
Sphere_grid(r, o) == <<o[1] + r, o[2] + r, o[3] + r>>

Sphere_distanceSquared(o) == o[1] * o[1] + o[2] * o[2] + o[3] * o[3]

Sphere_containsOffset(r, o) ==
  /\ \A i \in 1 .. 3 : -r <= o[i] /\ o[i] <= r
  /\ Sphere_distanceSquared(o) <= r * r
Sphere_containsGrid(r, g) ==
  /\ \A i \in 1 .. 3 : 0 <= g[i] /\ g[i] < Diameter(r)
  /\ Sphere_distanceSquared(Sphere_offset(r, g)) <= r * r

Sphere_index(r, g) == g[3] * Diameter(r) * Diameter(r) + g[2] * Diameter(r) + g[1]

\* The loops of the constructor and of forEach: z, y and x in turn; a line whose
\* y and z alone are too far is passed over.
Sphere_walk(r) ==
  LET d == Diameter(r)
      all == [n \in 1 .. d * d * d |-> <<(n - 1) % d, ((n - 1) \div d) % d, (n - 1) \div (d * d)>>]
      near(g) == /\ Sphere_distanceSquared(<<0, g[2] - r, g[3] - r>>) <= r * r
                 /\ Sphere_distanceSquared(Sphere_offset(r, g)) <= r * r
  IN SelectSeq(all, near)

Sphere_validVoxelCount(r) == Len(Sphere_walk(r))

\* SphereArray_setGrid and getGrid, and through Sphere_grid those by offset: a
\* cell outside the sphere is refused.
Sphere_set(r, data, g, v) ==
  IF Sphere_containsGrid(r, g) THEN [data EXCEPT ![Sphere_index(r, g)] = v] ELSE data
Sphere_get(r, data, g, none) ==
  IF Sphere_containsGrid(r, g) THEN data[Sphere_index(r, g)] ELSE none

-----------------------------------------------------------------------------
(* CircleArray: a cell is <<x, y>> *)

Circle_offset(r, g) == <<g[1] - r, g[2] - r>>
Circle_grid(r, o) == <<o[1] + r, o[2] + r>>

Circle_distanceSquared(o) == o[1] * o[1] + o[2] * o[2]

Circle_containsOffset(r, o) ==
  /\ \A i \in 1 .. 2 : -r <= o[i] /\ o[i] <= r
  /\ Circle_distanceSquared(o) <= r * r
Circle_containsGrid(r, g) ==
  /\ \A i \in 1 .. 2 : 0 <= g[i] /\ g[i] < Diameter(r)
  /\ Circle_distanceSquared(Circle_offset(r, g)) <= r * r

Circle_index(r, g) == g[2] * Diameter(r) + g[1]

Circle_walk(r) ==
  LET d == Diameter(r)
      all == [n \in 1 .. d * d |-> <<(n - 1) % d, (n - 1) \div d>>]
  IN SelectSeq(all, LAMBDA g : Circle_distanceSquared(Circle_offset(r, g)) <= r * r)

Circle_validCellCount(r) == Len(Circle_walk(r))

Circle_set(r, data, g, v) ==
  IF Circle_containsGrid(r, g) THEN [data EXCEPT ![Circle_index(r, g)] = v] ELSE data
Circle_get(r, data, g, none) ==
  IF Circle_containsGrid(r, g) THEN data[Circle_index(r, g)] ELSE none

-----------------------------------------------------------------------------
\* A write changes the cell it names, by grid or by offset, and no other; a cell
\* further than r from the centre takes nothing and yields nothing; the count and
\* the walk have every cell that can be written, once.
SphereKeepsCells(r, offsets, writes) ==
  LET data == [n \in 0 .. Diameter(r) * Diameter(r) * Diameter(r) - 1 |-> 0]
      within == {o \in offsets : Sphere_containsOffset(r, o)}
  IN /\ within = {o \in offsets : Sphere_distanceSquared(o) <= r * r}
     /\ \A o \in writes, p \in offsets :
          Sphere_get(r, Sphere_set(r, data, Sphere_grid(r, o), 1), Sphere_grid(r, p), -1)
            = IF p \notin within THEN -1 ELSE IF p = o THEN 1 ELSE 0
     /\ Sphere_validVoxelCount(r) = Cardinality(within)
     /\ {Sphere_walk(r)[n] : n \in 1 .. Sphere_validVoxelCount(r)} = {Sphere_grid(r, o) : o \in within}

CircleKeepsCells(r, offsets) ==
  LET data == [n \in 0 .. Diameter(r) * Diameter(r) - 1 |-> 0]
      within == {o \in offsets : Circle_containsOffset(r, o)}
  IN /\ within = {o \in offsets : Circle_distanceSquared(o) <= r * r}
     /\ \A o \in offsets, p \in offsets :
          Circle_get(r, Circle_set(r, data, Circle_grid(r, o), 1), Circle_grid(r, p), -1)
            = IF p \notin within THEN -1 ELSE IF p = o THEN 1 ELSE 0
     /\ Circle_validCellCount(r) = Cardinality(within)
     /\ {Circle_walk(r)[n] : n \in 1 .. Circle_validCellCount(r)} = {Circle_grid(r, o) : o \in within}

-----------------------------------------------------------------------------

-----------------------------------------------------------------------------
(* Shortest paths *)

CONSTANTS
  QueuePerNode, QueueSlack,  \* the queue has room for 4 N + 16
  PathMax,                   \* the nodes of tempPath, 1024
  FirstEdges                 \* the edges a node first has room for, 4

Infinity == 1000000   \* DIJKSTRA_INFINITY

QueueSize(n) == QueuePerNode * n + QueueSlack

RECURSIVE SiftUp(_, _), SiftDown(_, _), Relax(_, _, _, _, _), Search(_, _, _, _),
          PathTo(_, _, _, _)

Exchanged(q, i, j) == [q EXCEPT ![i] = q[j], ![j] = q[i]]

SiftUp(q, i) ==
  IF i > 1 /\ q[i].dist < q[i \div 2].dist THEN SiftUp(Exchanged(q, i, i \div 2), i \div 2) ELSE q

Smaller(q, i, j) == IF j <= Len(q) /\ q[j].dist < q[i].dist THEN j ELSE i
Smallest(q, i) == Smaller(q, Smaller(q, i, 2 * i), 2 * i + 1)
SiftDown(q, i) == IF Smallest(q, i) = i THEN q ELSE SiftDown(Exchanged(q, i, Smallest(q, i)), Smallest(q, i))

\* MinQ_push
Push(q, node, dist, size) ==
  IF Len(q) >= size THEN q ELSE SiftUp(Append(q, [node |-> node, dist |-> dist]), Len(q) + 1)

\* MinQ_pop: the last entry takes the place of the first and sinks.
Popped(q) ==
  IF Len(q) = 1 THEN <<>> ELSE SiftDown([SubSeq(q, 1, Len(q) - 1) EXCEPT ![1] = q[Len(q)]], 1)

\* What the search works on: dropped is auxiliary.
Begun(n, start) ==
  [dist |-> [u \in 0 .. n - 1 |-> IF u = start THEN 0 ELSE Infinity],
   prev |-> [u \in 0 .. n - 1 |-> n], visited |-> {},
   queue |-> <<[node |-> start, dist |-> 0]>>, dropped |-> FALSE]

\* One edge of u: if the way through it is shorter.
Relaxed(s, u, v, dist, size) ==
  [s EXCEPT !.dist[v] = dist, !.prev[v] = u, !.queue = Push(@, v, dist, size),
            !.dropped = @ \/ Len(s.queue) >= size]
Relax(s, u, edges, e, size) ==
  IF e > Len(edges) THEN s
  ELSE IF edges[e].to \notin s.visited /\ s.dist[u] + edges[e].weight < s.dist[edges[e].to]
  THEN Relax(Relaxed(s, u, edges[e].to, s.dist[u] + edges[e].weight, size), u, edges, e + 1, size)
  ELSE Relax(s, u, edges, e + 1, size)

\* The loop over the queue, up to the goal.
Taken(graph, s, u, goal, size) ==
  IF u \in s.visited THEN Search(graph, [s EXCEPT !.queue = Popped(@)], goal, size)
  ELSE IF u = goal THEN s
  ELSE Search(graph, Relax([s EXCEPT !.queue = Popped(@), !.visited = @ \cup {u}],
                           u, graph[u], 1, size), goal, size)
Search(graph, s, goal, size) ==
  IF s.queue = <<>> THEN s ELSE Taken(graph, s, s.queue[1].node, goal, size)

\* From the goal back to the start, PathMax nodes of it.
PathTo(s, start, node, path) ==
  IF Len(path) >= PathMax THEN path
  ELSE IF node = start THEN <<node>> \o path
  ELSE PathTo(s, start, s.prev[node], <<node>> \o path)

\* Dijkstra_shortestPath: the first max nodes of the path, and its length.
AnswerOf(s, start, goal, max) ==
  IF s.dist[goal] >= Infinity THEN [nodes |-> <<>>, total |-> Infinity, dropped |-> s.dropped]
  ELSE LET path == PathTo(s, start, goal, <<>>) IN
       [nodes |-> IF Len(path) > max THEN SubSeq(path, 1, max) ELSE path,
        total |-> s.dist[goal], dropped |-> s.dropped]
ShortestPath(graph, n, start, goal, max) ==
  AnswerOf(Search(graph, Begun(n, start), goal, QueueSize(n)), start, goal, max)

\* Dijkstra_1, Dijkstra_free and Dijkstra_addEdge, while memory has room for so many
\* blocks: live are those the graph holds.  A full node moves its edges to a block of
\* twice the size before it lets the old one go.
NoGraph == [nodes |-> <<>>, live |-> {}]
GraphBlock == <<"graph", 0, 0>>
NodesBlock == <<"nodes", 0, 0>>
EdgesBlock(u, capacity) == <<"edges", u, capacity>>
NewGraph(n, room) ==
  IF n = 0 \/ room < 2 THEN NoGraph
  ELSE [nodes |-> [u \in 0 .. n - 1 |-> [edges |-> <<>>, capacity |-> 0]], live |-> {GraphBlock, NodesBlock}]
FreeGraph(g) ==
  g.live \ ({GraphBlock, NodesBlock} \cup {EdgesBlock(u, g.nodes[u].capacity) : u \in DOMAIN g.nodes})
AddEdge(g, from, to, weight, room) ==
  LET capacity == g.nodes[from].capacity
      full == Len(g.nodes[from].edges) >= capacity
      larger == IF capacity = 0 THEN FirstEdges ELSE 2 * capacity
      grown == [g EXCEPT !.nodes[from].capacity = larger,
                         !.live = (@ \ {EdgesBlock(from, capacity)}) \cup {EdgesBlock(from, larger)}]
  IN IF ~({from, to} \subseteq DOMAIN g.nodes) \/ (full /\ Cardinality(g.live) >= room)
     THEN [ok |-> FALSE, graph |-> g]
     ELSE [ok |-> TRUE, graph |-> [(IF full THEN grown ELSE g) EXCEPT
                                     !.nodes[from].edges = Append(@, [to |-> to, weight |-> weight])]]
\* Dijkstra_addBiEdge: the second edge is tried when the first was refused too.
AddBiEdge(g, a, b, weight, room) ==
  LET there == AddEdge(g, a, b, weight, room)
      back == AddEdge(there.graph, b, a, weight, room)
  IN [ok |-> there.ok /\ back.ok, graph |-> back.graph]

-----------------------------------------------------------------------------
Edges(graph, u) == {graph[u][e] : e \in 1 .. Len(graph[u])}

\* The least weight of a way to each node: round k looks at ways of k edges at most.
Distances(graph, n, start) ==
  LET within[k \in 0 .. n - 1] ==
        IF k = 0 THEN [v \in 0 .. n - 1 |-> IF v = start THEN 0 ELSE Infinity]
        ELSE [v \in 0 .. n - 1 |->
                MinOf({within[k - 1][v]}
                        \cup {within[k - 1][u] + x.weight : <<u, x>> \in
                                {<<w, y>> \in UNION {{w} \X Edges(graph, w) : w \in 0 .. n - 1} :
                                   y.to = v /\ within[k - 1][w] < Infinity}})]
  IN within[n - 1]

\* The lightest edge from u to v.
Step(graph, u, v) == MinOf({x.weight : x \in {y \in Edges(graph, u) : y.to = v}})

RECURSIVE LengthOf(_, _)
LengthOf(graph, nodes) ==
  IF Len(nodes) <= 1 THEN 0 ELSE Step(graph, nodes[1], nodes[2]) + LengthOf(graph, Tail(nodes))

\* While the queue has room for every push, the answer is a way from start to
\* goal whose weight is the least there is, none exactly when there is none, and
\* a caller with less room has the beginning of it.
PathsAreShortest(graph, n, start, goals) ==
  \A goal \in goals :
    LET best == Distances(graph, n, start)[goal]
        r == ShortestPath(graph, n, start, goal, n)
    IN ~r.dropped =>
         /\ r.total = best
         /\ r.nodes = <<>> <=> best = Infinity
         /\ r.nodes # <<>> => /\ r.nodes[1] = start /\ r.nodes[Len(r.nodes)] = goal
                              /\ LengthOf(graph, r.nodes) = best
                              /\ \A m \in 1 .. Len(r.nodes) :
                                   ShortestPath(graph, n, start, goal, m).nodes = SubSeq(r.nodes, 1, m)

\* Edge by edge, a graph has those that were accepted, in their order, and no block but
\* its own two and one for each node with edges; a refused edge leaves it as it was, a
\* refused pair half done at most; nothing stays behind when it is freed.
EdgesIn(g) == [u \in DOMAIN g.nodes |-> g.nodes[u].edges]
GraphIsBuilt(graph, n, room) ==
  LET wanted == SX!FlattenSeq([i \in 1 .. n |-> [e \in DOMAIN graph[i - 1] |-> <<i - 1, graph[i - 1][e]>>]])
      added(g, w) == AddEdge(g, w[1], w[2].to, w[2].weight, room)
      g[k \in 0 .. Len(wanted)] ==
        IF k = 0 THEN NewGraph(n, room) ELSE added(g[k - 1], wanted[k]).graph
      took(u) == SelectSeq([k \in 1 .. Len(wanted) |-> [at |-> k, from |-> wanted[k][1], edge |-> wanted[k][2]]],
                           LAMBDA w : w.from = u /\ added(g[w.at - 1], wanted[w.at]).ok)
      last == g[Len(wanted)]
  IN /\ \A u \in DOMAIN last.nodes : last.nodes[u].edges = [k \in DOMAIN took(u) |-> took(u)[k].edge]
     /\ Len(wanted) + 4 + n <= room => EdgesIn(last) = graph
     /\ Cardinality(last.live) = IF room < 2 THEN 0
                                ELSE 2 + Cardinality({u \in DOMAIN last.nodes : last.nodes[u].edges # <<>>})
     /\ Cardinality(last.live) <= room /\ FreeGraph(last) = {}
     /\ ~added(last, <<n, [to |-> 0, weight |-> 1]>>).ok /\ ~added(last, <<0, [to |-> n, weight |-> 1]>>).ok
     /\ \A a \in DOMAIN last.nodes, b \in DOMAIN last.nodes :
          LET both == AddBiEdge(last, a, b, 1, room)
              more == {u \in DOMAIN last.nodes : both.graph.nodes[u].edges # last.nodes[u].edges}
          IN /\ both.ok => more = {a, b}
             /\ ~both.ok => more \subseteq {a} \/ more \subseteq {b}
             /\ FreeGraph(both.graph) = {}

\* algo/dijkstra.h:42: no path is answered when there is none, and only then.
ReachableIsAnswered(graph, n, start, goal) ==
  ShortestPath(graph, n, start, goal, n).nodes = <<>> <=> Distances(graph, n, start)[goal] = Infinity

-----------------------------------------------------------------------------
(* Syntax trees *)

CONSTANT NodesMax   \* the most nodes there is memory for

None == -1
NoNodes == [nodes |-> <<>>, root |-> None]

At(t, n) == t.nodes[n + 1]

RECURSIVE LastSibling(_, _), Preorder(_, _, _), PreorderFrom(_, _, _), Postorder(_, _, _),
          PostorderFrom(_, _, _), FindFrom(_, _, _, _)

LastSibling(t, n) == IF At(t, n).next = None THEN n ELSE LastSibling(t, At(t, n).next)

\* A node hung behind the last child of its parent.
Linked(t, parent, n) ==
  IF At(t, parent).first = None
  THEN [t EXCEPT !.nodes[parent + 1].first = n, !.nodes[parent + 1].children = @ + 1]
  ELSE LET last == LastSibling(t, At(t, parent).first) IN
       [t EXCEPT !.nodes[last + 1].next = n, !.nodes[n + 1].prev = last,
                 !.nodes[parent + 1].children = @ + 1]

NewNode(parent, kind, span) ==
  [parent |-> parent, kind |-> kind, span |-> span, first |-> None, next |-> None, prev |-> None,
   children |-> 0]

\* TreeSitTree_add_node: the first node without a parent is the root; later ones,
\* and nodes of a parent that does not exist, are kept but hang nowhere.
AddNode(t, parent, kind, span) ==
  IF Len(t.nodes) >= NodesMax THEN t
  ELSE LET n == Len(t.nodes)
           added == [t EXCEPT !.nodes = Append(@, NewNode(parent, kind, span))]
       IN IF parent < 0 THEN [added EXCEPT !.root = IF @ < 0 THEN n ELSE @]
          ELSE IF parent < n THEN Linked(added, parent, n) ELSE added

\* walk_preorder_rec and walk_postorder_rec: the visits, <<node, depth>>, from a
\* node down, and from a child on along its siblings.
Preorder(t, n, depth) == <<<<n, depth>>>> \o PreorderFrom(t, At(t, n).first, depth + 1)
PreorderFrom(t, n, depth) ==
  IF n = None THEN <<>> ELSE Preorder(t, n, depth) \o PreorderFrom(t, At(t, n).next, depth)
Postorder(t, n, depth) == PostorderFrom(t, At(t, n).first, depth + 1) \o <<<<n, depth>>>>
PostorderFrom(t, n, depth) ==
  IF n = None THEN <<>> ELSE Postorder(t, n, depth) \o PostorderFrom(t, At(t, n).next, depth)

\* TreeSitTree_walk_preorder and walk_postorder: no root, no visit.
WalkPreorder(t) == IF t.root < 0 THEN <<>> ELSE Preorder(t, t.root, 0)
WalkPostorder(t) == IF t.root < 0 THEN <<>> ELSE Postorder(t, t.root, 0)

\* A span has both its ends.
Covers(t, n, byte) == At(t, n).span[1] <= byte /\ byte <= At(t, n).span[2]

\* TreeSitTree_find_by_byte: down into the first sibling that covers the byte.
FindFrom(t, n, byte, best) ==
  IF n = None THEN best
  ELSE IF Covers(t, n, byte) THEN FindFrom(t, At(t, n).first, byte, n)
  ELSE FindFrom(t, At(t, n).next, byte, best)
FindByByte(t, byte) == FindFrom(t, t.root, byte, None)

-----------------------------------------------------------------------------
\* The nodes that hang together with the root, by their parents alone.
Rooted(t) ==
  LET linked[n \in 0 .. Len(t.nodes) - 1] ==
        \/ n = t.root
        \/ At(t, n).parent \in 0 .. n - 1 /\ linked[At(t, n).parent]
  IN {n \in 0 .. Len(t.nodes) - 1 : linked[n]}
ParentOf(t, n) == At(t, n).parent
Position(walk, n) == CHOOSE i \in 1 .. Len(walk) : walk[i][1] = n

\* A walk meets each node under the root once, parents before their children
\* (or after them) and children in the order they were added, at the depth one
\* below their parent.
WalkIsOrdered(t, walk, parentsFirst) ==
  /\ {walk[i][1] : i \in 1 .. Len(walk)} = Rooted(t)
  /\ \A i, j \in 1 .. Len(walk) : walk[i][1] = walk[j][1] => i = j
  /\ \A n \in Rooted(t) \ {t.root} :
       LET i == Position(walk, n)  j == Position(walk, ParentOf(t, n)) IN
       /\ IF parentsFirst THEN j < i ELSE i < j
       /\ walk[i][2] = walk[j][2] + 1
       /\ \A m \in Rooted(t) \ {t.root} :
            m < n /\ ParentOf(t, m) = ParentOf(t, n) => Position(walk, m) < i

\* Both walks are ordered; a byte is found in a node that covers it, as do all
\* nodes above it and none of its children; what is linked is counted.
TreeAgrees(t, bytes) ==
  /\ WalkIsOrdered(t, WalkPreorder(t), TRUE)
  /\ WalkIsOrdered(t, WalkPostorder(t), FALSE)
  /\ \A n \in Rooted(t) : At(t, n).children = Len(SelectSeq(t.nodes, LAMBDA x : x.parent = n))
  /\ \A byte \in bytes :
       LET n == FindByByte(t, byte) IN
       IF n = None THEN t.root < 0 \/ ~Covers(t, t.root, byte)
       ELSE /\ \A i \in 1 .. Len(WalkPreorder(t)) :
                 LET m == WalkPreorder(t)[i][1] IN
                 m # t.root /\ ParentOf(t, m) = n => ~Covers(t, m, byte)
            /\ LET above[m \in 0 .. n] ==
                     Covers(t, m, byte) /\ (m = t.root \/ above[ParentOf(t, m)])
               IN above[n]
=============================================================================

------------------------------ MODULE Geometry ------------------------------
(***************************************************************************)
(* lang/mat4.c, lang/vec3/vec3.c, math/coord_frame.c, lang/rect/rectangle.c, *)
(* lang/vec2/vec2.c, lang/vec4/vec4.c and lang/point/point.c over the        *)
(* integers: rounding is left out, an angle is a number of quarter turns and *)
(* only vectors along an axis are made unit vectors, so that every sine,     *)
(* cosine and length is whole.                                               *)
(*                                                                         *)
(* A matrix is its 16 numbers, column after column.  The operations that    *)
(* may write where they read from work on mem, the operands by their slots. *)
(***************************************************************************)
EXTENDS Integers, Sequences

Sign(i) == IF i > 0 THEN 1 ELSE IF i < 0 THEN -1 ELSE 0
Lower(i, j) == IF i < j THEN i ELSE j
Upper(i, j) == IF i > j THEN i ELSE j
Cos(q) == CASE q % 4 = 0 -> 1 [] q % 4 = 2 -> -1 [] OTHER -> 0
Sin(q) == Cos(q - 1)

-----------------------------------------------------------------------------
(* vec3.c: the directions are right, up and front, in any frame. *)

Axes3 == 1 .. 3
Add(a, b) == [i \in Axes3 |-> a[i] + b[i]]
Sub(a, b) == [i \in Axes3 |-> a[i] - b[i]]
Mul(a, k) == [i \in Axes3 |-> a[i] * k]
Dot(a, b) == a[1] * b[1] + a[2] * b[2] + a[3] * b[3]
LengthSquared(v) == Dot(v, v)
Cross(a, b) == <<a[2] * b[3] - a[3] * b[2], a[3] * b[1] - a[1] * b[3], a[1] * b[2] - a[2] * b[1]>>
Zero3 == <<0, 0, 0>>
\* Vec3_normalize: what has no length stays zero.
Unit(v) == [i \in Axes3 |-> Sign(v[i])]
Project(v, onto) ==
  IF onto = Zero3 THEN Zero3 ELSE [i \in Axes3 |-> (Dot(v, onto) * onto[i]) \div LengthSquared(onto)]
Reflect(v, normal) == Sub(v, Mul(normal, 2 * Dot(v, normal)))
Clamp(v, low, high) == [i \in Axes3 |-> IF v[i] < low THEN low ELSE IF v[i] > high THEN high ELSE v[i]]
Lerp(a, b, t) == Add(a, Mul(Sub(b, a), t))
\* Vec3_div, where the quotients are whole: nothing is divided by zero.
Div(a, k, old) == IF k = 0 THEN old ELSE [i \in Axes3 |-> a[i] \div k]
Abs3(v) == [i \in Axes3 |-> IF v[i] < 0 THEN -v[i] ELSE v[i]]
\* Vec3_distance, squared, and Vec3_angle between vectors along axes, in quarter turns.
DistanceSquared(a, b) == LengthSquared(Sub(a, b))
Angle(a, b) == IF a = Zero3 \/ b = Zero3 THEN 0 ELSE 1 - Sign(Dot(a, b))

\* coord_frame.c: where x, y and z of each frame are among the directions, from 0.
Bases ==
  << <<<<0, 1, 2>>, <<1, 1, 1>>>>,  <<<<0, 1, 2>>, <<1, 1, -1>>>>,
     <<<<2, 0, 1>>, <<1, 1, 1>>>>,  <<<<0, 2, 1>>, <<1, 1, 1>>>>,
     <<<<1, 2, 0>>, <<1, 1, 1>>>>,  <<<<1, 0, 2>>, <<1, 1, 1>>>>,
     <<<<0, 1, 2>>, <<1, -1, 1>>>>, <<<<0, 1, 2>>, <<1, -1, -1>>>>,
     <<<<2, 0, 1>>, <<1, 1, -1>>>>, <<<<0, 2, 1>>, <<1, 1, -1>>>>,
     <<<<1, 2, 0>>, <<-1, 1, 1>>>>, <<<<1, 0, 2>>, <<-1, 1, 1>>>> >>
Frames == 0 .. 11
AxisIndex(f, c) == Bases[f + 1][1][c] + 1
AxisSign(f, c) == Bases[f + 1][2][c]
InFrame(v, f, c) == AxisSign(f, c) * v[AxisIndex(f, c)]
\* Vec3_setX, setY and setZ.
SetInFrame(v, f, c, k) == [v EXCEPT ![AxisIndex(f, c)] = k * AxisSign(f, c)]
ReadIn(v, f) == [c \in Axes3 |-> InFrame(v, f, c)]

\* Vec3_4: a vector that knows its frame; one that is none is the default.
DefaultFrame == 0
Spot(v, f) == [data |-> v, frame |-> IF f \in Frames THEN f ELSE DefaultFrame]
SetFrame(s, f) == IF f \in Frames THEN [s EXCEPT !.frame = f] ELSE s
ToFrame(s, f) == Spot(s.data, f)
\* Vec3_getX, getY and getZ.
Coordinate(s, c) == InFrame(s.data, s.frame, c)

\* The getters and the setters of the directions, which vec2.c and vec4.c have too.
Directions ==
  [right |-> <<1, 1>>, left |-> <<1, -1>>, up |-> <<2, 1>>, down |-> <<2, -1>>, front |-> <<3, 1>>, back |-> <<3, -1>>]
Toward(v, d) == Directions[d][2] * v[Directions[d][1]]
SetToward(v, d, k) == [v EXCEPT ![Directions[d][1]] = Directions[d][2] * k]
Opposite == [right |-> "left", left |-> "right", up |-> "down", down |-> "up", front |-> "back", back |-> "front"]
\* Vec2_getYInFrame: on a screen y grows downwards.
PlaneY(v, screen) == IF screen THEN -v[2] ELSE v[2]

\* Whatever the frame, its coordinates can be set one by one and read again; half of
\* the frames mirror the directions, and down instead of up mirrors them once more.
Handed(f) == Dot(Cross(ReadIn(<<1, 0, 0>>, f), ReadIn(<<0, 1, 0>>, f)), ReadIn(<<0, 0, 1>>, f))
FramesAgree(v, w) ==
  \A f \in Frames :
    LET set == SetInFrame(SetInFrame(SetInFrame(v, f, 1, w[1]), f, 2, w[2]), f, 3, w[3]) IN
    /\ ReadIn(set, f) = w
    /\ Dot(ReadIn(v, f), ReadIn(w, f)) = Dot(v, w)
    /\ Handed(f) = IF (f % 2 = 0) = (f < 6) THEN 1 ELSE -1
    /\ ReadIn(<<0, 1, 0>>, f)[<<2, 3, 1>>[((f % 6) \div 2) + 1]] = (IF f < 6 THEN 1 ELSE -1)

\* What is left beside a projection stands upright on it; a mirror undoes itself; a
\* cross product stands upright on both and turns with their order.
VectorsAgree(v, w) ==
  LET c == Cross(v, w)
      n == Unit(w)
      upright == Sub(v, Project(v, w))
      along == LengthSquared(n) <= 1   \* w is along an axis
  IN /\ Dot(c, v) = 0 /\ Dot(c, w) = 0 /\ Cross(w, v) = Mul(c, -1)
     /\ LengthSquared(c) + Dot(v, w) * Dot(v, w) = LengthSquared(v) * LengthSquared(w)
     /\ along => /\ Dot(upright, w) = 0
                 /\ Reflect(Reflect(v, n), n) = v
                 /\ w # Zero3 => Add(upright, Mul(n, Dot(v, n))) = v
     /\ Lerp(v, w, 0) = v /\ Lerp(v, w, 1) = w
     /\ \A k \in Axes3 : Clamp(v, -1, 1)[k] \in -1 .. 1
     /\ Div(Mul(v, 3), 3, w) = v /\ Div(v, 0, w) = w
     /\ DistanceSquared(v, w) = LengthSquared(v) + LengthSquared(w) - 2 * Dot(v, w)
     /\ \A k \in Axes3 : Abs3(v)[k] >= v[k] /\ Abs3(v)[k] >= -v[k] /\ Abs3(v)[k] \in {v[k], -v[k]}
     /\ LengthSquared(w) = 1 /\ LengthSquared(c) = 0 /\ v # Zero3 => Angle(v, w) \in {0, 2} /\ Angle(Mul(w, -1), w) = 2

\* What a vector says of a direction is the same in every frame, and one that is no
\* frame changes nothing; a direction and its opposite are one number and its negative.
SpotsAgree(v, w) ==
  \A f \in Frames \cup {12} :
    LET s == Spot(v, f)
        set == SetInFrame(v, s.frame, 2, w[2])
    IN /\ SetFrame(s, 12) = s /\ s.frame \in Frames
       /\ \A g \in Frames : ToFrame(ToFrame(s, g), s.frame) = s /\ ToFrame(s, g) = SetFrame(s, g)
       /\ \A c \in Axes3 : Coordinate(s, c) = ReadIn(v, s.frame)[c]
       /\ \A d \in DOMAIN Directions :
            /\ Toward(SetToward(v, d, w[1]), d) = w[1]
            /\ Toward(SetToward(v, d, w[1]), Opposite[d]) = -w[1]
            /\ \A e \in DOMAIN Directions \ {d, Opposite[d]} : Toward(SetToward(v, d, w[1]), e) = Toward(v, e)
       \* Only the direction that y stands for has moved.
       /\ Coordinate(Spot(set, f), 2) = w[2] /\ Coordinate(Spot(set, f), 1) = Coordinate(s, 1)
       /\ s.frame = DefaultFrame => \A screen \in BOOLEAN :
            PlaneY(v, screen) = Toward(v, IF screen THEN "down" ELSE "up")
            /\ Coordinate(s, 2) = PlaneY(v, FALSE)

-----------------------------------------------------------------------------
(* vec2.c, vec4.c and point.c write a result component by component, and it may go  *)
(* where an operand lies: mem holds the vectors by their slots, a and b are the     *)
(* slots of the operands, k is a number and dest is where the result goes.          *)

\* Each component is taken from the memory that the ones before it left.
Written(mem, dest, Component(_, _)) ==
  LET after[i \in 0 .. Len(mem[dest])] ==
        IF i = 0 THEN mem ELSE [after[i - 1] EXCEPT ![dest][i] = Component(after[i - 1], i)]
  IN after[Len(mem[dest])]

\* A variant for checking: the components are not saved first.
PerpendicularUnsaved(mem, a, dest) == Written(mem, dest, LAMBDA m, i : IF i = 1 THEN -m[a][2] ELSE m[a][1])
\* Vec2_perpendicular
Perpendicular(mem, a, dest) == [mem EXCEPT ![dest] = <<-mem[a][2], mem[a][1]>>]

\* Vec4_copy to Vec4_lerp, those of vec2.c and point.c of the same names too; a vector
\* along an axis is made a unit vector.
Into(op, mem, a, b, k, dest) ==
  CASE op = "copy" -> Written(mem, dest, LAMBDA m, i : m[a][i])
    [] op = "add" -> Written(mem, dest, LAMBDA m, i : m[a][i] + m[b][i])
    [] op = "sub" -> Written(mem, dest, LAMBDA m, i : m[a][i] - m[b][i])
    [] op = "mul" -> Written(mem, dest, LAMBDA m, i : m[a][i] * k)
    [] op = "div" -> IF k = 0 THEN mem ELSE Written(mem, dest, LAMBDA m, i : m[a][i] \div k)
    [] op = "unit" -> Written(mem, dest, LAMBDA m, i : Sign(m[a][i]))
    [] op = "lerp" -> Written(mem, dest, LAMBDA m, i : m[a][i] + k * (m[b][i] - m[a][i]))
\* Point_negate, Point_min and Point_max.
PointInto(op, mem, a, b, dest) ==
  Written(mem, dest, LAMBDA m, i : CASE op = "negate" -> -m[a][i]
                                     [] op = "min" -> Lower(m[a][i], m[b][i])
                                     [] op = "max" -> Upper(m[a][i], m[b][i]))
PointDistance(p, q) ==
  LET d == <<p[1] - q[1], p[2] - q[2]>> IN
  [squared |-> d[1] * d[1] + d[2] * d[2], manhattan |-> Upper(d[1], -d[1]) + Upper(d[2], -d[2])]

\* An operation answers the same wherever its result goes: beside its operands, over
\* one of them or over the one vector that is both.
InPlaceAgrees(Op(_, _, _, _), a, b) ==
  LET aside(x, y) == Op(<<x, y, a>>, 1, 2, 3)[3] IN
  /\ \A dest \in 1 .. 2 : Op(<<a, b>>, 1, 2, dest) = [<<a, b>> EXCEPT ![dest] = aside(a, b)]
  /\ Op(<<a>>, 1, 1, 1)[1] = aside(a, a)

InPlaceOperations == {"copy", "add", "sub", "mul", "unit", "lerp"}
PlacesAgree(a, b, k) ==
  LET Answer(op, x, y, n) == Into(op, <<x, y, a>>, 1, 2, n, 3)[3]
      p == <<a[1], a[2]>>
      q == <<b[1], b[2]>>
      d == PointDistance(p, q)
      least == PointInto("min", <<p, q>>, 1, 2, 1)[1]
      most == PointInto("max", <<p, q>>, 1, 2, 2)[2]
  IN /\ \A op \in InPlaceOperations : InPlaceAgrees(LAMBDA mem, x, y, dest : Into(op, mem, x, y, k, dest), a, b)
     /\ InPlaceAgrees(LAMBDA mem, x, y, dest : Perpendicular(mem, x, dest), p, q)
     /\ \A op \in {"negate", "min", "max"} : InPlaceAgrees(LAMBDA mem, x, y, dest : PointInto(op, mem, x, y, dest), p, q)
     /\ Answer("sub", Answer("add", a, b, k), b, k) = a
     /\ Answer("div", Answer("mul", a, b, k), b, k) = a
     /\ Answer("lerp", a, b, 0) = a /\ Answer("lerp", a, b, 1) = b
     /\ Answer("lerp", a, b, k) = Answer("sub", a, Answer("mul", Answer("sub", a, b, k), b, k), k)
     /\ Perpendicular(Perpendicular(<<p, q>>, 1, 2), 2, 2)[2] = PointInto("negate", <<p>>, 1, 1, 1)[1]
     \* The corners of the rectangle of two points are as far apart as they are.
     /\ PointDistance(least, most) = d
     /\ d.squared <= d.manhattan * d.manhattan /\ d.manhattan * d.manhattan <= 2 * d.squared

-----------------------------------------------------------------------------
(* mat4.c *)

Cells == 0 .. 15
At(m, row, col) == m[col * 4 + row]
Rows(r) == [i \in Cells |-> r[(i % 4) + 1][i \div 4 + 1]]
Identity == [i \in Cells |-> IF i % 5 = 0 THEN 1 ELSE 0]

\* A variant of Multiply: the left matrix is read again for every column.
MultiplyRereads(mem, left, right, dest) ==
  LET after[k \in 0 .. 4] ==
        IF k = 0 THEN mem
        ELSE LET m == after[k - 1][left]
                 r == [row \in 0 .. 3 |-> At(after[k - 1][right], row, k - 1)]
             IN [after[k - 1] EXCEPT ![dest] = [i \in Cells |->
                   IF i \div 4 # k - 1 THEN @[i]
                   ELSE At(m, i % 4, 0) * r[0] + At(m, i % 4, 1) * r[1] + At(m, i % 4, 2) * r[2] + At(m, i % 4, 3) * r[3]]]
  IN after[4]

Multiply(mem, left, right, dest) ==
  LET m == mem[left]
      after[k \in 0 .. 4] ==   \* when k columns are done
        IF k = 0 THEN mem
        ELSE LET r == [row \in 0 .. 3 |-> At(after[k - 1][right], row, k - 1)] IN
             [after[k - 1] EXCEPT ![dest] = [i \in Cells |->
                IF i \div 4 # k - 1 THEN @[i]
                ELSE At(m, i % 4, 0) * r[0] + At(m, i % 4, 1) * r[1] + At(m, i % 4, 2) * r[2] + At(m, i % 4, 3) * r[3]]]
  IN after[4]

\* In place, the pairs of cells 1 and 4, 2 and 8, ... are exchanged.
Transpose(mem, src, dest) == [mem EXCEPT ![dest] = [i \in Cells |-> At(mem[src], i \div 4, i % 4)]]
Transform(m, v) ==
  [row \in 1 .. 4 |-> At(m, row - 1, 0) * v[1] + At(m, row - 1, 1) * v[2] + At(m, row - 1, 2) * v[3] + At(m, row - 1, 3) * v[4]]
TransformVec3(m, v) ==
  [row \in Axes3 |-> At(m, row - 1, 0) * v[1] + At(m, row - 1, 1) * v[2] + At(m, row - 1, 2) * v[3] + At(m, row - 1, 3)]
Translate(m, t) ==
  [i \in Cells |-> IF i < 12 THEN m[i]
                   ELSE At(m, i % 4, 0) * t[1] + At(m, i % 4, 1) * t[2] + At(m, i % 4, 2) * t[3] + At(m, i % 4, 3)]
Scale(m, s) == [i \in Cells |-> IF i < 12 THEN m[i] * s[i \div 4 + 1] ELSE m[i]]

\* Mat4_rotate: about no axis, dest is left as it is.
Rotate(m, q, axis, old) ==
  LET a == Unit(axis)
      c == Cos(q)
      s == Sin(q)
      nc == 1 - c
      r == << <<a[1] * a[1] * nc + c, a[1] * a[2] * nc - a[3] * s, a[3] * a[1] * nc + a[2] * s>>,
              <<a[1] * a[2] * nc + a[3] * s, a[2] * a[2] * nc + c, a[2] * a[3] * nc - a[1] * s>>,
              <<a[3] * a[1] * nc - a[2] * s, a[2] * a[3] * nc + a[1] * s, a[3] * a[3] * nc + c>> >>
  IN IF axis = Zero3 THEN old
     ELSE [i \in Cells |->
             IF i >= 12 THEN m[i]
             ELSE At(m, i % 4, 0) * r[1][i \div 4 + 1] + At(m, i % 4, 1) * r[2][i \div 4 + 1] + At(m, i % 4, 2) * r[3][i \div 4 + 1]]

\* Mat4_createTransformationMatrix and its plane form.
Transformation(pos, q, s) ==
  LET cx == Cos(q[1])   sx == Sin(q[1])
      cy == Cos(q[2])   sy == Sin(q[2])
      cz == Cos(q[3])   sz == Sin(q[3])
  IN Rows(<< <<cy * cz * s[1], (sx * sy * cz - cx * sz) * s[2], (cx * sy * cz + sx * sz) * s[3], pos[1]>>,
             <<cy * sz * s[1], (sx * sy * sz + cx * cz) * s[2], (cx * sy * sz - sx * cz) * s[3], pos[2]>>,
             <<-sy * s[1],     sx * cy * s[2],                  cx * cy * s[3],                  pos[3]>>,
             <<0, 0, 0, 1>> >>)
Transformation2D(pos, q, s) ==
  Rows(<< <<Cos(q) * s[1], -Sin(q) * s[2], 0, pos[1]>>, <<Sin(q) * s[1], Cos(q) * s[2], 0, pos[2]>>,
          <<0, 0, 1, 0>>, <<0, 0, 0, 1>> >>)

\* Mat4_createViewMatrix, for vectors from the left: its last row moves.
View(pos, pitch, yaw) ==
  LET cp == Cos(pitch)  sp == Sin(pitch)
      cy == Cos(yaw)    sy == Sin(yaw)
      r == << <<cy, sy * sp, sy * cp>>, <<0, cp, -sp>>, <<-sy, cy * sp, cy * cp>> >>
      back(k) == -(r[1][k] * pos[1] + r[2][k] * pos[2] + r[3][k] * pos[3])
  IN Rows(<<Append(r[1], 0), Append(r[2], 0), Append(r[3], 0), <<back(1), back(2), back(3), 1>>>>)

LookAt(eye, target, up) ==
  LET f == Unit(Sub(eye, target))
      r == Unit(Cross(up, f))
      u == Cross(f, r)
  IN Rows(<<Append(r, -Dot(r, eye)), Append(u, -Dot(u, eye)), Append(f, -Dot(f, eye)), <<0, 0, 0, 1>>>>)

\* For a square picture at a right angle.
Perspective(near, far) ==
  Rows(<< <<1, 0, 0, 0>>, <<0, 1, 0, 0>>,
          <<0, 0, -((far + near) \div (far - near)), -((2 * far * near) \div (far - near))>>, <<0, 0, -1, 0>> >>)
PerspectiveVulkan(near, far) ==
  Rows(<< <<1, 0, 0, 0>>, <<0, -1, 0, 0>>,
          <<0, 0, far \div (near - far), (near * far) \div (near - far)>>, <<0, 0, -1, 0>> >>)
Orthographic(low, high) ==
  LET scale(i) == 2 \div (high[i] - low[i])
      middle(i) == -((high[i] + low[i]) \div (high[i] - low[i]))
  IN Rows(<< <<scale(1), 0, 0, middle(1)>>, <<0, scale(2), 0, middle(2)>>,
             <<0, 0, -scale(3), middle(3)>>, <<0, 0, 0, 1>> >>)

-----------------------------------------------------------------------------
Product(a, b) == Multiply(<<a, b, Identity>>, 1, 2, 3)[3]
Homogeneous(v) == Append(v, 1)
Flipped(m) == Transpose(<<m>>, 1, 1)[1]

\* A product applied is its factors applied one after the other, also when it is
\* written over one of them, and its transpose is the other way round.
ProductsAgree(a, b, v) ==
  LET mem == <<a, b, Identity>>
      ab == Product(a, b)
  IN /\ Transform(ab, v) = Transform(a, Transform(b, v))
     /\ Multiply(mem, 1, 2, 1)[1] = ab /\ Multiply(mem, 1, 2, 2)[2] = ab
     /\ Multiply(mem, 1, 1, 1)[1] = Product(a, a)
     /\ Flipped(ab) = Product(Flipped(b), Flipped(a))
     /\ Transpose(mem, 1, 3)[3] = Flipped(a) /\ Flipped(Flipped(a)) = a

\* A transformation scales, turns about x, y and z and moves, in this order, as the
\* single steps do when they are added to one matrix from the last to the first.
StepsAgree(pos, q, s, v) ==
  LET t == Transformation(pos, q, s)
      turned == Rotate(Rotate(Rotate(Translate(Identity, pos), q[3], <<0, 0, 2>>, Identity),
                              q[2], <<0, 1, 0>>, Identity), q[1], <<3, 0, 0>>, Identity)
      m == Scale(turned, s)
      flat == <<q[1], 0, 0>>
  IN /\ t = m
     /\ TransformVec3(t, v) = SubSeq(Transform(t, Homogeneous(v)), 1, 3)
     /\ Sub(TransformVec3(turned, v), pos) = TransformVec3(Rotate(Rotate(Rotate(Identity, q[3], <<0, 0, 1>>, Identity),
          q[2], <<0, 1, 0>>, Identity), q[1], <<1, 0, 0>>, Identity), v)
     /\ LengthSquared(Sub(TransformVec3(turned, v), pos)) = LengthSquared(v)
     /\ Rotate(m, q[1], Zero3, t) = t
     /\ Transformation2D(pos, q[3], s) = Transformation(<<pos[1], pos[2], 0>>, <<0, 0, q[3]>>, <<s[1], s[2], 1>>)

\* Where the eye stands is the origin of what it sees, and what it looks at is
\* straight ahead; up is not aside.  For the view matrix, vectors go from the left.
CamerasAgree(eye, ahead, up, pitch, yaw, v) ==
  LET look == LookAt(eye, Add(eye, ahead), up)
      seen == TransformVec3(look, Add(eye, ahead))
      upright == TransformVec3(look, Add(eye, up))
      view == Flipped(View(eye, pitch, yaw))
  IN /\ TransformVec3(look, eye) = Zero3
     /\ Cross(up, ahead) # Zero3 =>
          /\ seen[1] = 0 /\ seen[2] = 0 /\ seen[3] < 0
          /\ upright[1] = 0 /\ upright[2] > 0
          /\ LengthSquared(TransformVec3(look, Add(eye, v))) = LengthSquared(v)
     /\ TransformVec3(view, eye) = Zero3
     /\ LengthSquared(TransformVec3(view, Add(eye, v))) = LengthSquared(v)

\* The faces of what is seen are those of the cube it is shown in.
LensesAgree(near, width, low, high) ==
  LET far == near + width
      seen == Perspective(near, far)
      vulkan == PerspectiveVulkan(near, near + 1)
      flat == Orthographic(low, high)
      face(m, z) == LET p == Transform(m, <<z, z, -z, 1>>) IN <<p[1] = p[4], p[2], p[3], p[4]>>
  IN /\ face(seen, near) = <<TRUE, near, -near, near>> /\ face(seen, far) = <<TRUE, far, far, far>>
     /\ face(vulkan, near) = <<TRUE, -near, 0, near>>
     /\ face(vulkan, near + 1) = <<TRUE, -(near + 1), near + 1, near + 1>>
     /\ TransformVec3(flat, <<low[1], low[2], -low[3]>>) = <<-1, -1, -1>>
     /\ TransformVec3(flat, <<high[1], high[2], -high[3]>>) = <<1, 1, 1>>

-----------------------------------------------------------------------------
(* rectangle.c *)

Rectangle(x, y, w, h) == [x |-> x, y |-> y, w |-> w, h |-> h]
Right(r) == r.x + r.w
Bottom(r) == r.y + r.h
Nowhere == Rectangle(0, 0, 0, 0)
Moved(r, dx, dy) == Rectangle(r.x + dx, r.y + dy, r.w, r.h)
Inflate(r, dx, dy) == Rectangle(r.x - dx, r.y - dy, r.w + dx + dx, r.h + dy + dy)
Inset(r, left, top, right, bottom) ==
  Rectangle(r.x + left, r.y + top, Upper(0, r.w - left - right), Upper(0, r.h - top - bottom))
Intersection(a, b) ==
  LET l == Upper(a.x, b.x)
      t == Upper(a.y, b.y)
      r == Lower(Right(a), Right(b))
      bot == Lower(Bottom(a), Bottom(b))
  IN IF r <= l \/ bot <= t THEN Nowhere ELSE Rectangle(l, t, r - l, bot - t)
Merge(a, b) ==
  LET l == Lower(a.x, b.x)
      t == Lower(a.y, b.y)
  IN Rectangle(l, t, Upper(Right(a), Right(b)) - l, Upper(Bottom(a), Bottom(b)) - t)
IsEmpty(r) == r.w <= 0 \/ r.h <= 0
ContainsPoint(r, x, y) == x >= r.x /\ y >= r.y /\ x <= Right(r) /\ y <= Bottom(r)
ContainsRect(a, b) == b.x >= a.x /\ b.y >= a.y /\ Right(b) <= Right(a) /\ Bottom(b) <= Bottom(a)
Intersects(a, b) == Right(a) > b.x /\ Right(b) > a.x /\ Bottom(a) > b.y /\ Bottom(b) > a.y

\* As sets of unit squares: an intersection holds those of both, a merge is the
\* least rectangle that holds those of either, and the tests are about them.
Squares(r) == {<<x, y>> \in (-1 .. 5) \X (-1 .. 5) : x >= r.x /\ y >= r.y /\ x < Right(r) /\ y < Bottom(r)}
RectanglesAgree(a, b) ==
  LET i == Intersection(a, b)
      m == Merge(a, b)
  IN /\ Squares(i) = Squares(a) \cap Squares(b)
     /\ (~IsEmpty(a) /\ ~IsEmpty(b)) => Intersects(a, b) = (Squares(i) # {})
     /\ IsEmpty(a) = (Squares(a) = {})
     \* What holds of two rectangles holds when they are moved together.
     /\ LET far(r) == Moved(r, 3, -2) IN
          /\ i # Nowhere => Intersection(far(a), far(b)) = far(i)
          /\ Intersects(far(a), far(b)) = Intersects(a, b) /\ ContainsRect(far(a), far(b)) = ContainsRect(a, b)
          /\ Merge(far(a), far(b)) = far(m)
     /\ ContainsRect(m, a) /\ ContainsRect(m, b)
     /\ ContainsRect(a, b) = (m = a)
     /\ ~IsEmpty(b) => ContainsRect(a, b) = (Squares(b) \subseteq Squares(a))
     /\ ~IsEmpty(a) => \A x \in 0 .. 4, y \in 0 .. 4 :
          ContainsPoint(a, x, y) = (\E p \in Squares(a) : x - p[1] \in {0, 1} /\ y - p[2] \in {0, 1})
     /\ Inset(Inflate(a, 1, 2), 1, 2, 1, 2) = Rectangle(a.x, a.y, Upper(a.w, 0), Upper(a.h, 0))
=============================================================================

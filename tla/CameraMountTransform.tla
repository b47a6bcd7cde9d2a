------------------------- MODULE CameraMountTransform -------------------------
(***************************************************************************)
(* The fixed transform from the camera's optical frame to its mount        *)
(* (src/geometry/camera_mount_transform.cpp).  A matrix is a tuple of four *)
(* rows.  Angles are whole quarter turns, where sine and cosine are        *)
(* integers and every product below is exact: the tolerances of the code   *)
(* then compare with zero.  Lengths are millimetres.                       *)
(***************************************************************************)
EXTENDS Integers, Sequences

Axes == {"X", "Y", "Z"}
QuarterTurns == 0..3

\* std::cos and std::sin of so many quarter turns.
Cosine(turns) == <<1, 0, -1, 0>>[turns + 1]
Sine(turns) == <<0, 1, 0, -1>>[turns + 1]

MakeIdentityMatrix == <<<<1, 0, 0, 0>>, <<0, 1, 0, 0>>, <<0, 0, 1, 0>>, <<0, 0, 0, 1>>>>

MultiplyMatrices(lhs, rhs) ==
  [row \in 1..4 |-> [column \in 1..4 |->
    lhs[row][1] * rhs[1][column] + lhs[row][2] * rhs[2][column]
      + lhs[row][3] * rhs[3][column] + lhs[row][4] * rhs[4][column]]]

MakeAxisRotation(axis, turns) ==
  LET c == Cosine(turns)
      s == Sine(turns)
  IN CASE axis = "X" -> <<<<1, 0, 0, 0>>, <<0, c, -s, 0>>, <<0, s, c, 0>>, <<0, 0, 0, 1>>>>
       [] axis = "Y" -> <<<<c, 0, s, 0>>, <<0, 1, 0, 0>>, <<-s, 0, c, 0>>, <<0, 0, 0, 1>>>>
       [] axis = "Z" -> <<<<c, -s, 0, 0>>, <<s, c, 0, 0>>, <<0, 0, 1, 0>>, <<0, 0, 0, 1>>>>

Dot(u, v) == u[1] * v[1] + u[2] * v[2] + u[3] * v[3]
Cross(u, v) == <<u[2] * v[3] - u[3] * v[2], u[3] * v[1] - u[1] * v[3], u[1] * v[2] - u[2] * v[1]>>

Determinant(m) == Dot(m[1], Cross(m[2], m[3]))

\* A rotation: orthonormal rows, of determinant one.
IsRotation(m) ==
  /\ \A row, column \in 1..3 : Dot(m[row], m[column]) = IF row = column THEN 1 ELSE 0
  /\ Determinant(m) = 1

\* validateMatrix does not throw.
ValidMatrix(m) == m[4] = <<0, 0, 0, 1>> /\ IsRotation(m)

CameraBodyFromCameraOptical ==
  <<<<1, 0, 0, 0>>, <<0, 0, 1, 0>>, <<0, -1, 0, 0>>, <<0, 0, 0, 1>>>>

\* Mutant of MountFromCameraOptical: each rotation is multiplied from the left.
MountWithFixedAxes(pose) ==
  LET rotation(i, m) == MultiplyMatrices(MakeAxisRotation(pose.axes[i], pose.turns[i]), m)
      body == rotation(3, rotation(2, rotation(1, MakeIdentityMatrix)))
      placed == [row \in 1..4 |-> IF row = 4 THEN body[4]
                                  ELSE [body[row] EXCEPT ![4] = pose.translation[row]]]
  IN MultiplyMatrices(placed, CameraBodyFromCameraOptical)

\* buildCameraMountTransform: pose has the translation, the angles and the axes.
MountFromCameraOptical(pose) ==
  LET rotation(i, m) == MultiplyMatrices(m, MakeAxisRotation(pose.axes[i], pose.turns[i]))
      body == rotation(3, rotation(2, rotation(1, MakeIdentityMatrix)))
      placed == [row \in 1..4 |-> IF row = 4 THEN body[4]
                                  ELSE [body[row] EXCEPT ![4] = pose.translation[row]]]
  IN MultiplyMatrices(placed, CameraBodyFromCameraOptical)

TransformCameraPointToMount(point, m) ==
  [row \in 1..3 |-> m[row][4] + Dot(m[row], point)]

\* buildMountFromCameraMatrix3x4: the first three rows, row by row.
Matrix3x4(m) == m[1] \o m[2] \o m[3]

-----------------------------------------------------------------------------
(***************************************************************************)
(* The reference: the rotations one after another, by the right-hand rule, *)
(* with no matrix.                                                          *)
(***************************************************************************)
UnitVector(axis) == CASE axis = "X" -> <<1, 0, 0>> [] axis = "Y" -> <<0, 1, 0>> [] axis = "Z" -> <<0, 0, 1>>

\* A quarter turn keeps the part along the axis and turns the rest.
QuarterTurn(axis, v) ==
  LET a == UnitVector(axis)
      turned == Cross(a, v)
  IN [i \in 1..3 |-> Dot(a, v) * a[i] + turned[i]]

Turned(axis, turns, v) ==
  CASE turns = 0 -> v
    [] turns = 1 -> QuarterTurn(axis, v)
    [] turns = 2 -> QuarterTurn(axis, QuarterTurn(axis, v))
    [] turns = 3 -> QuarterTurn(axis, QuarterTurn(axis, QuarterTurn(axis, v)))

\* Optical x is right, y down and z forward; body x is right, y forward and z up.
BodyPoint(point) == <<point[1], point[3], -point[2]>>

\* euler_type A1A2A3 is R_A1(r1) R_A2(r2) R_A3(r3): the third angle turns first.
PointInMount(pose, point) ==
  LET turn(i, v) == Turned(pose.axes[i], pose.turns[i], v)
      rotated == turn(1, turn(2, turn(3, BodyPoint(point))))
  IN [i \in 1..3 |-> rotated[i] + pose.translation[i]]
===============================================================================

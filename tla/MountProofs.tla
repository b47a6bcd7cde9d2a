------------------------------ MODULE MountProofs ------------------------------
(***************************************************************************)
(* Proofs about CameraMountTransform, for every mount whose angles are      *)
(* whole quarter turns.  Every rotation is a number of single quarter       *)
(* turns, and multiplying a matrix by one of those exchanges two of its     *)
(* columns and changes a sign.                                              *)
(***************************************************************************)
EXTENDS CameraMountTransform, TLAPS

Vectors == [1..3 -> Int]
Matrices == [1..4 -> [1..4 -> Int]]
Transforms == {m \in Matrices : ValidMatrix(m)}

\* The placements of parseVisionConfig: three axes, with their angles.
Poses ==
  [translation : Vectors, turns : [1..3 -> QuarterTurns], axes : [1..3 -> Axes]]

\* The rotation that buildCameraMountTransform multiplies m by.
Rotated(m, axis, turns) == MultiplyMatrices(m, MakeAxisRotation(axis, turns))

\* The columns of the product of m and a quarter turn.
QuarterRotated(axis, m) ==
  [row \in 1..4 |->
     IF axis = "X" THEN <<m[row][1], m[row][3], -m[row][2], m[row][4]>>
     ELSE IF axis = "Y" THEN <<-m[row][3], m[row][2], m[row][1], m[row][4]>>
     ELSE <<m[row][2], -m[row][1], m[row][3], m[row][4]>>]

-----------------------------------------------------------------------------
(***************************************************************************)
(* A rotation of n quarter turns is n rotations of one.                    *)
(***************************************************************************)
\* The matrix that makeAxisRotation makes for each axis.
LEMMA AxisRotations ==
  ASSUME NEW t \in QuarterTurns
  PROVE  /\ MakeAxisRotation("X", t) =
              <<<<1, 0, 0, 0>>, <<0, Cosine(t), -Sine(t), 0>>,
                <<0, Sine(t), Cosine(t), 0>>, <<0, 0, 0, 1>>>>
         /\ MakeAxisRotation("Y", t) =
              <<<<Cosine(t), 0, Sine(t), 0>>, <<0, 1, 0, 0>>,
                <<-Sine(t), 0, Cosine(t), 0>>, <<0, 0, 0, 1>>>>
         /\ MakeAxisRotation("Z", t) =
              <<<<Cosine(t), -Sine(t), 0, 0>>, <<Sine(t), Cosine(t), 0, 0>>,
                <<0, 0, 1, 0>>, <<0, 0, 0, 1>>>>
BY DEF MakeAxisRotation

\* Cosine and sine of each angle.
LEMMA Angles ==
  /\ Cosine(0) = 1 /\ Sine(0) = 0
  /\ Cosine(1) = 0 /\ Sine(1) = 1
  /\ Cosine(2) = -1 /\ Sine(2) = 0
  /\ Cosine(3) = 0 /\ Sine(3) = -1
BY DEF Cosine, Sine

\* A rotation by no angle changes nothing.
LEMMA NoTurn ==
  ASSUME NEW m \in Matrices, NEW axis \in Axes
  PROVE  Rotated(m, axis, 0) = m
BY AxisRotations, Angles DEF Matrices, MultiplyMatrices, Rotated, QuarterTurns, Axes

\* A quarter turn more.
LEMMA OneTurnMore ==
  ASSUME NEW m \in Matrices, NEW axis \in Axes, NEW t \in 0..2
  PROVE  Rotated(m, axis, t + 1) = QuarterRotated(axis, Rotated(m, axis, t))
<1>1. CASE axis = "X" /\ t = 0
  BY <1>1, AxisRotations, Angles, SMTT(30)
     DEF Matrices, MultiplyMatrices, Rotated, QuarterTurns, QuarterRotated
<1>2. CASE axis = "X" /\ t = 1
  BY <1>2, AxisRotations, Angles, SMTT(30)
     DEF Matrices, MultiplyMatrices, Rotated, QuarterTurns, QuarterRotated
<1>3. CASE axis = "X" /\ t = 2
  BY <1>3, AxisRotations, Angles, SMTT(30)
     DEF Matrices, MultiplyMatrices, Rotated, QuarterTurns, QuarterRotated
<1>4. CASE axis = "Y"
  BY <1>4, AxisRotations, Angles, SMTT(30)
     DEF Matrices, MultiplyMatrices, Rotated, QuarterTurns, QuarterRotated
<1>5. CASE axis = "Z"
  BY <1>5, AxisRotations, Angles
     DEF Matrices, MultiplyMatrices, Rotated, QuarterTurns, QuarterRotated
<1>6. QED
  BY <1>1, <1>2, <1>3, <1>4, <1>5 DEF Axes

\* The products are integer matrices.
LEMMA RotatedType ==
  ASSUME NEW m \in Matrices, NEW axis \in Axes, NEW t \in QuarterTurns
  PROVE  Rotated(m, axis, t) \in Matrices
<1>1. ASSUME NEW n \in Matrices
      PROVE  QuarterRotated(axis, n) \in Matrices
  BY <1>1 DEF QuarterRotated, Matrices
<1>2. Rotated(m, axis, 0) \in Matrices
  BY NoTurn
<1>3. Rotated(m, axis, 1) \in Matrices
  BY <1>1, <1>2, OneTurnMore
<1>4. Rotated(m, axis, 2) \in Matrices
  BY <1>1, <1>3, OneTurnMore
<1>5. Rotated(m, axis, 3) \in Matrices
  BY <1>1, <1>4, OneTurnMore
<1>6. QED
  BY <1>2, <1>3, <1>4, <1>5 DEF QuarterTurns

-----------------------------------------------------------------------------
(***************************************************************************)
(* The product of a transform and a rotation is a transform.               *)
(***************************************************************************)
\* Dot products of rows do not change with the exchange of columns.
LEMMA DotProducts ==
  ASSUME NEW a1 \in Int, NEW a2 \in Int, NEW a3 \in Int,
         NEW b1 \in Int, NEW b2 \in Int, NEW b3 \in Int
  PROVE  /\ a1 * b1 + a3 * b3 + (-a2) * (-b2) = a1 * b1 + a2 * b2 + a3 * b3
         /\ (-a3) * (-b3) + a2 * b2 + a1 * b1 = a1 * b1 + a2 * b2 + a3 * b3
         /\ a2 * b2 + (-a1) * (-b1) + a3 * b3 = a1 * b1 + a2 * b2 + a3 * b3
OBVIOUS

\* Neither does the determinant, for the sign makes up for the exchange.
LEMMA Determinants ==
  ASSUME NEW a1 \in Int, NEW a2 \in Int, NEW a3 \in Int,
         NEW b1 \in Int, NEW b2 \in Int, NEW b3 \in Int,
         NEW c1 \in Int, NEW c2 \in Int, NEW c3 \in Int
  PROVE  LET det(x1, x2, x3, y1, y2, y3, z1, z2, z3) ==
               x1 * (y2 * z3 - y3 * z2) + x2 * (y3 * z1 - y1 * z3) + x3 * (y1 * z2 - y2 * z1)
             value == det(a1, a2, a3, b1, b2, b3, c1, c2, c3)
         IN /\ det(a1, a3, -a2, b1, b3, -b2, c1, c3, -c2) = value
            /\ det(-a3, a2, a1, -b3, b2, b1, -c3, c2, c1) = value
            /\ det(a2, -a1, a3, b2, -b1, b3, c2, -c1, c3) = value
OBVIOUS

\* A quarter turn keeps the rows orthonormal and the determinant one.
LEMMA QuarterTurnIsTransform ==
  ASSUME NEW m \in Transforms, NEW axis \in Axes
  PROVE  QuarterRotated(axis, m) \in Transforms
<1> DEFINE p == QuarterRotated(axis, m)
<1>1. m \in Matrices /\ ValidMatrix(m)
  BY DEF Transforms
<1>2. /\ m[1][1] \in Int /\ m[1][2] \in Int /\ m[1][3] \in Int
      /\ m[2][1] \in Int /\ m[2][2] \in Int /\ m[2][3] \in Int
      /\ m[3][1] \in Int /\ m[3][2] \in Int /\ m[3][3] \in Int
  BY <1>1 DEF Matrices
<1>3. p \in Matrices
  BY <1>1 DEF QuarterRotated, Matrices
<1>4. ASSUME NEW row \in 1..3, NEW column \in 1..3
      PROVE  Dot(p[row], p[column]) = Dot(m[row], m[column])
  <2>1. /\ m[row][1] \in Int /\ m[row][2] \in Int /\ m[row][3] \in Int
        /\ m[column][1] \in Int /\ m[column][2] \in Int /\ m[column][3] \in Int
    BY <1>1 DEF Matrices
  <2>2. QED
    BY <2>1, DotProducts DEF Dot, QuarterRotated
<1>5. Determinant(p) = Determinant(m)
  BY <1>2, Determinants DEF Dot, Cross, Determinant, QuarterRotated
<1>6. p[4] = <<0, 0, 0, 1>>
  <2>1. m[4][1] = 0 /\ m[4][2] = 0 /\ m[4][3] = 0 /\ m[4][4] = 1
    BY <1>1 DEF ValidMatrix
  <2>2. QED
    BY <2>1 DEF QuarterRotated
<1>7. QED
  BY <1>1, <1>3, <1>4, <1>5, <1>6 DEF Transforms, ValidMatrix, IsRotation

\* Transforms and rotations by any number of quarter turns multiply to transforms.
LEMMA RotationsCompose ==
  ASSUME NEW m \in Transforms, NEW axis \in Axes, NEW t \in QuarterTurns
  PROVE  Rotated(m, axis, t) \in Transforms
<1>1. m \in Matrices
  BY DEF Transforms
<1>2. Rotated(m, axis, 0) \in Transforms
  BY <1>1, NoTurn
<1>3. ASSUME NEW n \in 0..2, Rotated(m, axis, n) \in Transforms
      PROVE  Rotated(m, axis, n + 1) \in Transforms
  BY <1>1, <1>3, OneTurnMore, QuarterTurnIsTransform
<1>4. Rotated(m, axis, 1) \in Transforms
  BY <1>2, <1>3
<1>5. Rotated(m, axis, 2) \in Transforms
  BY <1>3, <1>4
<1>6. Rotated(m, axis, 3) \in Transforms
  BY <1>3, <1>5
<1>7. QED
  BY <1>2, <1>4, <1>5, <1>6 DEF QuarterTurns

-----------------------------------------------------------------------------
(***************************************************************************)
(* The mount.                                                              *)
(***************************************************************************)
\* buildCameraMountTransform, rotation by rotation.  The axes of the optical frame
\* are those of the camera's body after three quarter turns about X.
BodyRotation(pose) ==
  Rotated(Rotated(Rotated(MakeIdentityMatrix, pose.axes[1], pose.turns[1]),
                  pose.axes[2], pose.turns[2]),
          pose.axes[3], pose.turns[3])
Placed(pose) ==
  [row \in 1..4 |-> IF row = 4 THEN BodyRotation(pose)[4]
                    ELSE [BodyRotation(pose)[row] EXCEPT ![4] = pose.translation[row]]]

\* The mount is the placed rotation, and the last rotation of it.
LEMMA MountIsRotated ==
  ASSUME NEW pose \in Poses
  PROVE  MountFromCameraOptical(pose) = Rotated(Placed(pose), "X", 3)
<1>1. MakeAxisRotation("X", 3) = CameraBodyFromCameraOptical
  BY AxisRotations, Angles DEF QuarterTurns, CameraBodyFromCameraOptical
<1>2. QED
  BY <1>1 DEF MountFromCameraOptical, Placed, BodyRotation, Rotated

\* The rotations of the body are a transform, and stay one when they are placed.
LEMMA PlacedIsTransform ==
  ASSUME NEW pose \in Poses
  PROVE  BodyRotation(pose) \in Transforms /\ Placed(pose) \in Transforms
<1>1. pose.turns \in [1..3 -> QuarterTurns] /\ pose.axes \in [1..3 -> Axes]
  BY DEF Poses
<1>2. MakeIdentityMatrix \in Transforms
  BY DEF Transforms, Matrices, MakeIdentityMatrix, ValidMatrix, IsRotation, Determinant, Dot, Cross
<1>3. BodyRotation(pose) \in Transforms
  BY <1>1, <1>2, RotationsCompose DEF BodyRotation
<1> DEFINE body == BodyRotation(pose)
<1> HIDE DEF body
<1>4. body \in Matrices /\ body[4] = <<0, 0, 0, 1>> /\ IsRotation(body)
  BY <1>3 DEF body, Transforms, ValidMatrix
<1>5. pose.translation \in Vectors
  BY DEF Poses
<1>6. Placed(pose) \in Matrices
  BY <1>4, <1>5 DEF Placed, body, Matrices, Vectors
<1>7. /\ Placed(pose)[4] = body[4]
      /\ \A row \in 1..3 : /\ Placed(pose)[row][1] = body[row][1]
                           /\ Placed(pose)[row][2] = body[row][2]
                           /\ Placed(pose)[row][3] = body[row][3]
  BY <1>4, <1>5 DEF Placed, body, Matrices, Vectors
<1>8. IsRotation(Placed(pose))
  <2>1. \A row, column \in 1..3 :
          Dot(Placed(pose)[row], Placed(pose)[column]) = Dot(body[row], body[column])
    BY <1>7 DEF Dot
  <2>2. Determinant(Placed(pose)) = Determinant(body)
    BY <1>7 DEF Determinant, Dot, Cross
  <2>3. QED
    BY <1>4, <2>1, <2>2 DEF IsRotation
<1>9. QED
  BY <1>3, <1>4, <1>6, <1>7, <1>8 DEF Transforms, ValidMatrix

\* The last column of the mount is the translation.
LEMMA MountIsPlaced ==
  ASSUME NEW pose \in Poses
  PROVE  \A row \in 1..3 : MountFromCameraOptical(pose)[row][4] = pose.translation[row]
<1> DEFINE placed == Placed(pose)
<1>1. pose.translation \in Vectors /\ placed \in Matrices /\ BodyRotation(pose) \in Matrices
  BY PlacedIsTransform DEF Poses, Transforms
<1>2. \A row \in 1..3 : placed[row][4] = pose.translation[row]
  BY <1>1 DEF Placed, Vectors, Matrices
<1>3. \A row \in 1..3 : Rotated(placed, "X", 3)[row][4] = pose.translation[row]
  BY <1>1, <1>2, AxisRotations, Angles
     DEF Rotated, MultiplyMatrices, QuarterTurns, Matrices, Vectors
<1>4. QED
  BY <1>3, MountIsRotated

\* buildCameraMountTransform does not refuse a mount that parseVisionConfig accepted,
\* and no query does later: the product of the rotations passes validateMatrix.
THEOREM MountIsValid ==
  ASSUME NEW pose \in Poses
  PROVE  /\ MountFromCameraOptical(pose) \in Matrices
         /\ ValidMatrix(MountFromCameraOptical(pose))
<1>1. Rotated(Placed(pose), "X", 3) \in Transforms
  BY PlacedIsTransform, RotationsCompose DEF Axes, QuarterTurns
<1>2. QED
  BY <1>1, MountIsRotated DEF Transforms

-----------------------------------------------------------------------------
(***************************************************************************)
(* The mount without matrices.                                             *)
(***************************************************************************)
\* The rotation of a transform, applied to a vector.
Applied(m, v) == [row \in 1..3 |-> Dot(m[row], v)]

\* The exchange of columns is a turn of the vector.
LEMMA TurnedVectors ==
  ASSUME NEW a1 \in Int, NEW a2 \in Int, NEW a3 \in Int,
         NEW b1 \in Int, NEW b2 \in Int, NEW b3 \in Int
  PROVE  /\ a1 * b1 + a3 * b2 + (-a2) * b3 = a1 * b1 + a2 * (-b3) + a3 * b2
         /\ (-a3) * b1 + a2 * b2 + a1 * b3 = a1 * b3 + a2 * b2 + a3 * (-b1)
         /\ a2 * b1 + (-a1) * b2 + a3 * b3 = a1 * (-b2) + a2 * b1 + a3 * b3
OBVIOUS

\* A quarter turn by the right-hand rule, coordinate by coordinate.
LEMMA QuarterTurnIs ==
  ASSUME NEW v \in Vectors
  PROVE  /\ QuarterTurn("X", v) = <<v[1], -v[3], v[2]>>
         /\ QuarterTurn("Y", v) = <<v[3], v[2], -v[1]>>
         /\ QuarterTurn("Z", v) = <<-v[2], v[1], v[3]>>
BY DEF QuarterTurn, UnitVector, Cross, Dot, Vectors

\* To multiply by a quarter turn is to turn the vector first.
LEMMA QuarterApplied ==
  ASSUME NEW m \in Matrices, NEW axis \in Axes, NEW v \in Vectors
  PROVE  /\ QuarterTurn(axis, v) \in Vectors
         /\ Applied(QuarterRotated(axis, m), v) = Applied(m, QuarterTurn(axis, v))
<1>1. QuarterTurn(axis, v) \in Vectors
  <2>1. /\ <<v[1], -v[3], v[2]>> \in Vectors
        /\ <<v[3], v[2], -v[1]>> \in Vectors
        /\ <<-v[2], v[1], v[3]>> \in Vectors
    BY DEF Vectors
  <2>2. QED
    BY <2>1, QuarterTurnIs DEF Axes
<1>2. ASSUME NEW row \in 1..3
      PROVE  Dot(QuarterRotated(axis, m)[row], v) = Dot(m[row], QuarterTurn(axis, v))
  <2>1. /\ m[row][1] \in Int /\ m[row][2] \in Int /\ m[row][3] \in Int
        /\ v[1] \in Int /\ v[2] \in Int /\ v[3] \in Int
    BY DEF Matrices, Vectors
  <2>2. QED
    BY <2>1, TurnedVectors, QuarterTurnIs DEF Dot, QuarterRotated, Axes
<1>3. QED
  BY <1>1, <1>2 DEF Applied

\* The same for any number of quarter turns.
LEMMA RotatedApplied ==
  ASSUME NEW m \in Matrices, NEW axis \in Axes, NEW t \in QuarterTurns, NEW v \in Vectors
  PROVE  /\ Turned(axis, t, v) \in Vectors
         /\ Applied(Rotated(m, axis, t), v) = Applied(m, Turned(axis, t, v))
<1> DEFINE Agrees(n) ==
      \A u \in Vectors : /\ Turned(axis, n, u) \in Vectors
                         /\ Applied(Rotated(m, axis, n), u) = Applied(m, Turned(axis, n, u))
<1>1. \A u \in Vectors : /\ Turned(axis, 0, u) = u
                         /\ Turned(axis, 1, u) = Turned(axis, 0, QuarterTurn(axis, u))
                         /\ Turned(axis, 2, u) = Turned(axis, 1, QuarterTurn(axis, u))
                         /\ Turned(axis, 3, u) = Turned(axis, 2, QuarterTurn(axis, u))
  BY DEF Turned
<1>2. Agrees(0)
  BY <1>1, NoTurn
<1>3. ASSUME NEW n \in 0..2, Agrees(n),
             \A u \in Vectors : Turned(axis, n + 1, u) = Turned(axis, n, QuarterTurn(axis, u))
      PROVE  Agrees(n + 1)
  <2> SUFFICES ASSUME NEW u \in Vectors
               PROVE  /\ Turned(axis, n + 1, u) \in Vectors
                      /\ Applied(Rotated(m, axis, n + 1), u) = Applied(m, Turned(axis, n + 1, u))
    OBVIOUS
  <2>1. Rotated(m, axis, n) \in Matrices
    BY RotatedType DEF QuarterTurns
  <2>2. QED
    BY <1>3, <2>1, OneTurnMore, QuarterApplied
<1>4. Agrees(1)
  BY <1>1, <1>2, <1>3
<1>5. Agrees(2)
  BY <1>1, <1>3, <1>4
<1>6. Agrees(3)
  BY <1>1, <1>3, <1>5
<1>7. QED
  BY <1>2, <1>4, <1>5, <1>6 DEF QuarterTurns

\* The matrices of buildCameraMountTransform and transformCameraPointToMount place a
\* point where the configured rotations, one after another, and the translation do.
THEOREM MountMatchesReference ==
  ASSUME NEW pose \in Poses, NEW point \in Vectors
  PROVE  TransformCameraPointToMount(point, MountFromCameraOptical(pose))
           = PointInMount(pose, point)
<1> DEFINE placed == Placed(pose)
           body == BodyRotation(pose)
           turn(i, v) == Turned(pose.axes[i], pose.turns[i], v)
           b == BodyPoint(point)
<1>1. /\ pose.turns \in [1..3 -> QuarterTurns] /\ pose.axes \in [1..3 -> Axes]
      /\ pose.translation \in Vectors
  BY DEF Poses
<1>2. placed \in Matrices /\ body \in Matrices /\ b \in Vectors
  BY PlacedIsTransform DEF Transforms, BodyPoint, Vectors
<1>3. Applied(body, b) = turn(1, turn(2, turn(3, b)))
  <2>1. MakeIdentityMatrix \in Matrices
    BY DEF MakeIdentityMatrix, Matrices
  <2>2. Rotated(MakeIdentityMatrix, pose.axes[1], pose.turns[1]) \in Matrices
    BY <1>1, <2>1, RotatedType
  <2>3. Rotated(Rotated(MakeIdentityMatrix, pose.axes[1], pose.turns[1]),
                pose.axes[2], pose.turns[2]) \in Matrices
    BY <1>1, <2>2, RotatedType
  <2>4. /\ turn(3, b) \in Vectors /\ turn(2, turn(3, b)) \in Vectors
        /\ turn(1, turn(2, turn(3, b))) \in Vectors
    BY <1>1, <1>2, <2>1, RotatedApplied
  <2>5. \A v \in Vectors : Applied(MakeIdentityMatrix, v) = v
    BY DEF Applied, MakeIdentityMatrix, Dot, Vectors
  <2>6. QED
    BY <1>1, <1>2, <2>1, <2>2, <2>3, <2>4, <2>5, RotatedApplied DEF BodyRotation
<1>4. Applied(Rotated(placed, "X", 3), point) = Applied(placed, b)
  <2>1. Turned("X", 3, point) = b
    <3>1. QuarterTurn("X", point) \in Vectors
      BY <1>2, QuarterApplied DEF Axes
    <3>2. QuarterTurn("X", QuarterTurn("X", point)) \in Vectors
      BY <1>2, <3>1, QuarterApplied DEF Axes
    <3>3. point[1] \in Int /\ point[2] \in Int /\ point[3] \in Int
      BY DEF Vectors
    <3>4. QuarterTurn("X", QuarterTurn("X", QuarterTurn("X", point))) = b
      BY <3>1, <3>2, <3>3, QuarterTurnIs DEF BodyPoint
    <3>5. QED
      BY <3>4 DEF Turned
  <2>2. QED
    BY <1>2, <2>1, RotatedApplied DEF Axes, QuarterTurns
<1>5. Applied(placed, b) = Applied(body, b)
  BY <1>1, <1>2 DEF Applied, Placed, Dot, Vectors, Matrices
<1>6. \A row \in 1..3 : Rotated(placed, "X", 3)[row][4] = pose.translation[row]
  BY MountIsRotated, MountIsPlaced
<1> HIDE DEF placed, body, b, turn
<1>7. TransformCameraPointToMount(point, Rotated(placed, "X", 3))
        = [row \in 1..3 |-> pose.translation[row] + turn(1, turn(2, turn(3, b)))[row]]
  BY <1>3, <1>4, <1>5, <1>6 DEF TransformCameraPointToMount, Applied
<1>8. turn(1, turn(2, turn(3, b))) \in Vectors
  BY <1>1, <1>2, RotatedApplied DEF turn
<1>9. QED
  BY <1>1, <1>7, <1>8, MountIsRotated DEF PointInMount, placed, b, turn, Vectors
===============================================================================

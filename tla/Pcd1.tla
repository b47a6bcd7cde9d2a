--------------------------------- MODULE Pcd1 ---------------------------------
(***************************************************************************)
(* The binary point cloud (src/provider/http/pcd1.cpp), byte by byte.  A    *)
(* word is written low byte first.  The word of a float is its binary32     *)
(* representation in the code; here every value is a whole number of        *)
(* millimetres, and its word is its two's complement, which is as           *)
(* one-to-one.  A payload that is refused reads as [error |-> ...].         *)
(***************************************************************************)
EXTENDS CameraMountTransform, SequencesExt

HEADER_SIZE == 112
POINT_SIZE == 15
FORMAT_VERSION == 2
Magic == <<80, 67, 68, 49>>  \* PCD1

\* value >> 8 * byte_index, for a negative value too.
Shifted(value) ==
  LET shifted[i \in 0 .. 8] == IF i = 0 THEN value ELSE shifted[i - 1] \div 256
  IN shifted

\* appendUint64, appendInt64 and, of four bytes, appendUint32 and appendFloat32.
Word(value, bytes) == LET shifted == Shifted(value) IN [i \in 1 .. bytes |-> shifted[i - 1] % 256]
Word32(value) == Word(value, 4)
Word64(value) == Word(value, 8)

\* The words of a sequence of values, one after another.
Words32(values) ==
  [i \in 1 .. 4 * Len(values) |-> Word32(values[((i - 1) \div 4) + 1])[((i - 1) % 4) + 1]]
\* The members of a sequence of triples, one after another.
Triples(triples) ==
  [i \in 1 .. 3 * Len(triples) |-> triples[((i - 1) \div 3) + 1][((i - 1) % 3) + 1]]

\* The bytes of a word at an offset, from the last one down, below the bits that extend it.
Assembled(input, offset, bytes, extension) ==
  LET value[i \in 0 .. bytes] ==
        IF i = 0 THEN extension ELSE value[i - 1] * 256 + input[offset + bytes + 1 - i]
  IN value[bytes]

\* readUint32 and readUint64.
Unsigned(input, offset, bytes) == Assembled(input, offset, bytes, 0)
\* readInt64 and readFloat32: the sign is in the last byte.
Signed(input, offset, bytes) ==
  Assembled(input, offset, bytes, IF input[offset + bytes] >= 128 THEN -1 ELSE 0)

Rows(matrix) == [row \in 1 .. 3 |-> SubSeq(matrix, 4 * row - 3, 4 * row)]

\* validatePointCloud does not throw.
ValidPointCloud(cloud) ==
  /\ cloud.profile.width > 0 /\ cloud.profile.height > 0
  /\ cloud.requestedStride > 0 /\ cloud.stride > 0
  /\ IsRotation(Rows(cloud.matrix))

Header(cloud) ==
  Magic \o Word32(FORMAT_VERSION)
  \o Word64(cloud.identity.number) \o Word64(cloud.identity.time)
  \o Words32(<<cloud.profile.width, cloud.profile.height, cloud.requestedStride,
               cloud.stride, Len(cloud.points), 0>>)
  \o Words32(cloud.intrinsics) \o Words32(cloud.matrix)

\* Mutant of WritePcd1V2: the color of a point follows its coordinates.
WriteInterleaved(cloud) ==
  IF ~ValidPointCloud(cloud) THEN [error |-> "invalid_argument"]
  ELSE [bytes |-> Header(cloud) \o FlattenSeq([i \in DOMAIN cloud.points |->
                    Words32(cloud.points[i].point) \o cloud.points[i].color])]

\* All coordinates come first, then all colors.
WritePcd1V2(cloud) ==
  IF ~ValidPointCloud(cloud) THEN [error |-> "invalid_argument"]
  ELSE [bytes |-> Header(cloud)
          \o Words32(Triples([i \in 1 .. Len(cloud.points) |-> cloud.points[i].point]))
          \o Triples([i \in 1 .. Len(cloud.points) |-> cloud.points[i].color])]

\* The generation of the frame and the rate of its profile are not in the payload.
ReadPcd1V2(input) ==
  LET floats(offset, n) == [i \in 1 .. n |-> Signed(input, offset + 4 * (i - 1), 4)]
      count == Unsigned(input, 40, 4)
      colors == HEADER_SIZE + 12 * count
      color(i) == SubSeq(input, colors + 3 * i - 2, colors + 3 * i)
      cloud == [number |-> Unsigned(input, 8, 8), time |-> Signed(input, 16, 8),
                profile |-> [width |-> Unsigned(input, 24, 4), height |-> Unsigned(input, 28, 4)],
                requestedStride |-> Unsigned(input, 32, 4), stride |-> Unsigned(input, 36, 4),
                intrinsics |-> floats(48, 4), matrix |-> floats(64, 12),
                points |-> [i \in 1 .. count |->
                  [point |-> floats(HEADER_SIZE + 12 * (i - 1), 3), color |-> color(i)]]]
  IN IF /\ Len(input) >= HEADER_SIZE /\ SubSeq(input, 1, 4) = Magic
        /\ Unsigned(input, 4, 4) = FORMAT_VERSION
        /\ Unsigned(input, 44, 4) = 0
        /\ Len(input) = HEADER_SIZE + POINT_SIZE * count
        /\ ValidPointCloud(cloud)
     THEN cloud ELSE [error |-> "invalid_argument"]

\* What of a cloud a reader gets back.
Readable(cloud) ==
  [number |-> cloud.identity.number, time |-> cloud.identity.time,
   profile |-> [width |-> cloud.profile.width, height |-> cloud.profile.height],
   requestedStride |-> cloud.requestedStride, stride |-> cloud.stride,
   intrinsics |-> cloud.intrinsics, matrix |-> cloud.matrix, points |-> cloud.points]
===============================================================================

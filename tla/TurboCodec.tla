----------------------------- MODULE TurboCodec -----------------------------
(***************************************************************************)
(* The TurboQuant codec of static releases: how a vector becomes the bytes *)
(* of a record and what a query scores them as (index/turbo_prod.rs, the   *)
(* legacy index/turbo_codec.rs, and rotation.rs, codebook.rs, qjl.rs,      *)
(* gaussian.rs that they are built from).                                  *)
(*                                                                         *)
(* A number is a multiple of one unit, so sums and products are exact: the *)
(* rounding of f32 sums is not modelled, the rounding of a codebook's      *)
(* thresholds to the unit is.  The samples of the runs keep every square   *)
(* root and every quotient of the QR decomposition an integer.             *)
(***************************************************************************)
EXTENDS Integers, Sequences, SequencesExt, FiniteSets, FiniteSetsExt

CONSTANTS
  Coordinates,  \* values a coordinate may take
  Codebooks,    \* ascending sequences of centroids to sample
  QrDims,       \* sizes of the matrices that are decomposed
  Codecs,       \* codecs to sample: [rotation, codebook, qjl]
  Queries,      \* query vectors to sample
  MaxRows       \* bound: rows and columns drawn from the sampler

VARIABLE given  \* the input at hand

Dot(x, y) == SumFunction([i \in DOMAIN x |-> x[i] * y[i]])
Negated(x) == [i \in DOMAIN x |-> -x[i]]

-----------------------------------------------------------------------------
(* Rotation: a matrix is a sequence of rows; the decomposition works on      *)
(* sequences of columns.                                                     *)

Rotate(m, x) == [i \in DOMAIN m |-> Dot(m[i], x)]
InverseRotate(m, y) ==
  [j \in DOMAIN m |-> SumFunction([i \in DOMAIN m |-> y[i] * m[i][j]])]

Transposed(m) == [i \in DOMAIN m |-> [j \in DOMAIN m |-> m[j][i]]]
Identity(d) == [i \in 1 .. d |-> [j \in 1 .. d |-> IF i = j THEN 1 ELSE 0]]

Norm(x) == CHOOSE n \in 0 .. Dot(x, x) : n * n = Dot(x, x)

(* zeroing_below_first: alpha is what the first coordinate becomes. *)
Alpha(x) == IF x[1] < 0 THEN Norm(x) ELSE -Norm(x)
ReflectorOf(x) ==
  IF Norm(x) = 0 THEN [i \in DOMAIN x |-> 0] ELSE [x EXCEPT ![1] = @ - Alpha(x)]

Reflect(v, y) ==
  IF Dot(v, v) = 0 THEN y
  ELSE [i \in DOMAIN y |-> y[i] - (2 * Dot(v, y) * v[i]) \div Dot(v, v)]

(* A reflector of step k changes rows k.. of a column only. *)
ReflectFrom(v, k, column) ==
  SubSeq(column, 1, k - 1) \o Reflect(v, SubSeq(column, k, Len(column)))

(* householder_qr, first loop: column k is zeroed below its diagonal, later
   columns are reflected. *)
QrStep(state, k) ==
  LET d    == Len(state.r)
      tail == SubSeq(state.r[k], k, d)
      v    == ReflectorOf(tail)
      done == SubSeq(state.r[k], 1, k - 1) \o
              [i \in 1 .. d - k + 1 |-> IF i = 1 /\ Norm(tail) # 0 THEN Alpha(tail) ELSE 0]
  IN  [r |-> [j \in 1 .. d |-> IF j < k THEN state.r[j] ELSE IF j = k THEN done
                               ELSE ReflectFrom(v, k, state.r[j])],
       reflectors |-> Append(state.reflectors, v)]

Decomposed(columns) ==
  FoldLeft(QrStep, [r |-> columns, reflectors |-> <<>>], [k \in DOMAIN columns |-> k])

(* Second loop: Q is accumulated from the last reflector to the first, each on
   the columns k.. that it can change. *)
AccumulatedQ(reflectors) ==
  LET d == Len(reflectors)
      Add(q, k) == [j \in 1 .. d |-> IF j < k THEN q[j] ELSE ReflectFrom(reflectors[k], k, q[j])]
  IN  FoldLeft(Add, Identity(d), [i \in 1 .. d |-> d + 1 - i])

\* Mutant of DiagonalPositive: Householder's signs are kept.
DiagonalAsIs(q, r) == q
(* make_r_diagonal_positive, on Q (R is not used any more). *)
DiagonalPositive(q, r) == [j \in DOMAIN q |-> IF r[j][j] < 0 THEN Negated(q[j]) ELSE q[j]]

(* Rotation::generate from the Gaussian matrix, given by columns. *)
GeneratedRotation(columns) ==
  LET qr == Decomposed(columns)
  IN  Transposed(DiagonalPositive(AccumulatedQ(qr.reflectors), qr.r))

-----------------------------------------------------------------------------
(* Sampler: draw i of a stream is one half of a Box-Muller pair, named here    *)
(* by the first keystream word of the pair and the half.                     *)

NoPending == [word |-> 0, half |-> "none"]
NewStream == [word |-> 0, pending |-> NoPending, out |-> <<>>]

NextValue(s) ==
  IF s.pending # NoPending
  THEN [s EXCEPT !.pending = NoPending, !.out = Append(@, s.pending)]
  ELSE [word |-> s.word + 2, pending |-> [word |-> s.word, half |-> "sin"],
        out |-> Append(s.out, [word |-> s.word, half |-> "cos"])]

\* Mutant of Fill: every call starts with a pair of its own.
FillFresh(s, n) ==
  LET after[i \in 0 .. n] == IF i = 0 THEN [s EXCEPT !.pending = NoPending] ELSE NextValue(after[i - 1])
  IN  after[n]
Fill(s, n) ==
  LET after[i \in 0 .. n] == IF i = 0 THEN s ELSE NextValue(after[i - 1])
  IN  after[n]

(* QjlMatrix::generate: the stream is filled row by row. *)
DrawnRows(dim, rows) ==
  LET after[i \in 0 .. rows] == IF i = 0 THEN NewStream ELSE Fill(after[i - 1], dim)
  IN  after[rows].out

-----------------------------------------------------------------------------
(* Codebook *)

\* Mutant of ThresholdBetween: the midpoint is only rounded to the nearest value.
ThresholdNearest(lower, upper) ==
  LET half == (lower + upper) \div 2
  IN  IF (lower + upper) % 2 = 0 \/ half % 2 = 0 THEN half ELSE half + 1
(* The midpoint, rounded to the nearest value, ties to even, and then up if that
   came out below it. *)
ThresholdBetween(lower, upper) ==
  LET twice   == lower + upper
      half    == twice \div 2
      nearest == IF twice % 2 = 0 \/ half % 2 = 0 THEN half ELSE half + 1
  IN  IF 2 * nearest < twice THEN nearest + 1 ELSE nearest

Thresholds(codebook) ==
  [i \in 1 .. Len(codebook) - 1 |-> ThresholdBetween(codebook[i], codebook[i + 1])]

(* LloydMaxCodebook::encode and decode; an index counts from 0. *)
Quantize(codebook, x) == Quantify(DOMAIN Thresholds(codebook), LAMBDA i : x >= Thresholds(codebook)[i])
Centroid(codebook, index) == codebook[index + 1]

(* The legacy codec's nearest_centroid: the first of the nearest. *)
Distance(x, y) == IF x < y THEN y - x ELSE x - y
NearestCentroid(values, x) ==
  LET D(i) == Distance(x, Centroid(values, i))
  IN  CHOOSE best \in 0 .. Len(values) - 1 :
        \A i \in 0 .. Len(values) - 1 : D(best) < D(i) \/ (D(best) = D(i) /\ best <= i)

-----------------------------------------------------------------------------
(* Bytes: values of `width` bits, the first in the lowest bits of its byte.  *)

BytesFor(n, width) == (n * width + 7) \div 8
\* The values that go to byte b.
PlacesIn(b, n, width) == {i \in 1 .. n : (i - 1) \div (8 \div width) = b - 1}

\* Mutant of Pack: the first value of a byte goes to its highest bits.
PackHighFirst(values, width) ==
  [b \in 1 .. BytesFor(Len(values), width) |->
     SumFunction([i \in PlacesIn(b, Len(values), width) |->
                    values[i] * 2 ^ (8 - width - width * ((i - 1) % (8 \div width)))])]
Pack(values, width) ==
  [b \in 1 .. BytesFor(Len(values), width) |->
     SumFunction([i \in PlacesIn(b, Len(values), width) |->
                    values[i] * 2 ^ (width * ((i - 1) % (8 \div width)))])]

(* read_idx and read_sign_bit; positions count from 0. *)
ReadAt(bytes, width, i) ==
  (bytes[(i * width) \div 8 + 1] \div 2 ^ ((i * width) % 8)) % 2 ^ width

SignBits(products) == [j \in DOMAIN products |-> IF products[j] >= 0 THEN 1 ELSE 0]

(* PreparedQjlQuery::signed_sum: the values eight at a time beside the bytes. *)
SignedSum(projected, bytes) ==
  SumFunction([j \in DOMAIN projected |->
                 IF (bytes[(j - 1) \div 8 + 1] \div 2 ^ ((j - 1) % 8)) % 2 = 1
                 THEN projected[j] ELSE -projected[j]])

(* The centroid products of a record, four at a time beside the index bytes. *)
TableSum(table, bytes) ==
  SumFunction([i \in DOMAIN table |->
                 table[i][((bytes[(i - 1) \div 4 + 1] \div 4 ^ ((i - 1) % 4)) % 4) + 1]])

-----------------------------------------------------------------------------
(* TurboQuantProdV1 on a vector: its norm, its direction in units, and whether
   its values are finite and its norm is one an f32 holds. *)

Accepted(codec, v) == Len(v.unit) = Len(codec.rotation) /\ v.finite

\* Mutant of Residual: taken against the rotated vector's own place, unrotated.
ResidualUnrotated(codec, v) ==
  LET x == Rotate(codec.rotation, v.unit)
  IN  [i \in DOMAIN x |-> v.unit[i] - Centroid(codec.codebook, Quantize(codec.codebook, x[i]))]
Residual(codec, v) ==
  LET x == Rotate(codec.rotation, v.unit)
  IN  [i \in DOMAIN x |-> x[i] - Centroid(codec.codebook, Quantize(codec.codebook, x[i]))]

(* The record: packed indices, packed signs of S times the residual, the square
   of the residual's norm, the vector's norm. *)
Encode(codec, v) ==
  LET x == Rotate(codec.rotation, v.unit)
      r == Residual(codec, v)
  IN  [idx   |-> Pack([i \in DOMAIN x |-> Quantize(codec.codebook, x[i])], 2),
       signs |-> Pack(SignBits(Rotate(codec.qjl, r)), 1),
       gamma2 |-> Dot(r, r),
       norm  |-> v.norm]

PrepareQuery(codec, y) ==
  LET rotated == Rotate(codec.rotation, y)
  IN  [table |-> [i \in DOMAIN rotated |-> [k \in DOMAIN codec.codebook |->
                                              rotated[i] * codec.codebook[k]]],
       projected |-> [j \in DOMAIN codec.qjl |-> Dot(codec.qjl[j], rotated)]]

(* score_breakdown; the score is norm * (mse + sqrt(gamma2) * scale * signed). *)
Score(query, record) ==
  [mse |-> TableSum(query.table, record.idx), signed |-> SignedSum(query.projected, record.signs),
   gamma2 |-> record.gamma2, norm |-> record.norm]

(* The legacy codec: no rotation, one codebook per dimension, the projection in
   the place of the QJL matrix, the norm left as it is. *)
LegacyEncode(centroids, projection, x) ==
  LET idx == [i \in DOMAIN x |-> NearestCentroid(centroids[i], x[i])]
      r   == [i \in DOMAIN x |-> x[i] - Centroid(centroids[i], idx[i])]
  IN  [idx |-> Pack(idx, 2), signs |-> Pack(SignBits(Rotate(projection, r)), 1),
       gamma2 |-> Dot(r, r)]

LegacyScore(centroids, projection, q, record) ==
  [mse |-> SumFunction([i \in DOMAIN q |-> q[i] * Centroid(centroids[i], ReadAt(record.idx, 2, i - 1))]),
   signed |-> SumFunction([j \in DOMAIN projection |-> IF ReadAt(record.signs, 1, j - 1) = 1
                                                       THEN Dot(projection[j], q)
                                                       ELSE -Dot(projection[j], q)])]

-----------------------------------------------------------------------------
(* The inputs *)

IsCodebook(c) == c \in Seq(Int) /\ c # <<>> /\ \A i \in 1 .. Len(c) - 1 : c[i] < c[i + 1]

\* A square matrix whose columns have length one and are orthogonal to each other
\* (turbo_prod.rs: "Pi is orthogonal").
IsRotation(m, d) ==
  /\ m \in [1 .. d -> [1 .. d -> Int]]
  /\ \A j, k \in 1 .. d : SumFunction([i \in 1 .. d |-> m[i][j] * m[i][k]]) = IF j = k THEN 1 ELSE 0

ASSUME CodecConstants ==
  /\ MaxRows \in Nat
  /\ Coordinates \subseteq Int
  /\ \A c \in Codebooks : IsCodebook(c)
  /\ \A codec \in Codecs :
       LET d == Len(codec.rotation)
       IN  /\ d \in Nat /\ IsRotation(codec.rotation, d)
           /\ IsCodebook(codec.codebook) /\ Len(codec.codebook) = 4
           /\ codec.qjl \in Seq([1 .. d -> Int])
           /\ Queries \subseteq [1 .. d -> Int]

Nothing == [what |-> "nothing"]
CodecInit == given = Nothing

Rotations(d) ==
  {m \in [1 .. d -> [1 .. d -> {-1, 0, 1}]] :
     \A i, j \in 1 .. d : Dot(m[i], m[j]) = IF i = j THEN 1 ELSE 0}
UpperTriangular(d) ==
  {r \in [1 .. d -> [1 .. d -> 0 .. 2]] :
     \A i, j \in 1 .. d : (i > j => r[i][j] = 0) /\ (i = j => r[i][j] > 0) /\ (i < j => r[i][j] < 2)}

GivenCoordinate ==
  \E c \in Codebooks, x \in Coordinates :
    given' = [what |-> "coordinate", codebook |-> c, x |-> x]

(* A matrix with a known decomposition: rotation times upper triangle. *)
GivenMatrix ==
  \E d \in QrDims : \E m \in Rotations(d), r \in UpperTriangular(d) :
    given' = [what |-> "matrix", rotation |-> m,
              columns |-> [j \in 1 .. d |-> Rotate(m, [i \in 1 .. d |-> r[i][j]])]]

GivenRows ==
  \E d, n \in 1 .. MaxRows : given' = [what |-> "rows", dim |-> d, rows |-> n]

GivenVector ==
  \E codec \in Codecs, y \in Queries, finite \in BOOLEAN :
    \E x \in [1 .. Len(codec.rotation) -> (Coordinates \cap (-1 .. 1))] :
      given' = [what |-> "vector", codec |-> codec, query |-> y,
                vector |-> [unit |-> x, norm |-> IF Dot(x, x) = 0 THEN 0 ELSE 2, finite |-> finite]]

CodecNext ==
  given = Nothing /\ (GivenCoordinate \/ GivenMatrix \/ GivenRows \/ GivenVector)

CodecSpec == CodecInit /\ [][CodecNext]_given

-----------------------------------------------------------------------------
(* Properties *)

(* codebook.rs, threshold_between: a stored code names the nearest centroid for
   every value, the values next to a midpoint included, ties to the upper one. *)
EncodeIsNearest ==
  given.what = "coordinate" =>
    LET c == given.codebook
        D(i) == Distance(given.x, Centroid(c, i))
        index == Quantize(c, given.x)
    IN  \A i \in 0 .. Len(c) - 1 : D(index) < D(i) \/ (D(index) = D(i) /\ i <= index)

(* rotation.rs: the decomposition finds the one orthogonal factor whose R has a
   positive diagonal, whatever signs Householder's reflections leave, and its
   inverse undoes it. *)
RotationIsUnique ==
  given.what = "matrix" =>
    LET m == GeneratedRotation(given.columns)
    IN  /\ m = given.rotation
        /\ \A j \in DOMAIN m : InverseRotate(m, Rotate(m, given.columns[j])) = given.columns[j]

(* qjl.rs: a matrix with fewer rows is a prefix of one with more, and rows of
   odd length take up the second half of the pair the row before began. *)
RowsArePrefix ==
  given.what = "rows" =>
    DrawnRows(given.dim, given.rows) =
      [i \in 1 .. given.dim * given.rows |->
         [word |-> 2 * ((i - 1) \div 2), half |-> IF i % 2 = 1 THEN "cos" ELSE "sin"]]

(* rotation.rs, qjl.rs: two processes that generate a codec from one seed draw the
   same rotation and the same sketch, down to signs and leftover values. *)
GeneratedAlike == RotationIsUnique /\ RowsArePrefix

(* turbo_prod.rs: what a query scores from the packed bytes is the product with
   the quantized vector, and with the residual it is the product with the vector
   itself; the sign sketch weighs each projection with the residual's sign. *)
ScoreIsOfTheVector ==
  given.what = "vector" /\ Accepted(given.codec, given.vector) =>
    LET codec == given.codec
        v     == given.vector
        s     == Score(PrepareQuery(codec, given.query), Encode(codec, v))
        x     == Rotate(codec.rotation, v.unit)
        y     == Rotate(codec.rotation, given.query)
        r     == [i \in DOMAIN x |-> x[i] - Centroid(codec.codebook, Quantize(codec.codebook, x[i]))]
    IN  /\ s.mse + Dot(y, r) = Dot(given.query, v.unit)
        /\ s.signed = SumFunction([j \in DOMAIN codec.qjl |-> IF Dot(codec.qjl[j], r) >= 0
                                                               THEN Dot(codec.qjl[j], y)
                                                               ELSE -Dot(codec.qjl[j], y)])
        /\ s.gamma2 = Dot(r, r) /\ s.norm = v.norm

(* turbo_codec.rs: the legacy scorer reads back every index and every sign the
   encoder wrote, also where a vector does not fill its last byte. *)
LegacyReadsBack ==
  given.what = "vector" =>
    LET x == given.vector.unit
        n == Len(x)
        centroids == [i \in 1 .. n |-> given.codec.codebook]
        record == LegacyEncode(centroids, given.codec.rotation, x)
        r == [i \in 1 .. n |-> x[i] - Centroid(centroids[i], NearestCentroid(centroids[i], x[i]))]
        s == LegacyScore(centroids, given.codec.rotation, given.query, record)
    IN  /\ s.mse + Dot(given.query, r) = Dot(given.query, x)
        /\ \A j \in 1 .. n :
             (ReadAt(record.signs, 1, j - 1) = 1) = (Dot(given.codec.rotation[j], r) >= 0)

(* What is stored of a vector, in the current format and in the legacy one, is the
   nearest code, and what is scored is what was stored. *)
CodesAreOfTheVector == EncodeIsNearest /\ ScoreIsOfTheVector /\ LegacyReadsBack
=============================================================================

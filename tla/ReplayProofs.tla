---------------------------- MODULE ReplayProofs ----------------------------
(***************************************************************************)
(* The workers of a replay do what the plan says, for every trace, every    *)
(* command line and every schedule: the proofs of the properties of Replay. *)
(***************************************************************************)
EXTENDS Replay, ReplayPlanProofs

----------------------------------------------------------------------------
(* Files are sequences of sectors of any kind. *)

\* A sequence, of whatever.
IsSeq(f) == Len(f) \in Nat /\ f = [p \in 1 .. Len(f) |-> f[p]]

\* A function on 1 .. m is a sequence of m elements.
LEMMA MadeSeq ==
    ASSUME NEW m \in Nat, NEW f, f = [p \in 1 .. m |-> f[p]]
    PROVE  IsSeq(f) /\ Len(f) = m /\ DOMAIN f = 1 .. m
<1>1. f \in [1 .. m -> {f[p] : p \in 1 .. m}]
  OBVIOUS
<1>2. f \in Seq({f[p] : p \in 1 .. m}) /\ Len(f) = m
  BY <1>1
<1> QED
  BY <1>2 DEF IsSeq

\* An element of Seq(S) is a sequence.
LEMMA TypedSeq ==
    ASSUME NEW S, NEW f \in Seq(S)
    PROVE  IsSeq(f)
BY DEF IsSeq

\* Two sequences of the same length and elements are equal.
LEMMA SameSeq ==
    ASSUME NEW f, NEW g, IsSeq(f), IsSeq(g), Len(f) = Len(g),
           \A p \in 1 .. Len(f) : f[p] = g[p]
    PROVE  f = g
BY DEF IsSeq

\* A sequence behind another.
LEMMA Joined ==
    ASSUME NEW f, NEW g, IsSeq(f), IsSeq(g)
    PROVE  /\ IsSeq(f \o g) /\ Len(f \o g) = Len(f) + Len(g)
           /\ \A p \in 1 .. Len(f) : (f \o g)[p] = f[p]
           /\ \A p \in 1 .. Len(g) : (f \o g)[Len(f) + p] = g[p]
<1> DEFINE S == {f[p] : p \in 1 .. Len(f)} \cup {g[p] : p \in 1 .. Len(g)}
<1>1. f \in Seq(S) /\ g \in Seq(S)
  <2>1. \A p \in 1 .. Len(f) : f[p] \in S
    OBVIOUS
  <2>2. \A p \in 1 .. Len(g) : g[p] \in S
    OBVIOUS
  <2> HIDE DEF S
  <2> QED
    BY <2>1, <2>2 DEF IsSeq
<1> HIDE DEF S
<1>2. f \o g \in Seq(S) /\ Len(f \o g) = Len(f) + Len(g)
  BY <1>1
<1>3. IsSeq(f \o g)
  BY <1>2, TypedSeq
<1>4. \A p \in 1 .. Len(f) + Len(g) :
        (f \o g)[p] = IF p <= Len(f) THEN f[p] ELSE g[p - Len(f)]
  BY <1>1, ConcatProperties
<1>5. ASSUME NEW p \in 1 .. Len(g)
      PROVE  Len(f) + p \in 1 .. Len(f) + Len(g) /\ ~ (Len(f) + p <= Len(f))
             /\ (Len(f) + p) - Len(f) = p
  BY DEF IsSeq
<1>6. \A p \in 1 .. Len(f) : p \in 1 .. Len(f) + Len(g) /\ p <= Len(f)
  BY DEF IsSeq
<1> QED
  BY <1>2, <1>3, <1>4, <1>5, <1>6

\* What has the elements of two sequences is the one behind the other.
LEMMA JoinedIs ==
    ASSUME NEW f, NEW g, NEW h, IsSeq(f), IsSeq(g), IsSeq(h), Len(h) = Len(f) + Len(g),
           \A p \in 1 .. Len(f) : h[p] = f[p],
           \A p \in 1 .. Len(g) : h[Len(f) + p] = g[p]
    PROVE  h = f \o g
<1>1. /\ IsSeq(f \o g) /\ Len(f \o g) = Len(f) + Len(g)
      /\ \A p \in 1 .. Len(f) : (f \o g)[p] = f[p]
      /\ \A p \in 1 .. Len(g) : (f \o g)[Len(f) + p] = g[p]
  BY Joined
<1>2. Len(f) \in Nat /\ Len(g) \in Nat
  BY DEF IsSeq
<1>3. ASSUME NEW p \in 1 .. Len(h)
      PROVE  h[p] = (f \o g)[p]
  <2>1. CASE p <= Len(f)
    BY <1>1, <1>2, <2>1
  <2>2. CASE ~ (p <= Len(f))
    <3>1. PICK q \in 1 .. Len(g) : p = Len(f) + q
      <4>1. p - Len(f) \in 1 .. Len(g) /\ p = Len(f) + (p - Len(f))
        BY <1>2, <2>2
      <4> QED
        BY <4>1
    <3> QED
      BY <1>1, <3>1
  <2> QED
    BY <2>1, <2>2
<1> QED
  BY <1>1, <1>3, SameSeq

\* The first sectors of a sequence.
LEMMA FirstOf ==
    ASSUME NEW f, IsSeq(f), NEW n \in 0 .. Len(f)
    PROVE  /\ IsSeq(SubSeq(f, 1, n)) /\ Len(SubSeq(f, 1, n)) = n
           /\ \A p \in 1 .. n : SubSeq(f, 1, n)[p] = f[p]
<1> DEFINE S == {f[p] : p \in 1 .. Len(f)}
<1>1. f \in Seq(S)
  BY DEF IsSeq
<1> HIDE DEF S
<1> QED
  BY <1>1, TypedSeq DEF IsSeq

\* What is read from a file.
LEMMA PaddedFacts ==
    ASSUME NEW f, NEW ofs, NEW n \in Nat
    PROVE  /\ IsSeq(Padded(f, ofs, n)) /\ Len(Padded(f, ofs, n)) = n
           /\ \A p \in 1 .. n :
                Padded(f, ofs, n)[p] = IF ofs + p <= Len(f) THEN f[ofs + p] ELSE Zero
<1> DEFINE got == [p \in 1 .. n |-> IF ofs + p <= Len(f) THEN f[ofs + p] ELSE Zero]
<1>1. got = [p \in 1 .. n |-> got[p]]
  OBVIOUS
<1>2. IsSeq(got) /\ Len(got) = n
  BY <1>1, MadeSeq
<1> QED
  BY <1>2 DEF Padded

\* What a write leaves in a file.
LEMMA PwriteFacts ==
    ASSUME NEW f, NEW ofs \in Nat, NEW data, IsSeq(f), IsSeq(data)
    PROVE  /\ IsSeq(pwrite(f, ofs, data))
           /\ Len(pwrite(f, ofs, data))
                = IF Len(f) > ofs + Len(data) THEN Len(f) ELSE ofs + Len(data)
           /\ \A p \in 1 .. Len(pwrite(f, ofs, data)) :
                pwrite(f, ofs, data)[p] =
                    IF p > ofs /\ p <= ofs + Len(data) THEN data[p - ofs]
                    ELSE IF p <= Len(f) THEN f[p] ELSE Zero
<1> DEFINE m == IF Len(f) > ofs + Len(data) THEN Len(f) ELSE ofs + Len(data)
           new == [p \in 1 .. m |->
                    IF p > ofs /\ p <= ofs + Len(data) THEN data[p - ofs]
                    ELSE IF p <= Len(f) THEN f[p] ELSE Zero]
<1>1. m \in Nat
  BY DEF IsSeq
<1>2. new = [p \in 1 .. m |-> new[p]] /\ pwrite(f, ofs, data) = new
  BY DEF pwrite
<1> HIDE DEF m
<1>3. IsSeq(new) /\ Len(new) = m
  BY <1>1, <1>2, MadeSeq
<1> QED
  BY <1>2, <1>3 DEF m

----------------------------------------------------------------------------
(* What fill_blk writes. *)

\* One turn of the loop over the pieces of an md5, as a step of a recursion.
PieceStep(gen, filled, md5, f, i) ==
    IF i = 0 THEN filled ELSE FillPiece(gen, f[i - 1], md5[i], PieceSectors(md5))

\* The recursion of fill_blk, as an equation for the function it defines.
FillingPieces(gen, filled, md5, f) ==
    f = [i \in 0 .. Len(md5) |-> PieceStep(gen, filled, md5, f, i)]

\* One record more, and the recursion over the records of a hint.
BlockStep(gen, ctx0, md5s, f, n) ==
    IF n = 0 THEN [blk |-> <<>>, ctx |-> ctx0] ELSE fill_blk(gen, f[n - 1], md5s[n])
FillingBlocks(gen, ctx0, md5s, f) ==
    f = [n \in 0 .. Len(md5s) |-> BlockStep(gen, ctx0, md5s, f, n)]

\* A solution up to some piece can be extended to the next one, so there is one.
LEMMA PiecesExist ==
    ASSUME NEW gen, NEW filled, NEW md5, Len(md5) \in Nat
    PROVE  \E f : FillingPieces(gen, filled, md5, f)
<1> DEFINE n == Len(md5)
           RightUpTo(f, k) == \A j \in 0 .. n : j <= k => f[j] = PieceStep(gen, filled, md5, f, j)
           Bad == {k \in Nat : ~ \E f : f = [j \in 0 .. n |-> f[j]] /\ RightUpTo(f, k)}
<1>1. SUFFICES Bad = {}
  <2>1. n \in Nat /\ n \notin Bad
    BY <1>1
  <2>2. PICK f : f = [j \in 0 .. n |-> f[j]] /\ RightUpTo(f, n)
    BY <2>1
  <2>3. \A j \in 0 .. n : f[j] = PieceStep(gen, filled, md5, f, j)
    BY <2>1, <2>2
  <2>4. f = [j \in 0 .. n |-> PieceStep(gen, filled, md5, f, j)]
    BY <2>2, <2>3, Zenon
  <2> QED
    BY <2>4, Zenon DEF FillingPieces
<1>2. ASSUME Bad # {}
      PROVE  FALSE
  <2>1. PICK k \in Bad : \A j \in Bad : k <= j
    <3>1. Bad \in SUBSET Nat
      OBVIOUS
    <3> HIDE DEF Bad
    <3> QED
      BY <1>2, <3>1, LeastNatural
  <2>2. CASE k = 0
    <3> DEFINE g == [j \in 0 .. n |-> PieceStep(gen, filled, md5, <<>>, 0)]
    <3>1. g = [j \in 0 .. n |-> g[j]]
      OBVIOUS
    <3>2. \A j \in 0 .. n : j <= 0 => j = 0
      OBVIOUS
    <3>3. PieceStep(gen, filled, md5, g, 0) = PieceStep(gen, filled, md5, <<>>, 0)
      BY Zenon DEF PieceStep
    <3>4. \A j \in 0 .. n : j <= 0 => g[j] = PieceStep(gen, filled, md5, g, j)
      BY <3>2, <3>3
    <3> HIDE DEF g
    <3> QED
      BY <2>1, <2>2, <3>1, <3>4
  <2>3. CASE k > 0
    <3>1. k \in Nat /\ k - 1 \in Nat /\ k - 1 \notin Bad
      BY <2>1, <2>3
    <3>2. PICK f : f = [j \in 0 .. n |-> f[j]] /\ RightUpTo(f, k - 1)
      BY <3>1
    <3> DEFINE g == [j \in 0 .. n |-> IF j < k THEN f[j] ELSE PieceStep(gen, filled, md5, f, j)]
    <3>3. g = [j \in 0 .. n |-> g[j]]
      OBVIOUS
    <3>4. ASSUME NEW j \in 0 .. n, j <= k
          PROVE  g[j] = PieceStep(gen, filled, md5, g, j)
      <4>1. j # 0 => g[j - 1] = f[j - 1]
        <5>1. j # 0 => j - 1 \in 0 .. n /\ j - 1 < k
          BY <3>1, <3>4
        <5> QED
          BY <5>1
      <4>2. PieceStep(gen, filled, md5, g, j) = PieceStep(gen, filled, md5, f, j)
        <5> HIDE DEF g
        <5>1. CASE j = 0
          BY <5>1, Zenon DEF PieceStep
        <5>2. CASE j # 0
          BY <4>1, <5>2, Zenon DEF PieceStep
        <5> QED
          BY <5>1, <5>2
      <4>3. CASE j < k
        <5>1. j <= k - 1 /\ g[j] = f[j]
          BY <3>1, <4>3
        <5> HIDE DEF g
        <5> QED
          BY <3>2, <4>2, <5>1
      <4>4. CASE ~ (j < k)
        BY <4>2, <4>4
      <4> QED
        BY <4>3, <4>4
    <3> HIDE DEF g
    <3>5. g = [j \in 0 .. n |-> g[j]] /\ RightUpTo(g, k)
      BY <3>3, <3>4
    <3> QED
      BY <2>1, <3>5
  <2> QED
    BY <2>1, <2>2, <2>3
<1> QED
  BY <1>2

\* The same for the records.
LEMMA BlocksExist ==
    ASSUME NEW gen, NEW ctx0, NEW md5s, Len(md5s) \in Nat
    PROVE  \E f : FillingBlocks(gen, ctx0, md5s, f)
<1> DEFINE n == Len(md5s)
           RightUpTo(f, k) == \A j \in 0 .. n : j <= k => f[j] = BlockStep(gen, ctx0, md5s, f, j)
           Bad == {k \in Nat : ~ \E f : f = [j \in 0 .. n |-> f[j]] /\ RightUpTo(f, k)}
<1>1. SUFFICES Bad = {}
  <2>1. n \in Nat /\ n \notin Bad
    BY <1>1
  <2>2. PICK f : f = [j \in 0 .. n |-> f[j]] /\ RightUpTo(f, n)
    BY <2>1
  <2>3. \A j \in 0 .. n : f[j] = BlockStep(gen, ctx0, md5s, f, j)
    BY <2>1, <2>2
  <2>4. f = [j \in 0 .. n |-> BlockStep(gen, ctx0, md5s, f, j)]
    BY <2>2, <2>3, Zenon
  <2> QED
    BY <2>4, Zenon DEF FillingBlocks
<1>2. ASSUME Bad # {}
      PROVE  FALSE
  <2>1. PICK k \in Bad : \A j \in Bad : k <= j
    <3>1. Bad \in SUBSET Nat
      OBVIOUS
    <3> HIDE DEF Bad
    <3> QED
      BY <1>2, <3>1, LeastNatural
  <2>2. CASE k = 0
    <3> DEFINE g == [j \in 0 .. n |-> BlockStep(gen, ctx0, md5s, <<>>, 0)]
    <3>1. g = [j \in 0 .. n |-> g[j]]
      OBVIOUS
    <3>2. \A j \in 0 .. n : j <= 0 => j = 0
      OBVIOUS
    <3>3. BlockStep(gen, ctx0, md5s, g, 0) = BlockStep(gen, ctx0, md5s, <<>>, 0)
      BY Zenon DEF BlockStep
    <3>4. \A j \in 0 .. n : j <= 0 => g[j] = BlockStep(gen, ctx0, md5s, g, j)
      BY <3>2, <3>3
    <3> HIDE DEF g
    <3> QED
      BY <2>1, <2>2, <3>1, <3>4
  <2>3. CASE k > 0
    <3>1. k \in Nat /\ k - 1 \in Nat /\ k - 1 \notin Bad
      BY <2>1, <2>3
    <3>2. PICK f : f = [j \in 0 .. n |-> f[j]] /\ RightUpTo(f, k - 1)
      BY <3>1
    <3> DEFINE g == [j \in 0 .. n |-> IF j < k THEN f[j] ELSE BlockStep(gen, ctx0, md5s, f, j)]
    <3>3. g = [j \in 0 .. n |-> g[j]]
      OBVIOUS
    <3>4. ASSUME NEW j \in 0 .. n, j <= k
          PROVE  g[j] = BlockStep(gen, ctx0, md5s, g, j)
      <4>1. j # 0 => g[j - 1] = f[j - 1]
        <5>1. j # 0 => j - 1 \in 0 .. n /\ j - 1 < k
          BY <3>1, <3>4
        <5> QED
          BY <5>1
      <4>2. BlockStep(gen, ctx0, md5s, g, j) = BlockStep(gen, ctx0, md5s, f, j)
        <5> HIDE DEF g
        <5>1. CASE j = 0
          BY <5>1, Zenon DEF BlockStep
        <5>2. CASE j # 0
          BY <4>1, <5>2, Zenon DEF BlockStep
        <5> QED
          BY <5>1, <5>2
      <4>3. CASE j < k
        <5>1. j <= k - 1 /\ g[j] = f[j]
          BY <3>1, <4>3
        <5> HIDE DEF g
        <5> QED
          BY <3>2, <4>2, <5>1
      <4>4. CASE ~ (j < k)
        BY <4>2, <4>4
      <4> QED
        BY <4>3, <4>4
    <3> HIDE DEF g
    <3>5. g = [j \in 0 .. n |-> g[j]] /\ RightUpTo(g, k)
      BY <3>3, <3>4
    <3> QED
      BY <2>1, <3>5
  <2> QED
    BY <2>1, <2>2, <2>3
<1> QED
  BY <1>2

\* The loops compute what the recursions define.
LEMMA FillUnfolds ==
    ASSUME NEW gen, NEW filled, NEW md5, Len(md5) \in Nat
    PROVE  \E f : /\ FillingPieces(gen, filled, md5, f)
                  /\ fill_blk(gen, filled, md5) = f[Len(md5)]
<1> DEFINE f == CHOOSE f : FillingPieces(gen, filled, md5, f)
<1>1. FillingPieces(gen, filled, md5, f)
  BY PiecesExist, Zenon
<1>2. fill_blk(gen, filled, md5) = f[Len(md5)]
  BY Zenon DEF fill_blk, FillingPieces, PieceStep
<1> QED
  BY <1>1, <1>2

\* The same for the records of a hint.
LEMMA FilledUnfolds ==
    ASSUME NEW gen, NEW ctx0, NEW md5s, Len(md5s) \in Nat
    PROVE  \E f : /\ FillingBlocks(gen, ctx0, md5s, f)
                  /\ Filled(gen, ctx0, md5s) = f[Len(md5s)]
<1> DEFINE f == CHOOSE f : FillingBlocks(gen, ctx0, md5s, f)
<1>1. FillingBlocks(gen, ctx0, md5s, f)
  BY BlocksExist, Zenon
<1>2. Filled(gen, ctx0, md5s) = f[Len(md5s)]
  BY Zenon DEF Filled, FillingBlocks, BlockStep
<1> QED
  BY <1>1, <1>2

\* What a sector of a piece is.
SectorOf(gen, piece, s) ==
    IF gen = "null" THEN <<gen, piece[1], piece[2]>> ELSE <<gen, piece[1], s>>

\* The first n sectors of a piece.
PieceBlk(gen, piece, n) == [s \in 1 .. n |-> SectorOf(gen, piece, s)]

\* A buffer and the context of the generator.
IsFilled(filled) == filled = [blk |-> filled.blk, ctx |-> filled.ctx] /\ IsSeq(filled.blk)

\* One piece: its sectors are put behind what is there, and do not depend on the
\* context, which is seeded again.
LEMMA FillPieceFacts ==
    ASSUME NEW gen, NEW filled, IsFilled(filled), NEW piece, NEW n \in Nat
    PROVE  /\ IsFilled(FillPiece(gen, filled, piece, n))
           /\ FillPiece(gen, filled, piece, n).blk
                = filled.blk \o PieceBlk(gen, piece, n)
<1> DEFINE new == [s \in 1 .. n |-> SectorOf(gen, piece, s)]
<1>0. new = PieceBlk(gen, piece, n)
  BY DEF PieceBlk
<1>1. IsSeq(new)
  <2>1. new = [s \in 1 .. n |-> new[s]]
    OBVIOUS
  <2> QED
    BY <2>1, MadeSeq
<1>2. IsSeq(filled.blk \o new)
  BY <1>1, Joined DEF IsFilled
<1>3. CASE gen = "null"
  <2>1. new = [s \in 1 .. n |-> <<gen, piece[1], piece[2]>>]
    BY <1>3 DEF SectorOf
  <2>2. FillPiece(gen, filled, piece, n) = [filled EXCEPT !.blk = @ \o new]
    BY <1>3, <2>1 DEF FillPiece
  <2> HIDE DEF new
  <2>3. FillPiece(gen, filled, piece, n) = [blk |-> filled.blk \o new, ctx |-> filled.ctx]
    BY <2>2 DEF IsFilled
  <2> QED
    BY <1>0, <1>2, <2>3 DEF IsFilled
<1>4. CASE gen # "null"
  <2>1. \A s \in 1 .. n : Drawn(gen, FedSeed(filled.ctx, piece[1]), s) = SectorOf(gen, piece, s)
    BY <1>4 DEF Drawn, FedSeed, Seeded, SectorOf
  <2>2. new = [s \in 1 .. n |-> Drawn(gen, FedSeed(filled.ctx, piece[1]), s)]
    BY <2>1
  <2>3. FillPiece(gen, filled, piece, n).blk = filled.blk \o new
        /\ FillPiece(gen, filled, piece, n)
            = [blk |-> FillPiece(gen, filled, piece, n).blk,
               ctx |-> FillPiece(gen, filled, piece, n).ctx]
    BY <1>4, <2>2 DEF FillPiece
  <2> HIDE DEF new
  <2> QED
    BY <1>0, <1>2, <2>3 DEF IsFilled
<1> QED
  BY <1>3, <1>4

\* Sector s of the block of an md5 is sector t of its piece i.
LEMMA BlockOfFacts ==
    ASSUME NEW gen, NEW md5, Len(md5) \in Nat, Len(md5) > 0, BlkSectors % Len(md5) = 0,
           NEW i \in 1 .. Len(md5), NEW t \in 1 .. PieceSectors(md5)
    PROVE  /\ (i - 1) * PieceSectors(md5) + t \in 1 .. BlkSectors
           /\ BlockOf(gen, md5)[(i - 1) * PieceSectors(md5) + t] = SectorOf(gen, md5[i], t)
<1>1. PICK m \in Nat : m = PieceSectors(md5) /\ m > 0 /\ Len(md5) * m = BlkSectors
  BY WholeParts, BlkSectorsAssumption DEF PieceSectors
<1>2. i - 1 \in Nat /\ t - 1 \in 0 .. m - 1
  BY <1>1
<1>3. PICK q \in Nat, r \in 0 .. m - 1 : q = i - 1 /\ r = t - 1
  BY <1>2
<1>4. (q * m + r) \div m = q /\ (q * m + r) % m = r
  <2>1. q \in Nat /\ m \in Nat /\ m > 0 /\ r \in 0 .. m - 1
    BY <1>1, <1>3
  <2> QED
    BY <2>1, DivPoint, Zenon
<1>5. PICK a \in Nat : a = q * m
  BY <1>1, <1>3, MulNat, Zenon
<1>6. a + m <= BlkSectors
  <2>1. q < Len(md5)
    BY <1>3
  <2>2. q * m + m <= Len(md5) * m
    BY <1>1, <1>3, <2>1, MulLess
  <2> QED
    BY <1>1, <1>5, <2>2
<1>7. a + t \in 1 .. BlkSectors /\ (a + t) - 1 = a + r
  BY <1>3, <1>5, <1>6, BlkSectorsAssumption
<1>8. BlockOf(gen, md5)[a + t]
        = LET piece == md5[((a + r) \div m) + 1]
          IN  IF gen = "null" THEN <<gen, piece[1], piece[2]>>
              ELSE <<gen, piece[1], ((a + r) % m) + 1>>
  BY <1>1, <1>7 DEF BlockOf
<1>9. (a + r) \div m = i - 1 /\ (a + r) % m = t - 1
  BY <1>3, <1>4, <1>5
<1>10. (i - 1) + 1 = i /\ (t - 1) + 1 = t
  OBVIOUS
<1>11. BlockOf(gen, md5)[a + t] = SectorOf(gen, md5[i], t)
  BY <1>8, <1>9, <1>10 DEF SectorOf
<1>12. (i - 1) * PieceSectors(md5) + t = a + t
  BY <1>1, <1>3, <1>5
<1> QED
  BY <1>7, <1>11, <1>12

\* After i pieces of an md5, as much of its block is behind what was there.
PiecesDone(gen, filled, md5, f, i) ==
    /\ IsFilled(f[i])
    /\ Len(f[i].blk) = Len(filled.blk) + i * PieceSectors(md5)
    /\ \A p \in 1 .. Len(filled.blk) : f[i].blk[p] = filled.blk[p]
    /\ \A s \in 1 .. i * PieceSectors(md5) :
        f[i].blk[Len(filled.blk) + s] = BlockOf(gen, md5)[s]

\* One piece more.
LEMMA PieceDone ==
    ASSUME NEW gen, NEW filled, IsFilled(filled),
           NEW md5, Len(md5) \in Nat, Len(md5) > 0, BlkSectors % Len(md5) = 0,
           NEW f, FillingPieces(gen, filled, md5, f),
           NEW i \in 1 .. Len(md5), PiecesDone(gen, filled, md5, f, i - 1)
    PROVE  PiecesDone(gen, filled, md5, f, i)
<1>1. PICK m \in Nat : m = PieceSectors(md5)
  BY WholeParts, BlkSectorsAssumption DEF PieceSectors
<1>2. f[i] = FillPiece(gen, f[i - 1], md5[i], m)
  <2>1. i \in 0 .. Len(md5) /\ i # 0
    OBVIOUS
  <2> QED
    BY <1>1, <2>1 DEF FillingPieces, PieceStep
<1>3. PICK old, new : old = f[i - 1].blk /\ new = PieceBlk(gen, md5[i], m)
  OBVIOUS
<1>4. PICK L, k : L = Len(filled.blk) /\ k = (i - 1) * m
  OBVIOUS
<1>5. /\ L \in Nat /\ m \in Nat /\ k \in Nat /\ i * m = k + m
  <2>1. i - 1 \in Nat /\ L \in Nat /\ m \in Nat
    BY <1>1, <1>4 DEF IsFilled, IsSeq
  <2>2. k \in Nat
    BY <1>4, <2>1, MulNat, Zenon
  <2>3. i * m = (i - 1) * m + m
    BY <2>1
  <2> QED
    BY <1>4, <2>1, <2>2, <2>3
<1>6. /\ IsFilled(f[i - 1]) /\ IsSeq(old) /\ Len(old) = L + k
      /\ \A p \in 1 .. L : old[p] = filled.blk[p]
      /\ \A s \in 1 .. k : old[L + s] = BlockOf(gen, md5)[s]
  BY <1>1, <1>3, <1>4 DEF PiecesDone, IsFilled
<1>7. IsSeq(new) /\ Len(new) = m /\ \A s \in 1 .. m : new[s] = SectorOf(gen, md5[i], s)
  <2>1. new = [s \in 1 .. m |-> new[s]] /\ \A s \in 1 .. m : new[s] = SectorOf(gen, md5[i], s)
    BY <1>3 DEF PieceBlk
  <2> QED
    BY <1>5, <2>1, MadeSeq
<1>8. IsFilled(f[i]) /\ f[i].blk = old \o new
  <2>1. m \in Nat /\ IsFilled(f[i - 1])
    BY <1>5, <1>6
  <2>2. /\ IsFilled(FillPiece(gen, f[i - 1], md5[i], m))
        /\ FillPiece(gen, f[i - 1], md5[i], m).blk
            = f[i - 1].blk \o PieceBlk(gen, md5[i], m)
    BY <2>1, FillPieceFacts, ZenonT(40)
  <2> QED
    BY <1>2, <1>3, <2>2, Zenon
<1>9. /\ Len(old \o new) = (L + k) + m
      /\ \A p \in 1 .. L + k : (old \o new)[p] = old[p]
      /\ \A s \in 1 .. m : (old \o new)[(L + k) + s] = new[s]
  <2>1. IsSeq(old) /\ IsSeq(new)
    BY <1>6, <1>7
  <2>2. /\ Len(old \o new) = Len(old) + Len(new)
        /\ \A p \in 1 .. Len(old) : (old \o new)[p] = old[p]
        /\ \A s \in 1 .. Len(new) : (old \o new)[Len(old) + s] = new[s]
    BY <2>1, Joined
  <2>3. Len(old) = L + k /\ Len(new) = m
    BY <1>6, <1>7
  <2> QED
    BY <2>2, <2>3
<1>10. Len(f[i].blk) = L + i * m
  BY <1>5, <1>8, <1>9
<1>11. \A p \in 1 .. L : f[i].blk[p] = filled.blk[p]
  <2>1. \A p \in 1 .. L : p \in 1 .. L + k
    BY <1>5
  <2> QED
    BY <1>6, <1>8, <1>9, <2>1
<1>12. ASSUME NEW s \in 1 .. k + m
       PROVE  f[i].blk[L + s] = BlockOf(gen, md5)[s]
  <2>1. CASE s <= k
    <3>1. s \in 1 .. k /\ L + s \in 1 .. L + k
      BY <1>5, <2>1
    <3> QED
      BY <1>6, <1>8, <1>9, <3>1
  <2>2. CASE ~ (s <= k)
    <3>1. PICK t \in 1 .. m : s = k + t
      <4>1. s - k \in 1 .. m /\ s = k + (s - k)
        BY <1>5, <2>2
      <4> QED
        BY <4>1
    <3>2. L + s = (L + k) + t
      BY <1>5, <3>1
    <3>3. f[i].blk[L + s] = SectorOf(gen, md5[i], t)
      BY <1>7, <1>8, <1>9, <3>1, <3>2
    <3>4. BlockOf(gen, md5)[k + t] = SectorOf(gen, md5[i], t)
      <4>1. t \in 1 .. PieceSectors(md5)
        BY <1>1, <3>1
      <4>2. BlockOf(gen, md5)[(i - 1) * PieceSectors(md5) + t] = SectorOf(gen, md5[i], t)
        BY <4>1, BlockOfFacts
      <4> QED
        BY <1>1, <1>4, <4>2
    <3> QED
      BY <3>1, <3>3, <3>4
  <2> QED
    BY <2>1, <2>2
<1> QED
  BY <1>1, <1>4, <1>5, <1>8, <1>10, <1>11, <1>12 DEF PiecesDone

\* fill_blk puts the block of its md5 behind what is there.
LEMMA FillFacts ==
    ASSUME NEW gen, NEW filled, IsFilled(filled),
           NEW md5, Len(md5) \in Nat, Len(md5) > 0, BlkSectors % Len(md5) = 0
    PROVE  /\ IsFilled(fill_blk(gen, filled, md5))
           /\ fill_blk(gen, filled, md5).blk = filled.blk \o BlockOf(gen, md5)
           /\ IsSeq(BlockOf(gen, md5)) /\ Len(BlockOf(gen, md5)) = BlkSectors
<1>1. PICK f : /\ FillingPieces(gen, filled, md5, f)
               /\ fill_blk(gen, filled, md5) = f[Len(md5)]
  BY FillUnfolds
<1> DEFINE Bad == {i \in 0 .. Len(md5) : ~ PiecesDone(gen, filled, md5, f, i)}
<1>2. PiecesDone(gen, filled, md5, f, 0)
  <2>1. f[0] = filled
    <3>1. 0 \in 0 .. Len(md5)
      OBVIOUS
    <3> QED
      BY <1>1, <3>1 DEF FillingPieces, PieceStep
  <2>2. 0 * PieceSectors(md5) = 0
    BY WholeParts, BlkSectorsAssumption DEF PieceSectors
  <2>3. Len(filled.blk) + 0 = Len(filled.blk)
    BY DEF IsFilled, IsSeq
  <2> QED
    BY <2>1, <2>2, <2>3 DEF PiecesDone
<1>3. Bad = {}
  <2> SUFFICES ASSUME Bad # {}
               PROVE  FALSE
    OBVIOUS
  <2>1. Bad \in SUBSET Nat
    OBVIOUS
  <2> HIDE DEF Bad
  <2>2. PICK i \in Bad : \A j \in Bad : i <= j
    BY <2>1, LeastNatural
  <2> USE DEF Bad
  <2>3. i \in 1 .. Len(md5) /\ i - 1 \in 0 .. Len(md5) /\ i - 1 \notin Bad
    BY <1>2, <2>2
  <2>4. PiecesDone(gen, filled, md5, f, i - 1)
    BY <2>3
  <2> QED
    BY <1>1, <2>2, <2>3, <2>4, PieceDone
<1>4. PiecesDone(gen, filled, md5, f, Len(md5))
  <2>1. Len(md5) \in 0 .. Len(md5)
    OBVIOUS
  <2> QED
    BY <1>3, <2>1
<1>5. Len(md5) * PieceSectors(md5) = BlkSectors
  BY WholeParts, BlkSectorsAssumption DEF PieceSectors
<1>6. IsSeq(BlockOf(gen, md5)) /\ Len(BlockOf(gen, md5)) = BlkSectors
  <2>1. BlockOf(gen, md5) = [s \in 1 .. BlkSectors |-> BlockOf(gen, md5)[s]]
    BY DEF BlockOf
  <2> QED
    BY <2>1, MadeSeq, BlkSectorsAssumption
<1>7. PICK out, block : out = f[Len(md5)].blk /\ block = BlockOf(gen, md5)
  OBVIOUS
<1>8. /\ IsSeq(out) /\ Len(out) = Len(filled.blk) + BlkSectors
      /\ \A p \in 1 .. Len(filled.blk) : out[p] = filled.blk[p]
      /\ \A s \in 1 .. BlkSectors : out[Len(filled.blk) + s] = block[s]
  BY <1>4, <1>5, <1>7 DEF PiecesDone, IsFilled
<1>9. /\ IsSeq(filled.blk) /\ IsSeq(block) /\ Len(block) = BlkSectors
  BY <1>6, <1>7 DEF IsFilled
<1>10. out = filled.blk \o block
  BY <1>8, <1>9, JoinedIs
<1> QED
  BY <1>1, <1>4, <1>6, <1>7, <1>10 DEF PiecesDone

\* What fill_blk has put into a buffer is as long as the blocks it was called
\* for, and block n is the one of the n-th md5.
BlocksDone(gen, md5s, f, n) ==
    /\ IsFilled(f[n]) /\ Len(f[n].blk) = n * BlkSectors
    /\ \A b \in 1 .. n : \A s \in 1 .. BlkSectors :
        f[n].blk[(b - 1) * BlkSectors + s] = BlockOf(gen, md5s[b])[s]

\* An md5 fill_blk can be called for.
Md5Right(md5) == Len(md5) \in Nat /\ Len(md5) > 0 /\ BlkSectors % Len(md5) = 0

\* One block more.
LEMMA BlockDone ==
    ASSUME NEW gen, NEW ctx0, NEW md5s, Len(md5s) \in Nat,
           NEW f, FillingBlocks(gen, ctx0, md5s, f),
           NEW n \in 1 .. Len(md5s), Md5Right(md5s[n]), BlocksDone(gen, md5s, f, n - 1)
    PROVE  BlocksDone(gen, md5s, f, n)
<1>1. f[n] = fill_blk(gen, f[n - 1], md5s[n])
  <2>1. n \in 0 .. Len(md5s) /\ n # 0
    OBVIOUS
  <2> QED
    BY <2>1 DEF FillingBlocks, BlockStep
<1>2. PICK old, new : old = f[n - 1].blk /\ new = BlockOf(gen, md5s[n])
  OBVIOUS
<1>3. IsFilled(f[n - 1]) /\ IsSeq(old)
  BY <1>2 DEF BlocksDone, IsFilled
<1>4. /\ IsFilled(f[n]) /\ f[n].blk = old \o new
      /\ IsSeq(new) /\ Len(new) = BlkSectors
  <2>1. /\ IsFilled(f[n - 1])
        /\ Len(md5s[n]) \in Nat /\ Len(md5s[n]) > 0 /\ BlkSectors % Len(md5s[n]) = 0
    BY <1>3 DEF Md5Right
  <2>2. /\ IsFilled(fill_blk(gen, f[n - 1], md5s[n]))
        /\ fill_blk(gen, f[n - 1], md5s[n]).blk = f[n - 1].blk \o BlockOf(gen, md5s[n])
        /\ IsSeq(BlockOf(gen, md5s[n])) /\ Len(BlockOf(gen, md5s[n])) = BlkSectors
    BY <2>1, FillFacts, Zenon
  <2> QED
    BY <1>1, <1>2, <2>2, Zenon
<1>5. PICK k : k = (n - 1) * BlkSectors
  OBVIOUS
<1>6. k \in Nat /\ n * BlkSectors = k + BlkSectors /\ BlkSectors \in Nat
  <2>1. n - 1 \in Nat /\ BlkSectors \in Nat
    BY BlkSectorsAssumption
  <2>2. k \in Nat
    BY <1>5, <2>1, MulNat, Zenon
  <2>3. n * BlkSectors = (n - 1) * BlkSectors + BlkSectors
    BY <2>1
  <2> QED
    BY <1>5, <2>1, <2>2, <2>3
<1>7. Len(old) = k /\ \A b \in 1 .. n - 1 : \A s \in 1 .. BlkSectors :
            old[(b - 1) * BlkSectors + s] = BlockOf(gen, md5s[b])[s]
  BY <1>2, <1>5 DEF BlocksDone
<1>8. /\ Len(old \o new) = k + BlkSectors
      /\ \A p \in 1 .. k : (old \o new)[p] = old[p]
      /\ \A s \in 1 .. BlkSectors : (old \o new)[k + s] = new[s]
  <2>1. IsSeq(old) /\ IsSeq(new)
    BY <1>3, <1>4
  <2>2. /\ Len(old \o new) = Len(old) + Len(new)
        /\ \A p \in 1 .. Len(old) : (old \o new)[p] = old[p]
        /\ \A p \in 1 .. Len(new) : (old \o new)[Len(old) + p] = new[p]
    BY <2>1, Joined
  <2> QED
    BY <1>4, <1>7, <2>2
<1>9. ASSUME NEW b \in 1 .. n, NEW s \in 1 .. BlkSectors
      PROVE  f[n].blk[(b - 1) * BlkSectors + s] = BlockOf(gen, md5s[b])[s]
  <2>1. CASE b = n
    BY <1>2, <1>4, <1>5, <1>8, <2>1
  <2>2. CASE b # n
    <3>1. b \in 1 .. n - 1
      BY <2>2
    <3>2. (b - 1) * BlkSectors + s \in 1 .. k
      <4>1. b - 1 \in Nat /\ n - 1 \in Nat /\ b - 1 < n - 1
        BY <3>1
      <4>2. (b - 1) * BlkSectors \in Nat
        BY <4>1, <1>6, MulNat, Zenon
      <4>3. (b - 1) * BlkSectors + BlkSectors <= k
        BY <1>5, <1>6, <4>1, MulLess
      <4> QED
        BY <1>6, <4>2, <4>3
    <3> QED
      BY <1>4, <1>7, <1>8, <3>1, <3>2
  <2> QED
    BY <2>1, <2>2
<1> QED
  BY <1>4, <1>6, <1>8, <1>9 DEF BlocksDone

\* The buffer of a hint is the blocks of its records, whatever the context was.
LEMMA FilledFacts ==
    ASSUME NEW gen, NEW ctx0, NEW md5s, Len(md5s) \in Nat,
           \A n \in 1 .. Len(md5s) : Md5Right(md5s[n])
    PROVE  /\ IsSeq(Filled(gen, ctx0, md5s).blk)
           /\ Len(Filled(gen, ctx0, md5s).blk) = Len(md5s) * BlkSectors
           /\ \A b \in 1 .. Len(md5s) : \A s \in 1 .. BlkSectors :
                Filled(gen, ctx0, md5s).blk[(b - 1) * BlkSectors + s]
                    = BlockOf(gen, md5s[b])[s]
<1>1. PICK f : /\ FillingBlocks(gen, ctx0, md5s, f)
               /\ Filled(gen, ctx0, md5s) = f[Len(md5s)]
  BY FilledUnfolds
<1> DEFINE Bad == {n \in 0 .. Len(md5s) : ~ BlocksDone(gen, md5s, f, n)}
<1>2. BlocksDone(gen, md5s, f, 0)
  <2>1. f[0] = [blk |-> <<>>, ctx |-> ctx0]
    <3>1. 0 \in 0 .. Len(md5s)
      OBVIOUS
    <3> QED
      BY <1>1, <3>1 DEF FillingBlocks, BlockStep
  <2>2. IsFilled(f[0]) /\ Len(f[0].blk) = 0
    BY <2>1 DEF IsFilled, IsSeq
  <2>3. 0 * BlkSectors = 0
    BY BlkSectorsAssumption
  <2> QED
    BY <2>2, <2>3 DEF BlocksDone
<1>3. Bad = {}
  <2> SUFFICES ASSUME Bad # {}
               PROVE  FALSE
    OBVIOUS
  <2>1. Bad \in SUBSET Nat
    OBVIOUS
  <2> HIDE DEF Bad
  <2>2. PICK n \in Bad : \A m \in Bad : n <= m
    BY <2>1, LeastNatural
  <2> USE DEF Bad
  <2>3. n \in 1 .. Len(md5s) /\ n - 1 \in 0 .. Len(md5s) /\ n - 1 \notin Bad
    BY <1>2, <2>2
  <2>4. BlocksDone(gen, md5s, f, n - 1)
    BY <2>3
  <2> QED
    BY <1>1, <2>2, <2>3, <2>4, BlockDone
<1>4. BlocksDone(gen, md5s, f, Len(md5s))
  <2>1. Len(md5s) \in 0 .. Len(md5s)
    OBVIOUS
  <2> QED
    BY <1>3, <2>1
<1> QED
  BY <1>1, <1>4, Zenon DEF BlocksDone, IsFilled

----------------------------------------------------------------------------
(* The invariant of a run. *)

\* The variables of the plan without its phase.
planRest == <<opt, lines, infos, next_info, containers, cur_thread, cur_lines, infos_map,
              worker, scan, hints, params>>

\* The types of the run's variables.
RunTyped ==
    /\ created \in 0 .. opt.threads /\ joined \in 0 .. created
    /\ wpc \in [Workers -> {"none", "open", "replay", "ended"}]
    /\ hint \in [Workers -> Nat]
    /\ DOMAIN ctx = Workers
    /\ DOMAIN blk = Workers /\ DOMAIN file = Workers /\ DOMAIN dump = Workers
    /\ \A w \in Workers : IsSeq(blk[w]) /\ IsSeq(file[w]) /\ IsSeq(dump[w])

\* No worker runs before the plan is there; main starts and joins the workers
\* one after the other.
Started ==
    /\ phase \in PlanPhases \cup {"done", "exited"}
    /\ ~HasPlan => created = 0 /\ joined = 0
    /\ HasPlan => worker = opt.threads
    /\ \A w \in Workers :
        /\ wpc[w] = "none" <=> w >= created
        /\ w < joined => wpc[w] = "ended"
    /\ phase = "done" => joined = opt.threads

\* A worker in the middle of one of its hints.
InHint(w) == wpc[w] = "replay" /\ hint[w] < params[w].end

\* Each worker stays within its hints.
WithinHints ==
    \A w \in Workers :
        /\ wpc[w] \in {"replay", "ended"} => hint[w] \in params[w].start .. params[w].end
        /\ wpc[w] = "ended" => hint[w] = params[w].end

\* The pread loop has read a first part of its range, and nothing outside it is
\* in the buffer.
ReadingOf(w) ==
    IF InHint(w) /\ ~IsWrite(w)
    THEN /\ Len(blk[w]) <= HintSectors(w)
         /\ blk[w] = Padded(file[w], HintOffset(w), Len(blk[w]))
    ELSE blk[w] = <<>>

Reading == \A w \in Workers : ReadingOf(w)

\* The pieces of an md5 divide a block.
Divides(record) == record.md5 # <<>> => BlkSectors % Len(record.md5) = 0

\* The records are those of the trace that the mode asks for.
FromTrace ==
    /\ \A n \in DOMAIN infos :
        /\ Divides(infos[n])
        /\ opt.mode # "rw" => infos[n].rw = "W"
    /\ \A n \in DOMAIN lines : Divides(lines[n])

\* The invariant of main and the workers.
RunIInv ==
    /\ PlanIInv /\ FromTrace
    /\ RunTyped /\ Started /\ WithinHints /\ Reading

----------------------------------------------------------------------------
(* Facts the steps share. *)

\* A step of the planning leaves the command line alone, and ends the planning
\* only when every worker has its hints.
LEMMA PlanFrame ==
    ASSUME PlanNext
    PROVE  /\ opt' = opt
           /\ phase \in PlanPhases \ {"ready", "fault"} /\ phase' \in PlanPhases
           /\ phase' = "ready" => worker' = opt.threads
BY DEF PlanNext, PlanPhases, parse_trace_info, build_trace_containers, SortContainers,
       AssignContainer, SortWorker, SortEmptyWorker, ScanRecord, FinishWorker, Planned

\* Beside the planning, a step happens once the plan is there and leaves it.
LEMMA StepKinds ==
    ASSUME [Next]_vars
    PROVE  \/ PlanNext /\ UNCHANGED runVars
           \/ UNCHANGED vars
           \/ /\ phase = "ready" /\ HasPlan' /\ UNCHANGED planRest
              /\ \/ CreateWorker \/ JoinWorker
                 \/ \E w \in Workers : WorkerStep(w) \/ FailedCall(w)
<1>1. CASE CreateWorker \/ JoinWorker
  BY <1>1 DEF CreateWorker, JoinWorker, HasPlan, planRest, planVars
<1>2. ASSUME NEW w \in Workers, WorkerStep(w) \/ FailedCall(w)
      PROVE  phase = "ready" /\ HasPlan' /\ UNCHANGED planRest
  BY <1>2 DEF WorkerStep, FailedCall, OpenFiles, WriteHint, DivideByZero, PreadSome, EndRead,
              EndWorker, Replaying, HasPlan, planRest, planVars
<1> QED
  BY <1>1, <1>2 DEF Next, MainStep

\* The plan stays right while it is carried out.
LEMMA PlanPart ==
    ASSUME PlanIInv, Started, [Next]_vars
    PROVE  PlanIInv'
<1>1. CASE PlanNext
  BY <1>1, PlanStep
<1>2. CASE UNCHANGED vars
  BY <1>2, PlanStep DEF vars
<1>3. CASE phase = "ready" /\ HasPlan' /\ UNCHANGED planRest
  BY <1>3, PhaseStep DEF Started, HasPlan, planRest
<1> QED
  BY <1>1, <1>2, <1>3, StepKinds

\* The records are those of the trace, from the first line on.
LEMMA TracePart ==
    ASSUME Typed, FromTrace, [Next]_vars
    PROVE  FromTrace'
<1>1. CASE parse_trace_info /\ lines # <<>>
  <2>1. /\ infos \in Seq(Records) /\ lines \in Seq(Records \cup {BadLine})
    BY DEF Typed
  <2>2. /\ 1 \in DOMAIN lines /\ Head(lines) = lines[1] /\ opt' = opt
        /\ lines' = Tail(lines)
        /\ infos' = IF Kept(Head(lines)) THEN Append(infos, Head(lines)) ELSE infos
    BY <1>1, <2>1 DEF parse_trace_info
  <2>3. \A n \in DOMAIN lines' : n + 1 \in DOMAIN lines /\ lines'[n] = lines[n + 1]
    BY <1>1, <2>1, <2>2
  <2>4. \A n \in DOMAIN lines' : Divides(lines'[n])
    BY <2>3 DEF FromTrace
  <2>5. CASE ~ Kept(Head(lines))
    BY <2>2, <2>4, <2>5 DEF FromTrace
  <2>6. CASE Kept(Head(lines))
    <3>1. Divides(lines[1]) /\ (opt.mode # "rw" => lines[1].rw = "W")
      BY <2>2, <2>6 DEF Kept, FromTrace
    <3>2. lines[1] \in Records
      BY <2>1, <2>2, <2>6 DEF Kept
    <3>3. infos' = Append(infos, lines[1])
      BY <2>2, <2>6
    <3>4. \A n \in DOMAIN infos' : \/ n \in DOMAIN infos /\ infos'[n] = infos[n]
                                   \/ infos'[n] = lines[1]
      BY <2>1, <3>2, <3>3, AppendFacts
    <3>5. \A n \in DOMAIN infos' : Divides(infos'[n]) /\ (opt.mode # "rw" => infos'[n].rw = "W")
      BY <3>1, <3>4 DEF FromTrace
    <3> QED
      BY <2>2, <2>4, <3>5 DEF FromTrace
  <2> QED
    BY <2>5, <2>6
<1>2. CASE UNCHANGED <<opt, lines, infos>>
  BY <1>2 DEF FromTrace
<1>3. ASSUME PlanNext, ~ (parse_trace_info /\ lines # <<>>)
      PROVE  UNCHANGED <<opt, lines, infos>>
  BY <1>3 DEF PlanNext, parse_trace_info, build_trace_containers, SortContainers,
     AssignContainer, SortWorker, SortEmptyWorker, ScanRecord, FinishWorker, Planned
<1> QED
  BY <1>1, <1>2, <1>3, StepKinds DEF planRest, vars, planVars

\* The hints of a worker, once every worker is planned: each stands for a range
\* of the worker's records, and it begins where the one before ends.
LEMMA HintFacts ==
    ASSUME PlanIInv, worker = opt.threads, NEW w \in Workers,
           NEW h \in params[w].start .. params[w].end - 1
    PROVE  /\ params[w].start \in Nat /\ params[w].end \in Nat /\ params[w].buf \in Nat
           /\ h \in Nat /\ h + 1 \in DOMAIN hints
           /\ hints[h + 1].start \in Nat /\ hints[h + 1].blks \in Nat \ {0}
           /\ hints[h + 1].blks <= params[w].buf
           /\ hints[h + 1].start + hints[h + 1].blks <= Len(infos_map[w])
           /\ infos_map[w] \in Seq(DOMAIN infos) /\ Len(infos_map[w]) \in Nat
           /\ h = params[w].start => hints[h + 1].start = 0
           /\ h + 1 = params[w].end =>
                hints[h + 1].start + hints[h + 1].blks = Len(infos_map[w])
           /\ h + 1 # params[w].end =>
                hints[h + 1].start + hints[h + 1].blks = hints[(h + 1) + 1].start
<1> DEFINE s == params[w].start
           e == params[w].end
           buf == params[w].buf
<1>1. Typed /\ PlannedHints
  BY DEF PlanIInv
<1>2. w \in PlannedWorkers
  BY <1>1, OptFacts DEF PlannedWorkers, Typed
<1>3. HintsRight(w)
  BY <1>1, <1>2 DEF PlannedHints
<1>4. /\ s \in Nat /\ e \in Nat /\ buf \in Nat
      /\ infos_map[w] \in Seq(DOMAIN infos) /\ Len(infos_map[w]) \in Nat
      /\ hints \in Seq(HintType) /\ Len(hints) \in Nat /\ DOMAIN hints = 1 .. Len(hints)
  BY <1>1, SMTT(40) DEF Typed
<1>5. s < e /\ e <= Len(hints) /\ Tiling(w, s + 1, e, Len(infos_map[w]), buf)
  BY <1>3 DEF HintsRight
<1> HIDE DEF s, e, buf
<1>6. h \in s .. e - 1
  BY DEF s, e
<1>7. h \in Nat /\ h + 1 \in s + 1 .. e /\ h + 1 \in 1 .. Len(hints)
  BY <1>4, <1>5, <1>6
<1>8. hints[h + 1] \in HintType
  BY <1>4, <1>7
<1>9. hints[h + 1].start \in Nat /\ hints[h + 1].blks \in Nat
  BY <1>8 DEF HintType
<1>10. /\ hints[s + 1].start = 0
       /\ hints[e].start + hints[e].blks = Len(infos_map[w])
       /\ hints[h + 1].blks \in 1 .. buf
       /\ hints[h + 1].start + hints[h + 1].blks <= Len(infos_map[w])
       /\ h + 1 # e => hints[h + 1].start + hints[h + 1].blks = hints[(h + 1) + 1].start
  BY <1>5, <1>7 DEF Tiling
<1>11. hints[h + 1].blks \in Nat \ {0} /\ hints[h + 1].blks <= buf
  BY <1>4, <1>10
<1> QED
  BY <1>4, <1>7, <1>9, <1>10, <1>11 DEF s, e, buf

\* The records that a hint stands for.
LEMMA HintRecords ==
    ASSUME PlanIInv, worker = opt.threads, NEW w \in Workers,
           NEW h \in params[w].start .. params[w].end - 1,
           NEW n \in 1 .. hints[h + 1].blks
    PROVE  /\ hints[h + 1].start + n \in DOMAIN infos_map[w]
           /\ infos_map[w][hints[h + 1].start + n] \in DOMAIN infos
           /\ infos[infos_map[w][hints[h + 1].start + n]] \in Records
           /\ infos[infos_map[w][hints[h + 1].start + n]].rw = hints[h + 1].rw
           /\ infos[infos_map[w][hints[h + 1].start + n]].lba
                = infos[infos_map[w][hints[h + 1].start + 1]].lba + (n - 1) * BlkSectors
<1> DEFINE st == hints[h + 1].start
           bl == hints[h + 1].blks
<1>1. Typed /\ PlannedHints /\ infos \in Seq(Records)
  BY DEF PlanIInv, Typed
<1>2. w \in PlannedWorkers
  BY <1>1, OptFacts DEF PlannedWorkers, Typed
<1>3. /\ st \in Nat /\ bl \in Nat \ {0} /\ st + bl <= Len(infos_map[w])
      /\ infos_map[w] \in Seq(DOMAIN infos) /\ Len(infos_map[w]) \in Nat
  BY HintFacts
<1>4. /\ params[w].start \in Nat /\ params[w].end \in Nat
      /\ Tiling(w, params[w].start + 1, params[w].end, Len(infos_map[w]), params[w].buf)
  BY <1>1, <1>2 DEF PlannedHints, HintsRight, Typed
<1>5. h + 1 \in params[w].start + 1 .. params[w].end
  BY <1>4
<1>6. hints[h + 1].rw = rec(w, st).rw /\ OneRange(w, st, bl)
  BY <1>4, <1>5 DEF Tiling
<1> HIDE DEF st, bl
<1>7. n \in 1 .. bl /\ n - 1 \in 0 .. bl - 1 /\ st + (n - 1) + 1 = st + n
      /\ st + n \in 1 .. Len(infos_map[w])
  <2>1. n \in 1 .. bl
    BY DEF bl
  <2> QED
    BY <1>3, <2>1, SMTT(40)
<1>8. rec(w, st + (n - 1)) = infos[infos_map[w][st + n]] /\ rec(w, st) = infos[infos_map[w][st + 1]]
  BY <1>7 DEF rec
<1>9. infos_map[w][st + n] \in DOMAIN infos /\ st + n \in DOMAIN infos_map[w]
  BY <1>3, <1>7
<1>10. infos[infos_map[w][st + n]] \in Records
  BY <1>1, <1>9
<1>11. /\ rec(w, st + (n - 1)).rw = rec(w, st).rw
       /\ rec(w, st + (n - 1)).lba = rec(w, st).lba + (n - 1) * BlkSectors
  BY <1>6, <1>7 DEF OneRange
<1> QED
  BY <1>6, <1>8, <1>9, <1>10, <1>11 DEF st

\* The hint a worker is in the middle of.
LEMMA InHintFacts ==
    ASSUME PlanIInv, worker = opt.threads, RunTyped, WithinHints, NEW w \in Workers, InHint(w)
    PROVE  /\ hint[w] \in params[w].start .. params[w].end - 1
           /\ hint[w] \in Nat /\ HintOffset(w) \in Nat /\ HintSectors(w) \in Nat
           /\ HintSectors(w) = Hint(w).blks * BlkSectors
           /\ Hint(w).blks \in Nat \ {0} /\ Hint(w).start \in Nat
           /\ \A n \in 1 .. Hint(w).blks :
                /\ Hint(w).start + n \in DOMAIN infos_map[w]
                /\ infos_map[w][Hint(w).start + n] \in DOMAIN infos
                /\ HintRecord(w, n) \in Records
                /\ HintRecord(w, n).rw = Hint(w).rw
                /\ HintRecord(w, n).lba = HintOffset(w) + (n - 1) * BlkSectors
<1>1. hint[w] \in params[w].start .. params[w].end - 1
  <2>1. /\ hint[w] \in params[w].start .. params[w].end /\ hint[w] < params[w].end
        /\ params[w].start \in Nat /\ params[w].end \in Nat
    BY DEF WithinHints, InHint, PlanIInv, Typed
  <2> QED
    BY <2>1
<1>2. hint[w] \in Nat /\ Hint(w).blks \in Nat \ {0} /\ Hint(w).start \in Nat
  BY <1>1, HintFacts DEF Hint
<1>3. \A n \in 1 .. Hint(w).blks :
        /\ Hint(w).start + n \in DOMAIN infos_map[w]
        /\ infos_map[w][Hint(w).start + n] \in DOMAIN infos
        /\ HintRecord(w, n) \in Records
        /\ HintRecord(w, n).rw = Hint(w).rw
        /\ HintRecord(w, n).lba = HintOffset(w) + (n - 1) * BlkSectors
  BY <1>1, HintRecords DEF Hint, HintRecord, HintOffset
<1>4. HintOffset(w) \in Nat
  <2>1. 1 \in 1 .. Hint(w).blks
    BY <1>2
  <2>2. HintRecord(w, 1) \in Records
    BY <1>3, <2>1
  <2> QED
    BY <2>2 DEF HintOffset, Records
<1>5. HintSectors(w) \in Nat
  BY <1>2, BlkSectorsAssumption DEF HintSectors
<1> QED
  BY <1>1, <1>2, <1>3, <1>4, <1>5 DEF HintSectors

\* What a worker's step does not touch of another worker.
LEMMA OtherKeeps ==
    ASSUME UNCHANGED planRest, NEW v \in Workers, ReadingOf(v),
           wpc'[v] = wpc[v], hint'[v] = hint[v], blk'[v] = blk[v], file'[v] = file[v]
    PROVE  ReadingOf(v)'
BY DEF planRest, ReadingOf, InHint, IsWrite, Hint, HintSectors, HintOffset, HintRecord

\* The initial states.
LEMMA RunInitIInv == Init => RunIInv
<1> SUFFICES ASSUME Init
             PROVE  RunIInv
  OBVIOUS
<1>1. PlanIInv
  BY PlanInitIInv DEF Init
<1>2. opt \in Options /\ lines \in Inputs /\ infos = <<>> /\ phase = "parse"
  BY DEF Init, PlanInit
<1>3. opt.threads \in Nat \ {0} /\ opt.threads <= MaxThreads
      /\ \A w \in Workers : w \in Nat /\ w \in AllWorkers
  <2>1. opt.threads \in Nat \ {0} /\ \A w \in Workers : w \in Nat /\ w < opt.threads
    BY <1>2, OptFacts
  <2>2. opt.threads <= MaxThreads
    BY <1>2, RunOptionsAssumption
  <2>3. MaxThreads \in Int
    BY MaxThreadsAssumption
  <2> QED
    BY <2>1, <2>2, <2>3 DEF Workers, AllWorkers
<1>4. FromTrace
  BY <1>2, PiecesAssumption DEF FromTrace, Divides
<1>5. \A w \in Workers : IsSeq(blk[w]) /\ IsSeq(file[w]) /\ IsSeq(dump[w])
  <2> TAKE w \in Workers
  <2>1. IsSeq(OldFile(w))
    BY <1>3, OldFileAssumption, TypedSeq
  <2>2. IsSeq(<<>>)
    BY DEF IsSeq
  <2> QED
    BY <2>1, <2>2 DEF Init
<1>6. RunTyped
  BY <1>3, <1>5 DEF RunTyped, Init
<1>7. Started
  BY <1>2, <1>3 DEF Started, HasPlan, PlanPhases, Init
<1>8. WithinHints /\ Reading
  BY DEF WithinHints, Reading, ReadingOf, InHint, Init
<1> QED
  BY <1>1, <1>4, <1>6, <1>7, <1>8 DEF RunIInv

\* A step of the planning.
LEMMA PlanningKeeps ==
    ASSUME RunIInv, PlanNext, UNCHANGED runVars
    PROVE  RunTyped' /\ Started' /\ WithinHints' /\ Reading'
<1>1. /\ opt' = opt /\ ~HasPlan /\ phase' \in PlanPhases
      /\ HasPlan' => worker' = opt.threads
  BY PlanFrame DEF HasPlan, PlanPhases
<1>2. Workers' = Workers
  BY <1>1 DEF Workers
<1>3. /\ created' = created /\ joined' = joined /\ wpc' = wpc /\ hint' = hint
      /\ blk' = blk /\ ctx' = ctx /\ file' = file /\ dump' = dump
  BY DEF runVars
<1>4. created = 0 /\ joined = 0 /\ \A w \in Workers : wpc[w] = "none"
  <2>1. opt \in Options
    BY DEF RunIInv, PlanIInv, Typed
  <2> QED
    BY <1>1, <2>1, OptFacts DEF RunIInv, Started
<1>5. RunTyped'
  BY <1>1, <1>2, <1>3 DEF RunIInv, RunTyped
<1>6. Started'
  BY <1>1, <1>2, <1>3, <1>4 DEF RunIInv, Started, HasPlan, PlanPhases
<1>7. WithinHints' /\ Reading'
  BY <1>2, <1>3, <1>4 DEF RunIInv, WithinHints, Reading, ReadingOf, InHint
<1> QED
  BY <1>5, <1>6, <1>7

\* Main starts or joins a worker.
LEMMA MainKeeps ==
    ASSUME RunIInv, CreateWorker \/ JoinWorker
    PROVE  RunTyped' /\ Started' /\ WithinHints' /\ Reading'
<1>1. UNCHANGED planRest /\ opt' = opt /\ Workers' = Workers
      /\ hint' = hint /\ blk' = blk /\ ctx' = ctx /\ file' = file /\ dump' = dump
      /\ params' = params
  BY DEF CreateWorker, JoinWorker, planRest, planVars, Workers
<1>2. /\ opt.threads \in Nat \ {0} /\ created \in 0 .. opt.threads /\ joined \in 0 .. created
      /\ \A w \in Workers : w \in Nat /\ w < opt.threads
      /\ wpc \in [Workers -> {"none", "open", "replay", "ended"}]
  BY OptFacts DEF RunIInv, PlanIInv, Typed, RunTyped
<1>3. CASE CreateWorker
  <2>1. /\ created' = created + 1 /\ wpc' = [wpc EXCEPT ![created] = "open"]
        /\ joined' = joined /\ phase' = phase /\ phase = "ready" /\ created < opt.threads
        /\ worker' = worker
    BY <1>3 DEF CreateWorker, planVars
  <2>2. created \in Workers /\ wpc[created] = "none"
    BY <1>2, <2>1 DEF Workers, RunIInv, Started
  <2>3. \A w \in Workers : w # created => wpc'[w] = wpc[w]
    BY <1>2, <2>1
  <2>4. wpc'[created] = "open"
    BY <1>2, <2>1, <2>2
  <2>5. RunTyped'
    <3>1. created + 1 \in 0 .. opt.threads /\ joined \in 0 .. created + 1
      BY <1>2, <2>1
    <3>2. wpc' \in [Workers -> {"none", "open", "replay", "ended"}]
      BY <1>2, <2>1
    <3> QED
      BY <1>1, <2>1, <3>1, <3>2 DEF RunIInv, RunTyped
  <2>6. Started'
    <3>1. \A w \in Workers : (wpc'[w] = "none" <=> w >= created') /\ (w < joined' => wpc'[w] = "ended")
      <4> TAKE w \in Workers
      <4>1. (wpc[w] = "none" <=> w >= created) /\ (w < joined => wpc[w] = "ended")
        BY DEF RunIInv, Started
      <4>2. CASE w = created
        BY <1>2, <2>1, <2>2, <2>4, <4>2
      <4>3. CASE w # created
        BY <1>2, <2>1, <2>3, <4>1, <4>3
      <4> QED
        BY <4>2, <4>3
    <3> QED
      BY <1>1, <2>1, <3>1 DEF RunIInv, Started, HasPlan
  <2>7. WithinHints'
    BY <1>1, <2>2, <2>3, <2>4 DEF RunIInv, WithinHints
  <2>8. Reading'
    <3> SUFFICES ASSUME NEW w \in Workers
                 PROVE  ReadingOf(w)'
      BY <1>1 DEF Reading
    <3>1. ReadingOf(w)
      BY DEF RunIInv, Reading
    <3>2. CASE w = created
      BY <1>1, <2>2, <2>4, <3>1, <3>2 DEF ReadingOf, InHint
    <3>3. CASE w # created
      BY <1>1, <2>3, <3>1, <3>3, OtherKeeps
    <3> QED
      BY <3>2, <3>3
  <2> QED
    BY <2>5, <2>6, <2>7, <2>8
<1>4. CASE JoinWorker
  <2>1. /\ phase = "ready" /\ created = opt.threads /\ joined < opt.threads
        /\ wpc[joined] = "ended" /\ joined' = joined + 1
        /\ phase' = IF joined + 1 = opt.threads THEN "done" ELSE phase
        /\ created' = created /\ wpc' = wpc /\ worker' = worker
    BY <1>4 DEF JoinWorker
  <2>2. RunTyped'
    BY <1>1, <1>2, <2>1 DEF RunIInv, RunTyped
  <2>3. Started'
    BY <1>1, <1>2, <2>1 DEF RunIInv, Started, HasPlan, PlanPhases
  <2>4. WithinHints' /\ Reading'
    <3>1. \A w \in Workers : ReadingOf(w)'
      BY <1>1, <2>1, OtherKeeps DEF RunIInv, Reading
    <3> QED
      BY <1>1, <2>1, <3>1 DEF RunIInv, WithinHints, Reading
  <2> QED
    BY <2>2, <2>3, <2>4
<1> QED
  BY <1>3, <1>4

\* The buffer that is written for a hint: the blocks of its records.
LEMMA HintFilledFacts ==
    ASSUME RunIInv, phase = "ready", NEW w \in Workers, InHint(w), ~ShortMd5(w)
    PROVE  /\ IsSeq(HintFilled(w).blk) /\ Len(HintFilled(w).blk) = HintSectors(w)
           /\ \A b \in 1 .. Hint(w).blks : \A s \in 1 .. BlkSectors :
                HintFilled(w).blk[(b - 1) * BlkSectors + s]
                    = BlockOf(opt.gen, HintRecord(w, b).md5)[s]
<1>1. /\ Hint(w).blks \in Nat /\ HintSectors(w) = Hint(w).blks * BlkSectors
      /\ \A n \in 1 .. Hint(w).blks :
            /\ infos_map[w][Hint(w).start + n] \in DOMAIN infos
            /\ HintRecord(w, n) \in Records
  BY InHintFacts DEF RunIInv, Started, HasPlan
<1> DEFINE md5s == [n \in 1 .. Hint(w).blks |-> HintRecord(w, n).md5]
<1>2. Len(md5s) = Hint(w).blks
  <2>1. md5s = [n \in 1 .. Hint(w).blks |-> md5s[n]]
    OBVIOUS
  <2> QED
    BY <1>1, <2>1, MadeSeq
<1>3. ASSUME NEW n \in 1 .. Hint(w).blks
      PROVE  Md5Right(HintRecord(w, n).md5) /\ md5s[n] = HintRecord(w, n).md5
  <2>1. HintRecord(w, n).md5 \in Seq(Seq(STRING)) /\ HintRecord(w, n).md5 # <<>>
    BY <1>1 DEF Records, ShortMd5
  <2>2. Divides(HintRecord(w, n))
    BY <1>1 DEF RunIInv, FromTrace, HintRecord
  <2> QED
    BY <2>1, <2>2 DEF Md5Right, Divides
<1>4. HintFilled(w) = Filled(opt.gen, ctx[w], md5s)
  BY DEF HintFilled
<1>5. \A n \in 1 .. Len(md5s) : Md5Right(md5s[n])
  BY <1>2, <1>3
<1> HIDE DEF md5s
<1>6. Len(md5s) \in Nat
  BY <1>1, <1>2
<1>7. /\ IsSeq(HintFilled(w).blk)
      /\ Len(HintFilled(w).blk) = Len(md5s) * BlkSectors
      /\ \A b \in 1 .. Len(md5s) : \A s \in 1 .. BlkSectors :
            HintFilled(w).blk[(b - 1) * BlkSectors + s] = BlockOf(opt.gen, md5s[b])[s]
  BY <1>4, <1>5, <1>6, FilledFacts
<1> QED
  BY <1>1, <1>2, <1>3, <1>7

\* The part of the range that has been read, with one more pread.
LEMMA ReadMore ==
    ASSUME NEW f, NEW ofs \in Nat, NEW got, IsSeq(got), got = Padded(f, ofs, Len(got)),
           NEW n \in Nat
    PROVE  got \o Padded(f, ofs + Len(got), n) = Padded(f, ofs, Len(got) + n)
<1>1. Len(got) \in Nat
  BY DEF IsSeq
<1>2. PICK more, all : more = Padded(f, ofs + Len(got), n) /\ all = Padded(f, ofs, Len(got) + n)
  OBVIOUS
<1>3. /\ IsSeq(more) /\ Len(more) = n
      /\ \A p \in 1 .. n : more[p] = IF (ofs + Len(got)) + p <= Len(f)
                                     THEN f[(ofs + Len(got)) + p] ELSE Zero
  BY <1>2, PaddedFacts
<1>4. /\ IsSeq(all) /\ Len(all) = Len(got) + n
      /\ \A p \in 1 .. Len(got) + n :
            all[p] = IF ofs + p <= Len(f) THEN f[ofs + p] ELSE Zero
  <2>1. Len(got) + n \in Nat
    BY <1>1
  <2> QED
    BY <1>2, <2>1, PaddedFacts
<1>5. \A p \in 1 .. Len(got) : got[p] = IF ofs + p <= Len(f) THEN f[ofs + p] ELSE Zero
  BY <1>1, PaddedFacts
<1>6. \A p \in 1 .. Len(got) : all[p] = got[p]
  <2>1. \A p \in 1 .. Len(got) : p \in 1 .. Len(got) + n
    BY <1>1
  <2> QED
    BY <1>4, <1>5, <2>1
<1>7. \A p \in 1 .. n : all[Len(got) + p] = more[p]
  <2>1. \A p \in 1 .. n : /\ Len(got) + p \in 1 .. Len(got) + n
                          /\ ofs + (Len(got) + p) = (ofs + Len(got)) + p
    BY <1>1
  <2> QED
    BY <1>3, <1>4, <2>1
<1> QED
  <2>1. /\ IsSeq(got) /\ IsSeq(more) /\ IsSeq(all) /\ Len(all) = Len(got) + Len(more)
        /\ \A p \in 1 .. Len(got) : all[p] = got[p]
        /\ \A p \in 1 .. Len(more) : all[Len(got) + p] = more[p]
    BY <1>3, <1>4, <1>6, <1>7
  <2>2. all = got \o more
    BY <2>1, JoinedIs
  <2> QED
    BY <1>2, <2>2

\* What is dumped for a hint is its range of the file, zeros behind the end.
LEMMA DumpedRange ==
    ASSUME NEW f, Len(f) \in Nat, NEW ofs \in Nat, NEW n \in Nat, NEW got, IsSeq(got),
           Len(got) <= n, got = Padded(f, ofs, Len(got)),
           Len(got) = n \/ Len(f) - ofs - Len(got) <= 0
    PROVE  Padded(got, 0, n) = Padded(f, ofs, n)
<1>1. Len(got) \in Nat
  BY DEF IsSeq
<1>2. \A p \in 1 .. Len(got) : got[p] = IF ofs + p <= Len(f) THEN f[ofs + p] ELSE Zero
  BY <1>1, PaddedFacts
<1>3. ASSUME NEW p \in 1 .. n
      PROVE  (IF 0 + p <= Len(got) THEN got[0 + p] ELSE Zero)
                = IF ofs + p <= Len(f) THEN f[ofs + p] ELSE Zero
  <2>1. CASE p <= Len(got)
    BY <1>1, <1>2, <2>1
  <2>2. CASE ~ (p <= Len(got))
    <3>1. ~ (ofs + p <= Len(f)) /\ ~ (0 + p <= Len(got))
      BY <1>1, <2>2
    <3> QED
      BY <3>1
  <2> QED
    BY <2>1, <2>2
<1>4. PICK a, b : a = Padded(got, 0, n) /\ b = Padded(f, ofs, n)
  OBVIOUS
<1>5. /\ IsSeq(a) /\ Len(a) = n
      /\ \A p \in 1 .. n : a[p] = IF 0 + p <= Len(got) THEN got[0 + p] ELSE Zero
  BY <1>4, PaddedFacts
<1>6. /\ IsSeq(b) /\ Len(b) = n
      /\ \A p \in 1 .. n : b[p] = IF ofs + p <= Len(f) THEN f[ofs + p] ELSE Zero
  BY <1>4, PaddedFacts
<1>7. \A p \in 1 .. n : a[p] = b[p]
  BY <1>3, <1>5, <1>6
<1> QED
  BY <1>4, <1>5, <1>6, <1>7, SameSeq

\* A worker that begins a hint has read nothing of it.
LEMMA NothingRead ==
    ASSUME PlanIInv, worker = opt.threads, UNCHANGED planRest, NEW w \in Workers,
           blk'[w] = <<>>, hint'[w] \in Nat, hint'[w] >= params[w].start
    PROVE  ReadingOf(w)'
<1>1. params' = params /\ hints' = hints /\ infos' = infos /\ infos_map' = infos_map /\ opt' = opt
  BY DEF planRest
<1>2. Len(blk'[w]) = 0 /\ blk'[w] = Padded(file'[w], HintOffset(w)', 0)
  BY DEF Padded
<1>3. ASSUME hint'[w] < params[w].end
      PROVE  0 <= HintSectors(w)'
  <2>1. params[w].start \in Nat /\ params[w].end \in Nat
    BY DEF PlanIInv, Typed
  <2>2. PICK h \in params[w].start .. params[w].end - 1 : h = hint'[w]
    BY <1>3, <2>1
  <2>3. hints[h + 1].blks \in Nat
    BY HintFacts
  <2>4. HintSectors(w)' = hints[h + 1].blks * BlkSectors
    BY <1>1, <2>2 DEF HintSectors, Hint
  <2>5. HintSectors(w)' \in Nat
    BY <2>3, <2>4, MulNat, BlkSectorsAssumption
  <2> QED
    BY <2>5
<1> QED
  BY <1>1, <1>2, <1>3 DEF ReadingOf, InHint

\* What a step of a worker has to keep: its own part.
LEMMA OneWorkerMoves ==
    ASSUME RunIInv, phase = "ready", phase' \in {"ready", "exited"}, UNCHANGED planRest,
           created' = created, joined' = joined,
           NEW w \in Workers, wpc[w] \in {"open", "replay"},
           wpc' \in [Workers -> {"none", "open", "replay", "ended"}], wpc'[w] # "none",
           hint' \in [Workers -> Nat], DOMAIN ctx' = Workers,
           DOMAIN blk' = Workers, DOMAIN file' = Workers, DOMAIN dump' = Workers,
           \A v \in Workers : v # w =>
                /\ wpc'[v] = wpc[v] /\ hint'[v] = hint[v] /\ blk'[v] = blk[v]
                /\ file'[v] = file[v] /\ dump'[v] = dump[v],
           IsSeq(blk'[w]), IsSeq(file'[w]), IsSeq(dump'[w]),
           wpc'[w] \in {"replay", "ended"} => hint'[w] \in params[w].start .. params[w].end,
           wpc'[w] = "ended" => hint'[w] = params[w].end,
           ReadingOf(w)'
    PROVE  RunTyped' /\ Started' /\ WithinHints' /\ Reading'
<1>1. opt' = opt /\ Workers' = Workers /\ params' = params /\ worker' = worker
  BY DEF planRest, Workers
<1>2. RunTyped'
  <2>1. \A v \in Workers : IsSeq(blk'[v]) /\ IsSeq(file'[v]) /\ IsSeq(dump'[v])
    BY DEF RunIInv, RunTyped
  <2> QED
    BY <1>1, <2>1 DEF RunIInv, RunTyped
<1>3. Started'
  <2>1. ASSUME NEW v \in Workers
        PROVE  (wpc'[v] = "none" <=> v >= created) /\ (v < joined => wpc'[v] = "ended")
    <3>1. (wpc[v] = "none" <=> v >= created) /\ (v < joined => wpc[v] = "ended")
      BY DEF RunIInv, Started
    <3> QED
      BY <3>1
  <2> QED
    BY <1>1, <2>1 DEF RunIInv, Started, HasPlan, PlanPhases
<1>4. WithinHints'
  BY <1>1 DEF RunIInv, WithinHints
<1>5. Reading'
  <2>1. ASSUME NEW v \in Workers, v # w
        PROVE  ReadingOf(v)'
    BY <2>1, OtherKeeps DEF RunIInv, Reading
  <2> QED
    BY <1>1, <2>1 DEF Reading
<1> QED
  BY <1>2, <1>3, <1>4, <1>5

\* A worker opens its files.
LEMMA OpenKeeps ==
    ASSUME RunIInv, NEW w \in Workers, OpenFiles(w)
    PROVE  RunTyped' /\ Started' /\ WithinHints' /\ Reading'
<1>1. /\ phase = "ready" /\ phase' = phase /\ UNCHANGED planRest
      /\ created' = created /\ joined' = joined /\ wpc[w] = "open"
      /\ wpc' = [wpc EXCEPT ![w] = "replay"] /\ hint' = [hint EXCEPT ![w] = params[w].start]
      /\ dump' = (IF opt.dump THEN [dump EXCEPT ![w] = <<>>] ELSE dump)
      /\ blk' = blk /\ ctx' = ctx /\ file' = file /\ params' = params
  BY DEF OpenFiles, planVars, planRest
<1>2. RunTyped /\ worker = opt.threads /\ PlanIInv
  BY <1>1 DEF RunIInv, Started, HasPlan
<1>3. params[w].start \in Nat /\ params[w].end \in Nat /\ params[w].start <= params[w].end
  <2>1. Typed /\ HintsRight(w)
    BY <1>2, OptFacts DEF PlanIInv, PlannedHints, PlannedWorkers, Typed
  <2> QED
    BY <2>1 DEF HintsRight, Typed
<1>4. /\ wpc' \in [Workers -> {"none", "open", "replay", "ended"}]
      /\ hint' \in [Workers -> Nat] /\ wpc'[w] = "replay" /\ hint'[w] = params[w].start
      /\ \A v \in Workers : v # w => wpc'[v] = wpc[v] /\ hint'[v] = hint[v]
  BY <1>1, <1>2, <1>3 DEF RunTyped
<1>5. /\ DOMAIN dump' = Workers /\ IsSeq(dump'[w])
      /\ \A v \in Workers : v # w => dump'[v] = dump[v]
  <2>1. IsSeq(<<>>)
    BY DEF IsSeq
  <2> QED
    BY <1>1, <1>2, <2>1 DEF RunTyped
<1>6. ReadingOf(w)'
  <2>1. blk'[w] = <<>>
    BY <1>1 DEF RunIInv, Reading, ReadingOf, InHint
  <2>2. hint'[w] >= params[w].start
    BY <1>3, <1>4
  <2> QED
    BY <1>1, <1>2, <1>4, <2>1, <2>2, NothingRead
<1> QED
  BY <1>1, <1>2, <1>3, <1>4, <1>5, <1>6, OneWorkerMoves DEF RunTyped

\* What a worker has while it replays a hint.
LEMMA InReplay ==
    ASSUME RunIInv, NEW w \in Workers, Replaying(w)
    PROVE  /\ phase = "ready" /\ PlanIInv /\ worker = opt.threads
           /\ RunTyped /\ WithinHints /\ InHint(w) /\ ReadingOf(w)
           /\ wpc[w] = "replay" /\ IsSeq(blk[w]) /\ IsSeq(file[w]) /\ IsSeq(dump[w])
           /\ Len(file[w]) \in Nat /\ Len(blk[w]) \in Nat
           /\ hint[w] \in Nat /\ hint[w] + 1 \in Nat /\ hint[w] + 1 >= params[w].start
           /\ hint[w] + 1 \in params[w].start .. params[w].end
           /\ hint[w] \in params[w].start .. params[w].end
           /\ HintOffset(w) \in Nat /\ HintSectors(w) \in Nat
<1>1. /\ phase = "ready" /\ PlanIInv /\ worker = opt.threads
      /\ RunTyped /\ WithinHints /\ InHint(w) /\ ReadingOf(w) /\ wpc[w] = "replay"
  BY DEF Replaying, RunIInv, Started, HasPlan, Reading, InHint
<1>2. /\ IsSeq(blk[w]) /\ IsSeq(file[w]) /\ IsSeq(dump[w])
      /\ Len(file[w]) \in Nat /\ Len(blk[w]) \in Nat
  BY <1>1 DEF RunTyped, IsSeq
<1>3. /\ hint[w] \in params[w].start .. params[w].end - 1 /\ hint[w] \in Nat
      /\ HintOffset(w) \in Nat /\ HintSectors(w) \in Nat
      /\ params[w].start \in Nat /\ params[w].end \in Nat
  BY <1>1, InHintFacts DEF PlanIInv, Typed
<1>4. /\ hint[w] + 1 \in Nat /\ hint[w] + 1 >= params[w].start
      /\ hint[w] + 1 \in params[w].start .. params[w].end
      /\ hint[w] \in params[w].start .. params[w].end
  BY <1>3
<1> QED
  BY <1>1, <1>2, <1>3, <1>4

\* A worker writes a hint.
LEMMA WriteKeeps ==
    ASSUME RunIInv, NEW w \in Workers, WriteHint(w)
    PROVE  RunTyped' /\ Started' /\ WithinHints' /\ Reading'
<1>1. /\ Replaying(w) /\ IsWrite(w) /\ ~ShortMd5(w)
      /\ phase' = phase /\ UNCHANGED planRest
      /\ created' = created /\ joined' = joined /\ wpc' = wpc
      /\ file' = [file EXCEPT ![w] = pwrite(@, WriteOffset(w), HintFilled(w).blk)]
      /\ ctx' = [ctx EXCEPT ![w] = HintFilled(w).ctx]
      /\ hint' = [hint EXCEPT ![w] = @ + 1]
      /\ blk' = blk /\ dump' = dump
  BY DEF WriteHint, planVars, planRest
<1>2. /\ phase = "ready" /\ PlanIInv /\ worker = opt.threads
      /\ RunTyped /\ InHint(w) /\ ReadingOf(w) /\ wpc[w] = "replay"
      /\ IsSeq(blk[w]) /\ IsSeq(file[w]) /\ IsSeq(dump[w]) /\ Len(file[w]) \in Nat
      /\ hint[w] + 1 \in Nat /\ hint[w] + 1 >= params[w].start
      /\ hint[w] + 1 \in params[w].start .. params[w].end
      /\ HintOffset(w) \in Nat
  BY <1>1, InReplay
<1>3. IsSeq(file'[w])
  <2>1. IsSeq(HintFilled(w).blk)
    BY <1>1, <1>2, HintFilledFacts
  <2>2. WriteOffset(w) \in Nat
    BY <1>2 DEF WriteOffset
  <2>3. IsSeq(pwrite(file[w], WriteOffset(w), HintFilled(w).blk))
    BY <1>2, <2>1, <2>2, PwriteFacts
  <2> QED
    BY <1>1, <1>2, <2>3 DEF RunTyped
<1>4. /\ hint' \in [Workers -> Nat] /\ hint'[w] = hint[w] + 1
      /\ DOMAIN ctx' = Workers /\ DOMAIN file' = Workers
      /\ \A v \in Workers : v # w => hint'[v] = hint[v] /\ file'[v] = file[v]
  BY <1>1, <1>2 DEF RunTyped
<1>5. ReadingOf(w)'
  <2>1. blk'[w] = <<>>
    BY <1>1, <1>2 DEF ReadingOf
  <2> QED
    BY <1>1, <1>2, <1>4, <2>1, NothingRead
<1> QED
  BY <1>1, <1>2, <1>3, <1>4, <1>5, OneWorkerMoves DEF RunTyped

\* A worker reads a part of a hint.
LEMMA PreadKeeps ==
    ASSUME RunIInv, NEW w \in Workers, PreadSome(w)
    PROVE  RunTyped' /\ Started' /\ WithinHints' /\ Reading'
<1>1. /\ Replaying(w) /\ ~IsWrite(w) /\ Len(blk[w]) < HintSectors(w)
      /\ phase' = phase /\ UNCHANGED planRest
      /\ created' = created /\ joined' = joined /\ wpc' = wpc
      /\ file' = file /\ ctx' = ctx /\ hint' = hint /\ dump' = dump
  BY DEF PreadSome, planVars, planRest
<1>2. PICK n \in 1 .. HintSectors(w) - Len(blk[w]) :
        /\ n <= Available(w)
        /\ blk' = [blk EXCEPT ![w] = @ \o Padded(file[w], HintOffset(w) + Len(@), n)]
  BY DEF PreadSome
<1>3. /\ phase = "ready" /\ PlanIInv /\ worker = opt.threads
      /\ RunTyped /\ InHint(w) /\ ReadingOf(w) /\ wpc[w] = "replay"
      /\ IsSeq(blk[w]) /\ IsSeq(file[w]) /\ IsSeq(dump[w]) /\ Len(blk[w]) \in Nat
      /\ hint[w] \in params[w].start .. params[w].end
      /\ HintOffset(w) \in Nat /\ HintSectors(w) \in Nat
  BY <1>1, InReplay
<1>4. /\ n \in Nat /\ Len(blk[w]) + n \in Nat /\ Len(blk[w]) + n <= HintSectors(w)
  BY <1>2, <1>3
<1>5. blk'[w] = Padded(file[w], HintOffset(w), Len(blk[w]) + n)
  <2>1. blk'[w] = blk[w] \o Padded(file[w], HintOffset(w) + Len(blk[w]), n)
    BY <1>2, <1>3 DEF RunTyped
  <2>2. blk[w] = Padded(file[w], HintOffset(w), Len(blk[w]))
    BY <1>1, <1>3 DEF ReadingOf
  <2>3. PICK f, ofs, got : f = file[w] /\ ofs = HintOffset(w) /\ got = blk[w]
    OBVIOUS
  <2>4. ofs \in Nat /\ IsSeq(got) /\ got = Padded(f, ofs, Len(got)) /\ n \in Nat
    BY <1>3, <1>4, <2>2, <2>3
  <2>5. got \o Padded(f, ofs + Len(got), n) = Padded(f, ofs, Len(got) + n)
    BY <2>4, ReadMore
  <2> QED
    BY <2>1, <2>3, <2>5, Zenon
<1>6. IsSeq(blk'[w]) /\ Len(blk'[w]) = Len(blk[w]) + n
  BY <1>4, <1>5, PaddedFacts
<1>7. DOMAIN blk' = Workers /\ \A v \in Workers : v # w => blk'[v] = blk[v]
  BY <1>2, <1>3 DEF RunTyped
<1>8. ReadingOf(w)'
  <2>1. /\ HintSectors(w)' = HintSectors(w) /\ HintOffset(w)' = HintOffset(w)
        /\ IsWrite(w)' = IsWrite(w) /\ InHint(w)' = InHint(w)
    BY <1>1 DEF planRest, HintSectors, HintOffset, HintRecord, Hint, IsWrite, InHint
  <2> QED
    BY <1>1, <1>3, <1>4, <1>5, <1>6, <2>1 DEF ReadingOf
<1> QED
  BY <1>1, <1>3, <1>6, <1>7, <1>8, OneWorkerMoves DEF RunTyped, WithinHints, RunIInv

\* The buffer of a hint that has been read is dumped.
LEMMA EndReadKeeps ==
    ASSUME RunIInv, NEW w \in Workers, EndRead(w)
    PROVE  RunTyped' /\ Started' /\ WithinHints' /\ Reading'
<1>1. /\ Replaying(w) /\ ~IsWrite(w) /\ phase' = phase /\ UNCHANGED planRest
      /\ created' = created /\ joined' = joined /\ wpc' = wpc
      /\ file' = file /\ ctx' = ctx
      /\ blk' = [blk EXCEPT ![w] = <<>>] /\ hint' = [hint EXCEPT ![w] = @ + 1]
      /\ dump' = IF opt.dump
                 THEN [dump EXCEPT ![w] = @ \o Padded(blk[w], 0, HintSectors(w))]
                 ELSE dump
  BY DEF EndRead, planVars, planRest
<1>2. /\ phase = "ready" /\ PlanIInv /\ worker = opt.threads
      /\ RunTyped /\ wpc[w] = "replay"
      /\ IsSeq(blk[w]) /\ IsSeq(file[w]) /\ IsSeq(dump[w])
      /\ hint[w] + 1 \in Nat /\ hint[w] + 1 >= params[w].start
      /\ hint[w] + 1 \in params[w].start .. params[w].end
      /\ HintSectors(w) \in Nat
  BY <1>1, InReplay
<1>3. IsSeq(dump'[w]) /\ DOMAIN dump' = Workers
      /\ \A v \in Workers : v # w => dump'[v] = dump[v]
  <2>1. PICK more : more = Padded(blk[w], 0, HintSectors(w))
    OBVIOUS
  <2>2. IsSeq(more)
    BY <1>2, <2>1, PaddedFacts
  <2>3. IsSeq(dump[w] \o more)
    BY <1>2, <2>2, Joined
  <2> QED
    BY <1>1, <1>2, <2>1, <2>3 DEF RunTyped
<1>4. /\ hint' \in [Workers -> Nat] /\ hint'[w] = hint[w] + 1
      /\ DOMAIN blk' = Workers /\ blk'[w] = <<>> /\ IsSeq(blk'[w])
      /\ \A v \in Workers : v # w => hint'[v] = hint[v] /\ blk'[v] = blk[v]
  <2>1. IsSeq(<<>>)
    BY DEF IsSeq
  <2> QED
    BY <1>1, <1>2, <2>1 DEF RunTyped
<1>5. ReadingOf(w)'
  BY <1>1, <1>2, <1>4, NothingRead
<1> QED
  BY <1>1, <1>2, <1>3, <1>4, <1>5, OneWorkerMoves DEF RunTyped

\* A worker ends.
LEMMA EndKeeps ==
    ASSUME RunIInv, NEW w \in Workers, EndWorker(w)
    PROVE  RunTyped' /\ Started' /\ WithinHints' /\ Reading'
<1>1. /\ phase = "ready" /\ wpc[w] = "replay" /\ hint[w] = params[w].end
      /\ phase' = phase /\ UNCHANGED planRest /\ params' = params /\ opt' = opt
      /\ wpc' = [wpc EXCEPT ![w] = "ended"] /\ created' = created /\ joined' = joined
      /\ hint' = hint /\ blk' = blk /\ ctx' = ctx /\ file' = file /\ dump' = dump
  BY DEF EndWorker, planVars, planRest
<1>2. /\ RunTyped /\ ReadingOf(w) /\ hint[w] \in params[w].start .. params[w].end
      /\ params[w].end \in Nat
  BY <1>1 DEF RunIInv, Reading, WithinHints, PlanIInv, Typed
<1>3. /\ wpc' \in [Workers -> {"none", "open", "replay", "ended"}] /\ wpc'[w] = "ended"
      /\ \A v \in Workers : v # w => wpc'[v] = wpc[v]
  BY <1>1, <1>2 DEF RunTyped
<1>4. ReadingOf(w)'
  <2>1. blk[w] = <<>>
    BY <1>1, <1>2 DEF ReadingOf, InHint
  <2> QED
    BY <1>1, <1>3, <2>1 DEF ReadingOf, InHint
<1> QED
  BY <1>1, <1>2, <1>3, <1>4, OneWorkerMoves DEF RunTyped

\* The process exits: by a division by zero, or after a call that failed.
LEMMA ExitKeeps ==
    ASSUME RunIInv, NEW w \in Workers, DivideByZero(w) \/ FailedCall(w)
    PROVE  RunTyped' /\ Started' /\ WithinHints' /\ Reading'
<1>1. /\ phase = "ready" /\ phase' = "exited" /\ UNCHANGED planRest /\ params' = params
      /\ created' = created /\ joined' = joined /\ wpc' = wpc /\ hint' = hint /\ blk' = blk
      /\ ctx' = ctx /\ dump' = dump /\ wpc[w] \in {"open", "replay"}
  BY DEF DivideByZero, FailedCall, runVars, planRest, Replaying
<1>2. RunTyped /\ WithinHints /\ ReadingOf(w)
  BY DEF RunIInv, Reading
<1>3. CASE file' = file
  <2>1. ReadingOf(w)'
    BY <1>1, <1>2, <1>3, OtherKeeps
  <2> QED
    BY <1>1, <1>2, <1>3, <2>1, OneWorkerMoves DEF RunTyped, WithinHints
<1>4. CASE file' # file
  <2>1. /\ Replaying(w) /\ IsWrite(w) /\ ~ShortMd5(w)
        /\ \E n \in 1 .. HintSectors(w) - 1 :
              file' = [file EXCEPT ![w] = pwrite(@, WriteOffset(w),
                                                 SubSeq(HintFilled(w).blk, 1, n))]
    BY <1>4 DEF DivideByZero, FailedCall, runVars
  <2>2. PICK n \in 1 .. HintSectors(w) - 1 :
            file' = [file EXCEPT ![w] = pwrite(@, WriteOffset(w),
                                               SubSeq(HintFilled(w).blk, 1, n))]
    BY <2>1
  <2>3. /\ InHint(w) /\ IsSeq(file[w]) /\ Len(file[w]) \in Nat
        /\ HintOffset(w) \in Nat /\ HintSectors(w) \in Nat
    BY <2>1, InReplay
  <2>4. PICK data, first : data = HintFilled(w).blk /\ first = SubSeq(data, 1, n)
    OBVIOUS
  <2>5. IsSeq(data) /\ Len(data) = HintSectors(w) /\ n \in Nat /\ n <= Len(data)
    BY <1>1, <2>1, <2>3, <2>4, HintFilledFacts
  <2>6. IsSeq(first)
    BY <2>4, <2>5, FirstOf
  <2>7. WriteOffset(w) \in Nat
    BY <2>3 DEF WriteOffset
  <2>8. IsSeq(pwrite(file[w], WriteOffset(w), first))
    BY <2>3, <2>6, <2>7, PwriteFacts
  <2>9. /\ file'[w] = pwrite(file[w], WriteOffset(w), first) /\ DOMAIN file' = Workers
        /\ \A v \in Workers : v # w => file'[v] = file[v]
    BY <1>2, <2>2, <2>4 DEF RunTyped
  <2>10. ReadingOf(w)'
    <3>1. blk[w] = <<>>
      BY <1>2, <2>1 DEF ReadingOf
    <3>2. IsWrite(w)' = IsWrite(w)
      BY <1>1 DEF planRest, IsWrite, Hint
    <3> QED
      BY <1>1, <2>1, <3>1, <3>2 DEF ReadingOf
  <2> QED
    BY <1>1, <1>2, <2>8, <2>9, <2>10, OneWorkerMoves DEF RunTyped, WithinHints
<1> QED
  BY <1>3, <1>4

\* A worker is in a hint only once every worker is planned.
LEMMA InHintPlanned ==
    ASSUME RunIInv, NEW w \in Workers, InHint(w)
    PROVE  worker = opt.threads
<1>1. opt \in Options /\ Started
  BY DEF RunIInv, PlanIInv, Typed
<1>2. w \in Nat
  BY <1>1, OptFacts
<1>3. HasPlan
  BY <1>1, <1>2 DEF Started, InHint
<1> QED
  BY <1>1, <1>3 DEF Started

\* Nothing happens.
LEMMA StutterKeeps ==
    ASSUME RunIInv, UNCHANGED vars
    PROVE  RunTyped' /\ Started' /\ WithinHints' /\ Reading'
<1>1. /\ UNCHANGED planRest /\ phase' = phase /\ created' = created /\ joined' = joined
      /\ wpc' = wpc /\ hint' = hint /\ blk' = blk /\ ctx' = ctx /\ file' = file
      /\ dump' = dump
  BY DEF vars, planVars, runVars, planRest
<1>2. /\ opt' = opt /\ Workers' = Workers /\ params' = params /\ worker' = worker
  BY <1>1 DEF planRest, Workers
<1>3. Reading'
  BY <1>1, <1>2, OtherKeeps DEF RunIInv, Reading
<1> QED
  BY <1>1, <1>2, <1>3 DEF RunIInv, RunTyped, Started, WithinHints, HasPlan

\* Every step of main, of the planning and of a worker keeps the invariant.
LEMMA RunStep == RunIInv /\ [Next]_vars => RunIInv'
<1> SUFFICES ASSUME RunIInv, [Next]_vars
             PROVE  RunIInv'
  OBVIOUS
<1>1. PlanIInv'
  BY PlanPart DEF RunIInv
<1>2. FromTrace'
  BY TracePart DEF RunIInv, PlanIInv
<1>3. RunTyped' /\ Started' /\ WithinHints' /\ Reading'
  <2>1. CASE PlanNext /\ UNCHANGED runVars
    BY <2>1, PlanningKeeps
  <2>2. CASE UNCHANGED vars
    BY <2>2, <1>1, StutterKeeps
  <2>3. CASE CreateWorker \/ JoinWorker
    BY <2>3, MainKeeps
  <2>4. ASSUME NEW w \in Workers, WorkerStep(w) \/ FailedCall(w)
        PROVE  RunTyped' /\ Started' /\ WithinHints' /\ Reading'
    BY <2>4, OpenKeeps, WriteKeeps, ExitKeeps, PreadKeeps, EndReadKeeps, EndKeeps
    DEF WorkerStep
  <2> QED
    BY <2>1, <2>2, <2>3, <2>4, StepKinds
<1> QED
  BY <1>1, <1>2, <1>3 DEF RunIInv

----------------------------------------------------------------------------
(* What holds of every run while it is going on. *)

\* The invariant holds of every run.
THEOREM RunInductive == Spec => []RunIInv
<1> QED
  BY RunInitIInv, RunStep, PTL DEF Spec

\* The types follow from the invariant: the buffer of a worker is as large as
\* its longest hint.
LEMMA RunTypes == RunIInv => ReplayTypeOK
<1> SUFFICES ASSUME RunIInv
             PROVE  ReplayTypeOK
  OBVIOUS
<1>1. phase \in {"done", "exited"} \/ PlanTypeOK
  BY PlanTypes DEF RunIInv, Started
<1>2. RunTyped /\ WithinHints /\ Reading /\ Typed /\ PlanIInv
  BY DEF RunIInv, PlanIInv
<1>3. ASSUME NEW w \in Workers
      PROVE  Len(blk[w]) <= params[w].buf * BlkSectors
  <2>1. params[w].buf \in Nat /\ BlkSectors \in Nat
    BY <1>2, BlkSectorsAssumption DEF Typed
  <2>2. params[w].buf * BlkSectors \in Nat
    BY <2>1, MulNat
  <2>3. CASE InHint(w) /\ ~IsWrite(w)
    <3>1. Len(blk[w]) <= HintSectors(w) /\ Len(blk[w]) \in Nat
      BY <1>2, <2>3 DEF Reading, ReadingOf, RunTyped, IsSeq
    <3>2. worker = opt.threads
      BY <1>2, <2>3, InHintPlanned
    <3>3. HintSectors(w) = Hint(w).blks * BlkSectors /\ HintSectors(w) \in Nat
          /\ Hint(w).blks \in Nat /\ hint[w] \in params[w].start .. params[w].end - 1
      BY <1>2, <2>3, <3>2, InHintFacts
    <3>4. Hint(w).blks <= params[w].buf
      BY <1>2, <3>2, <3>3, HintFacts DEF Hint
    <3>5. Hint(w).blks * BlkSectors <= params[w].buf * BlkSectors
      BY <2>1, <3>3, <3>4, MulLess
    <3> QED
      BY <2>2, <3>1, <3>3, <3>5
  <2>4. CASE ~(InHint(w) /\ ~IsWrite(w))
    BY <1>2, <2>2, <2>4 DEF Reading, ReadingOf
  <2> QED
    BY <2>3, <2>4
<1> QED
  BY <1>1, <1>2, <1>3 DEF ReplayTypeOK, RunTyped, WithinHints

\* Main joins no worker it has not created, each worker stays within its hints,
\* and what the pread loop has read fits in the worker's buffer, whatever the
\* other workers are doing and wherever a pread stops short.
THEOREM ReplayTypeCorrect == Spec => []ReplayTypeOK
<1> QED
  BY RunTypes, RunInductive, PTL

----------------------------------------------------------------------------
(* Blocks of a file that are written, and those that are not. *)

\* Sector a is the first of a block.
Multiple(a) == a % BlkSectors = 0

\* Such a sector is at a whole number of blocks.
LEMMA MultipleIs ==
    ASSUME NEW a \in Nat, Multiple(a)
    PROVE  \E k \in Nat : a = k * BlkSectors
<1>1. BlkSectors \in Nat /\ BlkSectors > 0
  BY BlkSectorsAssumption
<1>2. a = (BlkSectors * (a \div BlkSectors)) + (a % BlkSectors) /\ a \div BlkSectors \in Nat
  BY <1>1, DivMod
<1>3. PICK k \in Nat : k = a \div BlkSectors
  BY <1>2
<1>4. a = k * BlkSectors
  BY <1>1, <1>2, <1>3 DEF Multiple
<1> QED
  BY <1>4

\* A block is one of n blocks in a row, or before or behind them all.
LEMMA BlockOrOutside ==
    ASSUME NEW ofs \in Nat, NEW lba \in Nat, NEW n \in Nat, Multiple(ofs), Multiple(lba)
    PROVE  \/ \E b \in 1 .. n : lba = ofs + (b - 1) * BlkSectors
           \/ lba + BlkSectors <= ofs
           \/ ofs + n * BlkSectors <= lba
<1>1. PICK j \in Nat : ofs = j * BlkSectors
  BY MultipleIs
<1>2. PICK k \in Nat : lba = k * BlkSectors
  BY MultipleIs
<1>3. BlkSectors \in Nat
  BY BlkSectorsAssumption
<1>4. CASE k < j
  BY <1>1, <1>2, <1>3, <1>4, MulLess
<1>5. CASE j <= k /\ k < j + n
  <2>1. PICK b \in 1 .. n : k = j + (b - 1)
    <3>1. (k - j) + 1 \in 1 .. n /\ k = j + (((k - j) + 1) - 1)
      BY <1>5
    <3> QED
      BY <3>1
  <2>2. PICK c \in Nat : c = b - 1
    BY <2>1
  <2>3. (j + c) * BlkSectors = j * BlkSectors + c * BlkSectors
    BY <1>3
  <2> QED
    BY <1>1, <1>2, <2>1, <2>2, <2>3
<1>6. CASE j + n <= k
  <2>1. PICK c \in Nat : k = (j + n) + c
    <3>1. k - (j + n) \in Nat /\ k = (j + n) + (k - (j + n))
      BY <1>6
    <3> QED
      BY <3>1
  <2>2. ((j + n) + c) * BlkSectors = (j * BlkSectors + n * BlkSectors) + c * BlkSectors
    BY <1>3
  <2>3. /\ c * BlkSectors \in Nat /\ n * BlkSectors \in Nat /\ j * BlkSectors \in Nat
    BY <1>3, MulNat
  <2> QED
    BY <1>1, <1>2, <2>1, <2>2, <2>3
<1> QED
  BY <1>4, <1>5, <1>6

\* A block that a write covers holds its data.
LEMMA BlockWritten ==
    ASSUME NEW f, NEW ofs \in Nat, NEW data, IsSeq(f), IsSeq(data),
           NEW n \in Nat, Len(data) = n * BlkSectors, NEW b \in 1 .. n
    PROVE  \A s \in 1 .. BlkSectors :
                Padded(pwrite(f, ofs, data), ofs + (b - 1) * BlkSectors, BlkSectors)[s]
                    = data[(b - 1) * BlkSectors + s]
<1>1. BlkSectors \in Nat
  BY BlkSectorsAssumption
<1>2. PICK c \in Nat : c = b - 1 /\ c < n
  OBVIOUS
<1>3. PICK k \in Nat : k = c * BlkSectors
  BY <1>1, MulNat
<1>4. k + BlkSectors <= Len(data) /\ Len(data) \in Nat /\ Len(f) \in Nat
  BY <1>1, <1>2, <1>3, MulLess DEF IsSeq
<1>5. PICK new : new = pwrite(f, ofs, data)
  OBVIOUS
<1>6. /\ Len(new) = IF Len(f) > ofs + Len(data) THEN Len(f) ELSE ofs + Len(data)
      /\ \A p \in 1 .. Len(new) :
            new[p] = IF p > ofs /\ p <= ofs + Len(data) THEN data[p - ofs]
                     ELSE IF p <= Len(f) THEN f[p] ELSE Zero
  BY <1>5, PwriteFacts
<1>7. ASSUME NEW s \in 1 .. BlkSectors
      PROVE  Padded(new, ofs + k, BlkSectors)[s] = data[k + s]
  <2>1. Padded(new, ofs + k, BlkSectors)[s]
            = IF (ofs + k) + s <= Len(new) THEN new[(ofs + k) + s] ELSE Zero
    BY <1>1, PaddedFacts
  <2>2. /\ (ofs + k) + s \in 1 .. Len(new) /\ (ofs + k) + s <= Len(new)
        /\ (ofs + k) + s > ofs /\ (ofs + k) + s <= ofs + Len(data)
        /\ ((ofs + k) + s) - ofs = k + s
    BY <1>1, <1>4, <1>6
  <2> QED
    BY <1>6, <2>1, <2>2
<1>8. (b - 1) * BlkSectors = k
  BY <1>2, <1>3
<1> QED
  BY <1>5, <1>7, <1>8

\* A block before or behind what is written stays.
LEMMA BlockKept ==
    ASSUME NEW f, NEW ofs \in Nat, NEW data, IsSeq(f), IsSeq(data), NEW lba \in Nat,
           lba + BlkSectors <= ofs \/ ofs + Len(data) <= lba
    PROVE  Padded(pwrite(f, ofs, data), lba, BlkSectors) = Padded(f, lba, BlkSectors)
<1>1. BlkSectors \in Nat /\ Len(f) \in Nat /\ Len(data) \in Nat
  BY BlkSectorsAssumption DEF IsSeq
<1>2. PICK new : new = pwrite(f, ofs, data)
  OBVIOUS
<1>3. /\ Len(new) = IF Len(f) > ofs + Len(data) THEN Len(f) ELSE ofs + Len(data)
      /\ \A p \in 1 .. Len(new) :
            new[p] = IF p > ofs /\ p <= ofs + Len(data) THEN data[p - ofs]
                     ELSE IF p <= Len(f) THEN f[p] ELSE Zero
  BY <1>2, PwriteFacts
<1>4. PICK x, y : x = Padded(new, lba, BlkSectors) /\ y = Padded(f, lba, BlkSectors)
  OBVIOUS
<1>5. /\ IsSeq(x) /\ Len(x) = BlkSectors
      /\ \A s \in 1 .. BlkSectors : x[s] = IF lba + s <= Len(new) THEN new[lba + s] ELSE Zero
  BY <1>1, <1>4, PaddedFacts
<1>6. /\ IsSeq(y) /\ Len(y) = BlkSectors
      /\ \A s \in 1 .. BlkSectors : y[s] = IF lba + s <= Len(f) THEN f[lba + s] ELSE Zero
  BY <1>1, <1>4, PaddedFacts
<1>7. ASSUME NEW s \in 1 .. BlkSectors
      PROVE  x[s] = y[s]
  <2>1. lba + s \in Nat /\ lba + s > 0 /\ ~ (lba + s > ofs /\ lba + s <= ofs + Len(data))
    BY <1>1
  <2>2. CASE lba + s <= Len(new)
    <3>1. new[lba + s] = IF lba + s <= Len(f) THEN f[lba + s] ELSE Zero
      BY <1>1, <1>3, <2>1, <2>2
    <3> QED
      BY <1>5, <1>6, <2>2, <3>1
  <2>3. CASE ~ (lba + s <= Len(new))
    <3>1. ~ (lba + s <= Len(f))
      BY <1>1, <1>3, <2>1, <2>3
    <3> QED
      BY <1>5, <1>6, <2>3, <3>1
  <2> QED
    BY <2>2, <2>3
<1> QED
  BY <1>2, <1>4, <1>5, <1>6, <1>7, SameSeq

\* A block has as many sectors as a block has.
LEMMA BlockOfSeq ==
    ASSUME NEW gen, NEW md5
    PROVE  IsSeq(BlockOf(gen, md5)) /\ Len(BlockOf(gen, md5)) = BlkSectors
<1>1. BlkSectors \in Nat
  BY BlkSectorsAssumption
<1> DEFINE block == BlockOf(gen, md5)
<1>2. block = [s \in 1 .. BlkSectors |-> block[s]]
  BY DEF BlockOf
<1> HIDE DEF block
<1>3. IsSeq(block) /\ Len(block) = BlkSectors
  BY <1>1, <1>2, MadeSeq
<1> QED
  BY <1>3 DEF block

----------------------------------------------------------------------------
(* The records a worker has performed. *)

\* The files before the replay.
OldContent(w) == IF opt.leftover THEN OldFile(w) ELSE <<>>

\* The records that worker w has performed.
DoneBy(w) == {infos_map[w][p] : p \in 1 .. PerformedBy(w)}

\* The block is what the records S leave at lba: that of the last write of S,
\* or what was there before the replay.
BlockIs(S, w, lba, block) ==
    LET writes == S \cap WritesTo(lba)
    IN  IF writes = {} THEN block = Padded(OldContent(w), lba, BlkSectors)
        ELSE \E m \in writes :
                /\ \A n \in writes : n = m \/ Before(n, m)
                /\ block = BlockOf(opt.gen, infos[m].md5)

\* There is one last write.
LEMMA BlockIsAfter ==
    ASSUME infos \in Seq(Records), NEW S, NEW w, NEW lba, NEW block, BlockIs(S, w, lba, block)
    PROVE  block = BlockAfter(S, w, lba)
<1> DEFINE writes == S \cap WritesTo(lba)
           IsLast(m) == \A n \in writes : n = m \/ Before(n, m)
<1>1. CASE writes = {}
  BY <1>1 DEF BlockIs, BlockAfter, OldBlock, OldContent
<1>2. CASE writes # {}
  <2>1. PICK m \in writes : IsLast(m) /\ block = BlockOf(opt.gen, infos[m].md5)
    BY <1>2 DEF BlockIs
  <2>2. ASSUME NEW n \in writes, IsLast(n)
        PROVE  n = m
    <3>1. n \in DOMAIN infos /\ m \in DOMAIN infos
      BY DEF WritesTo
    <3>2. infos[n].ts \in Nat /\ infos[m].ts \in Nat /\ n \in Nat /\ m \in Nat
      <4>1. infos[n] \in Records /\ infos[m] \in Records /\ n \in Nat /\ m \in Nat
        BY <3>1
      <4> QED
        BY <4>1 DEF Records
    <3>3. (n = m \/ Before(n, m)) /\ (m = n \/ Before(m, n))
      BY <2>1, <2>2
    <3> QED
      BY <3>2, <3>3 DEF Before
  <2>3. (CHOOSE n \in writes : IsLast(n)) = m
    BY <2>1, <2>2
  <2>4. BlockAfter(S, w, lba)
            = BlockOf(opt.gen, infos[CHOOSE n \in writes : IsLast(n)].md5)
    BY <1>2 DEF BlockAfter
  <2> QED
    BY <2>1, <2>3, <2>4
<1> QED
  BY <1>1, <1>2

\* What a worker has performed is a first part of its records: up to its hint,
\* or all of them.
LEMMA PerformedFacts ==
    ASSUME RunIInv, NEW w \in Workers
    PROVE  /\ PerformedBy(w) \in 0 .. Len(infos_map[w])
           /\ infos_map[w] \in Seq(DOMAIN infos) /\ Len(infos_map[w]) \in Nat
           /\ InHint(w) => PerformedBy(w) = Hint(w).start
<1>1. infos_map[w] \in Seq(DOMAIN infos) /\ Len(infos_map[w]) \in Nat
  BY DEF RunIInv, PlanIInv, Typed
<1>2. CASE InHint(w)
  <2>1. worker = opt.threads
    BY <1>2, InHintPlanned
  <2>2. hint[w] \in params[w].start .. params[w].end - 1
    BY <1>2, <2>1, InHintFacts DEF RunIInv
  <2>3. /\ Hint(w).start \in Nat /\ Hint(w).blks \in Nat
        /\ Hint(w).start + Hint(w).blks <= Len(infos_map[w])
    BY <2>1, <2>2, HintFacts DEF Hint, RunIInv
  <2>4. PerformedBy(w) = Hint(w).start
    BY <1>2 DEF PerformedBy, InHint
  <2> QED
    BY <1>1, <2>3, <2>4
<1>3. CASE ~InHint(w)
  <2>1. PerformedBy(w) = 0 \/ PerformedBy(w) = Len(infos_map[w])
    BY <1>3 DEF PerformedBy, InHint, RunIInv, WithinHints
  <2> QED
    BY <1>1, <1>3, <2>1
<1> QED
  BY <1>2, <1>3

\* With its hint, a worker has performed the records of the hint.
LEMMA PerformedNext ==
    ASSUME RunIInv, NEW w \in Workers, InHint(w), UNCHANGED planRest,
           wpc'[w] = "replay", hint'[w] = hint[w] + 1
    PROVE  PerformedBy(w)' = Hint(w).start + Hint(w).blks
<1>1. worker = opt.threads
  BY InHintPlanned
<1>2. /\ hint[w] \in params[w].start .. params[w].end - 1 /\ hint[w] \in Nat
  BY <1>1, InHintFacts DEF RunIInv
<1>3. /\ params[w].end \in Nat
      /\ hint[w] + 1 = params[w].end =>
                Hint(w).start + Hint(w).blks = Len(infos_map[w])
      /\ hint[w] + 1 # params[w].end =>
                Hint(w).start + Hint(w).blks = hints[(hint[w] + 1) + 1].start
  BY <1>1, <1>2, HintFacts DEF Hint, RunIInv
<1>4. hint[w] + 1 < params[w].end \/ hint[w] + 1 = params[w].end
  BY <1>2, <1>3
<1>5. PerformedBy(w)' = IF hint[w] + 1 < params[w].end THEN hints[(hint[w] + 1) + 1].start
                        ELSE Len(infos_map[w])
  BY DEF PerformedBy, Hint, planRest
<1> QED
  BY <1>2, <1>3, <1>4, <1>5

\* A worker that begins has performed nothing.
LEMMA PerformedFirst ==
    ASSUME RunIInv, phase = "ready", NEW w \in Workers, UNCHANGED planRest,
           wpc'[w] = "replay", hint'[w] = params[w].start
    PROVE  PerformedBy(w)' = 0
<1>1. worker = opt.threads /\ Typed /\ PlanIInv
  BY DEF RunIInv, Started, HasPlan, PlanIInv
<1>2. params[w].start < params[w].end /\ params[w].start \in Nat /\ params[w].end \in Nat
  <2>1. HintsRight(w)
    BY <1>1, OptFacts DEF PlanIInv, PlannedHints, PlannedWorkers, Typed
  <2> QED
    BY <1>1, <2>1 DEF HintsRight, Typed
<1>3. params[w].start \in params[w].start .. params[w].end - 1
  BY <1>2
<1>4. hints[params[w].start + 1].start = 0
  BY <1>1, <1>3, HintFacts
<1>5. PerformedBy(w)' = hints[params[w].start + 1].start
  BY <1>2 DEF PerformedBy, Hint, planRest
<1> QED
  BY <1>4, <1>5

\* The records of an LBA are in the order of time in the map of their worker.
LEMMA MapOrder ==
    ASSUME RunIInv, HasPlan, NEW w \in Workers,
           NEW p \in DOMAIN infos_map[w], NEW q \in DOMAIN infos_map[w], p < q,
           infos[infos_map[w][p]].lba = infos[infos_map[w][q]].lba
    PROVE  Before(infos_map[w][p], infos_map[w][q])
<1>1. worker = opt.threads /\ opt \in Options /\ InTimeOrder
  BY DEF RunIInv, Started, PlanIInv, Typed
<1>2. w \in SortedWorkers
  BY <1>1, OptFacts DEF SortedWorkers
<1> QED
  BY <1>1, <1>2 DEF InTimeOrder, Before

----------------------------------------------------------------------------
(* What is in the files and in the dumps. *)

\* A worker that has not begun has changed nothing.
Untouched ==
    \A w \in Workers :
        wpc[w] \in {"none", "open"} => file[w] = OldContent(w) /\ dump[w] = <<>>

\* Every block in the file of worker w is what the records performed so far
\* have left there.
FileRight(w) ==
    Aligned /\ opt.mode # "a" =>
        \A lba \in Nat : Multiple(lba) =>
            BlockIs(DoneBy(w), w, lba, Padded(file[w], lba, BlkSectors))

\* The files hold what the records leave, until a write fails half way.
FilesRight ==
    phase # "exited" =>
        \A w \in Workers : wpc[w] \in {"replay", "ended"} => FileRight(w)

\* The records before record n in the whole trace, whoever has them.
RecordsBefore(n) == {m \in DOMAIN infos : Before(m, n)}

\* The reads among the first k records of worker w.
ReadsUpTo(w, k) == {p \in 1 .. k : infos[infos_map[w][p]].rw = "R"}

\* Block r of a dump.
DumpBlock(d, r) == SubSeq(d, (r - 1) * BlkSectors + 1, r * BlkSectors)

\* The r-th read of worker w is block r of its dump, and it is what the records
\* before it in the whole trace have left.
DumpRight(w) ==
    Aligned /\ opt.dump =>
        /\ Len(dump[w]) = Cardinality(ReadsUpTo(w, PerformedBy(w))) * BlkSectors
        /\ \A p \in ReadsUpTo(w, PerformedBy(w)) :
            BlockIs(RecordsBefore(infos_map[w][p]), w, infos[infos_map[w][p]].lba,
                    DumpBlock(dump[w], Cardinality(ReadsUpTo(w, p))))

DumpsRight == \A w \in Workers : wpc[w] \in {"replay", "ended"} => DumpRight(w)

\* What the workers have done, in their files and in their dumps.
DoneIInv == Untouched /\ FilesRight /\ DumpsRight

\* What a step does not touch of a worker.
LEMMA OtherRight ==
    ASSUME UNCHANGED planRest, NEW w \in Workers, PerformedBy(w)' = PerformedBy(w),
           file'[w] = file[w], dump'[w] = dump[w]
    PROVE  /\ FileRight(w) => FileRight(w)'
           /\ DumpRight(w) => DumpRight(w)'
<1>1. DoneBy(w)' = DoneBy(w) /\ Aligned' = Aligned /\ opt' = opt
  BY DEF planRest, DoneBy, Aligned
<1>2. FileRight(w) => FileRight(w)'
  BY <1>1 DEF FileRight, BlockIs, WritesTo, Before, OldContent, planRest
<1>3. DumpRight(w) => DumpRight(w)'
  BY <1>1 DEF DumpRight, ReadsUpTo, RecordsBefore, BlockIs, WritesTo, Before, OldContent, planRest
<1> QED
  BY <1>2, <1>3

\* The position of a worker's step does not matter for the others.
LEMMA OtherPerformed ==
    ASSUME UNCHANGED planRest, NEW w \in Workers, wpc'[w] = wpc[w], hint'[w] = hint[w]
    PROVE  PerformedBy(w)' = PerformedBy(w)
BY DEF PerformedBy, Hint, planRest

\* A step of worker w keeps what holds of the others.
LEMMA OneWorkerRight ==
    ASSUME RunIInv, DoneIInv, phase = "ready", UNCHANGED planRest, NEW w \in Workers,
           wpc'[w] \notin {"none", "open"},
           \A v \in Workers : v # w =>
                /\ wpc'[v] = wpc[v] /\ hint'[v] = hint[v]
                /\ file'[v] = file[v] /\ dump'[v] = dump[v],
           phase' # "exited" => FileRight(w)', DumpRight(w)'
    PROVE  DoneIInv'
<1>1. Workers' = Workers /\ opt' = opt
  BY DEF planRest, Workers
<1>2. ASSUME NEW v \in Workers, v # w
      PROVE  /\ wpc'[v] \in {"none", "open"} => file'[v] = OldContent(v)' /\ dump'[v] = <<>>
             /\ phase' # "exited" /\ wpc'[v] \in {"replay", "ended"} => FileRight(v)'
             /\ wpc'[v] \in {"replay", "ended"} => DumpRight(v)'
  <2>1. PerformedBy(v)' = PerformedBy(v)
    BY <1>2, OtherPerformed
  <2>2. (FileRight(v) => FileRight(v)') /\ (DumpRight(v) => DumpRight(v)')
    BY <1>2, <2>1, OtherRight
  <2>3. OldContent(v)' = OldContent(v)
    BY <1>1 DEF OldContent
  <2> QED
    BY <1>2, <2>2, <2>3 DEF DoneIInv, Untouched, FilesRight, DumpsRight
<1>3. Untouched'
  BY <1>1, <1>2 DEF Untouched
<1>4. FilesRight'
  BY <1>1, <1>2 DEF FilesRight
<1>5. DumpsRight'
  BY <1>1, <1>2 DEF DumpsRight
<1> QED
  BY <1>3, <1>4, <1>5 DEF DoneIInv

\* The records of the hint of worker w.
OfHint(w) == {infos_map[w][Hint(w).start + n] : n \in 1 .. Hint(w).blks}

\* What the hint adds to the records a worker has performed.
LEMMA HintDone ==
    ASSUME RunIInv, NEW w \in Workers, InHint(w), UNCHANGED planRest,
           wpc'[w] = "replay", hint'[w] = hint[w] + 1
    PROVE  DoneBy(w)' = DoneBy(w) \cup OfHint(w)
<1>1. PICK a \in Nat, n \in Nat : a = Hint(w).start /\ n = Hint(w).blks
  BY InHintPlanned, InHintFacts DEF RunIInv
<1>2. PerformedBy(w) = a /\ PerformedBy(w)' = a + n
  BY <1>1, PerformedFacts, PerformedNext
<1>3. DoneBy(w)' = {infos_map[w][p] : p \in 1 .. a + n}
  BY <1>2 DEF DoneBy, planRest
<1>4. DoneBy(w) = {infos_map[w][p] : p \in 1 .. a}
  BY <1>2 DEF DoneBy
<1>5. OfHint(w) = {infos_map[w][a + k] : k \in 1 .. n}
  BY <1>1 DEF OfHint
<1>6. \A p \in 1 .. a + n : p \in 1 .. a \/ \E k \in 1 .. n : p = a + k
  <2> TAKE p \in 1 .. a + n
  <2>1. CASE ~ (p <= a)
    <3>1. p - a \in 1 .. n /\ p = a + (p - a)
      BY <2>1
    <3> QED
      BY <3>1
  <2> QED
    BY <2>1
<1>7. (\A p \in 1 .. a : p \in 1 .. a + n) /\ (\A k \in 1 .. n : a + k \in 1 .. a + n)
  OBVIOUS
<1> QED
  BY <1>3, <1>4, <1>5, <1>6, <1>7

\* Blocks in a row have one place each.
LEMMA OnePlace ==
    ASSUME NEW ofs \in Nat, NEW n \in Nat, NEW b \in 1 .. n, NEW c \in 1 .. n,
           ofs + (b - 1) * BlkSectors = ofs + (c - 1) * BlkSectors
    PROVE  b = c
<1>1. PICK i \in Nat, j \in Nat : i = b - 1 /\ j = c - 1
  OBVIOUS
<1>2. BlkSectors \in Nat /\ BlkSectors > 0
  BY BlkSectorsAssumption
<1>3. PICK x \in Nat, y \in Nat : x = i * BlkSectors /\ y = j * BlkSectors
  BY <1>2, MulNat
<1>4. x = y
  BY <1>1, <1>3
<1>5. ~ (i < j)
  <2> SUFFICES ASSUME i < j
               PROVE  FALSE
    OBVIOUS
  <2>1. x + BlkSectors <= y
    BY <1>2, <1>3, MulLess
  <2> QED
    BY <1>2, <1>3, <1>4, <2>1
<1>6. ~ (j < i)
  <2> SUFFICES ASSUME j < i
               PROVE  FALSE
    OBVIOUS
  <2>1. y + BlkSectors <= x
    BY <1>2, <1>3, MulLess
  <2> QED
    BY <1>2, <1>3, <1>4, <2>1
<1> QED
  BY <1>1, <1>5, <1>6

\* The records of a hint are of one kind, a block apart, and none of them is
\* before a record that the worker has performed.
LEMMA OfHintFacts ==
    ASSUME RunIInv, HasPlan, NEW w \in Workers, InHint(w)
    PROVE  /\ HintOffset(w) \in Nat /\ Hint(w).blks \in Nat
           /\ Aligned => Multiple(HintOffset(w))
           /\ \A b \in 1 .. Hint(w).blks :
                LET m == infos_map[w][Hint(w).start + b]
                IN  /\ m \in OfHint(w) /\ m \in DOMAIN infos
                    /\ infos[m] = HintRecord(w, b)
                    /\ infos[m].lba = HintOffset(w) + (b - 1) * BlkSectors
                    /\ infos[m].rw = Hint(w).rw
                    /\ \A n \in DoneBy(w) \cup OfHint(w) :
                        infos[n].lba = infos[m].lba => n = m \/ Before(n, m)
<1>1. worker = opt.threads /\ RunTyped /\ WithinHints /\ PlanIInv
  BY DEF RunIInv, Started
<1>2. PICK a \in Nat, n \in Nat, ofs \in Nat :
            a = Hint(w).start /\ n = Hint(w).blks /\ ofs = HintOffset(w) /\ n > 0
  BY <1>1, InHintFacts
<1>3. \A b \in 1 .. n :
        /\ a + b \in DOMAIN infos_map[w] /\ infos_map[w][a + b] \in DOMAIN infos
        /\ infos[infos_map[w][a + b]].rw = Hint(w).rw
        /\ infos[infos_map[w][a + b]] = HintRecord(w, b)
        /\ infos[infos_map[w][a + b]].lba = ofs + (b - 1) * BlkSectors
  BY <1>1, <1>2, InHintFacts DEF HintRecord
<1>4. Aligned => Multiple(ofs)
  <2>1. 1 \in 1 .. n /\ infos[infos_map[w][a + 1]] = HintRecord(w, 1)
    BY <1>2, <1>3
  <2>2. infos_map[w][a + 1] \in DOMAIN infos /\ infos[infos_map[w][a + 1]].lba = ofs
    BY <1>2, <1>3, <2>1 DEF HintOffset
  <2> QED
    BY <2>2 DEF Aligned, Multiple
<1>5. DoneBy(w) = {infos_map[w][p] : p \in 1 .. a}
  BY <1>2, PerformedFacts DEF DoneBy
<1>6. ASSUME NEW b \in 1 .. n, NEW k \in DoneBy(w) \cup OfHint(w),
             infos[k].lba = infos[infos_map[w][a + b]].lba
      PROVE  k = infos_map[w][a + b] \/ Before(k, infos_map[w][a + b])
  <2>1. CASE k \in DoneBy(w)
    <3>1. PICK p \in 1 .. a : k = infos_map[w][p]
      BY <1>5, <2>1
    <3>2. infos_map[w] \in Seq(DOMAIN infos) /\ Len(infos_map[w]) \in Nat
      BY PerformedFacts
    <3>3. p \in DOMAIN infos_map[w] /\ a + b \in DOMAIN infos_map[w] /\ p < a + b
      <4>1. a + b \in DOMAIN infos_map[w]
        BY <1>3
      <4> QED
        BY <3>2, <4>1
    <3> QED
      BY <1>6, <3>1, <3>3, MapOrder
  <2>2. CASE k \in OfHint(w)
    <3>1. PICK c \in 1 .. n : k = infos_map[w][a + c]
      BY <1>2, <2>2 DEF OfHint
    <3>2. ofs + (c - 1) * BlkSectors = ofs + (b - 1) * BlkSectors
      BY <1>3, <1>6, <3>1
    <3>3. b = c
      BY <3>2, OnePlace
    <3> QED
      BY <3>1, <3>3
  <2> QED
    BY <1>6, <2>1, <2>2
<1>7. \A b \in 1 .. n : infos_map[w][a + b] \in OfHint(w)
  BY <1>2 DEF OfHint
<1> QED
  BY <1>2, <1>3, <1>4, <1>6, <1>7

\* The block at lba after a hint has been written.
LEMMA HintWritten ==
    ASSUME RunIInv, phase = "ready", NEW w \in Workers, InHint(w), IsWrite(w), ~ShortMd5(w),
           Aligned, opt.mode # "a", FileRight(w), NEW lba \in Nat, Multiple(lba)
    PROVE  BlockIs(DoneBy(w) \cup OfHint(w), w, lba,
                   Padded(pwrite(file[w], HintOffset(w), HintFilled(w).blk), lba, BlkSectors))
<1>1. HasPlan /\ IsSeq(file[w])
  BY DEF HasPlan, RunIInv, RunTyped
<1>2. PICK n \in Nat, ofs \in Nat : n = Hint(w).blks /\ ofs = HintOffset(w)
  BY <1>1, OfHintFacts
<1> DEFINE a == Hint(w).start
           data == HintFilled(w).blk
<1> HIDE DEF a, data
<1>3. Multiple(ofs)
  BY <1>1, <1>2, OfHintFacts
<1>4. ASSUME NEW b \in 1 .. n
      PROVE  /\ infos_map[w][a + b] \in OfHint(w) /\ infos_map[w][a + b] \in DOMAIN infos
             /\ infos[infos_map[w][a + b]] = HintRecord(w, b)
             /\ infos[infos_map[w][a + b]].lba = ofs + (b - 1) * BlkSectors
             /\ infos[infos_map[w][a + b]].rw = "W"
             /\ \A k \in DoneBy(w) \cup OfHint(w) :
                    infos[k].lba = infos[infos_map[w][a + b]].lba =>
                        k = infos_map[w][a + b] \/ Before(k, infos_map[w][a + b])
  <2>1. b \in 1 .. Hint(w).blks
    BY <1>2
  <2>2. opt.mode # "rw" => infos[infos_map[w][Hint(w).start + b]].rw = "W"
    BY <1>1, <2>1, OfHintFacts DEF RunIInv, FromTrace
  <2>3. infos[infos_map[w][Hint(w).start + b]].rw = "W"
    BY <1>1, <2>1, <2>2, OfHintFacts DEF IsWrite
  <2> QED
    BY <1>1, <1>2, <2>1, <2>3, OfHintFacts DEF a
<1>5. /\ IsSeq(data) /\ Len(data) = n * BlkSectors
      /\ \A b \in 1 .. n : \A s \in 1 .. BlkSectors :
            data[(b - 1) * BlkSectors + s] = BlockOf(opt.gen, HintRecord(w, b).md5)[s]
  BY <1>2, HintFilledFacts DEF HintSectors, data
<1>6. PICK S, block : /\ S = DoneBy(w) \cup OfHint(w)
                      /\ block = Padded(pwrite(file[w], ofs, data), lba, BlkSectors)
  OBVIOUS
<1>7. CASE \E b \in 1 .. n : lba = ofs + (b - 1) * BlkSectors
  <2>1. PICK b \in 1 .. n : lba = ofs + (b - 1) * BlkSectors
    BY <1>7
  <2>2. PICK m : m = infos_map[w][a + b]
    OBVIOUS
  <2>3. m \in S \cap WritesTo(lba)
    BY <1>4, <1>6, <2>1, <2>2 DEF WritesTo
  <2>4. \A k \in S \cap WritesTo(lba) : k = m \/ Before(k, m)
    BY <1>4, <1>6, <2>1, <2>2 DEF WritesTo
  <2>5. PICK right : right = BlockOf(opt.gen, infos[m].md5)
    OBVIOUS
  <2>6. IsSeq(right) /\ Len(right) = BlkSectors
    BY <2>5, BlockOfSeq
  <2>7. IsSeq(block) /\ Len(block) = BlkSectors
    BY <1>6, PaddedFacts, BlkSectorsAssumption
  <2>8. \A s \in 1 .. BlkSectors : block[s] = data[(b - 1) * BlkSectors + s]
    <3>1. IsSeq(file[w]) /\ IsSeq(data) /\ Len(data) = n * BlkSectors
      BY <1>1, <1>5
    <3>2. \A s \in 1 .. BlkSectors :
            Padded(pwrite(file[w], ofs, data), ofs + (b - 1) * BlkSectors, BlkSectors)[s]
                = data[(b - 1) * BlkSectors + s]
      BY <3>1, BlockWritten
    <3> QED
      BY <1>6, <2>1, <3>2, Zenon
  <2>9. \A s \in 1 .. BlkSectors : right[s] = data[(b - 1) * BlkSectors + s]
    BY <1>4, <1>5, <2>2, <2>5
  <2>10. block = right
    BY <2>6, <2>7, <2>8, <2>9, SameSeq
  <2>11. BlockIs(S, w, lba, block)
    BY <2>3, <2>4, <2>5, <2>10 DEF BlockIs
  <2> QED
    BY <1>2, <1>6, <2>11 DEF data
<1>8. CASE ~ \E b \in 1 .. n : lba = ofs + (b - 1) * BlkSectors
  <2>1. lba + BlkSectors <= ofs \/ ofs + Len(data) <= lba
    BY <1>3, <1>5, <1>8, BlockOrOutside
  <2>2. block = Padded(file[w], lba, BlkSectors)
    BY <1>1, <1>5, <1>6, <2>1, BlockKept
  <2>3. S \cap WritesTo(lba) = DoneBy(w) \cap WritesTo(lba)
    <3>1. ASSUME NEW k \in OfHint(w)
          PROVE  k \notin WritesTo(lba)
      <4>1. PICK b \in 1 .. n : k = infos_map[w][a + b]
        BY <1>2 DEF OfHint, a
      <4>2. infos[k].lba = ofs + (b - 1) * BlkSectors
        BY <1>4, <4>1
      <4> QED
        BY <1>8, <4>2 DEF WritesTo
    <3> QED
      BY <1>6, <3>1
  <2>4. BlockIs(DoneBy(w), w, lba, block)
    BY <2>2 DEF FileRight
  <2>5. BlockIs(S, w, lba, block)
    BY <2>3, <2>4, Zenon DEF BlockIs
  <2> QED
    BY <1>2, <1>6, <2>5 DEF data
<1> QED
  BY <1>7, <1>8

\* The reads are counted from hint to hint: a hint of writes adds none.
LEMMA NoReads ==
    ASSUME NEW w, NEW a \in Nat, NEW n \in Nat,
           \A k \in 1 .. n : infos[infos_map[w][a + k]].rw # "R"
    PROVE  ReadsUpTo(w, a + n) = ReadsUpTo(w, a)
<1>1. ASSUME NEW p \in 1 .. a + n, p \notin 1 .. a
      PROVE  infos[infos_map[w][p]].rw # "R"
  <2>1. p - a \in 1 .. n /\ a + (p - a) = p
    BY <1>1
  <2> QED
    BY <2>1
<1>2. \A p \in 1 .. a : p \in 1 .. a + n
  OBVIOUS
<1> QED
  BY <1>1, <1>2 DEF ReadsUpTo

\* A hint of reads adds each of them.
LEMMA AllReads ==
    ASSUME NEW w, NEW a \in Nat, NEW e \in Nat, a <= e,
           \A p \in a + 1 .. e : infos[infos_map[w][p]].rw = "R"
    PROVE  /\ ReadsUpTo(w, e) = ReadsUpTo(w, a) \cup (a + 1 .. e)
           /\ Cardinality(ReadsUpTo(w, a)) \in Nat
           /\ Cardinality(ReadsUpTo(w, e)) = Cardinality(ReadsUpTo(w, a)) + (e - a)
<1>1. ReadsUpTo(w, e) = ReadsUpTo(w, a) \cup (a + 1 .. e)
  BY DEF ReadsUpTo
<1>2. IsFiniteSet(ReadsUpTo(w, a)) /\ Cardinality(ReadsUpTo(w, a)) \in Nat
  <2>1. IsFiniteSet(1 .. a)
    <3>1. 1 \in Int /\ a \in Int
      OBVIOUS
    <3> QED
      BY <3>1, FS_Interval, Zenon
  <2>2. ReadsUpTo(w, a) \in SUBSET (1 .. a)
    BY DEF ReadsUpTo
  <2> QED
    BY <2>1, <2>2, FS_Subset, FS_CardinalityType
<1>3. IsFiniteSet(a + 1 .. e) /\ Cardinality(a + 1 .. e) = e - a
  <2>1. PICK g \in Int : g = a + 1 /\ e \in Int
    OBVIOUS
  <2>2. IsFiniteSet(g .. e) /\ Cardinality(g .. e) = IF g > e THEN 0 ELSE e - g + 1
    BY <2>1, FS_Interval, Zenon
  <2>3. (IF g > e THEN 0 ELSE e - g + 1) = e - a
    BY <2>1
  <2> QED
    BY <2>1, <2>2, <2>3, Zenon
<1>4. ReadsUpTo(w, a) \cap (a + 1 .. e) = {}
  BY DEF ReadsUpTo
<1>5. Cardinality(ReadsUpTo(w, a) \cup (a + 1 .. e))
        = Cardinality(ReadsUpTo(w, a)) + Cardinality(a + 1 .. e)
          - Cardinality(ReadsUpTo(w, a) \cap (a + 1 .. e))
  BY <1>2, <1>3, FS_Union
<1>6. Cardinality(ReadsUpTo(w, a) \cap (a + 1 .. e)) = 0
  BY <1>4, FS_EmptySet
<1>7. PICK c \in Nat, m \in Nat : c = Cardinality(ReadsUpTo(w, a)) /\ m = e - a
  BY <1>2
<1>8. Cardinality(ReadsUpTo(w, a) \cup (a + 1 .. e)) = c + (m - 0)
  BY <1>3, <1>5, <1>6, <1>7, Zenon
<1>9. Cardinality(ReadsUpTo(w, e)) = c + (m - 0)
  BY <1>1, <1>8, Zenon
<1>10. c + (m - 0) = c + m
  OBVIOUS
<1> QED
  BY <1>1, <1>7, <1>9, <1>10, Zenon

\* Without a new read the dump stays right.
LEMMA DumpKept ==
    ASSUME UNCHANGED planRest, NEW w \in Workers, dump'[w] = dump[w], DumpRight(w),
           ReadsUpTo(w, PerformedBy(w))' = ReadsUpTo(w, PerformedBy(w))
    PROVE  DumpRight(w)'
<1>1. Aligned' = Aligned /\ opt' = opt /\ infos_map' = infos_map /\ infos' = infos
  BY DEF planRest, Aligned
<1>2. \A k : ReadsUpTo(w, k)' = ReadsUpTo(w, k)
  BY <1>1 DEF ReadsUpTo
<1> QED
  BY <1>1, <1>2 DEF DumpRight, RecordsBefore, BlockIs, WritesTo, Before, OldContent

\* A write of a hint.
LEMMA WriteRight ==
    ASSUME RunIInv, DoneIInv, NEW w \in Workers, WriteHint(w)
    PROVE  DoneIInv'
<1>1. /\ Replaying(w) /\ IsWrite(w) /\ ~ShortMd5(w)
      /\ phase' = phase /\ UNCHANGED planRest /\ wpc' = wpc /\ dump' = dump
      /\ file' = [file EXCEPT ![w] = pwrite(@, WriteOffset(w), HintFilled(w).blk)]
      /\ hint' = [hint EXCEPT ![w] = @ + 1]
  BY DEF WriteHint, planVars, planRest
<1>2. /\ phase = "ready" /\ HasPlan /\ RunTyped /\ InHint(w) /\ wpc[w] = "replay"
  BY <1>1, InReplay DEF HasPlan
<1>3. /\ hint'[w] = hint[w] + 1 /\ wpc'[w] = "replay"
      /\ file'[w] = pwrite(file[w], WriteOffset(w), HintFilled(w).blk)
      /\ \A v \in Workers : v # w => hint'[v] = hint[v] /\ file'[v] = file[v]
  BY <1>1, <1>2 DEF RunTyped
<1>4. DoneBy(w)' = DoneBy(w) \cup OfHint(w)
  BY <1>1, <1>2, <1>3, HintDone
<1>5. FileRight(w)'
  <2>1. Aligned' = Aligned /\ opt' = opt
    BY <1>1 DEF planRest, Aligned
  <2>2. ASSUME Aligned, opt.mode # "a", NEW lba \in Nat, Multiple(lba)
        PROVE  BlockIs(DoneBy(w), w, lba, Padded(file[w], lba, BlkSectors))'
    <3>1. FileRight(w)
      BY <1>2 DEF DoneIInv, FilesRight
    <3>2. BlockIs(DoneBy(w) \cup OfHint(w), w, lba,
                  Padded(pwrite(file[w], HintOffset(w), HintFilled(w).blk), lba, BlkSectors))
      BY <1>1, <1>2, <2>2, <3>1, HintWritten
    <3>3. file'[w] = pwrite(file[w], HintOffset(w), HintFilled(w).blk)
      BY <1>3, <2>2 DEF WriteOffset
    <3>4. PICK S, block : /\ S = DoneBy(w)' /\ block = Padded(file'[w], lba, BlkSectors)
                          /\ BlockIs(S, w, lba, block)
      BY <1>4, <3>2, <3>3
    <3>5. BlockIs(S, w, lba, block)'
      BY <1>1, <3>4 DEF BlockIs, WritesTo, Before, OldContent, planRest
    <3> QED
      BY <3>4, <3>5
  <2> QED
    BY <2>1, <2>2 DEF FileRight
<1>6. DumpRight(w)'
  <2>1. DumpRight(w)
    BY <1>2 DEF DoneIInv, DumpsRight
  <2>2. ASSUME NEW b \in 1 .. Hint(w).blks
        PROVE  infos[infos_map[w][Hint(w).start + b]].rw # "R"
    <3>1. /\ infos_map[w][Hint(w).start + b] \in DOMAIN infos
          /\ infos[infos_map[w][Hint(w).start + b]].rw = Hint(w).rw
      BY <1>2, OfHintFacts
    <3>2. opt.mode # "rw" => Hint(w).rw = "W"
      BY <3>1 DEF RunIInv, FromTrace
    <3> QED
      BY <1>1, <3>1, <3>2 DEF IsWrite
  <2>3. PICK a \in Nat, n \in Nat : a = Hint(w).start /\ n = Hint(w).blks
    BY <1>2, InHintPlanned, InHintFacts DEF RunIInv
  <2>4. PerformedBy(w) = a /\ PerformedBy(w)' = a + n
    BY <1>1, <1>2, <1>3, <2>3, PerformedFacts, PerformedNext
  <2>5. ReadsUpTo(w, a + n) = ReadsUpTo(w, a)
    BY <2>2, <2>3, NoReads
  <2>6. \A k : ReadsUpTo(w, k)' = ReadsUpTo(w, k)
    BY <1>1 DEF ReadsUpTo, planRest
  <2>7. ReadsUpTo(w, PerformedBy(w))' = ReadsUpTo(w, PerformedBy(w))
    BY <2>4, <2>5, <2>6
  <2> QED
    BY <1>1, <2>1, <2>7, DumpKept
<1> QED
  BY <1>1, <1>2, <1>3, <1>5, <1>6, OneWorkerRight

\* A part of a sequence.
LEMMA PartOf ==
    ASSUME NEW f, IsSeq(f), NEW k \in Nat, NEW n \in Nat, k + n <= Len(f)
    PROVE  /\ IsSeq(SubSeq(f, k + 1, k + n)) /\ Len(SubSeq(f, k + 1, k + n)) = n
           /\ \A p \in 1 .. n : SubSeq(f, k + 1, k + n)[p] = f[k + p]
<1> DEFINE S == {f[p] : p \in 1 .. Len(f)}
<1>1. f \in Seq(S) /\ Len(f) \in Nat
  BY DEF IsSeq
<1> HIDE DEF S
<1>2. SubSeq(f, k + 1, k + n) \in Seq(S)
  BY <1>1
<1>3. Len(SubSeq(f, k + 1, k + n)) = n
  BY <1>1
<1>4. \A p \in 1 .. n : SubSeq(f, k + 1, k + n)[p] = f[k + p]
  BY <1>1
<1> QED
  BY <1>2, <1>3, <1>4, TypedSeq

\* Block r of a dump that has it.
LEMMA DumpBlockIs ==
    ASSUME NEW d, IsSeq(d), NEW n \in Nat, n * BlkSectors <= Len(d), NEW r \in 1 .. n
    PROVE  /\ (r - 1) * BlkSectors \in Nat /\ (r - 1) * BlkSectors + BlkSectors <= Len(d)
           /\ IsSeq(DumpBlock(d, r)) /\ Len(DumpBlock(d, r)) = BlkSectors
           /\ \A s \in 1 .. BlkSectors : DumpBlock(d, r)[s] = d[(r - 1) * BlkSectors + s]
<1>1. BlkSectors \in Nat /\ Len(d) \in Nat /\ n * BlkSectors \in Nat
  BY BlkSectorsAssumption, MulNat DEF IsSeq
<1>2. PICK c \in Nat : c = r - 1 /\ c < n
  OBVIOUS
<1>3. PICK k \in Nat : k = c * BlkSectors
  BY <1>1, MulNat
<1>4. k + BlkSectors <= n * BlkSectors
  BY <1>1, <1>2, <1>3, MulLess
<1>5. k + BlkSectors <= Len(d)
  BY <1>1, <1>4
<1>6. r * BlkSectors = k + BlkSectors /\ (r - 1) * BlkSectors = k
  <2>1. r = c + 1
    BY <1>2
  <2>2. (c + 1) * BlkSectors = c * BlkSectors + BlkSectors
    BY <1>1
  <2> QED
    BY <1>2, <1>3, <2>1, <2>2
<1>7. DumpBlock(d, r) = SubSeq(d, k + 1, k + BlkSectors)
  BY <1>6, Zenon DEF DumpBlock
<1>8. /\ IsSeq(DumpBlock(d, r)) /\ Len(DumpBlock(d, r)) = BlkSectors
      /\ \A s \in 1 .. BlkSectors : DumpBlock(d, r)[s] = d[k + s]
  <2>1. PICK part : part = SubSeq(d, k + 1, k + BlkSectors)
    OBVIOUS
  <2>2. /\ IsSeq(part) /\ Len(part) = BlkSectors
        /\ \A s \in 1 .. BlkSectors : part[s] = d[k + s]
    BY <1>1, <1>5, <2>1, PartOf
  <2>3. DumpBlock(d, r) = part
    BY <1>7, <2>1
  <2> QED
    BY <2>2, <2>3, Zenon
<1> QED
  BY <1>5, <1>6, <1>8

\* What is written behind a dump leaves its blocks.
LEMMA DumpBlockKept ==
    ASSUME NEW d, NEW more, IsSeq(d), IsSeq(more), NEW n \in Nat, n * BlkSectors = Len(d),
           NEW r \in 1 .. n
    PROVE  DumpBlock(d \o more, r) = DumpBlock(d, r)
<1>1. PICK all : all = d \o more
  OBVIOUS
<1>2. /\ IsSeq(all) /\ Len(all) = Len(d) + Len(more)
      /\ \A p \in 1 .. Len(d) : all[p] = d[p]
  BY <1>1, Joined
<1>3. Len(d) \in Nat /\ Len(more) \in Nat /\ BlkSectors \in Nat
  BY BlkSectorsAssumption DEF IsSeq
<1>4. n * BlkSectors <= Len(all) /\ n * BlkSectors <= Len(d)
  BY <1>2, <1>3
<1>5. PICK k \in Nat : k = (r - 1) * BlkSectors /\ k + BlkSectors <= Len(d)
  BY <1>4, DumpBlockIs
<1>6. /\ IsSeq(DumpBlock(d, r)) /\ Len(DumpBlock(d, r)) = BlkSectors
      /\ \A s \in 1 .. BlkSectors : DumpBlock(d, r)[s] = d[(r - 1) * BlkSectors + s]
  BY <1>4, DumpBlockIs
<1>7. /\ IsSeq(DumpBlock(all, r)) /\ Len(DumpBlock(all, r)) = BlkSectors
      /\ \A s \in 1 .. BlkSectors : DumpBlock(all, r)[s] = all[(r - 1) * BlkSectors + s]
  BY <1>2, <1>4, DumpBlockIs
<1>8. \A s \in 1 .. BlkSectors : DumpBlock(all, r)[s] = DumpBlock(d, r)[s]
  <2>1. \A s \in 1 .. BlkSectors : k + s \in 1 .. Len(d)
    BY <1>3, <1>5
  <2> QED
    BY <1>2, <1>5, <1>6, <1>7, <2>1
<1> QED
  BY <1>1, <1>6, <1>7, <1>8, SameSeq

\* The blocks of a range that is written behind a dump of n blocks.
LEMMA DumpBlockNew ==
    ASSUME NEW d, NEW more, IsSeq(d), NEW n \in Nat, n * BlkSectors = Len(d),
           NEW f, NEW ofs \in Nat, NEW m \in Nat, NEW b \in 1 .. m,
           more = Padded(f, ofs, m * BlkSectors)
    PROVE  DumpBlock(d \o more, n + b) = Padded(f, ofs + (b - 1) * BlkSectors, BlkSectors)
<1>1. BlkSectors \in Nat /\ Len(d) \in Nat /\ m * BlkSectors \in Nat
  BY BlkSectorsAssumption, MulNat DEF IsSeq
<1>2. PICK c \in Nat : c = b - 1 /\ c < m
  OBVIOUS
<1>3. PICK k \in Nat : k = c * BlkSectors /\ k = (b - 1) * BlkSectors
  BY <1>1, <1>2, MulNat
<1>4. k + BlkSectors <= m * BlkSectors
  BY <1>1, <1>2, <1>3, MulLess
<1>5. /\ IsSeq(more) /\ Len(more) = m * BlkSectors
      /\ \A p \in 1 .. m * BlkSectors :
            more[p] = IF ofs + p <= Len(f) THEN f[ofs + p] ELSE Zero
  BY <1>1, PaddedFacts
<1>6. PICK all : all = d \o more
  OBVIOUS
<1>7. /\ IsSeq(all) /\ Len(all) = Len(d) + Len(more)
      /\ \A p \in 1 .. Len(more) : all[Len(d) + p] = more[p]
  BY <1>5, <1>6, Joined
<1>8. (n + m) * BlkSectors <= Len(all) /\ n + b \in 1 .. n + m /\ n + m \in Nat
  <2>1. (n + m) * BlkSectors = n * BlkSectors + m * BlkSectors
    BY <1>1
  <2> QED
    BY <1>1, <1>5, <1>7, <2>1
<1>9. ((n + b) - 1) * BlkSectors = Len(d) + k
  <2>1. (n + b) - 1 = n + c
    BY <1>2
  <2>2. (n + c) * BlkSectors = n * BlkSectors + c * BlkSectors
    BY <1>1
  <2> QED
    BY <1>3, <2>1, <2>2
<1>10. /\ IsSeq(DumpBlock(all, n + b)) /\ Len(DumpBlock(all, n + b)) = BlkSectors
       /\ \A s \in 1 .. BlkSectors :
            DumpBlock(all, n + b)[s] = all[((n + b) - 1) * BlkSectors + s]
  BY <1>7, <1>8, DumpBlockIs
<1>11. PICK block : block = Padded(f, ofs + k, BlkSectors)
  OBVIOUS
<1>12. /\ IsSeq(block) /\ Len(block) = BlkSectors
       /\ \A s \in 1 .. BlkSectors :
            block[s] = IF (ofs + k) + s <= Len(f) THEN f[(ofs + k) + s] ELSE Zero
  BY <1>1, <1>11, PaddedFacts
<1>13. ASSUME NEW s \in 1 .. BlkSectors
       PROVE  DumpBlock(all, n + b)[s] = block[s]
  <2>1. k + s \in 1 .. m * BlkSectors /\ (Len(d) + k) + s = Len(d) + (k + s)
        /\ (ofs + k) + s = ofs + (k + s)
    BY <1>1, <1>3, <1>4
  <2>2. DumpBlock(all, n + b)[s] = all[Len(d) + (k + s)]
    BY <1>9, <1>10, <2>1
  <2>3. all[Len(d) + (k + s)] = more[k + s]
    BY <1>5, <1>7, <2>1
  <2>4. block[s] = more[k + s]
    BY <1>5, <1>12, <2>1
  <2> QED
    BY <2>2, <2>3, <2>4
<1>14. DumpBlock(all, n + b) = block
  BY <1>10, <1>12, <1>13, SameSeq
<1> QED
  BY <1>3, <1>6, <1>11, <1>14, Zenon

\* Once the plan is there, every record is with a worker.
LEMMA AllDealt ==
    ASSUME RunIInv, HasPlan, NEW m \in DOMAIN infos
    PROVE  \E v \in Workers : \E p \in DOMAIN infos_map[v] : infos_map[v][p] = m
<1>1. Typed /\ Phases /\ Complete /\ phase \in {"ready", "done", "exited"}
  BY DEF RunIInv, PlanIInv, HasPlan
<1>2. containers = <<>> /\ next_info = valid_lines + 1
  BY <1>1 DEF Phases
<1>3. m \in 1 .. next_info - 1
  <2>1. Len(infos) \in Nat /\ DOMAIN infos = 1 .. Len(infos)
    BY <1>1 DEF Typed
  <2> QED
    BY <1>2, <2>1 DEF valid_lines
<1>4. DOMAIN containers = {}
  BY <1>2
<1> QED
  BY <1>1, <1>3, <1>4 DEF Complete

\* A record before one of worker w at the same LBA is with worker w, too.
LEMMA EarlierDone ==
    ASSUME RunIInv, HasPlan, NEW w \in Workers, InHint(w), ~IsWrite(w),
           NEW b \in 1 .. Hint(w).blks
    PROVE  LET n == infos_map[w][Hint(w).start + b]
               lba == infos[n].lba
           IN  RecordsBefore(n) \cap WritesTo(lba) = DoneBy(w) \cap WritesTo(lba)
<1> DEFINE n == infos_map[w][Hint(w).start + b]
           lba == infos[n].lba
<1>1. PICK a \in Nat, k \in Nat : a = Hint(w).start /\ k = Hint(w).blks
  BY InHintPlanned, InHintFacts DEF RunIInv
<1>2. /\ infos_map[w] \in Seq(DOMAIN infos) /\ Len(infos_map[w]) \in Nat
      /\ PerformedBy(w) = a /\ a <= Len(infos_map[w])
  BY <1>1, PerformedFacts
<1>3. a + b \in DOMAIN infos_map[w] /\ n = infos_map[w][a + b] /\ n \in DOMAIN infos
  <2>1. b \in 1 .. Hint(w).blks
    OBVIOUS
  <2>2. Hint(w).start + b \in DOMAIN infos_map[w]
    BY <2>1, InHintPlanned, InHintFacts DEF RunIInv
  <2>3. n \in DOMAIN infos
    BY <1>2, <2>2
  <2> QED
    BY <1>1, <2>2, <2>3
<1>4. ASSUME NEW m \in DoneBy(w) \cap WritesTo(lba)
      PROVE  m \in RecordsBefore(n)
  <2>1. PICK p \in 1 .. a : m = infos_map[w][p]
    BY <1>2 DEF DoneBy
  <2>2. p \in DOMAIN infos_map[w] /\ p < a + b
    BY <1>2, <2>1
  <2>3. m \in DOMAIN infos /\ infos[m].lba = lba
    BY DEF WritesTo
  <2>4. Before(m, n)
    BY <1>3, <2>1, <2>2, <2>3, MapOrder
  <2> QED
    BY <2>3, <2>4 DEF RecordsBefore
<1>5. ASSUME NEW m \in RecordsBefore(n) \cap WritesTo(lba)
      PROVE  m \in DoneBy(w)
  <2>1. /\ m \in DOMAIN infos /\ infos[m].lba = lba /\ infos[m].rw = "W" /\ Before(m, n)
    BY DEF WritesTo, RecordsBefore
  <2>2. PICK v \in Workers : \E p \in DOMAIN infos_map[v] : infos_map[v][p] = m
    BY <2>1, AllDealt
  <2>3. PICK p \in DOMAIN infos_map[v] : infos_map[v][p] = m
    BY <2>2
  <2>4. v = w
    BY <1>3, <2>1, <2>3 DEF RunIInv, PlanIInv, MapsApart
  <2>5. p \in 1 .. Len(infos_map[w]) /\ p \in Nat
    BY <1>2, <2>3, <2>4
  <2>6. ~ (a + b < p)
    <3> SUFFICES ASSUME a + b < p
                 PROVE  FALSE
      OBVIOUS
    <3>1. Before(n, m)
      BY <1>3, <2>1, <2>3, <2>4, MapOrder
    <3>2. infos[n].ts \in Nat /\ infos[m].ts \in Nat /\ n \in Nat /\ m \in Nat
      <4>1. infos \in Seq(Records)
        BY DEF RunIInv, PlanIInv, Typed
      <4>2. infos[n] \in Records /\ infos[m] \in Records /\ n \in Nat /\ m \in Nat
        BY <1>3, <2>1, <4>1
      <4> QED
        BY <4>2 DEF Records
    <3> QED
      BY <2>1, <3>1, <3>2 DEF Before
  <2>7. ASSUME p \notin 1 .. a
        PROVE  FALSE
    <3>1. p - a \in 1 .. k /\ a + (p - a) = p
      BY <1>1, <2>5, <2>6, <2>7
    <3>2. infos[infos_map[w][p]].rw = Hint(w).rw
      BY <1>1, <3>1, OfHintFacts
    <3>3. Hint(w).rw # "W"
      BY DEF IsWrite
    <3> QED
      BY <2>1, <2>3, <2>4, <3>2, <3>3
  <2> QED
    BY <1>2, <2>3, <2>4, <2>7 DEF DoneBy
<1> QED
  BY <1>4, <1>5

\* Only the writes to an LBA among the records matter for its block.
LEMMA BlockIsSame ==
    ASSUME NEW S, NEW T, NEW w, NEW lba, NEW block, BlockIs(S, w, lba, block),
           S \cap WritesTo(lba) = T \cap WritesTo(lba)
    PROVE  BlockIs(T, w, lba, block)
BY Zenon DEF BlockIs

\* The records of a plan do not change.
LEMMA BlockIsNext ==
    ASSUME UNCHANGED planRest, NEW S, NEW w, NEW lba, NEW block, BlockIs(S, w, lba, block)
    PROVE  BlockIs(S, w, lba, block)'
BY DEF BlockIs, WritesTo, Before, OldContent, planRest

\* A read is one of the reads up to it.
LEMMA ReadCounted ==
    ASSUME NEW w, NEW a \in Nat, NEW p \in ReadsUpTo(w, a)
    PROVE  Cardinality(ReadsUpTo(w, p)) \in 1 .. Cardinality(ReadsUpTo(w, a))
<1>1. p \in 1 .. a /\ p \in Nat /\ infos[infos_map[w][p]].rw = "R"
  BY DEF ReadsUpTo
<1>2. p \in ReadsUpTo(w, p) /\ ReadsUpTo(w, p) \in SUBSET ReadsUpTo(w, a)
  BY <1>1 DEF ReadsUpTo
<1>3. IsFiniteSet(ReadsUpTo(w, a))
  <2>1. IsFiniteSet(1 .. a) /\ ReadsUpTo(w, a) \in SUBSET (1 .. a)
    BY FS_Interval DEF ReadsUpTo
  <2> QED
    BY <2>1, FS_Subset
<1>4. /\ IsFiniteSet(ReadsUpTo(w, p))
      /\ Cardinality(ReadsUpTo(w, p)) <= Cardinality(ReadsUpTo(w, a))
  BY <1>2, <1>3, FS_Subset
<1>5. Cardinality(ReadsUpTo(w, p)) \in Nat /\ Cardinality(ReadsUpTo(w, a)) \in Nat
  BY <1>3, <1>4, FS_CardinalityType
<1>6. Cardinality(ReadsUpTo(w, p)) # 0
  BY <1>2, <1>4, FS_EmptySet
<1> QED
  BY <1>4, <1>5, <1>6

\* The end of a read.
LEMMA EndReadRight ==
    ASSUME RunIInv, DoneIInv, NEW w \in Workers, EndRead(w)
    PROVE  DoneIInv'
<1>1. /\ Replaying(w) /\ ~IsWrite(w)
      /\ Len(blk[w]) = HintSectors(w) \/ Available(w) <= 0
      /\ phase' = phase /\ UNCHANGED planRest /\ wpc' = wpc /\ file' = file
      /\ hint' = [hint EXCEPT ![w] = @ + 1]
      /\ dump' = IF opt.dump
                 THEN [dump EXCEPT ![w] = @ \o Padded(blk[w], 0, HintSectors(w))]
                 ELSE dump
  BY DEF EndRead, planVars, planRest
<1>2. /\ phase = "ready" /\ HasPlan /\ RunTyped /\ InHint(w) /\ ReadingOf(w) /\ wpc[w] = "replay"
      /\ IsSeq(blk[w]) /\ IsSeq(file[w]) /\ IsSeq(dump[w]) /\ Len(file[w]) \in Nat
      /\ HintOffset(w) \in Nat /\ HintSectors(w) \in Nat
  BY <1>1, InReplay DEF HasPlan
<1>3. /\ hint'[w] = hint[w] + 1 /\ wpc'[w] = "replay" /\ file'[w] = file[w]
      /\ \A v \in Workers : v # w => hint'[v] = hint[v] /\ dump'[v] = dump[v]
  BY <1>1, <1>2 DEF RunTyped
<1>4. PICK a \in Nat, n \in Nat, ofs \in Nat :
            a = Hint(w).start /\ n = Hint(w).blks /\ ofs = HintOffset(w)
  BY <1>2, InHintPlanned, InHintFacts DEF RunIInv
<1>5. PerformedBy(w) = a /\ PerformedBy(w)' = a + n
  BY <1>1, <1>2, <1>3, <1>4, PerformedFacts, PerformedNext
<1>6. \A b \in 1 .. n :
        /\ infos_map[w][a + b] \in DOMAIN infos
        /\ infos[infos_map[w][a + b]].lba = ofs + (b - 1) * BlkSectors
        /\ infos[infos_map[w][a + b]].rw = "R"
        /\ RecordsBefore(infos_map[w][a + b]) \cap WritesTo(ofs + (b - 1) * BlkSectors)
                = DoneBy(w) \cap WritesTo(ofs + (b - 1) * BlkSectors)
  <2> TAKE b \in 1 .. n
  <2>1. b \in 1 .. Hint(w).blks
    BY <1>4
  <2>2. /\ infos_map[w][a + b] \in DOMAIN infos
        /\ infos[infos_map[w][a + b]].lba = ofs + (b - 1) * BlkSectors
        /\ infos[infos_map[w][a + b]].rw = Hint(w).rw
        /\ infos[infos_map[w][a + b]] = HintRecord(w, b)
    BY <1>2, <1>4, <2>1, OfHintFacts
  <2>3. HintRecord(w, b) \in Records
    BY <1>2, <2>1, InHintPlanned, InHintFacts DEF RunIInv
  <2>4. infos[infos_map[w][a + b]].rw = "R"
    BY <1>1, <2>2, <2>3 DEF IsWrite, Records
  <2>5. RecordsBefore(infos_map[w][a + b]) \cap WritesTo(infos[infos_map[w][a + b]].lba)
            = DoneBy(w) \cap WritesTo(infos[infos_map[w][a + b]].lba)
    BY <1>1, <1>2, <1>4, <2>1, EarlierDone
  <2> QED
    BY <2>2, <2>4, <2>5
<1>7. FileRight(w)
  BY <1>2 DEF DoneIInv, FilesRight
<1>8. FileRight(w)'
  <2>1. Aligned' = Aligned /\ opt' = opt
    BY <1>1 DEF planRest, Aligned
  <2>2. DoneBy(w)' = DoneBy(w) \cup OfHint(w)
    BY <1>1, <1>2, <1>3, HintDone
  <2>3. \A k \in OfHint(w) : infos[k].rw = "R"
    BY <1>4, <1>6 DEF OfHint
  <2>4. ASSUME Aligned, opt.mode # "a", NEW lba \in Nat, Multiple(lba)
        PROVE  BlockIs(DoneBy(w), w, lba, Padded(file[w], lba, BlkSectors))'
    <3>1. PICK S, block : S = DoneBy(w)' /\ block = Padded(file'[w], lba, BlkSectors)
      OBVIOUS
    <3>2. BlockIs(DoneBy(w), w, lba, block)
      BY <1>3, <1>7, <2>4, <3>1 DEF FileRight
    <3>3. DoneBy(w) \cap WritesTo(lba) = S \cap WritesTo(lba)
      BY <2>2, <2>3, <3>1 DEF WritesTo
    <3>4. BlockIs(S, w, lba, block)
      BY <3>2, <3>3, BlockIsSame
    <3>5. BlockIs(S, w, lba, block)'
      BY <1>1, <3>4, BlockIsNext
    <3> QED
      BY <3>1, <3>5
  <2> QED
    BY <2>1, <2>4 DEF FileRight
<1>9. PICK e \in Nat : e = a + n
  OBVIOUS
<1>10. a <= e /\ \A p \in a + 1 .. e : infos[infos_map[w][p]].rw = "R"
  <2>1. ASSUME NEW p \in a + 1 .. e
        PROVE  infos[infos_map[w][p]].rw = "R"
    <3>1. p - a \in 1 .. n /\ a + (p - a) = p
      BY <1>9
    <3> QED
      BY <1>6, <3>1
  <2> QED
    BY <1>9, <2>1
<1>11. DumpRight(w)'
  <2> SUFFICES ASSUME Aligned, opt.dump
               PROVE  /\ Len(dump'[w])
                            = Cardinality(ReadsUpTo(w, PerformedBy(w))') * BlkSectors
                      /\ \A p \in ReadsUpTo(w, PerformedBy(w))' :
                            BlockIs(RecordsBefore(infos_map[w][p]), w, infos[infos_map[w][p]].lba,
                                    DumpBlock(dump[w], Cardinality(ReadsUpTo(w, p))))'
    <3>1. Aligned' = Aligned /\ opt' = opt
      BY <1>1 DEF planRest, Aligned
    <3> QED
      BY <3>1 DEF DumpRight
  <2>1. infos' = infos /\ infos_map' = infos_map
    BY <1>1 DEF planRest
  <2>2. \A k : ReadsUpTo(w, k)' = ReadsUpTo(w, k)
    BY <2>1 DEF ReadsUpTo
  <2>3. ReadsUpTo(w, PerformedBy(w))' = ReadsUpTo(w, e)
    BY <1>5, <1>9, <2>1 DEF ReadsUpTo
  <2>4. PICK c, d : c \in Nat /\ c = Cardinality(ReadsUpTo(w, a)) /\ d = dump[w]
    <3>1. Cardinality(ReadsUpTo(w, a)) \in Nat
      BY <1>10, AllReads
    <3> QED
      BY <3>1
  <2>5. /\ ReadsUpTo(w, e) = ReadsUpTo(w, a) \cup (a + 1 .. e)
        /\ Cardinality(ReadsUpTo(w, e)) = c + n
    <3>1. /\ ReadsUpTo(w, e) = ReadsUpTo(w, a) \cup (a + 1 .. e)
          /\ Cardinality(ReadsUpTo(w, e)) = Cardinality(ReadsUpTo(w, a)) + (e - a)
      BY <1>10, AllReads
    <3>2. e - a = n
      BY <1>9
    <3> QED
      BY <2>4, <3>1, <3>2
  <2>6. /\ IsSeq(d) /\ c * BlkSectors = Len(d)
        /\ \A p \in ReadsUpTo(w, a) :
            BlockIs(RecordsBefore(infos_map[w][p]), w, infos[infos_map[w][p]].lba,
                    DumpBlock(d, Cardinality(ReadsUpTo(w, p))))
    BY <1>2, <1>5, <2>4 DEF DoneIInv, DumpsRight, DumpRight
  <2>7. PICK f, more : f = file[w] /\ more = Padded(f, ofs, n * BlkSectors)
    OBVIOUS
  <2>8. n * BlkSectors \in Nat /\ HintSectors(w) = n * BlkSectors /\ BlkSectors \in Nat
    BY <1>4, MulNat, BlkSectorsAssumption DEF HintSectors
  <2>9. dump'[w] = d \o more
    <3>1. Padded(blk[w], 0, HintSectors(w)) = Padded(file[w], HintOffset(w), HintSectors(w))
      <4>1. Len(blk[w]) <= HintSectors(w) /\ blk[w] = Padded(file[w], HintOffset(w), Len(blk[w]))
        BY <1>1, <1>2 DEF ReadingOf
      <4>2. Len(blk[w]) = HintSectors(w) \/ Len(file[w]) - HintOffset(w) - Len(blk[w]) <= 0
        BY <1>1 DEF Available
      <4> QED
        BY <1>2, <4>1, <4>2, DumpedRange
    <3>2. Padded(blk[w], 0, HintSectors(w)) = more
      BY <1>4, <2>7, <2>8, <3>1
    <3>3. dump'[w] = dump[w] \o Padded(blk[w], 0, HintSectors(w))
      BY <1>1, <1>2 DEF RunTyped
    <3> QED
      BY <2>4, <3>2, <3>3
  <2>10. IsSeq(more) /\ Len(more) = n * BlkSectors
    BY <2>7, <2>8, PaddedFacts
  <2>11. Len(d \o more) = (c + n) * BlkSectors
    <3>1. Len(d \o more) = Len(d) + Len(more)
      BY <2>6, <2>10, Joined
    <3>2. (c + n) * BlkSectors = c * BlkSectors + n * BlkSectors
      BY <2>4, <2>8
    <3> QED
      BY <2>6, <2>10, <3>1, <3>2
  <2>12. ASSUME NEW p \in ReadsUpTo(w, a)
         PROVE  BlockIs(RecordsBefore(infos_map[w][p]), w, infos[infos_map[w][p]].lba,
                        DumpBlock(d \o more, Cardinality(ReadsUpTo(w, p))))
    <3>1. PICK r : r = Cardinality(ReadsUpTo(w, p))
      OBVIOUS
    <3>2. r \in 1 .. c
      BY <2>4, <3>1, ReadCounted
    <3>3. DumpBlock(d \o more, r) = DumpBlock(d, r)
      BY <2>4, <2>6, <2>10, <3>2, DumpBlockKept
    <3>4. BlockIs(RecordsBefore(infos_map[w][p]), w, infos[infos_map[w][p]].lba, DumpBlock(d, r))
      BY <2>6, <3>1
    <3> QED
      BY <3>1, <3>3, <3>4
  <2>13. ASSUME NEW b \in 1 .. n
         PROVE  BlockIs(RecordsBefore(infos_map[w][a + b]), w, infos[infos_map[w][a + b]].lba,
                        DumpBlock(d \o more, Cardinality(ReadsUpTo(w, a + b))))
    <3>1. PICK lba, block : /\ lba = ofs + (b - 1) * BlkSectors
                            /\ block = Padded(f, lba, BlkSectors)
      OBVIOUS
    <3>2. infos[infos_map[w][a + b]].lba = lba /\ infos_map[w][a + b] \in DOMAIN infos
      BY <1>6, <3>1
    <3>3. lba \in Nat /\ Multiple(lba)
      <4>1. infos \in Seq(Records)
        BY DEF RunIInv, PlanIInv, Typed
      <4>2. infos[infos_map[w][a + b]] \in Records
        BY <3>2, <4>1
      <4> QED
        BY <3>2, <4>2 DEF Records, Aligned, Multiple
    <3>4. Cardinality(ReadsUpTo(w, a + b)) = c + b
      <4>1. PICK g \in Nat : g = a + b
        OBVIOUS
      <4>2. a <= g /\ g <= e /\ g - a = b
        BY <1>9, <4>1
      <4>3. \A p \in a + 1 .. g : infos[infos_map[w][p]].rw = "R"
        BY <1>10, <4>2
      <4>4. Cardinality(ReadsUpTo(w, g)) = Cardinality(ReadsUpTo(w, a)) + (g - a)
        BY <4>2, <4>3, AllReads
      <4> QED
        BY <2>4, <4>1, <4>2, <4>4
    <3>5. DumpBlock(d \o more, c + b) = block
      BY <2>4, <2>6, <2>7, <3>1, DumpBlockNew
    <3>6. opt.mode # "a"
      BY <1>1 DEF IsWrite
    <3>7. BlockIs(DoneBy(w), w, lba, block)
      BY <1>7, <2>7, <3>1, <3>3, <3>6 DEF FileRight
    <3>8. PICK T : T = RecordsBefore(infos_map[w][a + b])
      OBVIOUS
    <3>9. DoneBy(w) \cap WritesTo(lba) = T \cap WritesTo(lba)
      BY <1>6, <3>1, <3>8
    <3>10. BlockIs(T, w, lba, block)
      BY <3>7, <3>9, BlockIsSame
    <3> QED
      BY <3>2, <3>4, <3>5, <3>8, <3>10
  <2>14. ASSUME NEW p \in ReadsUpTo(w, e)
         PROVE  BlockIs(RecordsBefore(infos_map[w][p]), w, infos[infos_map[w][p]].lba,
                        DumpBlock(dump[w], Cardinality(ReadsUpTo(w, p))))'
    <3>1. BlockIs(RecordsBefore(infos_map[w][p]), w, infos[infos_map[w][p]].lba,
                  DumpBlock(d \o more, Cardinality(ReadsUpTo(w, p))))
      <4>1. CASE p \in ReadsUpTo(w, a)
        BY <2>12, <4>1
      <4>2. CASE p \notin ReadsUpTo(w, a)
        <5>1. p \in a + 1 .. e
          BY <2>5, <4>2
        <5>2. p - a \in 1 .. n /\ a + (p - a) = p
          BY <1>9, <5>1
        <5>3. PICK b \in 1 .. n : a + b = p
          BY <5>2
        <5> QED
          BY <2>13, <5>3
      <4> QED
        BY <4>1, <4>2
    <3>2. PICK S, lba, block :
            /\ S = RecordsBefore(infos_map[w][p]) /\ lba = infos[infos_map[w][p]].lba
            /\ block = DumpBlock(d \o more, Cardinality(ReadsUpTo(w, p)))
      OBVIOUS
    <3>3. BlockIs(S, w, lba, block)
      BY <3>1, <3>2
    <3>4. BlockIs(S, w, lba, block)'
      BY <1>1, <3>3, BlockIsNext
    <3>5. /\ S = RecordsBefore(infos_map[w][p])' /\ lba = infos[infos_map[w][p]].lba'
          /\ block = DumpBlock(dump[w], Cardinality(ReadsUpTo(w, p)))'
      BY <2>1, <2>2, <2>9, <3>2 DEF RecordsBefore, Before, DumpBlock
    <3> QED
      BY <3>4, <3>5
  <2> QED
    BY <2>3, <2>5, <2>9, <2>11, <2>14
<1> QED
  BY <1>1, <1>2, <1>3, <1>8, <1>11, OneWorkerRight

\* A step that leaves the files, the dumps and the records performed.
LEMMA NothingDone ==
    ASSUME RunIInv, DoneIInv, UNCHANGED planRest, phase = "exited" => phase' = "exited",
           hint' = hint, file' = file, dump' = dump,
           \A w \in Workers : \/ wpc'[w] = wpc[w]
                              \/ wpc[w] = "none" /\ wpc'[w] = "open"
    PROVE  DoneIInv'
<1>1. Workers' = Workers /\ opt' = opt
  BY DEF planRest, Workers
<1>2. ASSUME NEW w \in Workers, wpc'[w] \in {"replay", "ended"}
      PROVE  /\ wpc[w] = wpc'[w]
             /\ FileRight(w) => FileRight(w)'
             /\ DumpRight(w) => DumpRight(w)'
  <2>1. wpc[w] = wpc'[w]
    BY <1>2
  <2>2. PerformedBy(w)' = PerformedBy(w)
    BY <2>1, OtherPerformed
  <2> QED
    BY <2>1, <2>2, OtherRight
<1>3. Untouched'
  <2>1. \A w : OldContent(w)' = OldContent(w)
    BY <1>1 DEF OldContent
  <2> QED
    BY <1>1, <2>1 DEF DoneIInv, Untouched
<1>4. FilesRight' /\ DumpsRight'
  BY <1>1, <1>2 DEF DoneIInv, FilesRight, DumpsRight
<1> QED
  BY <1>3, <1>4 DEF DoneIInv

\* A worker that opens its files has done nothing.
LEMMA OpenRight ==
    ASSUME RunIInv, DoneIInv, NEW w \in Workers, OpenFiles(w)
    PROVE  DoneIInv'
<1>1. /\ phase = "ready" /\ phase' = phase /\ UNCHANGED planRest /\ wpc[w] = "open"
      /\ wpc' = [wpc EXCEPT ![w] = "replay"] /\ hint' = [hint EXCEPT ![w] = params[w].start]
      /\ dump' = (IF opt.dump THEN [dump EXCEPT ![w] = <<>>] ELSE dump)
      /\ file' = file
  BY DEF OpenFiles, planVars, planRest
<1>2. RunTyped /\ file[w] = OldContent(w) /\ dump[w] = <<>>
  BY <1>1 DEF RunIInv, DoneIInv, Untouched
<1>3. /\ wpc'[w] = "replay" /\ hint'[w] = params[w].start /\ dump'[w] = <<>>
      /\ file'[w] = OldContent(w)
      /\ \A v \in Workers : v # w =>
            wpc'[v] = wpc[v] /\ hint'[v] = hint[v] /\ dump'[v] = dump[v]
  BY <1>1, <1>2 DEF RunTyped
<1>4. PerformedBy(w)' = 0
  BY <1>1, <1>3, PerformedFirst
<1>5. DoneBy(w)' = {} /\ ReadsUpTo(w, PerformedBy(w))' = {}
  BY <1>4 DEF DoneBy, ReadsUpTo
<1>6. OldContent(w)' = OldContent(w)
  BY <1>1 DEF OldContent, planRest
<1>7. FileRight(w)'
  BY <1>3, <1>5, <1>6 DEF FileRight, BlockIs
<1>8. DumpRight(w)'
  <2>1. Cardinality(ReadsUpTo(w, PerformedBy(w)))' = 0
    BY <1>5, FS_EmptySet
  <2>2. Len(dump'[w]) = 0 /\ 0 * BlkSectors = 0
    BY <1>3, BlkSectorsAssumption
  <2> QED
    BY <1>5, <2>1, <2>2 DEF DumpRight
<1> QED
  BY <1>1, <1>3, <1>7, <1>8, OneWorkerRight

\* A worker that reads a part of a hint, ends, or makes the program exit has
\* not performed another record.
LEMMA SameRight ==
    ASSUME RunIInv, DoneIInv, phase = "ready", UNCHANGED planRest, NEW w \in Workers,
           wpc[w] \in {"replay", "ended"}, wpc'[w] \in {"replay", "ended"},
           hint'[w] = hint[w], wpc'[w] = wpc[w] \/ hint[w] = params[w].end, dump' = dump,
           \A v \in Workers : v # w => wpc'[v] = wpc[v] /\ hint'[v] = hint[v] /\ file'[v] = file[v],
           phase' # "exited" => file'[w] = file[w]
    PROVE  DoneIInv'
<1>1. PerformedBy(w)' = PerformedBy(w)
  <2>1. params[w].end \in Nat
    BY DEF RunIInv, PlanIInv, Typed
  <2> QED
    BY <2>1 DEF PerformedBy, Hint, planRest
<1>2. FileRight(w)' \/ phase' = "exited"
  <2>1. CASE phase' # "exited"
    <3>1. FileRight(w)
      BY DEF DoneIInv, FilesRight
    <3>2. DoneBy(w)' = DoneBy(w) /\ Aligned' = Aligned /\ opt' = opt
      BY <1>1 DEF planRest, DoneBy, Aligned
    <3> QED
      BY <2>1, <3>1, <3>2 DEF FileRight, BlockIs, WritesTo, Before, OldContent, planRest
  <2> QED
    BY <2>1
<1>3. DumpRight(w)'
  <2>1. DumpRight(w)
    BY DEF DoneIInv, DumpsRight
  <2>2. ReadsUpTo(w, PerformedBy(w))' = ReadsUpTo(w, PerformedBy(w))
    BY <1>1 DEF ReadsUpTo, planRest
  <2> QED
    BY <2>1, <2>2, DumpKept
<1> QED
  BY <1>2, <1>3, OneWorkerRight

\* The other steps of a worker.
LEMMA OtherStepsRight ==
    ASSUME RunIInv, DoneIInv, NEW w \in Workers,
           PreadSome(w) \/ EndWorker(w) \/ DivideByZero(w) \/ FailedCall(w)
    PROVE  DoneIInv'
<1>1. RunTyped /\ phase = "ready" /\ UNCHANGED planRest
  BY DEF RunIInv, PreadSome, EndWorker, DivideByZero, FailedCall, Replaying, planVars, planRest
<1>2. CASE PreadSome(w)
  BY <1>1, <1>2, SameRight DEF PreadSome, Replaying, planVars
<1>3. CASE EndWorker(w)
  <2>1. /\ hint[w] = params[w].end /\ wpc[w] = "replay" /\ hint' = hint /\ dump' = dump
        /\ file' = file /\ wpc' = [wpc EXCEPT ![w] = "ended"]
    BY <1>3 DEF EndWorker
  <2>2. wpc'[w] = "ended" /\ \A v \in Workers : v # w => wpc'[v] = wpc[v]
    BY <1>1, <2>1 DEF RunTyped
  <2> QED
    BY <1>1, <2>1, <2>2, SameRight
<1>4. CASE DivideByZero(w) \/ FailedCall(w)
  <2>1. /\ phase' = "exited" /\ wpc' = wpc /\ hint' = hint /\ dump' = dump
        /\ wpc[w] \in {"open", "replay"} /\ (wpc[w] = "open" => file' = file)
    BY <1>4 DEF DivideByZero, FailedCall, runVars, Replaying
  <2>2. \A v \in Workers : v # w => file'[v] = file[v]
    <3>1. file' = file \/ \E data : file' = [file EXCEPT ![w] = data]
      BY <1>4 DEF DivideByZero, FailedCall, runVars
    <3> QED
      BY <1>1, <3>1 DEF RunTyped
  <2>3. CASE wpc[w] = "replay"
    BY <1>1, <2>1, <2>2, <2>3, SameRight
  <2>4. CASE wpc[w] = "open"
    BY <1>1, <2>1, <2>4, NothingDone
  <2> QED
    BY <2>1, <2>3, <2>4
<1> QED
  BY <1>2, <1>3, <1>4

\* The planning and main touch no file.
LEMMA MainRight ==
    ASSUME RunIInv, DoneIInv,
           \/ PlanNext /\ UNCHANGED runVars
           \/ UNCHANGED vars
           \/ CreateWorker \/ JoinWorker
    PROVE  DoneIInv'
<1>1. CASE PlanNext /\ UNCHANGED runVars
  <2>1. /\ opt' = opt /\ wpc' = wpc /\ file' = file /\ dump' = dump /\ ~HasPlan
    BY <1>1, PlanFrame DEF runVars, HasPlan, PlanPhases
  <2>2. Workers' = Workers
    BY <2>1 DEF Workers
  <2>3. \A w \in Workers : wpc[w] = "none"
    <3>1. opt \in Options /\ created = 0
      BY <2>1 DEF RunIInv, PlanIInv, Typed, Started
    <3> QED
      BY <3>1, OptFacts DEF RunIInv, Started
  <2>4. FilesRight' /\ DumpsRight'
    BY <2>1, <2>2, <2>3 DEF FilesRight, DumpsRight
  <2>5. Untouched'
    BY <2>1, <2>2 DEF DoneIInv, Untouched, OldContent
  <2> QED
    BY <2>4, <2>5 DEF DoneIInv
<1>2. CASE UNCHANGED vars
  BY <1>2, NothingDone DEF vars, planVars, runVars, planRest
<1>3. CASE CreateWorker
  <2>1. /\ phase' = phase /\ UNCHANGED planRest /\ hint' = hint /\ file' = file /\ dump' = dump
        /\ wpc' = [wpc EXCEPT ![created] = "open"] /\ created < opt.threads
    BY <1>3 DEF CreateWorker, planVars, planRest
  <2>2. created \in Workers => wpc[created] = "none"
    <3>1. created \in Nat
      BY OptFacts DEF RunIInv, RunTyped, PlanIInv, Typed
    <3> QED
      BY <3>1 DEF RunIInv, Started
  <2>3. ASSUME NEW w \in Workers
        PROVE  wpc'[w] = wpc[w] \/ (wpc[w] = "none" /\ wpc'[w] = "open")
    BY <2>1, <2>2 DEF RunIInv, RunTyped
  <2> QED
    BY <2>1, <2>3, NothingDone
<1>4. CASE JoinWorker
  <2>1. /\ phase = "ready" /\ UNCHANGED planRest /\ hint' = hint /\ file' = file /\ dump' = dump
        /\ wpc' = wpc
    BY <1>4 DEF JoinWorker, planRest
  <2> QED
    BY <2>1, NothingDone
<1> QED
  BY <1>1, <1>2, <1>3, <1>4

\* At the start nothing is done.
LEMMA DoneInit == Init => DoneIInv
<1> SUFFICES ASSUME Init
             PROVE  DoneIInv
  OBVIOUS
<1>1. Untouched
  BY DEF Init, Untouched, OldContent
<1>2. FilesRight /\ DumpsRight
  BY DEF Init, FilesRight, DumpsRight
<1> QED
  BY <1>1, <1>2 DEF DoneIInv

\* Every step keeps the files and the dumps right.
LEMMA DoneStep == RunIInv /\ DoneIInv /\ [Next]_vars => DoneIInv'
<1> SUFFICES ASSUME RunIInv, DoneIInv, [Next]_vars
             PROVE  DoneIInv'
  OBVIOUS
<1>1. ASSUME NEW w \in Workers, WorkerStep(w) \/ FailedCall(w)
      PROVE  DoneIInv'
  BY <1>1, OpenRight, WriteRight, EndReadRight, OtherStepsRight DEF WorkerStep
<1> QED
  BY <1>1, MainRight, StepKinds

\* The files and the dumps are right in every state.
THEOREM DoneInductive == Spec => []DoneIInv
<1> QED
  BY DoneInit, DoneStep, RunInductive, PTL DEF Spec

\* Once main says "Done!", every block of the trace holds its last write, in the
\* file of the one worker that has its LBA, however the workers took turns.
THEOREM LastWritesWin == Spec => []LastWriteWins
<1>1. RunIInv /\ DoneIInv => LastWriteWins
  <2> SUFFICES ASSUME RunIInv, DoneIInv, phase = "done", Aligned, opt.mode # "a",
                      NEW w \in Workers, NEW p \in DOMAIN infos_map[w]
               PROVE  Padded(file[w], infos[infos_map[w][p]].lba, BlkSectors)
                        = BlockAfter(DOMAIN infos, w, infos[infos_map[w][p]].lba)
    BY DEF LastWriteWins
  <2>1. PICK lba : lba = infos[infos_map[w][p]].lba
    OBVIOUS
  <2>2. HasPlan /\ infos \in Seq(Records) /\ infos_map[w] \in Seq(DOMAIN infos)
    BY DEF HasPlan, RunIInv, PlanIInv, Typed
  <2>3. lba \in Nat /\ Multiple(lba)
    <3>1. infos_map[w][p] \in DOMAIN infos
      BY <2>2
    <3>2. infos[infos_map[w][p]] \in Records
      BY <2>2, <3>1
    <3> QED
      BY <2>1, <3>1, <3>2 DEF Aligned, Multiple, Records
  <2>4. wpc[w] = "ended"
    <3>1. joined = opt.threads /\ opt \in Options
      BY DEF RunIInv, Started, PlanIInv, Typed
    <3> QED
      BY <3>1, OptFacts DEF RunIInv, Started
  <2>5. PerformedBy(w) = Len(infos_map[w])
    <3>1. hint[w] = params[w].end /\ params[w].end \in Nat
      BY <2>4 DEF RunIInv, WithinHints, PlanIInv, Typed
    <3> QED
      BY <2>4, <3>1 DEF PerformedBy
  <2>6. BlockIs(DoneBy(w), w, lba, Padded(file[w], lba, BlkSectors))
    BY <2>3, <2>4 DEF DoneIInv, FilesRight, FileRight
  <2>7. ASSUME NEW m \in WritesTo(lba)
        PROVE  m \in DoneBy(w)
    <3>1. m \in DOMAIN infos /\ infos[m].lba = lba
      BY DEF WritesTo
    <3>2. PICK v \in Workers : \E q \in DOMAIN infos_map[v] : infos_map[v][q] = m
      BY <2>2, <3>1, AllDealt
    <3>3. PICK q \in DOMAIN infos_map[v] : infos_map[v][q] = m
      BY <3>2
    <3>4. v = w
      BY <2>1, <3>1, <3>3 DEF RunIInv, PlanIInv, MapsApart
    <3>5. q \in 1 .. Len(infos_map[w])
      BY <2>2, <3>4
    <3> QED
      BY <2>5, <3>3, <3>4, <3>5 DEF DoneBy
  <2>8. DoneBy(w) \cap WritesTo(lba) = DOMAIN infos \cap WritesTo(lba)
    BY <2>7 DEF WritesTo
  <2>9. PICK block, S, T : /\ block = Padded(file[w], lba, BlkSectors)
                           /\ S = DoneBy(w) /\ T = DOMAIN infos
    OBVIOUS
  <2>10. BlockIs(T, w, lba, block)
    BY <2>6, <2>8, <2>9, BlockIsSame
  <2>11. block = BlockAfter(T, w, lba)
    BY <2>2, <2>10, BlockIsAfter
  <2> QED
    BY <2>1, <2>9, <2>11
<1> QED
  BY <1>1, RunInductive, DoneInductive, PTL

\* Each read sees the last write to its LBA before it in the whole trace, or
\* what was on the disk, wherever its preads stop short.
THEOREM ReadsSeeLastWrites == Spec => []ReadsSeeLastWrite
<1>1. RunIInv /\ DoneIInv => ReadsSeeLastWrite
  <2> SUFFICES ASSUME RunIInv, DoneIInv, HasPlan, Aligned, opt.dump, NEW w \in Workers
               PROVE  /\ Len(dump[w]) = Cardinality(ReadsDone(w)) * BlkSectors
                      /\ \A p \in ReadsDone(w) :
                            LET read == infos_map[w][p]
                                r == Cardinality({q \in ReadsDone(w) : q <= p})
                            IN  SubSeq(dump[w], (r - 1) * BlkSectors + 1, r * BlkSectors) =
                                    BlockAfter({m \in DOMAIN infos : Before(m, read)},
                                               w, infos[read].lba)
    BY Zenon DEF ReadsSeeLastWrite
  <2>1. infos \in Seq(Records)
    BY DEF RunIInv, PlanIInv, Typed
  <2>2. ReadsDone(w) = ReadsUpTo(w, PerformedBy(w))
    BY DEF ReadsDone, ReadsUpTo
  <2>3. CASE wpc[w] \in {"replay", "ended"}
    <3>1. DumpRight(w)
      BY <2>3 DEF DoneIInv, DumpsRight
    <3>2. Len(dump[w]) = Cardinality(ReadsDone(w)) * BlkSectors
      BY <2>2, <3>1 DEF DumpRight
    <3>3. ASSUME NEW p \in ReadsDone(w)
          PROVE  DumpBlock(dump[w], Cardinality({q \in ReadsDone(w) : q <= p}))
                    = BlockAfter({m \in DOMAIN infos : Before(m, infos_map[w][p])},
                                 w, infos[infos_map[w][p]].lba)
      <4>1. PICK k \in Nat : k = PerformedBy(w)
        BY PerformedFacts
      <4>2. p \in 1 .. k /\ infos[infos_map[w][p]].rw = "R"
        BY <2>2, <4>1 DEF ReadsUpTo
      <4>3. {q \in ReadsDone(w) : q <= p} = ReadsUpTo(w, p)
        BY <2>2, <4>1, <4>2 DEF ReadsUpTo
      <4>4. PICK S, block : /\ S = RecordsBefore(infos_map[w][p])
                            /\ block = DumpBlock(dump[w], Cardinality(ReadsUpTo(w, p)))
        OBVIOUS
      <4>5. BlockIs(S, w, infos[infos_map[w][p]].lba, block)
        BY <2>2, <3>1, <4>4 DEF DumpRight
      <4>6. block = BlockAfter(S, w, infos[infos_map[w][p]].lba)
        BY <2>1, <4>5, BlockIsAfter
      <4> QED
        BY <4>3, <4>4, <4>6 DEF RecordsBefore
    <3> QED
      BY <3>2, <3>3 DEF DumpBlock
  <2>4. CASE wpc[w] \notin {"replay", "ended"}
    <3>1. dump[w] = <<>>
      BY <2>4 DEF DoneIInv, Untouched, RunIInv, RunTyped
    <3>2. ReadsDone(w) = {}
      BY <2>4 DEF ReadsDone, PerformedBy
    <3>3. Len(dump[w]) = 0 /\ Cardinality(ReadsDone(w)) = 0 /\ 0 * BlkSectors = 0
      BY <3>1, <3>2, FS_EmptySet, BlkSectorsAssumption
    <3> QED
      BY <3>2, <3>3
  <2> QED
    BY <2>3, <2>4
<1> QED
  BY <1>1, RunInductive, DoneInductive, PTL

----------------------------------------------------------------------------
(* Replay implements AbstractReplay: the records performed one by one. *)

\* One record performed, as AbstractReplay says it.
OneRecord(o, r, old) ==
    IF r.rw = "R"
    THEN [old EXCEPT !.dump = IF o.dump THEN @ \o Padded(old.file, r.lba, BlkSectors) ELSE @]
    ELSE [old EXCEPT !.file =
            pwrite(@, IF o.append THEN Len(@) ELSE r.lba, BlockOf(o.gen, r.md5))]

\* The records of Performed, one step of the recursion and all of it.
PerformStep(tr, o, ord, first, from, f, n) ==
    IF n = from - 1 THEN first ELSE OneRecord(o, tr[ord[n]], f[n - 1])
Performing(tr, o, ord, first, from, to, f) ==
    f = [n \in from - 1 .. to |-> PerformStep(tr, o, ord, first, from, f, n)]

\* There is one solution of the recursion.
LEMMA PerformingOnce ==
    ASSUME NEW tr, NEW o, NEW ord, NEW first, NEW a \in Nat, NEW from, from = a + 1,
           NEW to \in Nat, NEW f, NEW g,
           Performing(tr, o, ord, first, from, to, f), Performing(tr, o, ord, first, from, to, g)
    PROVE  f = g
<1> DEFINE Bad == {n \in Nat : n \in a .. to /\ f[n] # g[n]}
<1>1. from - 1 = a
  OBVIOUS
<1>2. /\ f = [n \in a .. to |-> PerformStep(tr, o, ord, first, from, f, n)]
      /\ g = [n \in a .. to |-> PerformStep(tr, o, ord, first, from, g, n)]
  BY <1>1, Zenon DEF Performing
<1>3. ASSUME Bad # {}
      PROVE  FALSE
  <2>1. PICK n \in Bad : \A m \in Bad : n <= m
    <3>1. Bad \in SUBSET Nat
      OBVIOUS
    <3> HIDE DEF Bad
    <3> QED
      BY <1>3, <3>1, LeastNatural
  <2>2. n \in Nat /\ n \in a .. to /\ f[n] # g[n]
    BY <2>1
  <2>3. n # a => n - 1 \in a .. to /\ n - 1 \in Nat /\ n - 1 \notin Bad
    <3>1. n # a => n - 1 \in a .. to /\ n - 1 \in Nat /\ ~ (n <= n - 1)
      BY <2>2
    <3> HIDE DEF Bad
    <3> QED
      BY <2>1, <3>1
  <2>4. n # a => f[n - 1] = g[n - 1]
    BY <2>3
  <2>5. PerformStep(tr, o, ord, first, from, f, n) = PerformStep(tr, o, ord, first, from, g, n)
    <3>1. CASE n = a
      BY <1>1, <3>1, Zenon DEF PerformStep
    <3>2. CASE n # a
      BY <1>1, <2>4, <3>2, Zenon DEF PerformStep
    <3> QED
      BY <3>1, <3>2
  <2>6. /\ f[n] = PerformStep(tr, o, ord, first, from, f, n)
        /\ g[n] = PerformStep(tr, o, ord, first, from, g, n)
    BY <1>2, <2>2, Zenon
  <2> QED
    BY <2>2, <2>5, <2>6
<1>4. \A n \in a .. to : f[n] = g[n]
  <2>1. ASSUME NEW n \in a .. to
        PROVE  f[n] = g[n]
    <3>1. n \in Nat /\ n \notin Bad
      BY <1>3
    <3> QED
      BY <3>1
  <2> QED
    BY <2>1
<1>5. f = [n \in a .. to |-> f[n]] /\ g = [n \in a .. to |-> g[n]]
  BY <1>2
<1>6. [n \in a .. to |-> f[n]] = [n \in a .. to |-> g[n]]
  BY <1>4
<1> QED
  BY <1>5, <1>6

\* What stands for the variables of AbstractReplay.
AbsTrace == infos \o KeptOf(lines)
AbsOptions == [append |-> opt.mode = "a", dump |-> opt.dump, gen |-> opt.gen]
AbsOrder == [w \in AllWorkers |-> IF HasPlan /\ w \in Workers THEN infos_map[w] ELSE <<>>]
AbsDone == [w \in AllWorkers |-> IF w \in Workers THEN PerformedBy(w) ELSE 0]
AbsFile == [w \in AllWorkers |-> IF w \in Workers THEN file[w] ELSE <<>>]
AbsDump == [w \in AllWorkers |-> IF w \in Workers THEN dump[w] ELSE <<>>]

\* The recursion of AbstractReplay is this one.
LEMMA PerformedUnfolds ==
    ASSUME NEW w, NEW from, NEW to
    PROVE  Abstract!Performed(w, from, to) =
                (CHOOSE f : Performing(AbsTrace, AbsOptions, AbsOrder[w],
                                       [file |-> AbsFile[w], dump |-> AbsDump[w]],
                                       from, to, f))[to]
BY Zenon DEF Abstract!Performed, Abstract!Padded, Abstract!pwrite, Abstract!BlockOf,
    Abstract!PieceSectors, Performing, PerformStep, OneRecord, Padded, pwrite, BlockOf,
    PieceSectors, AbsTrace, AbsOptions, AbsOrder, AbsFile, AbsDump

\* Records from `from` to `to` of worker w, performed on what is there now.
PerformingFrom(w, from, to, f) ==
    Performing(AbsTrace, AbsOptions, AbsOrder[w], [file |-> AbsFile[w], dump |-> AbsDump[w]],
               from, to, f)

\* Once a solution is known, it is what is performed.
LEMMA PerformedIs ==
    ASSUME NEW w, NEW from, from \in Nat \ {0}, NEW to, to \in Nat,
           NEW g, PerformingFrom(w, from, to, g)
    PROVE  Abstract!Performed(w, from, to) = g[to]
<1> DEFINE f == CHOOSE f : PerformingFrom(w, from, to, f)
<1>1. PerformingFrom(w, from, to, f)
  BY Zenon
<1>2. Abstract!Performed(w, from, to) = f[to]
  BY PerformedUnfolds, Zenon DEF PerformingFrom
<1> HIDE DEF f
<1>3. f = g
  <2>1. PICK a \in Nat : from = a + 1
    <3>1. from - 1 \in Nat /\ from = (from - 1) + 1
      OBVIOUS
    <3> QED
      BY <3>1
  <2>2. PICK first : first = [file |-> AbsFile[w], dump |-> AbsDump[w]]
    OBVIOUS
  <2>3. /\ Performing(AbsTrace, AbsOptions, AbsOrder[w], first, from, to, f)
        /\ Performing(AbsTrace, AbsOptions, AbsOrder[w], first, from, to, g)
    BY <1>1, <2>2, Zenon DEF PerformingFrom
  <2> QED
    BY <2>1, <2>3, PerformingOnce
<1> QED
  BY <1>2, <1>3

----------------------------------------------------------------------------
(* A hint, record by record. *)

\* A write right behind another is one write of both.
LEMMA WriteBehind ==
    ASSUME NEW f, NEW ofs \in Nat, NEW d1, NEW d2, IsSeq(f), IsSeq(d1), IsSeq(d2),
           NEW next, next = ofs + Len(d1)
    PROVE  pwrite(pwrite(f, ofs, d1), next, d2) = pwrite(f, ofs, d1 \o d2)
<1>1. PICK k, m, d : k = Len(d1) /\ m = Len(d2) /\ d = d1 \o d2
  OBVIOUS
<1>2. k \in Nat /\ m \in Nat /\ Len(f) \in Nat /\ next \in Nat /\ next = ofs + k
  BY <1>1 DEF IsSeq
<1>3. /\ IsSeq(d) /\ Len(d) = k + m
      /\ \A p \in 1 .. k : d[p] = d1[p]
      /\ \A p \in 1 .. m : d[k + p] = d2[p]
  BY <1>1, Joined
<1>4. PICK g, h1, h2 : /\ g = pwrite(f, ofs, d1) /\ h1 = pwrite(g, next, d2)
                       /\ h2 = pwrite(f, ofs, d)
  OBVIOUS
<1>5. /\ IsSeq(g)
      /\ Len(g) = IF Len(f) > ofs + k THEN Len(f) ELSE ofs + k
      /\ \A p \in 1 .. Len(g) :
            g[p] = IF p > ofs /\ p <= ofs + k THEN d1[p - ofs]
                   ELSE IF p <= Len(f) THEN f[p] ELSE Zero
  BY <1>1, <1>4, PwriteFacts
<1>6. /\ IsSeq(h1)
      /\ Len(h1) = IF Len(g) > next + m THEN Len(g) ELSE next + m
      /\ \A p \in 1 .. Len(h1) :
            h1[p] = IF p > next /\ p <= next + m THEN d2[p - next]
                    ELSE IF p <= Len(g) THEN g[p] ELSE Zero
  <2>1. next \in Nat /\ IsSeq(g) /\ IsSeq(d2)
    BY <1>2, <1>5
  <2>2. /\ IsSeq(pwrite(g, next, d2))
        /\ Len(pwrite(g, next, d2))
                = IF Len(g) > next + Len(d2) THEN Len(g) ELSE next + Len(d2)
        /\ \A p \in 1 .. Len(pwrite(g, next, d2)) :
                pwrite(g, next, d2)[p] =
                    IF p > next /\ p <= next + Len(d2) THEN d2[p - next]
                    ELSE IF p <= Len(g) THEN g[p] ELSE Zero
    BY <2>1, PwriteFacts, ZenonT(30)
  <2> QED
    BY <1>1, <1>4, <2>2
<1>7. /\ IsSeq(h2)
      /\ Len(h2) = IF Len(f) > ofs + (k + m) THEN Len(f) ELSE ofs + (k + m)
      /\ \A p \in 1 .. Len(h2) :
            h2[p] = IF p > ofs /\ p <= ofs + (k + m) THEN d[p - ofs]
                    ELSE IF p <= Len(f) THEN f[p] ELSE Zero
  <2>1. IsSeq(d)
    BY <1>3
  <2>2. /\ IsSeq(pwrite(f, ofs, d))
        /\ Len(pwrite(f, ofs, d)) = IF Len(f) > ofs + Len(d) THEN Len(f) ELSE ofs + Len(d)
        /\ \A p \in 1 .. Len(pwrite(f, ofs, d)) :
                pwrite(f, ofs, d)[p] = IF p > ofs /\ p <= ofs + Len(d) THEN d[p - ofs]
                                       ELSE IF p <= Len(f) THEN f[p] ELSE Zero
    BY <2>1, PwriteFacts
  <2> QED
    BY <1>3, <1>4, <2>2
<1>8. Len(h1) = Len(h2) /\ Len(h1) \in Nat /\ Len(g) \in Nat
  BY <1>2, <1>5, <1>6, <1>7
<1>9. ASSUME NEW p \in 1 .. Len(h1)
      PROVE  h1[p] = h2[p]
  <2>1. p \in 1 .. Len(h2) /\ p \in Nat
    BY <1>8
  <2>2. CASE p > next /\ p <= next + m
    <3>1. p - next \in 1 .. m /\ k + (p - next) = p - ofs /\ p > ofs /\ p <= ofs + (k + m)
      BY <1>2, <2>1, <2>2
    <3>2. d[k + (p - next)] = d2[p - next]
      BY <1>3, <3>1
    <3>3. h1[p] = d2[p - next] /\ h2[p] = d[p - ofs]
      BY <1>6, <1>7, <2>1, <2>2, <3>1
    <3> QED
      BY <3>1, <3>2, <3>3
  <2>3. CASE p > ofs /\ p <= ofs + k
    <3>1. p - ofs \in 1 .. k /\ ~ (p > next) /\ p <= ofs + (k + m) /\ p \in 1 .. Len(g)
      BY <1>2, <1>5, <1>8, <2>1, <2>3
    <3>2. d[p - ofs] = d1[p - ofs]
      BY <1>3, <3>1
    <3>3. g[p] = d1[p - ofs] /\ p <= Len(g)
      BY <1>5, <1>8, <2>3, <3>1
    <3>4. h1[p] = g[p] /\ h2[p] = d[p - ofs]
      BY <1>6, <1>7, <2>1, <2>3, <3>1, <3>3
    <3> QED
      BY <3>2, <3>3, <3>4
  <2>4. CASE ~ (p > ofs /\ p <= ofs + k) /\ ~ (p > next /\ p <= next + m)
    <3>1. ~ (p > ofs /\ p <= ofs + (k + m))
      BY <1>2, <2>1, <2>4
    <3>2. h2[p] = IF p <= Len(f) THEN f[p] ELSE Zero
      BY <1>7, <2>1, <3>1
    <3>3. h1[p] = IF p <= Len(g) THEN g[p] ELSE Zero
      BY <1>6, <2>4
    <3>4. p <= Len(g) => g[p] = IF p <= Len(f) THEN f[p] ELSE Zero
      <4>1. p <= Len(g) => p \in 1 .. Len(g)
        BY <1>8, <2>1
      <4> QED
        BY <1>5, <2>4, <4>1
    <3>5. ~ (p <= Len(g)) => ~ (p <= Len(f))
      BY <1>2, <1>5, <2>1
    <3> QED
      BY <3>2, <3>3, <3>4, <3>5
  <2> QED
    BY <2>2, <2>3, <2>4
<1>10. h1 = h2
  BY <1>6, <1>7, <1>8, <1>9, SameSeq
<1> QED
  BY <1>1, <1>4, <1>10

\* Concatenation is associative.
LEMMA JoinedThree ==
    ASSUME NEW f, NEW g, NEW h, IsSeq(f), IsSeq(g), IsSeq(h)
    PROVE  f \o (g \o h) = (f \o g) \o h
<1>1. PICK k, m, n : k = Len(f) /\ m = Len(g) /\ n = Len(h)
  OBVIOUS
<1>2. k \in Nat /\ m \in Nat /\ n \in Nat
  BY <1>1 DEF IsSeq
<1>3. PICK gh, fg, all : gh = g \o h /\ fg = f \o g /\ all = f \o gh
  OBVIOUS
<1>4. /\ IsSeq(gh) /\ Len(gh) = m + n
      /\ \A p \in 1 .. m : gh[p] = g[p]
      /\ \A p \in 1 .. n : gh[m + p] = h[p]
  BY <1>1, <1>3, Joined
<1>5. /\ IsSeq(fg) /\ Len(fg) = k + m
      /\ \A p \in 1 .. k : fg[p] = f[p]
      /\ \A p \in 1 .. m : fg[k + p] = g[p]
  BY <1>1, <1>3, Joined
<1>6. /\ IsSeq(all) /\ Len(all) = k + (m + n)
      /\ \A p \in 1 .. k : all[p] = f[p]
      /\ \A p \in 1 .. m + n : all[k + p] = gh[p]
  BY <1>1, <1>3, <1>4, Joined
<1>7. ASSUME NEW p \in 1 .. k + m
      PROVE  all[p] = fg[p]
  <2>1. CASE p \in 1 .. k
    BY <1>5, <1>6, <2>1
  <2>2. CASE p \notin 1 .. k
    <3>1. PICK q \in 1 .. m : p = k + q
      <4>1. p - k \in 1 .. m /\ p = k + (p - k)
        BY <1>2, <2>2
      <4> QED
        BY <4>1
    <3>2. q \in 1 .. m + n
      BY <1>2
    <3> QED
      BY <1>4, <1>5, <1>6, <3>1, <3>2
  <2> QED
    BY <2>1, <2>2
<1>8. ASSUME NEW p \in 1 .. n
      PROVE  all[(k + m) + p] = h[p]
  <2>1. PICK q : q = m + p
    OBVIOUS
  <2>2. q \in 1 .. m + n /\ (k + m) + p = k + q
    BY <1>2, <2>1
  <2> QED
    BY <1>4, <1>6, <2>1, <2>2
<1>9. Len(all) = Len(fg) + Len(h)
  BY <1>1, <1>2, <1>5, <1>6
<1>10. all = fg \o h
  <2>1. \A p \in 1 .. Len(fg) : all[p] = fg[p]
    BY <1>5, <1>7
  <2>2. \A p \in 1 .. Len(h) : all[Len(fg) + p] = h[p]
    BY <1>1, <1>5, <1>8
  <2> QED
    BY <1>5, <1>6, <1>9, <2>1, <2>2, JoinedIs
<1> QED
  BY <1>3, <1>10

\* After k records of a hint that is written.
WrittenBy(f, d, ofs, data, k) ==
    [file |-> IF k = 0 THEN f ELSE pwrite(f, ofs, SubSeq(data, 1, k * BlkSectors)), dump |-> d]

\* Record r writes the data behind the first k blocks, to the place behind theirs.
WritesNext(o, r, f, ofs, data, k) ==
    /\ r.rw # "R"
    /\ IF o.append THEN ofs = Len(f) ELSE r.lba = ofs + k * BlkSectors
    /\ \A s \in 1 .. BlkSectors : data[k * BlkSectors + s] = BlockOf(o.gen, r.md5)[s]

\* The record behind these.
LEMMA WriteOneMore ==
    ASSUME NEW o, NEW r, NEW f, NEW d, NEW ofs \in Nat, NEW data, IsSeq(f), IsSeq(data),
           NEW k \in Nat, (k + 1) * BlkSectors <= Len(data), WritesNext(o, r, f, ofs, data, k)
    PROVE  OneRecord(o, r, WrittenBy(f, d, ofs, data, k)) = WrittenBy(f, d, ofs, data, k + 1)
<1> USE DEF WritesNext
<1>1. PICK x, b, e, old :
            /\ x = k * BlkSectors /\ b = BlockOf(o.gen, r.md5) /\ e = (k + 1) * BlkSectors
            /\ old = IF k = 0 THEN f ELSE pwrite(f, ofs, SubSeq(data, 1, x))
  OBVIOUS
<1>2. x \in Nat /\ BlkSectors \in Nat /\ e = x + BlkSectors /\ e <= Len(data) /\ Len(data) \in Nat
  <2>1. BlkSectors \in Nat
    BY BlkSectorsAssumption
  <2>2. x \in Nat
    BY <1>1, <2>1, MulNat, Zenon
  <2>3. (k + 1) * BlkSectors = k * BlkSectors + BlkSectors
    BY <2>1
  <2> QED
    BY <1>1, <2>1, <2>2, <2>3 DEF IsSeq
<1>3. IsSeq(b) /\ Len(b) = BlkSectors
  BY <1>1, BlockOfSeq
<1>4. PICK d1, d2 : d1 = SubSeq(data, 1, x) /\ d2 = SubSeq(data, 1, e)
  OBVIOUS
<1>5. IsSeq(d1) /\ Len(d1) = x /\ \A p \in 1 .. x : d1[p] = data[p]
  <2>1. x \in 0 .. Len(data)
    BY <1>2
  <2> QED
    BY <1>4, <2>1, FirstOf
<1>6. IsSeq(d2) /\ Len(d2) = e /\ \A p \in 1 .. e : d2[p] = data[p]
  <2>1. e \in 0 .. Len(data)
    BY <1>2
  <2> QED
    BY <1>4, <2>1, FirstOf
<1>7. d2 = d1 \o b
  <2>1. Len(d2) = Len(d1) + Len(b)
    BY <1>2, <1>3, <1>5, <1>6
  <2>2. \A p \in 1 .. Len(d1) : d2[p] = d1[p]
    BY <1>2, <1>5, <1>6
  <2>3. ASSUME NEW p \in 1 .. Len(b)
        PROVE  d2[Len(d1) + p] = b[p]
    <3>1. x + p \in 1 .. e /\ p \in 1 .. BlkSectors
      BY <1>2, <1>3
    <3>2. d2[x + p] = data[x + p]
      BY <1>6, <3>1
    <3>3. data[x + p] = b[p]
      BY <1>1, <3>1
    <3> QED
      BY <1>5, <3>2, <3>3
  <2> QED
    BY <1>3, <1>5, <1>6, <2>1, <2>2, <2>3, JoinedIs
<1>8. PICK next : next = IF o.append THEN Len(old) ELSE r.lba
  OBVIOUS
<1>9. pwrite(old, next, b) = pwrite(f, ofs, d2)
  <2>1. CASE k = 0
    <3>1. x = 0 /\ old = f
      BY <1>1, <1>2, <2>1
    <3>2. next = ofs
      BY <1>1, <1>2, <1>8, <3>1
    <3>3. d2 = b
      <4>1. Len(d2) = Len(b) /\ \A p \in 1 .. Len(d2) : d2[p] = b[p]
        <5>1. Len(d2) = Len(b)
          BY <1>2, <1>3, <1>6, <3>1
        <5>2. ASSUME NEW p \in 1 .. Len(d2)
              PROVE  d2[p] = b[p]
          <6>1. p \in 1 .. e /\ p \in 1 .. BlkSectors /\ x + p = p
            BY <1>2, <1>6, <3>1
          <6>2. data[x + p] = b[p]
            BY <1>1, <6>1
          <6> QED
            BY <1>6, <6>1, <6>2
        <5> QED
          BY <5>1, <5>2
      <4> QED
        BY <1>3, <1>6, <4>1, SameSeq
    <3> QED
      BY <3>1, <3>2, <3>3
  <2>2. CASE k # 0
    <3>1. old = pwrite(f, ofs, d1)
      BY <1>1, <1>4, <2>2
    <3>2. next = ofs + Len(d1)
      <4>1. CASE o.append
        <5>1. Len(old) = IF Len(f) > ofs + Len(d1) THEN Len(f) ELSE ofs + Len(d1)
          BY <1>5, <3>1, PwriteFacts
        <5>2. ofs = Len(f)
          BY <4>1
        <5> QED
          BY <1>2, <1>5, <1>8, <4>1, <5>1, <5>2
      <4>2. CASE ~o.append
        BY <1>1, <1>5, <1>8, <4>2
      <4> QED
        BY <4>1, <4>2
    <3>3. pwrite(pwrite(f, ofs, d1), next, b) = pwrite(f, ofs, d1 \o b)
      <4>1. IsSeq(d1) /\ IsSeq(b)
        BY <1>3, <1>5
      <4> QED
        BY <3>2, <4>1, WriteBehind
    <3> QED
      BY <1>7, <3>1, <3>3
  <2> QED
    BY <2>1, <2>2
<1>10. WrittenBy(f, d, ofs, data, k) = [file |-> old, dump |-> d]
  BY <1>1 DEF WrittenBy
<1>11. WrittenBy(f, d, ofs, data, k + 1) = [file |-> pwrite(f, ofs, d2), dump |-> d]
  <2>1. k + 1 # 0
    OBVIOUS
  <2> QED
    BY <1>1, <1>4, <2>1, Zenon DEF WrittenBy
<1>12. OneRecord(o, r, [file |-> old, dump |-> d])
            = [file |-> pwrite(old, next, b), dump |-> d]
  BY <1>1, <1>8 DEF OneRecord
<1> QED
  BY <1>9, <1>10, <1>11, <1>12

\* The m records behind record a write data, and the files on the way.
HintWrites(tr, o, ord, f, ofs, data, a, m) ==
    \A k \in 0 .. m - 1 : WritesNext(o, tr[ord[a + (k + 1)]], f, ofs, data, k)
WritingBy(f, d, ofs, data, a, e) == [n \in a .. e |-> WrittenBy(f, d, ofs, data, n - a)]

\* The records of a hint that is written, one by one.
LEMMA WritesPerformed ==
    ASSUME NEW tr, NEW o, NEW ord, NEW f, NEW d, IsSeq(f), NEW data, IsSeq(data),
           NEW ofs \in Nat, NEW a \in Nat, NEW m \in Nat, NEW e, e = a + m,
           Len(data) = m * BlkSectors, NEW from, from = a + 1,
           HintWrites(tr, o, ord, f, ofs, data, a, m)
    PROVE  Performing(tr, o, ord, [file |-> f, dump |-> d], from, e,
                      WritingBy(f, d, ofs, data, a, e))
<1> DEFINE g == [n \in a .. e |-> WrittenBy(f, d, ofs, data, n - a)]
           first == [file |-> f, dump |-> d]
<1>1. from - 1 = a
  OBVIOUS
<1>2. ASSUME NEW n \in a .. e
      PROVE  WrittenBy(f, d, ofs, data, n - a) = PerformStep(tr, o, ord, first, from, g, n)
  <2>1. CASE n = a
    <3>1. n - a = 0
      BY <2>1
    <3>2. PerformStep(tr, o, ord, first, from, g, n) = first
      BY <1>1, <2>1, Zenon DEF PerformStep
    <3>3. WrittenBy(f, d, ofs, data, 0) = first
      BY Zenon DEF WrittenBy
    <3> QED
      BY <3>1, <3>2, <3>3
  <2>2. CASE n # a
    <3>1. PICK k : k \in 0 .. m - 1 /\ n = a + (k + 1)
      <4>1. n - a - 1 \in 0 .. m - 1 /\ n = a + ((n - a - 1) + 1)
        BY <2>2
      <4> QED
        BY <4>1
    <3>2. /\ k \in Nat /\ n - 1 \in a .. e /\ (n - 1) - a = k /\ n - a = k + 1
          /\ k + 1 \in Nat /\ k + 1 <= m
      BY <3>1
    <3>3. PICK r : r = tr[ord[n]]
      OBVIOUS
    <3>4. WritesNext(o, r, f, ofs, data, k)
      BY <3>1, <3>3 DEF HintWrites
    <3>5. (k + 1) * BlkSectors <= Len(data)
      <4>1. PICK j \in Nat : j = k + 1
        BY <3>2
      <4>2. j = m \/ j < m
        BY <3>2, <4>1
      <4>3. j < m => j * BlkSectors + BlkSectors <= m * BlkSectors
        BY BlkSectorsAssumption, MulLess
      <4>4. j * BlkSectors \in Nat
        BY BlkSectorsAssumption, MulNat
      <4>5. j * BlkSectors <= m * BlkSectors
        <5>1. PICK x, y : x = j * BlkSectors /\ y = m * BlkSectors
          OBVIOUS
        <5>2. x \in Nat /\ (j < m => x + BlkSectors <= y) /\ (j = m => x = y)
          BY <4>3, <4>4, <5>1
        <5>3. y \in Nat
          BY BlkSectorsAssumption, MulNat, <5>1
        <5> QED
          BY <4>2, <5>1, <5>2, <5>3, BlkSectorsAssumption
      <4> QED
        BY <4>1, <4>5
    <3>6. OneRecord(o, r, WrittenBy(f, d, ofs, data, k)) = WrittenBy(f, d, ofs, data, k + 1)
      BY <3>2, <3>4, <3>5, WriteOneMore
    <3>7. g[n - 1] = WrittenBy(f, d, ofs, data, k)
      BY <3>2
    <3>8. PerformStep(tr, o, ord, first, from, g, n) = OneRecord(o, r, g[n - 1])
      BY <1>1, <2>2, <3>3, Zenon DEF PerformStep
    <3> QED
      BY <3>2, <3>6, <3>7, <3>8, Zenon
  <2> QED
    BY <2>1, <2>2
<1>3. g = [n \in a .. e |-> PerformStep(tr, o, ord, first, from, g, n)]
  BY <1>2, Zenon
<1> QED
  BY <1>1, <1>3, Zenon DEF Performing, WritingBy

\* After k records of a hint that is read.
ReadBy(o, f, d, ofs, k) ==
    [file |-> f, dump |-> IF o.dump THEN d \o Padded(f, ofs, k * BlkSectors) ELSE d]

\* The record behind these.
LEMMA ReadOneMore ==
    ASSUME NEW o, NEW r, NEW f, NEW d, IsSeq(d), NEW ofs \in Nat, NEW k \in Nat, r.rw = "R",
           r.lba = ofs + k * BlkSectors
    PROVE  OneRecord(o, r, ReadBy(o, f, d, ofs, k)) = ReadBy(o, f, d, ofs, k + 1)
<1>1. PICK x, e : x = k * BlkSectors /\ e = (k + 1) * BlkSectors
  OBVIOUS
<1>2. x \in Nat /\ BlkSectors \in Nat /\ e = x + BlkSectors
  <2>1. BlkSectors \in Nat
    BY BlkSectorsAssumption
  <2>2. x \in Nat
    BY <1>1, <2>1, MulNat, Zenon
  <2>3. (k + 1) * BlkSectors = k * BlkSectors + BlkSectors
    BY <2>1
  <2> QED
    BY <1>1, <2>1, <2>2, <2>3
<1>3. PICK got, more, both : /\ got = Padded(f, ofs, x) /\ more = Padded(f, r.lba, BlkSectors)
                             /\ both = Padded(f, ofs, e)
  OBVIOUS
<1>4. /\ IsSeq(got) /\ Len(got) = x
      /\ \A p \in 1 .. x : got[p] = IF ofs + p <= Len(f) THEN f[ofs + p] ELSE Zero
  BY <1>2, <1>3, PaddedFacts
<1>5. both = got \o more /\ IsSeq(more)
  <2>1. PICK lba \in Nat : lba = r.lba /\ lba = ofs + x
    BY <1>1, <1>2
  <2>2. more = Padded(f, lba, BlkSectors)
    BY <1>3, <2>1
  <2>3. /\ IsSeq(more) /\ Len(more) = BlkSectors
        /\ \A p \in 1 .. BlkSectors : more[p] = IF lba + p <= Len(f) THEN f[lba + p] ELSE Zero
    BY <1>2, <2>2, PaddedFacts
  <2>4. e \in Nat
    BY <1>2
  <2>5. /\ IsSeq(both) /\ Len(both) = e
        /\ \A p \in 1 .. e : both[p] = IF ofs + p <= Len(f) THEN f[ofs + p] ELSE Zero
    BY <1>3, <2>4, PaddedFacts
  <2>6. ASSUME NEW p \in 1 .. Len(got)
        PROVE  both[p] = got[p]
    <3>1. p \in 1 .. x /\ p \in 1 .. e
      BY <1>2, <1>4
    <3> QED
      BY <1>4, <2>5, <3>1
  <2>7. ASSUME NEW p \in 1 .. Len(more)
        PROVE  both[Len(got) + p] = more[p]
    <3>1. PICK q : q = x + p
      OBVIOUS
    <3>2. p \in 1 .. BlkSectors /\ q \in 1 .. e /\ Len(got) + p = q /\ ofs + q = lba + p
      BY <1>2, <1>4, <2>1, <2>3, <3>1
    <3>3. both[q] = IF ofs + q <= Len(f) THEN f[ofs + q] ELSE Zero
      BY <2>5, <3>2
    <3>4. more[p] = IF lba + p <= Len(f) THEN f[lba + p] ELSE Zero
      BY <2>3, <3>2
    <3> QED
      BY <3>2, <3>3, <3>4
  <2>8. Len(both) = Len(got) + Len(more)
    BY <1>2, <1>4, <2>3, <2>5
  <2> QED
    BY <1>4, <2>3, <2>5, <2>6, <2>7, <2>8, JoinedIs
<1>6. d \o both = (d \o got) \o more
  <2>1. IsSeq(got) /\ IsSeq(more)
    BY <1>4, <1>5
  <2>2. d \o (got \o more) = (d \o got) \o more
    BY <2>1, JoinedThree
  <2> QED
    BY <1>5, <2>2
<1>7. /\ ReadBy(o, f, d, ofs, k) = [file |-> f, dump |-> IF o.dump THEN d \o got ELSE d]
      /\ ReadBy(o, f, d, ofs, k + 1) = [file |-> f, dump |-> IF o.dump THEN d \o both ELSE d]
  BY <1>1, <1>3, Zenon DEF ReadBy
<1>8. OneRecord(o, r, [file |-> f, dump |-> IF o.dump THEN d \o got ELSE d])
        = [file |-> f, dump |-> IF o.dump THEN (d \o got) \o more ELSE d]
  BY <1>3 DEF OneRecord
<1> QED
  BY <1>6, <1>7, <1>8

\* The m records behind record a read from ofs on, and the dumps on the way.
HintReads(tr, ord, ofs, a, m) ==
    \A k \in 0 .. m - 1 :
        LET r == tr[ord[a + (k + 1)]]
        IN  r.rw = "R" /\ r.lba = ofs + k * BlkSectors
ReadingBy(o, f, d, ofs, a, e) == [n \in a .. e |-> ReadBy(o, f, d, ofs, n - a)]

\* The records of a hint that is read, one by one.
LEMMA ReadsPerformed ==
    ASSUME NEW tr, NEW o, NEW ord, NEW f, NEW d, IsSeq(d), NEW ofs \in Nat,
           NEW a \in Nat, NEW m \in Nat, NEW e, e = a + m, NEW from, from = a + 1,
           HintReads(tr, ord, ofs, a, m)
    PROVE  Performing(tr, o, ord, [file |-> f, dump |-> d], from, e,
                      ReadingBy(o, f, d, ofs, a, e))
<1> DEFINE g == [n \in a .. e |-> ReadBy(o, f, d, ofs, n - a)]
           first == [file |-> f, dump |-> d]
<1>1. from - 1 = a
  OBVIOUS
<1>2. ASSUME NEW n \in a .. e
      PROVE  ReadBy(o, f, d, ofs, n - a) = PerformStep(tr, o, ord, first, from, g, n)
  <2>1. CASE n = a
    <3>1. n - a = 0 /\ 0 * BlkSectors = 0
      BY <2>1, BlkSectorsAssumption
    <3>2. PerformStep(tr, o, ord, first, from, g, n) = first
      BY <1>1, <2>1, Zenon DEF PerformStep
    <3>3. ReadBy(o, f, d, ofs, 0) = first
      <4>1. PICK none : none = Padded(f, ofs, 0)
        OBVIOUS
      <4>2. IsSeq(none) /\ Len(none) = 0
        BY <4>1, PaddedFacts
      <4>3. d = d \o none
        BY <4>2, JoinedIs DEF IsSeq
      <4> QED
        BY <3>1, <4>1, <4>3, Zenon DEF ReadBy
    <3> QED
      BY <3>1, <3>2, <3>3
  <2>2. CASE n # a
    <3>1. PICK k : k \in 0 .. m - 1 /\ n = a + (k + 1)
      <4>1. n - a - 1 \in 0 .. m - 1 /\ n = a + ((n - a - 1) + 1)
        BY <2>2
      <4> QED
        BY <4>1
    <3>2. k \in Nat /\ n - 1 \in a .. e /\ (n - 1) - a = k /\ n - a = k + 1
      BY <3>1
    <3>3. PICK r : r = tr[ord[n]]
      OBVIOUS
    <3>4. r.rw = "R" /\ r.lba = ofs + k * BlkSectors
      BY <3>1, <3>3 DEF HintReads
    <3>5. OneRecord(o, r, ReadBy(o, f, d, ofs, k)) = ReadBy(o, f, d, ofs, k + 1)
      BY <3>2, <3>4, ReadOneMore
    <3>6. g[n - 1] = ReadBy(o, f, d, ofs, k)
      BY <3>2
    <3>7. PerformStep(tr, o, ord, first, from, g, n) = OneRecord(o, r, g[n - 1])
      BY <1>1, <2>2, <3>3, Zenon DEF PerformStep
    <3> QED
      BY <3>2, <3>5, <3>6, <3>7, Zenon
  <2> QED
    BY <2>1, <2>2
<1>3. g = [n \in a .. e |-> PerformStep(tr, o, ord, first, from, g, n)]
  BY <1>2, Zenon
<1> QED
  BY <1>1, <1>3, Zenon DEF Performing, ReadingBy

----------------------------------------------------------------------------
(* The records of the lines that are not read yet. *)

KeptLine(mode, line) == line # BadLine /\ (mode = "rw" \/ line.rw = "W")

\* The recursion of KeptOf.
KeptStep(mode, ls, f, n) ==
    IF n = 0 THEN <<>>
    ELSE (IF KeptLine(mode, ls[Len(ls) - n + 1]) THEN <<ls[Len(ls) - n + 1]>> ELSE <<>>)
            \o f[n - 1]
Keeping(mode, ls, f) == f = [n \in 0 .. Len(ls) |-> KeptStep(mode, ls, f, n)]
KeptIn(mode, ls) == (CHOOSE f : Keeping(mode, ls, f))[Len(ls)]

\* It depends on the mode and on the lines alone.
LEMMA KeptOfIs == KeptOf(lines) = KeptIn(opt.mode, lines)
BY Zenon DEF KeptOf, Kept, KeptIn, Keeping, KeptStep, KeptLine

LEMMA KeepingExists ==
    ASSUME NEW mode, NEW ls, Len(ls) \in Nat
    PROVE  \E f : Keeping(mode, ls, f)
<1> DEFINE n == Len(ls)
           RightUpTo(f, k) == \A j \in 0 .. n : j <= k => f[j] = KeptStep(mode, ls, f, j)
           Bad == {k \in Nat : ~ \E f : f = [j \in 0 .. n |-> f[j]] /\ RightUpTo(f, k)}
<1>1. SUFFICES Bad = {}
  <2>1. n \in Nat /\ n \notin Bad
    BY <1>1
  <2>2. PICK f : f = [j \in 0 .. n |-> f[j]] /\ RightUpTo(f, n)
    BY <2>1
  <2>3. \A j \in 0 .. n : f[j] = KeptStep(mode, ls, f, j)
    BY <2>1, <2>2
  <2>4. f = [j \in 0 .. n |-> KeptStep(mode, ls, f, j)]
    BY <2>2, <2>3, Zenon
  <2> QED
    BY <2>4, Zenon DEF Keeping
<1>2. ASSUME Bad # {}
      PROVE  FALSE
  <2>1. PICK k \in Bad : \A j \in Bad : k <= j
    <3>1. Bad \in SUBSET Nat
      OBVIOUS
    <3> HIDE DEF Bad
    <3> QED
      BY <1>2, <3>1, LeastNatural
  <2>2. CASE k = 0
    <3> DEFINE g == [j \in 0 .. n |-> KeptStep(mode, ls, <<>>, 0)]
    <3>1. g = [j \in 0 .. n |-> g[j]]
      OBVIOUS
    <3>2. \A j \in 0 .. n : j <= 0 => j = 0
      OBVIOUS
    <3>3. KeptStep(mode, ls, g, 0) = KeptStep(mode, ls, <<>>, 0)
      BY Zenon DEF KeptStep
    <3>4. \A j \in 0 .. n : j <= 0 => g[j] = KeptStep(mode, ls, g, j)
      BY <3>2, <3>3
    <3> HIDE DEF g
    <3> QED
      BY <2>1, <2>2, <3>1, <3>4
  <2>3. CASE k > 0
    <3>1. k \in Nat /\ k - 1 \in Nat /\ k - 1 \notin Bad
      BY <2>1, <2>3
    <3>2. PICK f : f = [j \in 0 .. n |-> f[j]] /\ RightUpTo(f, k - 1)
      BY <3>1
    <3> DEFINE g == [j \in 0 .. n |-> IF j < k THEN f[j] ELSE KeptStep(mode, ls, f, j)]
    <3>3. g = [j \in 0 .. n |-> g[j]]
      OBVIOUS
    <3>4. ASSUME NEW j \in 0 .. n, j <= k
          PROVE  g[j] = KeptStep(mode, ls, g, j)
      <4>1. j # 0 => g[j - 1] = f[j - 1]
        <5>1. j # 0 => j - 1 \in 0 .. n /\ j - 1 < k
          BY <3>1, <3>4
        <5> QED
          BY <5>1
      <4>2. KeptStep(mode, ls, g, j) = KeptStep(mode, ls, f, j)
        <5> HIDE DEF g
        <5>1. CASE j = 0
          BY <5>1, Zenon DEF KeptStep
        <5>2. CASE j # 0
          BY <4>1, <5>2, Zenon DEF KeptStep
        <5> QED
          BY <5>1, <5>2
      <4>3. CASE j < k
        <5>1. j <= k - 1 /\ g[j] = f[j]
          BY <3>1, <4>3
        <5> HIDE DEF g
        <5> QED
          BY <3>2, <4>2, <5>1
      <4>4. CASE ~ (j < k)
        BY <4>2, <4>4
      <4> QED
        BY <4>3, <4>4
    <3> HIDE DEF g
    <3>5. g = [j \in 0 .. n |-> g[j]] /\ RightUpTo(g, k)
      BY <3>3, <3>4
    <3> QED
      BY <2>1, <3>5
  <2> QED
    BY <2>1, <2>2, <2>3
<1> QED
  BY <1>2

\* The lines behind the first are kept as they would be without it.
LEMMA KeepingTail ==
    ASSUME NEW mode, NEW S, NEW ls \in Seq(S), ls # <<>>,
           NEW f, NEW g, Keeping(mode, ls, f), Keeping(mode, Tail(ls), g)
    PROVE  \A n \in 0 .. Len(ls) - 1 : f[n] = g[n] /\ IsSeq(g[n])
<1> DEFINE Bad == {n \in Nat : n < Len(ls) /\ ~ (f[n] = g[n] /\ IsSeq(g[n]))}
<1>1. PICK m \in Nat : Len(ls) = m + 1 /\ Len(Tail(ls)) = m
  <2>1. Len(ls) \in Nat \ {0} /\ Len(Tail(ls)) = Len(ls) - 1
    OBVIOUS
  <2>2. Len(ls) - 1 \in Nat /\ Len(ls) = (Len(ls) - 1) + 1
    BY <2>1
  <2> QED
    BY <2>1, <2>2
<1>2. /\ \A n \in 0 .. Len(ls) : f[n] = KeptStep(mode, ls, f, n)
      /\ \A n \in 0 .. m : g[n] = KeptStep(mode, Tail(ls), g, n)
  BY <1>1 DEF Keeping
<1>3. ASSUME Bad # {}
      PROVE  FALSE
  <2>1. PICK n \in Bad : \A j \in Bad : n <= j
    <3>1. Bad \in SUBSET Nat
      OBVIOUS
    <3> HIDE DEF Bad
    <3> QED
      BY <1>3, <3>1, LeastNatural
  <2>2. n \in Nat /\ n < Len(ls) /\ ~ (f[n] = g[n] /\ IsSeq(g[n])) /\ n \in 0 .. m /\ n \in 0 .. Len(ls)
    BY <1>1, <2>1
  <2>3. f[n] = KeptStep(mode, ls, f, n) /\ g[n] = KeptStep(mode, Tail(ls), g, n)
    BY <1>2, <2>2
  <2>4. CASE n = 0
    <3>1. f[n] = <<>> /\ g[n] = <<>>
      BY <2>3, <2>4, Zenon DEF KeptStep
    <3>2. IsSeq(g[n])
      BY <3>1 DEF IsSeq
    <3> QED
      BY <2>2, <3>1, <3>2
  <2>5. CASE n # 0
    <3>1. n - 1 \in Nat /\ n - 1 < Len(ls) /\ ~ (n <= n - 1)
      BY <2>2, <2>5
    <3>2. f[n - 1] = g[n - 1] /\ IsSeq(g[n - 1])
      BY <2>1, <3>1
    <3>3. PICK line : line = ls[Len(ls) - n + 1]
      OBVIOUS
    <3>4. Tail(ls)[Len(Tail(ls)) - n + 1] = line
      <4>1. PICK j : j = Len(Tail(ls)) - n + 1
        OBVIOUS
      <4>2. j \in 1 .. m /\ j + 1 = Len(ls) - n + 1
        BY <1>1, <2>2, <2>5, <4>1
      <4>3. Tail(ls)[j] = ls[j + 1]
        BY <1>1, <4>2
      <4> QED
        BY <3>3, <4>1, <4>2, <4>3
    <3>5. PICK one : one = IF KeptLine(mode, line) THEN <<line>> ELSE <<>>
      OBVIOUS
    <3>6. f[n] = one \o f[n - 1]
      BY <2>3, <2>5, <3>3, <3>5, Zenon DEF KeptStep
    <3>7. g[n] = one \o g[n - 1]
      BY <2>3, <2>5, <3>4, <3>5, Zenon DEF KeptStep
    <3>8. IsSeq(one)
      BY <3>5 DEF IsSeq
    <3>9. IsSeq(one \o g[n - 1])
      BY <3>2, <3>8, Joined
    <3> QED
      BY <2>2, <3>2, <3>6, <3>7, <3>9
  <2> QED
    BY <2>4, <2>5
<1>4. ASSUME NEW n \in 0 .. Len(ls) - 1
      PROVE  f[n] = g[n] /\ IsSeq(g[n])
  <2>1. n \in Nat /\ n < Len(ls) /\ n \notin Bad
    BY <1>1, <1>3
  <2> QED
    BY <2>1
<1> QED
  BY <1>4

\* What the first line adds.
LEMMA KeptUnfolds ==
    ASSUME NEW mode, NEW S, NEW ls \in Seq(S), ls # <<>>
    PROVE  /\ KeptIn(mode, ls)
                = (IF KeptLine(mode, Head(ls)) THEN <<Head(ls)>> ELSE <<>>)
                    \o KeptIn(mode, Tail(ls))
           /\ IsSeq(KeptIn(mode, Tail(ls)))
<1> DEFINE f == CHOOSE f : Keeping(mode, ls, f)
           g == CHOOSE g : Keeping(mode, Tail(ls), g)
<1>1. PICK m \in Nat : /\ Len(ls) = m + 1 /\ Len(Tail(ls)) = m
                       /\ ls[Len(ls) - (m + 1) + 1] = Head(ls)
  <2>1. Len(ls) \in Nat \ {0} /\ Len(Tail(ls)) = Len(ls) - 1 /\ ls[1] = Head(ls)
    OBVIOUS
  <2>2. PICK m : m = Len(ls) - 1
    OBVIOUS
  <2>3. m \in Nat /\ Len(ls) = m + 1 /\ Len(ls) - (m + 1) + 1 = 1
    BY <2>1, <2>2
  <2> QED
    BY <2>1, <2>2, <2>3
<1>2. Keeping(mode, ls, f)
  <2>1. \E h : Keeping(mode, ls, h)
    <3>1. Len(ls) \in Nat
      OBVIOUS
    <3> QED
      BY <3>1, KeepingExists, Zenon
  <2> QED
    BY <2>1, Zenon
<1>3. Keeping(mode, Tail(ls), g)
  <2>1. \E h : Keeping(mode, Tail(ls), h)
    BY <1>1, KeepingExists
  <2> QED
    BY <2>1, Zenon
<1>4. KeptIn(mode, ls) = f[m + 1] /\ KeptIn(mode, Tail(ls)) = g[m]
  BY <1>1, Zenon DEF KeptIn
<1> HIDE DEF f, g
<1>5. f[m] = g[m] /\ IsSeq(g[m])
  <2>1. m \in 0 .. Len(ls) - 1
    BY <1>1
  <2> QED
    BY <1>2, <1>3, <2>1, KeepingTail
<1>6. f[m + 1] = (IF KeptLine(mode, Head(ls)) THEN <<Head(ls)>> ELSE <<>>) \o f[m]
  <2>1. m + 1 \in 0 .. Len(ls) /\ m + 1 # 0 /\ (m + 1) - 1 = m
    BY <1>1
  <2>2. f[m + 1] = KeptStep(mode, ls, f, m + 1)
    BY <1>2, <2>1 DEF Keeping
  <2> QED
    BY <1>1, <2>1, <2>2, Zenon DEF KeptStep
<1> QED
  BY <1>4, <1>5, <1>6

LEMMA KeptNone ==
    ASSUME NEW mode
    PROVE  KeptIn(mode, <<>>) = <<>>
<1> DEFINE f == CHOOSE f : Keeping(mode, <<>>, f)
<1>1. Keeping(mode, <<>>, f)
  <2>1. \E h : Keeping(mode, <<>>, h)
    BY KeepingExists
  <2> QED
    BY <2>1, Zenon
<1>2. KeptIn(mode, <<>>) = f[0]
  <2>1. Len(<<>>) = 0
    OBVIOUS
  <2> QED
    BY <2>1, Zenon DEF KeptIn
<1> HIDE DEF f
<1>3. f[0] = KeptStep(mode, <<>>, f, 0)
  BY <1>1 DEF Keeping
<1> QED
  BY <1>2, <1>3, Zenon DEF KeptStep

LEMMA KeptOfNext == (KeptOf(lines) = KeptIn(opt.mode, lines))'
BY KeptOfIs, PTL

\* The records of a trace are its lines, read or not.
LEMMA SameTrace ==
    ASSUME opt' = opt, lines' = lines, infos' = infos
    PROVE  AbsTrace' = AbsTrace
<1>1. KeptOf(lines) = KeptIn(opt.mode, lines) /\ KeptOf(lines)' = KeptIn(opt.mode, lines)'
  BY KeptOfIs, KeptOfNext
<1> QED
  BY <1>1, Zenon DEF AbsTrace

LEMMA TraceRead ==
    ASSUME infos \in Seq(Records), lines = <<>>
    PROVE  AbsTrace = infos
<1>1. KeptOf(lines) = <<>>
  BY KeptOfIs, KeptNone, Zenon
<1>2. infos \o <<>> = infos
  OBVIOUS
<1> QED
  BY <1>1, <1>2 DEF AbsTrace

\* A line that is read goes from the lines to the records, or nowhere.
LEMMA ParseKeepsTrace ==
    ASSUME Typed, parse_trace_info
    PROVE  AbsTrace' = AbsTrace
<1>1. KeptOf(lines) = KeptIn(opt.mode, lines) /\ KeptOf(lines)' = KeptIn(opt.mode, lines)'
  BY KeptOfIs, KeptOfNext
<1>2. infos \in Seq(Records) /\ lines \in Seq(Records \cup {BadLine}) /\ opt' = opt
  BY DEF Typed, parse_trace_info
<1>3. CASE lines # <<>>
  <2>1. PICK line, rest, kept : /\ line = Head(lines) /\ rest = Tail(lines)
                                /\ kept = KeptIn(opt.mode, rest)
    OBVIOUS
  <2>2. lines' = rest /\ infos' = IF Kept(line) THEN Append(infos, line) ELSE infos
    BY <1>3, <2>1 DEF parse_trace_info
  <2>3. PICK one : one = IF KeptLine(opt.mode, line) THEN <<line>> ELSE <<>>
    OBVIOUS
  <2>4. KeptIn(opt.mode, lines) = one \o kept /\ IsSeq(kept)
    BY <1>2, <1>3, <2>1, <2>3, KeptUnfolds, Zenon
  <2>5. infos' = infos \o one
    <3>1. Kept(line) <=> KeptLine(opt.mode, line)
      BY DEF Kept, KeptLine
    <3>2. Append(infos, line) = infos \o <<line>> /\ infos = infos \o <<>>
      <4>1. Head(lines) \in Records \cup {BadLine}
        BY <1>2, <1>3
      <4>2. infos \in Seq(Records \cup {BadLine}) /\ line \in Records \cup {BadLine}
        BY <1>2, <2>1, <4>1
      <4> QED
        BY <4>2
    <3> QED
      BY <2>2, <2>3, <3>1, <3>2
  <2>6. IsSeq(infos) /\ IsSeq(one)
    <3>1. IsSeq(infos)
      BY <1>2, TypedSeq
    <3> QED
      BY <2>3, <3>1 DEF IsSeq
  <2>7. infos \o (one \o kept) = (infos \o one) \o kept
    BY <2>4, <2>6, JoinedThree
  <2>8. KeptOf(lines)' = kept
    BY <1>1, <1>2, <2>1, <2>2, Zenon
  <2> QED
    BY <1>1, <2>4, <2>5, <2>7, <2>8, Zenon DEF AbsTrace
<1>4. CASE lines = <<>>
  <2>1. lines' = lines /\ infos' = infos
    BY <1>4 DEF parse_trace_info
  <2> QED
    BY <1>2, <2>1, SameTrace
<1> QED
  BY <1>3, <1>4

----------------------------------------------------------------------------
(* Every step is a step of AbstractReplay, or invisible there. *)

\* There are never more workers than the abstract replay has room for.
LEMMA WorkersBound ==
    ASSUME opt \in Options
    PROVE  Workers \subseteq AllWorkers
<1>1. opt.threads \in Nat /\ opt.threads <= MaxThreads
  BY OptFacts, RunOptionsAssumption
<1> QED
  BY <1>1, MaxThreadsAssumption DEF Workers, AllWorkers

\* A step that none of the records, the files and the dumps shows.
LEMMA Invisible ==
    ASSUME AbsTrace' = AbsTrace, opt' = opt, HasPlan' <=> HasPlan,
           HasPlan => infos_map' = infos_map,
           phase' = "exited" <=> phase = "exited",
           \A w \in Workers : /\ PerformedBy(w)' = PerformedBy(w)
                              /\ file'[w] = file[w] /\ dump'[w] = dump[w]
    PROVE  UNCHANGED Abstract!vars
<1>1. Workers' = Workers
  BY DEF Workers
<1>2. AbsOptions' = AbsOptions
  BY DEF AbsOptions
<1>3. AbsOrder' = AbsOrder
  BY <1>1 DEF AbsOrder
<1>4. AbsDone' = AbsDone
  BY <1>1 DEF AbsDone
<1>5. AbsFile' = AbsFile /\ AbsDump' = AbsDump
  BY <1>1 DEF AbsFile, AbsDump
<1>6. HasPlan' = HasPlan /\ (phase' = "exited") = (phase = "exited")
  BY DEF HasPlan
<1> QED
  BY <1>2, <1>3, <1>4, <1>5, <1>6, Zenon
    DEF Abstract!vars, AbsTrace, AbsOptions, AbsOrder, AbsDone, AbsFile, AbsDump

\* Worker w performs its records up to e.
LEMMA PerformsHint ==
    ASSUME RunIInv, phase = "ready", phase' = "ready", UNCHANGED planRest, NEW w \in Workers,
           NEW e, PerformedBy(w)' = e, PerformedBy(w) \in Nat,
           e \in PerformedBy(w) + 1 .. Len(infos_map[w]),
           NEW f, NEW d, file'[w] = f, dump'[w] = d,
           \A v \in Workers : v # w =>
                PerformedBy(v)' = PerformedBy(v) /\ file'[v] = file[v] /\ dump'[v] = dump[v],
           Abstract!Performed(w, AbsDone[w] + 1, e) = [file |-> f, dump |-> d]
    PROVE  Abstract!Perform(w)
<1>1. Workers' = Workers /\ w \in AllWorkers /\ HasPlan /\ HasPlan'
  BY WorkersBound DEF Workers, planRest, HasPlan, RunIInv, PlanIInv, Typed
<1>2. AbsTrace' = AbsTrace
  BY SameTrace DEF planRest
<1>3. AbsOptions' = AbsOptions /\ AbsOrder' = AbsOrder
  BY <1>1 DEF AbsOptions, AbsOrder, planRest
<1>4. AbsDone' = [AbsDone EXCEPT ![w] = e]
  BY <1>1 DEF AbsDone
<1>5. AbsFile' = [AbsFile EXCEPT ![w] = f] /\ AbsDump' = [AbsDump EXCEPT ![w] = d]
  BY <1>1 DEF AbsFile, AbsDump
<1>6. AbsOrder[w] = infos_map[w] /\ AbsDone[w] = PerformedBy(w)
  BY <1>1 DEF AbsOrder, AbsDone
<1>7. e \in AbsDone[w] + 1 .. Len(AbsOrder[w])
  BY <1>6
<1>8. PICK after : after = Abstract!Performed(w, AbsDone[w] + 1, e)
  OBVIOUS
<1>9. after.file = f /\ after.dump = d
  BY <1>8
<1>10. HasPlan' = HasPlan /\ (phase' = "exited") = (phase = "exited") /\ phase # "exited"
  BY <1>1
<1>11. \E n \in AbsDone[w] + 1 .. Len(AbsOrder[w]) :
            LET res == Abstract!Performed(w, AbsDone[w] + 1, n)
            IN  /\ AbsDone' = [AbsDone EXCEPT ![w] = n]
                /\ AbsFile' = [AbsFile EXCEPT ![w] = res.file]
                /\ AbsDump' = [AbsDump EXCEPT ![w] = res.dump]
  BY <1>4, <1>5, <1>7, <1>8, <1>9, Zenon
<1> QED
  BY <1>1, <1>2, <1>3, <1>10, <1>11, Zenon
    DEF Abstract!Perform, AbsTrace, AbsOptions, AbsOrder, AbsDone, AbsFile, AbsDump

\* Every line has been read once the parsing is over.
LinesRead == phase # "parse" => lines = <<>>

\* A worker's records, and which of them its hint stands for.
LEMMA HintIs ==
    ASSUME RunIInv, LinesRead, phase = "ready", NEW w \in Workers, InHint(w)
    PROVE  /\ AbsTrace = infos /\ AbsOrder[w] = infos_map[w]
           /\ AbsDone[w] = PerformedBy(w) /\ PerformedBy(w) = Hint(w).start
           /\ AbsFile[w] = file[w] /\ AbsDump[w] = dump[w]
           /\ Hint(w).start \in Nat /\ Hint(w).blks \in Nat \ {0}
           /\ Hint(w).start + Hint(w).blks <= Len(infos_map[w])
           /\ \A b \in 1 .. Hint(w).blks :
                /\ infos[infos_map[w][Hint(w).start + b]] = HintRecord(w, b)
                /\ HintRecord(w, b).lba = HintOffset(w) + (b - 1) * BlkSectors
                /\ HintRecord(w, b).rw = "W" <=> IsWrite(w)
                /\ HintRecord(w, b).rw \in {"R", "W"}
<1>1. /\ PlanIInv /\ RunTyped /\ WithinHints /\ worker = opt.threads /\ HasPlan
      /\ infos \in Seq(Records) /\ opt \in Options
  BY InHintPlanned DEF RunIInv, HasPlan, PlanIInv, Typed
<1>2. AbsTrace = infos
  BY <1>1, TraceRead DEF LinesRead
<1>3. /\ AbsOrder[w] = infos_map[w] /\ AbsDone[w] = PerformedBy(w)
      /\ AbsFile[w] = file[w] /\ AbsDump[w] = dump[w]
  BY <1>1, WorkersBound DEF AbsOrder, AbsDone, AbsFile, AbsDump
<1>4. PerformedBy(w) = Hint(w).start
  BY PerformedFacts
<1>5. /\ hint[w] \in params[w].start .. params[w].end - 1
      /\ Hint(w).blks \in Nat \ {0} /\ Hint(w).start \in Nat
  BY <1>1, InHintFacts
<1>6. Hint(w).start + Hint(w).blks <= Len(infos_map[w])
  BY <1>1, <1>5, HintFacts DEF Hint
<1>7. ASSUME NEW b \in 1 .. Hint(w).blks
      PROVE  /\ infos[infos_map[w][Hint(w).start + b]] = HintRecord(w, b)
             /\ HintRecord(w, b).lba = HintOffset(w) + (b - 1) * BlkSectors
             /\ HintRecord(w, b).rw = "W" <=> IsWrite(w)
             /\ HintRecord(w, b).rw \in {"R", "W"}
  <2>1. /\ infos_map[w][Hint(w).start + b] \in DOMAIN infos
        /\ HintRecord(w, b) \in Records
        /\ HintRecord(w, b).rw = Hint(w).rw
        /\ HintRecord(w, b).lba = HintOffset(w) + (b - 1) * BlkSectors
    BY <1>1, InHintFacts
  <2>2. infos[infos_map[w][Hint(w).start + b]] = HintRecord(w, b)
    BY DEF HintRecord
  <2>3. opt.mode # "rw" => HintRecord(w, b).rw = "W"
    BY <2>1, <2>2 DEF RunIInv, FromTrace
  <2>4. HintRecord(w, b).rw \in {"R", "W"}
    BY <2>1 DEF Records
  <2> QED
    BY <2>1, <2>2, <2>3, <2>4 DEF IsWrite
<1> QED
  BY <1>2, <1>3, <1>4, <1>5, <1>6, <1>7

\* A hint that is written.
LEMMA WriteImplements ==
    ASSUME RunIInv, LinesRead, NEW w \in Workers, WriteHint(w)
    PROVE  Abstract!Perform(w)
<1>1. /\ Replaying(w) /\ IsWrite(w) /\ ~ShortMd5(w)
      /\ file' = [file EXCEPT ![w] = pwrite(file[w], WriteOffset(w), HintFilled(w).blk)]
      /\ dump' = dump /\ wpc' = wpc /\ hint' = [hint EXCEPT ![w] = hint[w] + 1]
      /\ phase' = phase /\ UNCHANGED planRest
  BY DEF WriteHint, planVars, planRest
<1>2. /\ phase = "ready" /\ InHint(w) /\ wpc[w] = "replay" /\ IsSeq(file[w])
      /\ Len(file[w]) \in Nat /\ HintOffset(w) \in Nat
      /\ RunTyped
  BY <1>1, InReplay
<1>3. PICK f, d, ofs, data, a, m, e, from, ord :
            /\ f = file[w] /\ d = dump[w] /\ ofs = WriteOffset(w) /\ data = HintFilled(w).blk
            /\ a = Hint(w).start /\ m = Hint(w).blks /\ e = a + m /\ from = a + 1
            /\ ord = AbsOrder[w]
  OBVIOUS
<1>4. /\ a \in Nat /\ m \in Nat \ {0} /\ e \in Nat /\ ofs \in Nat /\ e \in a + 1 .. Len(infos_map[w])
      /\ AbsDone[w] = a /\ PerformedBy(w) = a /\ AbsDone[w] + 1 = from
      /\ AbsTrace = infos /\ ord = infos_map[w] /\ AbsFile[w] = f /\ AbsDump[w] = d
  <2>1. /\ AbsTrace = infos /\ AbsOrder[w] = infos_map[w]
        /\ AbsDone[w] = PerformedBy(w) /\ PerformedBy(w) = Hint(w).start
        /\ AbsFile[w] = file[w] /\ AbsDump[w] = dump[w]
        /\ Hint(w).start \in Nat /\ Hint(w).blks \in Nat \ {0}
        /\ Hint(w).start + Hint(w).blks <= Len(infos_map[w])
    BY <1>2, HintIs
  <2>2. ofs \in Nat
    BY <1>2, <1>3 DEF WriteOffset
  <2>3. Len(infos_map[w]) \in Nat
    BY DEF RunIInv, PlanIInv, Typed
  <2> QED
    BY <1>3, <2>1, <2>2, <2>3
<1>5. /\ IsSeq(data) /\ Len(data) = m * BlkSectors
      /\ \A b \in 1 .. m : \A s \in 1 .. BlkSectors :
            data[(b - 1) * BlkSectors + s] = BlockOf(opt.gen, HintRecord(w, b).md5)[s]
  BY <1>1, <1>2, <1>3, HintFilledFacts DEF HintSectors
<1>6. ASSUME NEW k \in 0 .. m - 1
      PROVE  WritesNext(AbsOptions, AbsTrace[ord[a + (k + 1)]], f, ofs, data, k)
  <2>1. PICK b : b = k + 1
    OBVIOUS
  <2>2. b \in 1 .. Hint(w).blks /\ b \in 1 .. m /\ b - 1 = k
    BY <1>3, <1>4, <2>1
  <2>3. PICK r : r = HintRecord(w, b)
    OBVIOUS
  <2>4. AbsTrace[ord[a + (k + 1)]] = r
    <3>1. infos[infos_map[w][Hint(w).start + b]] = HintRecord(w, b)
      BY <1>2, <2>2, HintIs
    <3> QED
      BY <1>3, <1>4, <2>1, <2>3, <3>1
  <2>5. r.rw = "W" /\ r.lba = HintOffset(w) + k * BlkSectors
    BY <1>1, <1>2, <2>2, <2>3, HintIs
  <2>6. \A s \in 1 .. BlkSectors : data[k * BlkSectors + s] = BlockOf(opt.gen, r.md5)[s]
    BY <1>5, <2>2, <2>3
  <2>7. AbsOptions.append <=> opt.mode = "a"
    BY DEF AbsOptions
  <2>8. AbsOptions.gen = opt.gen
    BY DEF AbsOptions
  <2>9. IF AbsOptions.append THEN ofs = Len(f) ELSE r.lba = ofs + k * BlkSectors
    BY <1>3, <2>5, <2>7 DEF WriteOffset
  <2> QED
    BY <2>4, <2>5, <2>6, <2>8, <2>9 DEF WritesNext
<1>7. PICK g : g = WritingBy(f, d, ofs, data, a, e)
  OBVIOUS
<1>8. g[e] = [file |-> pwrite(f, ofs, data), dump |-> d]
  <2>1. e \in a .. e /\ e - a = m
    BY <1>3, <1>4
  <2>2. g[e] = WrittenBy(f, d, ofs, data, m)
    BY <1>7, <2>1 DEF WritingBy
  <2>3. SubSeq(data, 1, m * BlkSectors) = data
    <3>1. Len(data) \in 0 .. Len(data) /\ Len(data) \in Nat
      BY <1>5 DEF IsSeq
    <3>2. PICK part : part = SubSeq(data, 1, Len(data))
      OBVIOUS
    <3>3. IsSeq(part) /\ Len(part) = Len(data) /\ \A p \in 1 .. Len(data) : part[p] = data[p]
      BY <1>5, <3>1, <3>2, FirstOf
    <3>4. part = data
      BY <1>5, <3>3, SameSeq
    <3> QED
      BY <1>5, <3>2, <3>4
  <2> QED
    BY <1>4, <2>2, <2>3, Zenon DEF WrittenBy
<1>9. Abstract!Performed(w, from, e) = g[e]
  <2>1. HintWrites(AbsTrace, AbsOptions, ord, f, ofs, data, a, m)
    BY <1>6 DEF HintWrites
  <2>2. /\ IsSeq(f) /\ IsSeq(data) /\ ofs \in Nat /\ a \in Nat /\ m \in Nat /\ e = a + m
        /\ Len(data) = m * BlkSectors /\ from = a + 1
    BY <1>2, <1>3, <1>4, <1>5
  <2>3. Performing(AbsTrace, AbsOptions, ord, [file |-> f, dump |-> d], from, e, g)
    BY <1>7, <2>1, <2>2, WritesPerformed
  <2>4. PerformingFrom(w, from, e, g)
    BY <1>3, <1>4, <2>3 DEF PerformingFrom
  <2>5. from \in Nat \ {0} /\ e \in Nat
    BY <1>4, <2>2
  <2> QED
    BY <2>4, <2>5, PerformedIs
<1>10. /\ PerformedBy(w)' = e
       /\ \A v \in Workers : v # w =>
            PerformedBy(v)' = PerformedBy(v) /\ file'[v] = file[v] /\ dump'[v] = dump[v]
  <2>1. PerformedBy(w)' = e
    BY <1>1, <1>2, <1>3, PerformedNext DEF RunTyped
  <2>2. ASSUME NEW v \in Workers, v # w
        PROVE  PerformedBy(v)' = PerformedBy(v) /\ file'[v] = file[v] /\ dump'[v] = dump[v]
    BY <1>1, <1>2, <2>2, OtherPerformed DEF RunTyped
  <2> QED
    BY <2>1, <2>2
<1>11. dump'[w] = d /\ file'[w] = pwrite(f, ofs, data)
  BY <1>1, <1>2, <1>3 DEF RunTyped
<1>12. Abstract!Performed(w, AbsDone[w] + 1, e) = [file |-> pwrite(f, ofs, data), dump |-> d]
  BY <1>4, <1>8, <1>9
<1> QED
  BY <1>1, <1>2, <1>4, <1>10, <1>11, <1>12, PerformsHint

\* A hint that is read.
LEMMA ReadImplements ==
    ASSUME RunIInv, LinesRead, NEW w \in Workers, EndRead(w)
    PROVE  Abstract!Perform(w)
<1>1. /\ Replaying(w) /\ ~IsWrite(w)
      /\ Len(blk[w]) = HintSectors(w) \/ Available(w) <= 0
      /\ phase' = phase /\ UNCHANGED planRest /\ wpc' = wpc /\ file' = file
      /\ hint' = [hint EXCEPT ![w] = @ + 1]
      /\ dump' = IF opt.dump
                 THEN [dump EXCEPT ![w] = @ \o Padded(blk[w], 0, HintSectors(w))]
                 ELSE dump
  BY DEF EndRead, planVars, planRest
<1>2. /\ phase = "ready" /\ InHint(w) /\ wpc[w] = "replay" /\ ReadingOf(w)
      /\ IsSeq(blk[w]) /\ IsSeq(dump[w]) /\ Len(file[w]) \in Nat
      /\ HintOffset(w) \in Nat /\ HintSectors(w) \in Nat /\ RunTyped
  BY <1>1, InReplay
<1>3. PICK f, d, ofs, a, m, e, from, ord :
            /\ f = file[w] /\ d = dump[w] /\ ofs = HintOffset(w)
            /\ a = Hint(w).start /\ m = Hint(w).blks /\ e = a + m /\ from = a + 1
            /\ ord = AbsOrder[w]
  OBVIOUS
<1>4. /\ a \in Nat /\ m \in Nat \ {0} /\ e \in Nat /\ ofs \in Nat /\ e \in a + 1 .. Len(infos_map[w])
      /\ AbsDone[w] = a /\ PerformedBy(w) = a /\ AbsDone[w] + 1 = from
      /\ AbsTrace = infos /\ ord = infos_map[w] /\ AbsFile[w] = f /\ AbsDump[w] = d
  <2>1. /\ AbsTrace = infos /\ AbsOrder[w] = infos_map[w]
        /\ AbsDone[w] = PerformedBy(w) /\ PerformedBy(w) = Hint(w).start
        /\ AbsFile[w] = file[w] /\ AbsDump[w] = dump[w]
        /\ Hint(w).start \in Nat /\ Hint(w).blks \in Nat \ {0}
        /\ Hint(w).start + Hint(w).blks <= Len(infos_map[w])
    BY <1>2, HintIs
  <2>2. Len(infos_map[w]) \in Nat
    BY DEF RunIInv, PlanIInv, Typed
  <2> QED
    BY <1>2, <1>3, <2>1, <2>2
<1>5. HintReads(AbsTrace, ord, ofs, a, m)
  <2>1. ASSUME NEW k \in 0 .. m - 1
        PROVE  /\ AbsTrace[ord[a + (k + 1)]].rw = "R"
               /\ AbsTrace[ord[a + (k + 1)]].lba = ofs + k * BlkSectors
    <3>1. PICK b : b = k + 1
      OBVIOUS
    <3>2. b \in 1 .. Hint(w).blks /\ b - 1 = k
      BY <1>3, <1>4, <3>1
    <3>3. PICK r : r = HintRecord(w, b)
      OBVIOUS
    <3>4. AbsTrace[ord[a + (k + 1)]] = r
      <4>1. infos[infos_map[w][Hint(w).start + b]] = HintRecord(w, b)
        BY <1>2, <3>2, HintIs
      <4> QED
        BY <1>3, <1>4, <3>1, <3>3, <4>1
    <3>5. r.rw # "W" /\ r.rw \in {"R", "W"} /\ r.lba = HintOffset(w) + k * BlkSectors
      BY <1>1, <1>2, <3>2, <3>3, HintIs
    <3> QED
      BY <1>3, <3>4, <3>5
  <2> QED
    BY <2>1 DEF HintReads
<1>6. PICK g : g = ReadingBy(AbsOptions, f, d, ofs, a, e)
  OBVIOUS
<1>7. g[e] = [file |-> f, dump |-> IF opt.dump THEN d \o Padded(f, ofs, m * BlkSectors) ELSE d]
  <2>1. e \in a .. e /\ e - a = m
    BY <1>3, <1>4
  <2>2. g[e] = ReadBy(AbsOptions, f, d, ofs, m)
    BY <1>6, <2>1 DEF ReadingBy
  <2>3. AbsOptions.dump = opt.dump
    BY DEF AbsOptions
  <2> QED
    BY <2>2, <2>3, Zenon DEF ReadBy
<1>8. Abstract!Performed(w, from, e) = g[e]
  <2>1. IsSeq(d) /\ ofs \in Nat /\ a \in Nat /\ m \in Nat /\ e = a + m /\ from = a + 1
    BY <1>2, <1>3, <1>4
  <2>2. Performing(AbsTrace, AbsOptions, ord, [file |-> f, dump |-> d], from, e, g)
    BY <1>5, <1>6, <2>1, ReadsPerformed
  <2>3. PerformingFrom(w, from, e, g)
    BY <1>3, <1>4, <2>2 DEF PerformingFrom
  <2>4. from \in Nat \ {0} /\ e \in Nat
    BY <1>4, <2>1
  <2> QED
    BY <2>3, <2>4, PerformedIs
<1>9. /\ PerformedBy(w)' = e
      /\ \A v \in Workers : v # w =>
            PerformedBy(v)' = PerformedBy(v) /\ file'[v] = file[v] /\ dump'[v] = dump[v]
  <2>1. wpc'[w] = "replay" /\ hint'[w] = hint[w] + 1
    BY <1>1, <1>2 DEF RunTyped
  <2>2. PerformedBy(w)' = e
    BY <1>1, <1>2, <1>3, <2>1, PerformedNext
  <2>3. ASSUME NEW v \in Workers, v # w
        PROVE  PerformedBy(v)' = PerformedBy(v) /\ file'[v] = file[v] /\ dump'[v] = dump[v]
    <3>1. wpc'[v] = wpc[v] /\ hint'[v] = hint[v] /\ dump'[v] = dump[v]
      BY <1>1, <1>2, <2>3 DEF RunTyped
    <3> QED
      BY <1>1, <3>1, OtherPerformed
  <2> QED
    BY <2>2, <2>3
<1>10. Padded(blk[w], 0, HintSectors(w)) = Padded(f, ofs, m * BlkSectors)
  <2>1. PICK got, n : got = blk[w] /\ n = HintSectors(w)
    OBVIOUS
  <2>2. IsSeq(got) /\ Len(f) \in Nat /\ ofs \in Nat /\ n \in Nat /\ n = m * BlkSectors
    BY <1>2, <1>3, <2>1 DEF HintSectors
  <2>3. Len(got) <= n /\ got = Padded(f, ofs, Len(got))
    BY <1>1, <1>2, <1>3, <2>1 DEF ReadingOf
  <2>4. Len(got) = n \/ Len(f) - ofs - Len(got) <= 0
    BY <1>1, <1>3, <2>1 DEF Available
  <2>5. Padded(got, 0, n) = Padded(f, ofs, n)
    BY <2>2, <2>3, <2>4, DumpedRange
  <2> QED
    BY <2>1, <2>2, <2>5
<1>11. PICK rest : rest = IF opt.dump THEN d \o Padded(f, ofs, m * BlkSectors) ELSE d
  OBVIOUS
<1>12. file'[w] = f /\ dump'[w] = rest
  <2>1. dump'[w] = IF opt.dump THEN dump[w] \o Padded(blk[w], 0, HintSectors(w)) ELSE dump[w]
    BY <1>1, <1>2 DEF RunTyped
  <2> QED
    BY <1>1, <1>3, <1>10, <1>11, <2>1
<1>13. Abstract!Performed(w, AbsDone[w] + 1, e) = [file |-> f, dump |-> rest]
  BY <1>4, <1>7, <1>8, <1>11
<1> QED
  BY <1>1, <1>2, <1>4, <1>9, <1>12, <1>13, PerformsHint

\* A step at which the program exits.
LEMMA ExitImplements ==
    ASSUME RunIInv, NEW w \in Workers, DivideByZero(w) \/ FailedCall(w)
    PROVE  Abstract!GiveUp(w)
<1>1. /\ phase = "ready" /\ phase' = "exited" /\ UNCHANGED planRest
      /\ wpc' = wpc /\ hint' = hint /\ dump' = dump
  BY DEF DivideByZero, FailedCall, Replaying, planRest, runVars
<1>2. \A v \in Workers : v # w => file'[v] = file[v]
  <2>1. file' = file \/ \E data : file' = [file EXCEPT ![w] = data]
    BY DEF DivideByZero, FailedCall, runVars
  <2> QED
    BY <2>1 DEF RunIInv, RunTyped
<1>3. Workers' = Workers /\ HasPlan /\ HasPlan' /\ \A v \in Workers : PerformedBy(v)' = PerformedBy(v)
  <2>1. \A v \in Workers : PerformedBy(v)' = PerformedBy(v)
    BY <1>1, OtherPerformed
  <2> QED
    BY <1>1, <2>1 DEF Workers, planRest, HasPlan
<1>4. AbsTrace' = AbsTrace
  BY <1>1, SameTrace DEF planRest
<1>5. AbsOptions' = AbsOptions /\ AbsOrder' = AbsOrder /\ AbsDone' = AbsDone /\ AbsDump' = AbsDump
  BY <1>1, <1>3 DEF AbsOptions, AbsOrder, AbsDone, AbsDump, planRest
<1>6. \A v \in AllWorkers \ {w} : AbsFile'[v] = AbsFile[v]
  BY <1>2, <1>3 DEF AbsFile
<1>7. HasPlan' = HasPlan /\ (phase' = "exited") = TRUE /\ phase # "exited"
  BY <1>1, <1>3
<1> QED
  BY <1>3, <1>4, <1>5, <1>6, <1>7, Zenon
    DEF Abstract!GiveUp, Abstract!AllWorkers, AllWorkers,
        AbsTrace, AbsOptions, AbsOrder, AbsDone, AbsFile, AbsDump

\* The steps of a worker that perform nothing.
LEMMA WorkerInvisible ==
    ASSUME RunIInv, DoneIInv, NEW w \in Workers, OpenFiles(w) \/ PreadSome(w) \/ EndWorker(w)
    PROVE  UNCHANGED Abstract!vars
<1>1. /\ phase = "ready" /\ phase' = phase /\ UNCHANGED planRest /\ file' = file
      /\ RunTyped
  BY DEF RunIInv, OpenFiles, PreadSome, EndWorker, Replaying, planVars, planRest
<1>2. /\ dump'[w] = dump[w] /\ PerformedBy(w)' = PerformedBy(w)
      /\ \A v \in Workers : v # w =>
            wpc'[v] = wpc[v] /\ hint'[v] = hint[v] /\ dump'[v] = dump[v]
  <2>1. CASE OpenFiles(w)
    <3>1. /\ wpc[w] = "open"
          /\ wpc' = [wpc EXCEPT ![w] = "replay"] /\ hint' = [hint EXCEPT ![w] = params[w].start]
          /\ dump' = (IF opt.dump THEN [dump EXCEPT ![w] = <<>>] ELSE dump)
      BY <2>1 DEF OpenFiles
    <3>2. dump[w] = <<>>
      BY <3>1 DEF DoneIInv, Untouched
    <3>3. /\ wpc'[w] = "replay" /\ hint'[w] = params[w].start /\ dump'[w] = <<>>
          /\ \A v \in Workers : v # w =>
                wpc'[v] = wpc[v] /\ hint'[v] = hint[v] /\ dump'[v] = dump[v]
      BY <1>1, <3>1, <3>2 DEF RunTyped
    <3>4. PerformedBy(w)' = 0
      BY <1>1, <3>3, PerformedFirst
    <3>5. PerformedBy(w) = 0
      BY <3>1 DEF PerformedBy
    <3> QED
      BY <3>2, <3>3, <3>4, <3>5
  <2>2. CASE PreadSome(w)
    <3>1. wpc' = wpc /\ hint' = hint /\ dump' = dump
      BY <2>2 DEF PreadSome
    <3> QED
      BY <1>1, <3>1, OtherPerformed
  <2>3. CASE EndWorker(w)
    <3>1. /\ wpc[w] = "replay" /\ hint[w] = params[w].end
          /\ wpc' = [wpc EXCEPT ![w] = "ended"] /\ hint' = hint /\ dump' = dump
      BY <2>3 DEF EndWorker
    <3>2. wpc'[w] = "ended" /\ \A v \in Workers : v # w => wpc'[v] = wpc[v]
      BY <1>1, <3>1 DEF RunTyped
    <3>3. params[w].end \in Nat
      BY DEF RunIInv, PlanIInv, Typed
    <3>4. PerformedBy(w)' = PerformedBy(w)
      BY <1>1, <3>1, <3>2, <3>3 DEF PerformedBy, planRest
    <3> QED
      BY <3>1, <3>2, <3>4
  <2> QED
    BY <2>1, <2>2, <2>3
<1>3. \A v \in Workers : /\ PerformedBy(v)' = PerformedBy(v)
                         /\ file'[v] = file[v] /\ dump'[v] = dump[v]
  <2>1. \A v \in Workers : v # w => PerformedBy(v)' = PerformedBy(v)
    BY <1>1, <1>2, OtherPerformed
  <2> QED
    BY <1>1, <1>2, <2>1
<1>4. AbsTrace' = AbsTrace /\ opt' = opt /\ infos_map' = infos_map
  BY <1>1, SameTrace DEF planRest
<1>5. HasPlan' <=> HasPlan
  BY <1>1 DEF HasPlan
<1> QED
  BY <1>1, <1>3, <1>4, <1>5, Invisible

\* Main starts or joins a worker.
LEMMA MainInvisible ==
    ASSUME RunIInv, CreateWorker \/ JoinWorker
    PROVE  UNCHANGED Abstract!vars
<1>1. /\ phase = "ready" /\ phase' \in {"ready", "done"} /\ UNCHANGED planRest
      /\ file' = file /\ dump' = dump /\ hint' = hint
  BY DEF CreateWorker, JoinWorker, planVars, planRest
<1>2. \A w \in Workers : \/ wpc'[w] = wpc[w]
                         \/ wpc[w] = "none" /\ wpc'[w] = "open"
  <2>1. CASE CreateWorker
    <3>1. wpc' = [wpc EXCEPT ![created] = "open"] /\ created < opt.threads
      BY <2>1 DEF CreateWorker
    <3>2. created \in Workers => wpc[created] = "none"
      <4>1. created \in Nat
        BY OptFacts DEF RunIInv, RunTyped, PlanIInv, Typed
      <4> QED
        BY <4>1 DEF RunIInv, Started
    <3> QED
      BY <3>1, <3>2 DEF RunIInv, RunTyped
  <2>2. CASE JoinWorker
    BY <2>2 DEF JoinWorker
  <2> QED
    BY <2>1, <2>2
<1>3. \A w \in Workers : PerformedBy(w)' = PerformedBy(w)
  <2> TAKE w \in Workers
  <2>1. CASE wpc'[w] = wpc[w]
    BY <1>1, <2>1, OtherPerformed
  <2>2. CASE wpc[w] = "none" /\ wpc'[w] = "open"
    BY <2>2 DEF PerformedBy
  <2> QED
    BY <1>2, <2>1, <2>2
<1>4. AbsTrace' = AbsTrace /\ opt' = opt /\ infos_map' = infos_map
  BY <1>1, SameTrace DEF planRest
<1>5. HasPlan' <=> HasPlan
  BY <1>1 DEF HasPlan
<1> QED
  BY <1>1, <1>3, <1>4, <1>5, Invisible

\* The planning, up to its end.
LEMMA PlanningInvisible ==
    ASSUME RunIInv, PlanNext, phase' # "ready", UNCHANGED runVars
    PROVE  UNCHANGED Abstract!vars
<1>1. /\ opt' = opt /\ ~HasPlan /\ ~HasPlan' /\ phase # "exited" /\ phase' # "exited"
      /\ wpc' = wpc /\ file' = file /\ dump' = dump
  BY PlanFrame DEF HasPlan, PlanPhases, runVars
<1>2. \A w \in Workers : wpc[w] = "none"
  <2>1. opt \in Options /\ created = 0
    BY <1>1 DEF RunIInv, PlanIInv, Typed, Started
  <2> QED
    BY <2>1, OptFacts DEF RunIInv, Started
<1>3. \A w \in Workers : PerformedBy(w)' = PerformedBy(w)
  BY <1>1, <1>2 DEF PerformedBy
<1>4. AbsTrace' = AbsTrace
  <2>1. CASE parse_trace_info
    BY <2>1, ParseKeepsTrace DEF RunIInv, PlanIInv
  <2>2. CASE ~parse_trace_info
    <3>1. lines' = lines /\ infos' = infos
      BY <2>2 DEF PlanNext, build_trace_containers, SortContainers, AssignContainer, SortWorker,
                  SortEmptyWorker, ScanRecord, FinishWorker, Planned
    <3> QED
      BY <1>1, <3>1, SameTrace
  <2> QED
    BY <2>1, <2>2
<1> QED
  BY <1>1, <1>3, <1>4, Invisible

\* The records divided among the workers are in a good order.
LEMMA DividedWell ==
    ASSUME RunIInv, LinesRead, phase = "extract", worker = opt.threads, NEW o,
           o = [w \in AllWorkers |-> IF w \in Workers THEN infos_map[w] ELSE <<>>]
    PROVE  Abstract!GoodOrder(o)
<1>1. /\ Typed /\ Phases /\ Complete /\ MapsApart /\ InTimeOrder /\ opt \in Options
      /\ infos \in Seq(Records)
  BY DEF RunIInv, PlanIInv, Typed
<1>2. AbsTrace = infos
  BY <1>1, TraceRead DEF LinesRead
<1>3. Workers \subseteq AllWorkers
  BY <1>1, WorkersBound
<1>4. \A w \in Workers : w \in SortedWorkers
  BY <1>1, OptFacts DEF SortedWorkers
<1>5. /\ \A w \in Workers : o[w] = infos_map[w]
      /\ \A w \in AllWorkers \ Workers : o[w] = <<>> /\ DOMAIN o[w] = {}
  BY <1>3
<1>6. \A w \in AllWorkers : DOMAIN o[w] # {} => w \in Workers
  BY <1>5
<1>7. \A w \in Workers : \A p \in DOMAIN infos_map[w] :
            infos_map[w][p] \in DOMAIN infos
  <2> TAKE w \in Workers
  <2>1. infos_map[w] \in Seq(DOMAIN infos)
    BY <1>1 DEF Typed
  <2> QED
    BY <2>1
<1>8. \A n \in DOMAIN infos : \E w \in AllWorkers : \E p \in DOMAIN o[w] : o[w][p] = n
  <2> TAKE n \in DOMAIN infos
  <2>1. containers = <<>> /\ next_info = valid_lines + 1
    BY <1>1 DEF Phases
  <2>2. n \in 1 .. next_info - 1
    <3>1. Len(infos) \in Nat /\ DOMAIN infos = 1 .. Len(infos)
      BY <1>1
    <3> QED
      BY <2>1, <3>1 DEF valid_lines
  <2>3. DOMAIN containers = {}
    BY <2>1
  <2>4. PICK w \in Workers : \E p \in DOMAIN infos_map[w] : infos_map[w][p] = n
    BY <1>1, <2>2, <2>3 DEF Complete
  <2> QED
    BY <1>3, <1>5, <2>4
<1>9. ASSUME NEW v \in AllWorkers, NEW w \in AllWorkers,
             NEW p \in DOMAIN o[v], NEW q \in DOMAIN o[w],
             infos[o[v][p]].lba = infos[o[w][q]].lba
      PROVE  /\ v = w
             /\ p < q => \/ infos[o[v][p]].ts < infos[o[w][q]].ts
                         \/ infos[o[v][p]].ts = infos[o[w][q]].ts /\ o[v][p] < o[w][q]
  <2>1. v \in Workers /\ w \in Workers
    BY <1>6, <1>9
  <2>2. o[v] = infos_map[v] /\ o[w] = infos_map[w]
    BY <1>5, <2>1
  <2>3. v = w
    BY <1>1, <1>9, <2>1, <2>2 DEF MapsApart
  <2>4. w \in SortedWorkers
    BY <1>4, <2>1
  <2> QED
    BY <1>1, <1>9, <2>2, <2>3, <2>4 DEF InTimeOrder
<1>10. ASSUME NEW w \in AllWorkers, NEW p \in DOMAIN o[w], NEW q \in DOMAIN o[w], p < q
       PROVE  infos[o[w][p]].ts <= infos[o[w][q]].ts
  <2>1. w \in Workers
    BY <1>6, <1>10
  <2>2. o[w] = infos_map[w] /\ w \in SortedWorkers
    BY <1>4, <1>5, <2>1
  <2>3. PICK m, n : m = infos_map[w][p] /\ n = infos_map[w][q]
    OBVIOUS
  <2>4. infos[m].ts < infos[n].ts \/ infos[m].ts = infos[n].ts
    BY <1>1, <1>10, <2>2, <2>3 DEF InTimeOrder
  <2>5. infos[m].ts \in Nat /\ infos[n].ts \in Nat
    <3>1. m \in DOMAIN infos /\ n \in DOMAIN infos
      BY <1>7, <1>10, <2>1, <2>2, <2>3
    <3>2. infos[m] \in Records /\ infos[n] \in Records
      BY <1>1, <3>1
    <3> QED
      BY <3>2 DEF Records
  <2> QED
    BY <2>2, <2>3, <2>4, <2>5
<1>11. infos \o KeptOf(lines) = infos
  BY <1>2 DEF AbsTrace
<1> QED
  BY <1>8, <1>9, <1>10, <1>11
    DEF Abstract!GoodOrder, Abstract!Before, Abstract!AllWorkers, AllWorkers

\* The end of the planning.
LEMMA PlanImplements ==
    ASSUME RunIInv, LinesRead, Planned, UNCHANGED runVars
    PROVE  Abstract!Plan
<1>1. /\ phase = "extract" /\ worker = opt.threads /\ phase' = "ready" /\ UNCHANGED planRest
      /\ wpc' = wpc /\ file' = file /\ dump' = dump
  BY DEF Planned, planRest, runVars
<1>2. HasPlan' /\ ~HasPlan /\ Workers' = Workers
  BY <1>1 DEF HasPlan, Workers, planRest
<1>3. \A w \in Workers : wpc[w] = "none"
  <2>1. opt \in Options /\ created = 0
    BY <1>2 DEF RunIInv, PlanIInv, Typed, Started
  <2> QED
    BY <2>1, OptFacts DEF RunIInv, Started
<1>4. \A w \in Workers : PerformedBy(w)' = PerformedBy(w)
  BY <1>1, <1>3 DEF PerformedBy
<1>5. AbsTrace' = AbsTrace
  BY <1>1, SameTrace DEF planRest
<1>6. AbsOptions' = AbsOptions /\ AbsDone' = AbsDone /\ AbsFile' = AbsFile /\ AbsDump' = AbsDump
  BY <1>1, <1>2, <1>4 DEF AbsOptions, AbsDone, AbsFile, AbsDump, planRest
<1>7. Abstract!GoodOrder(AbsOrder')
  <2>1. PICK o : o = AbsOrder'
    OBVIOUS
  <2>2. o = [w \in AllWorkers |-> IF w \in Workers THEN infos_map[w] ELSE <<>>]
    BY <1>1, <1>2, <2>1 DEF AbsOrder, planRest
  <2>3. Abstract!GoodOrder(o)
    BY <1>1, <2>2, DividedWell
  <2> QED
    BY <2>1, <2>3
<1>8. HasPlan' = TRUE /\ (phase' = "exited") = (phase = "exited") /\ phase # "exited"
  BY <1>1, <1>2
<1> QED
  BY <1>2, <1>5, <1>6, <1>7, <1>8, Zenon
    DEF Abstract!Plan, AbsTrace, AbsOptions, AbsOrder, AbsDone, AbsFile, AbsDump

\* The last line is read before the containers are built.
LEMMA LinesReadStep == RunIInv /\ LinesRead /\ [Next]_vars => LinesRead'
<1> SUFFICES ASSUME RunIInv, LinesRead, [Next]_vars
             PROVE  LinesRead'
  OBVIOUS
<1>1. CASE PlanNext
  BY <1>1 DEF LinesRead, PlanNext, parse_trace_info, build_trace_containers, SortContainers,
              AssignContainer, SortWorker, SortEmptyWorker, ScanRecord, FinishWorker, Planned
<1>2. CASE UNCHANGED vars
  BY <1>2 DEF LinesRead, vars, planVars
<1>3. CASE phase = "ready" /\ HasPlan' /\ UNCHANGED planRest
  BY <1>3 DEF LinesRead, planRest
<1> QED
  BY <1>1, <1>2, <1>3, StepKinds

\* The initial states.
LEMMA InitImplements == Init => Abstract!Init
<1> SUFFICES ASSUME Init
             PROVE  Abstract!Init
  OBVIOUS
<1>1. phase = "parse" /\ ~HasPlan /\ phase # "exited"
  BY DEF Init, PlanInit, HasPlan
<1>2. AbsOrder = [w \in AllWorkers |-> <<>>]
  BY <1>1 DEF AbsOrder
<1>3. AbsDone = [w \in AllWorkers |-> 0]
  <2>1. \A w \in Workers : PerformedBy(w) = 0
    BY DEF Init, PerformedBy
  <2> QED
    BY <2>1 DEF AbsDone
<1>4. AbsDump = [w \in AllWorkers |-> <<>>]
  BY DEF Init, AbsDump
<1> QED
  BY <1>1, <1>2, <1>3, <1>4, Zenon
    DEF Abstract!Init, Abstract!AllWorkers, AllWorkers, AbsOrder, AbsDone, AbsDump

\* Every step is one of the abstract replay, or changes nothing there.
LEMMA StepImplements ==
    RunIInv /\ DoneIInv /\ LinesRead /\ [Next]_vars => [Abstract!Next]_(Abstract!vars)
<1> SUFFICES ASSUME RunIInv, DoneIInv, LinesRead, [Next]_vars
             PROVE  Abstract!Next \/ UNCHANGED Abstract!vars
  OBVIOUS
<1>1. ASSUME NEW w \in Workers, WorkerStep(w) \/ FailedCall(w)
      PROVE  Abstract!Next \/ UNCHANGED Abstract!vars
  <2>1. \/ Abstract!Perform(w) \/ Abstract!GiveUp(w)
        \/ UNCHANGED Abstract!vars
    BY <1>1, WriteImplements, ReadImplements, ExitImplements, WorkerInvisible DEF WorkerStep
  <2>2. w \in AllWorkers
    BY WorkersBound DEF RunIInv, PlanIInv, Typed
  <2> QED
    BY <2>1, <2>2 DEF Abstract!Next, Abstract!AllWorkers, AllWorkers
<1>2. CASE CreateWorker \/ JoinWorker
  BY <1>2, MainInvisible
<1>3. CASE PlanNext /\ UNCHANGED runVars
  <2>1. CASE phase' # "ready"
    BY <1>3, <2>1, PlanningInvisible
  <2>2. CASE phase' = "ready"
    <3>1. Planned
      BY <1>3, <2>2 DEF PlanNext, parse_trace_info, build_trace_containers, SortContainers,
              AssignContainer, SortWorker, SortEmptyWorker, ScanRecord, FinishWorker
    <3>2. Abstract!Plan
      BY <1>3, <3>1, PlanImplements
    <3> QED
      BY <3>2 DEF Abstract!Next
  <2> QED
    BY <2>1, <2>2
<1>4. CASE UNCHANGED vars
  <2>1. /\ UNCHANGED planRest /\ phase' = phase /\ wpc' = wpc /\ hint' = hint
        /\ file' = file /\ dump' = dump
    BY <1>4 DEF vars, planVars, runVars, planRest
  <2>2. \A w \in Workers : PerformedBy(w)' = PerformedBy(w)
    BY <2>1, OtherPerformed
  <2>3. AbsTrace' = AbsTrace /\ opt' = opt /\ infos_map' = infos_map
    BY <2>1, SameTrace DEF planRest
  <2>4. HasPlan' <=> HasPlan
    BY <2>1 DEF HasPlan
  <2> QED
    BY <2>1, <2>2, <2>3, <2>4, Invisible
<1> QED
  BY <1>1, <1>2, <1>3, <1>4, StepKinds

\* The replay with its containers, hints, buffers, partial reads and threads does
\* what the records say one after the other, each LBA with one worker: every run
\* of helper/replay.c is a run of AbstractReplay, and every step of it performs
\* whole hints, divides the records, gives up, or does not show.
THEOREM ImplementsAbstract == Spec => ImplementsSequential
<1>1. Init => LinesRead
  BY DEF Init, PlanInit, LinesRead
<1> QED
  BY <1>1, InitImplements, StepImplements, LinesReadStep, RunInductive, DoneInductive, PTL
    DEF Spec, ImplementsSequential, Abstract!Spec

----------------------------------------------------------------------------
(* How long the workers take. *)

\* The most steps that a hint of worker w takes: a pread for each sector, and
\* the dump.
HintSteps(w) == params[w].buf * BlkSectors + 1

\* A bound on the steps that worker w has still to take.
WorkLeft(w) ==
    IF wpc[w] = "ended" THEN 0
    ELSE IF wpc[w] = "replay"
         THEN (params[w].end - hint[w]) * HintSteps(w) - Len(blk[w]) + 1
         ELSE (params[w].end - params[w].start) * HintSteps(w) + 2

\* What a worker that replays has left.
LEMMA WorkFacts ==
    ASSUME RunIInv, HasPlan, NEW w \in Workers
    PROVE  /\ HintSteps(w) \in Nat \ {0} /\ WorkLeft(w) \in Nat
           /\ params[w].start \in Nat /\ params[w].end \in Nat
           /\ (params[w].end - params[w].start) * HintSteps(w) \in Nat
           /\ IsSeq(blk[w]) /\ Len(blk[w]) \in Nat /\ Len(blk[w]) < HintSteps(w)
           /\ ~Replaying(w) /\ phase = "ready" => blk[w] = <<>>
           /\ wpc[w] \in {"replay", "ended"} => hint[w] \in params[w].start .. params[w].end
<1>1. /\ PlanIInv /\ Typed /\ RunTyped /\ WithinHints /\ ReadingOf(w) /\ ReplayTypeOK
      /\ worker = opt.threads
  BY RunTypes DEF RunIInv, PlanIInv, Reading, Started
<1>2. /\ params[w].start \in Nat /\ params[w].end \in Nat /\ params[w].buf \in Nat
      /\ params[w].start < params[w].end
  <2>1. HintsRight(w)
    BY <1>1, OptFacts DEF PlanIInv, PlannedHints, PlannedWorkers, Typed
  <2> QED
    BY <1>1, <2>1 DEF HintsRight, Typed
<1>3. params[w].buf * BlkSectors \in Nat
  BY <1>2, BlkSectorsAssumption, MulNat
<1>4. IsSeq(blk[w]) /\ Len(blk[w]) \in Nat /\ Len(blk[w]) <= params[w].buf * BlkSectors
  BY <1>1 DEF RunTyped, ReplayTypeOK, IsSeq
<1>5. HintSteps(w) \in Nat \ {0} /\ Len(blk[w]) < HintSteps(w)
  BY <1>3, <1>4 DEF HintSteps
<1>6. /\ wpc[w] \in {"replay", "ended"} => hint[w] \in params[w].start .. params[w].end
      /\ ~InHint(w) => blk[w] = <<>>
      /\ wpc[w] \in {"none", "open", "replay", "ended"}
  BY <1>1 DEF WithinHints, ReadingOf, RunTyped
<1>7. (params[w].end - params[w].start) * HintSteps(w) \in Nat
  <2>1. params[w].end - params[w].start \in Nat
    BY <1>2
  <2> QED
    BY <1>5, <2>1, MulNat
<1>8. WorkLeft(w) \in Nat
  <2>1. CASE wpc[w] = "replay"
    <3>1. PICK d : d = params[w].end - hint[w]
      OBVIOUS
    <3>2. d \in Nat /\ (d = 0 <=> ~ (hint[w] < params[w].end))
      BY <1>2, <1>6, <2>1, <3>1
    <3>3. d * HintSteps(w) \in Nat
      BY <1>5, <3>2, MulNat
    <3>4. CASE d = 0
      <4>1. Len(blk[w]) = 0
        BY <1>6, <3>2, <3>4 DEF InHint
      <4> QED
        BY <2>1, <3>1, <3>3, <4>1 DEF WorkLeft
    <3>5. CASE d # 0
      <4>1. 0 * HintSteps(w) + HintSteps(w) <= d * HintSteps(w)
        BY <1>5, <3>2, <3>5, MulLess
      <4>2. 0 * HintSteps(w) = 0
        BY <1>5
      <4> QED
        BY <1>4, <1>5, <2>1, <3>1, <3>3, <4>1, <4>2 DEF WorkLeft
    <3> QED
      BY <3>4, <3>5
  <2>2. CASE wpc[w] # "replay"
    BY <1>7, <2>2 DEF WorkLeft
  <2> QED
    BY <2>1, <2>2
<1> QED
  BY <1>2, <1>4, <1>5, <1>6, <1>7, <1>8 DEF Replaying, InHint

\* The work left is counted in every state.
LEMMA WorkCounted == RunIInv /\ HasPlan => \A w \in Workers : WorkLeft(w) \in Nat
<1> QED
  BY WorkFacts

LEMMA WorkCountedNext == RunIInv' /\ HasPlan' => (\A w \in Workers : WorkLeft(w) \in Nat)'
<1> QED
  BY WorkCounted, PTL

\* A hint less is a hint's steps less.
LEMMA HintLess ==
    ASSUME NEW e \in Nat, NEW h \in Nat, h < e, NEW m \in Nat
    PROVE  (e - (h + 1)) * m + m = (e - h) * m /\ (e - (h + 1)) * m \in Nat
<1>1. PICK d : d = e - (h + 1)
  OBVIOUS
<1>2. d \in Nat /\ e - h = d + 1
  BY <1>1
<1>3. (d + 1) * m = d * m + m /\ d * m \in Nat
  BY <1>2
<1> QED
  BY <1>1, <1>2, <1>3

\* A step of worker w takes it nearer to its end.
LEMMA WorkerGoesOn ==
    ASSUME RunIInv, NEW w \in Workers, WorkerStep(w), phase' = "ready"
    PROVE  WorkLeft(w)' < WorkLeft(w)
<1>1. phase = "ready" /\ HasPlan /\ RunTyped
  BY DEF WorkerStep, OpenFiles, WriteHint, DivideByZero, PreadSome, EndRead, EndWorker,
         Replaying, HasPlan, RunIInv
<1>2. params' = params /\ HintSteps(w)' = HintSteps(w)
  BY DEF WorkerStep, OpenFiles, WriteHint, DivideByZero, PreadSome, EndRead, EndWorker,
         planVars, HintSteps
<1>3. /\ HintSteps(w) \in Nat \ {0} /\ WorkLeft(w) \in Nat
      /\ params[w].start \in Nat /\ params[w].end \in Nat
      /\ (params[w].end - params[w].start) * HintSteps(w) \in Nat
      /\ IsSeq(blk[w]) /\ Len(blk[w]) \in Nat /\ Len(blk[w]) < HintSteps(w)
      /\ ~Replaying(w) => blk[w] = <<>>
  BY <1>1, WorkFacts
<1>4. CASE OpenFiles(w)
  <2>1. wpc[w] = "open" /\ wpc'[w] = "replay" /\ hint'[w] = params[w].start /\ blk' = blk
    BY <1>1, <1>4 DEF OpenFiles, RunTyped
  <2> QED
    BY <1>2, <1>3, <2>1 DEF WorkLeft
<1>5. ASSUME Replaying(w), wpc'[w] = "replay", hint'[w] = hint[w] + 1, blk'[w] = <<>>
      PROVE  WorkLeft(w)' < WorkLeft(w)
  <2>1. hint[w] \in Nat /\ hint[w] < params[w].end /\ wpc[w] = "replay" /\ Len(blk'[w]) = 0
    BY <1>1, <1>5 DEF RunTyped, Replaying
  <2>2. /\ (params[w].end - (hint[w] + 1)) * HintSteps(w) + HintSteps(w)
              = (params[w].end - hint[w]) * HintSteps(w)
        /\ (params[w].end - (hint[w] + 1)) * HintSteps(w) \in Nat
    BY <1>3, <2>1, HintLess
  <2>3. WorkLeft(w)' = (params[w].end - (hint[w] + 1)) * HintSteps(w) + 1
    <3>1. WorkLeft(w)' = (params[w].end - (hint[w] + 1)) * HintSteps(w) - Len(blk'[w]) + 1
      BY <1>2, <1>5 DEF WorkLeft
    <3> QED
      BY <2>1, <2>2, <3>1
  <2>4. WorkLeft(w) = (params[w].end - hint[w]) * HintSteps(w) - Len(blk[w]) + 1
    BY <2>1 DEF WorkLeft
  <2> QED
    BY <1>3, <2>2, <2>3, <2>4
<1>6. CASE WriteHint(w)
  <2>1. Replaying(w) /\ IsWrite(w) /\ wpc' = wpc /\ hint'[w] = hint[w] + 1 /\ blk' = blk
    BY <1>1, <1>6 DEF WriteHint, RunTyped
  <2>2. blk[w] = <<>>
    BY <2>1, InReplay DEF ReadingOf
  <2> QED
    BY <1>5, <2>1, <2>2 DEF Replaying
<1>7. CASE EndRead(w)
  <2>1. Replaying(w) /\ wpc' = wpc /\ hint'[w] = hint[w] + 1 /\ blk'[w] = <<>>
    BY <1>1, <1>7 DEF EndRead, RunTyped
  <2> QED
    BY <1>5, <2>1 DEF Replaying
<1>8. CASE PreadSome(w)
  <2>1. Replaying(w) /\ wpc' = wpc /\ hint' = hint
    BY <1>8 DEF PreadSome
  <2>2. PICK n \in 1 .. HintSectors(w) - Len(blk[w]) :
            blk' = [blk EXCEPT ![w] = @ \o Padded(file[w], HintOffset(w) + Len(@), n)]
    BY <1>8 DEF PreadSome
  <2>3. n \in Nat \ {0}
    BY <1>3, <2>1, <2>2, InReplay
  <2>4. PICK more : more = Padded(file[w], HintOffset(w) + Len(blk[w]), n)
    OBVIOUS
  <2>5. IsSeq(more) /\ Len(more) = n
    BY <2>3, <2>4, PaddedFacts
  <2>6. blk'[w] = blk[w] \o more
    BY <1>1, <2>2, <2>4 DEF RunTyped
  <2>7. Len(blk'[w]) = Len(blk[w]) + n
    BY <1>3, <2>5, <2>6, Joined
  <2>8. PICK all : all = (params[w].end - hint[w]) * HintSteps(w)
    OBVIOUS
  <2>9. wpc[w] = "replay" /\ WorkLeft(w) = all - Len(blk[w]) + 1
        /\ WorkLeft(w)' = all - Len(blk'[w]) + 1
    BY <1>2, <2>1, <2>8 DEF WorkLeft, Replaying
  <2>10. all \in Int
    <3>1. hint[w] \in Int /\ HintSteps(w) \in Int /\ params[w].end \in Int
      BY <1>1, <1>3 DEF RunTyped
    <3> QED
      BY <2>8, <3>1
  <2>11. PICK l, m : l = Len(blk[w]) /\ m = Len(blk'[w])
    OBVIOUS
  <2>12. l \in Nat /\ m = l + n
    BY <1>3, <2>7, <2>11
  <2>13. all - m + 1 < all - l + 1
    BY <2>3, <2>10, <2>12
  <2> QED
    BY <2>9, <2>11, <2>13
<1>9. CASE EndWorker(w)
  <2>1. wpc[w] = "replay" /\ hint[w] = params[w].end /\ wpc'[w] = "ended"
    BY <1>1, <1>9 DEF EndWorker, RunTyped
  <2>2. Len(blk[w]) = 0
    BY <1>3, <2>1 DEF Replaying
  <2>3. (params[w].end - hint[w]) * HintSteps(w) = 0
    BY <1>3, <2>1
  <2> QED
    BY <2>1, <2>2, <2>3 DEF WorkLeft
<1>10. ~DivideByZero(w)
  BY DEF DivideByZero
<1> QED
  BY <1>4, <1>6, <1>7, <1>8, <1>9, <1>10 DEF WorkerStep

\* What a worker does leaves another where it is.
LEMMA OthersStay ==
    ASSUME RunIInv, NEW w \in Workers, WorkerStep(w), NEW v \in Workers, v # w
    PROVE  WorkLeft(v)' = WorkLeft(v)
<1>1. RunTyped
  BY DEF RunIInv
<1>2. params' = params /\ wpc'[v] = wpc[v] /\ hint'[v] = hint[v] /\ blk'[v] = blk[v]
  BY <1>1 DEF WorkerStep, OpenFiles, WriteHint, DivideByZero, PreadSome, EndRead, EndWorker,
              planVars, runVars, RunTyped
<1> QED
  BY <1>2 DEF WorkLeft, HintSteps

\* Nor do main and a call that fails.
LEMMA OtherStepsStay ==
    ASSUME RunIInv, [Next]_vars, phase = "ready", phase' = "ready",
           ~ \E v \in Workers : WorkerStep(v), NEW w \in Workers
    PROVE  WorkLeft(w)' = WorkLeft(w)
<1>1. CASE UNCHANGED vars
  BY <1>1 DEF vars, planVars, runVars, WorkLeft, HintSteps
<1>2. CASE CreateWorker
  <2>1. /\ params' = params /\ hint' = hint /\ blk' = blk
        /\ wpc' = [wpc EXCEPT ![created] = "open"] /\ created < opt.threads
    BY <1>2 DEF CreateWorker, planVars
  <2>2. /\ RunTyped /\ (wpc[w] = "none" <=> w >= created)
    BY DEF RunIInv, Started
  <2>3. wpc'[w] = wpc[w] \/ (wpc[w] = "none" /\ wpc'[w] = "open")
    <3>1. CASE w = created
      <4>1. w \in Nat
        BY OptFacts DEF RunIInv, PlanIInv, Typed
      <4>2. wpc[w] = "none"
        BY <2>2, <3>1, <4>1
      <4> QED
        BY <2>1, <2>2, <3>1, <4>2 DEF RunTyped
    <3>2. CASE w # created
      BY <2>1, <2>2, <3>2 DEF RunTyped
    <3> QED
      BY <3>1, <3>2
  <2> QED
    BY <2>1, <2>3 DEF WorkLeft, HintSteps
<1>3. CASE JoinWorker
  BY <1>3 DEF JoinWorker, WorkLeft, HintSteps
<1>4. ~ \E v \in Workers : FailedCall(v)
  BY DEF FailedCall
<1>5. ~ PlanNext
  BY PlanFrame
<1> QED
  BY <1>1, <1>2, <1>3, <1>4, <1>5 DEF Next, MainStep

\* While the process lives no step takes a worker back, and its own steps take
\* it nearer to its end.
WorkersAdvance ==
    [][phase = "ready" /\ phase' = "ready" =>
        \A w \in Workers :
            /\ WorkLeft(w) \in Nat
            /\ WorkLeft(w)' <= WorkLeft(w)
            /\ WorkerStep(w) => WorkLeft(w)' < WorkLeft(w)]_vars

\* The loops of replay_worker end (replay.c:434-506), however short its preads
\* are: a worker takes at most a step for each sector of its longest hint and
\* one more, for each of its hints, and two for the loop itself.
THEOREM WorkersRunOut == Spec => WorkersAdvance
<1>1. ASSUME RunIInv, [Next]_vars, phase = "ready", phase' = "ready", NEW w \in Workers
      PROVE  /\ WorkLeft(w) \in Nat
             /\ WorkLeft(w)' <= WorkLeft(w)
             /\ WorkerStep(w) => WorkLeft(w)' < WorkLeft(w)
  <2>1. WorkLeft(w) \in Nat
    BY <1>1, WorkFacts DEF HasPlan
  <2>2. CASE ~ \E v \in Workers : WorkerStep(v)
    <3>1. WorkLeft(w)' = WorkLeft(w)
      BY <1>1, <2>2, OtherStepsStay
    <3> QED
      BY <2>1, <2>2, <3>1
  <2>3. CASE WorkerStep(w)
    <3>1. WorkLeft(w)' < WorkLeft(w)
      BY <1>1, <2>3, WorkerGoesOn
    <3>2. WorkLeft(w)' \in Nat
      <4>1. RunIInv' /\ HasPlan' /\ w \in Workers'
        <5>1. opt' = opt
          BY <2>3 DEF WorkerStep, OpenFiles, WriteHint, DivideByZero, PreadSome, EndRead,
                      EndWorker, planVars
        <5> QED
          BY <1>1, <5>1, RunStep DEF HasPlan, Workers
      <4> QED
        BY <4>1, WorkCountedNext
    <3> QED
      BY <2>1, <3>1, <3>2
  <2>4. ASSUME NEW v \in Workers, WorkerStep(v), ~WorkerStep(w)
        PROVE  WorkLeft(w)' <= WorkLeft(w)
    <3>1. WorkLeft(w)' = WorkLeft(w)
      BY <1>1, <2>4, OthersStay
    <3> QED
      BY <2>1, <3>1
  <2> QED
    BY <2>1, <2>2, <2>3, <2>4
<1>2. RunIInv /\ [Next]_vars =>
        [phase = "ready" /\ phase' = "ready" =>
            \A w \in Workers :
                /\ WorkLeft(w) \in Nat
                /\ WorkLeft(w)' <= WorkLeft(w)
                /\ WorkerStep(w) => WorkLeft(w)' < WorkLeft(w)]_vars
  BY <1>1
<1> QED
  BY <1>2, RunInductive, PTL DEF Spec, WorkersAdvance

\* What a step of worker w needs.
CanStep(w) ==
    \/ wpc[w] = "open"
    \/ wpc[w] = "replay" /\ hint[w] = params[w].end
    \/ /\ Replaying(w)
       /\ \/ IsWrite(w)
          \/ Len(blk[w]) = HintSectors(w) \/ Available(w) <= 0
          \/ \E n \in 1 .. HintSectors(w) - Len(blk[w]) : n <= Available(w)

\* Main has a worker to start or to wait for, and the one it waits for has
\* ended or can go on.
NobodyWaitsInVain ==
    phase = "ready" =>
        \/ created < opt.threads
        \/ joined < opt.threads /\ (wpc[joined] = "ended" \/ CanStep(joined))

\* Main is ready only while it has workers to join.
JoiningLeft == phase = "ready" => joined < opt.threads

LEMMA JoiningStep == RunIInv /\ JoiningLeft /\ [Next]_vars => JoiningLeft'
<1> SUFFICES ASSUME RunIInv, JoiningLeft, [Next]_vars
             PROVE  JoiningLeft'
  OBVIOUS
<1>1. opt \in Options /\ opt.threads \in Nat \ {0} /\ Started /\ RunTyped
  BY OptFacts DEF RunIInv, PlanIInv, Typed
<1>2. CASE PlanNext /\ UNCHANGED runVars
  <2>1. opt' = opt /\ joined' = joined /\ phase \in PlanPhases \ {"ready", "fault"}
    BY <1>2, PlanFrame DEF runVars
  <2>2. joined = 0
    BY <1>1, <2>1 DEF Started, HasPlan, PlanPhases
  <2> QED
    BY <1>1, <2>1, <2>2 DEF JoiningLeft
<1>3. CASE UNCHANGED vars
  BY <1>3 DEF vars, planVars, runVars, JoiningLeft
<1>4. CASE CreateWorker
  BY <1>4 DEF CreateWorker, planVars, JoiningLeft
<1>5. CASE JoinWorker
  <2>1. /\ joined' = joined + 1 /\ joined < opt.threads /\ opt' = opt
        /\ phase' = IF joined + 1 = opt.threads THEN "done" ELSE phase
    BY <1>5 DEF JoinWorker
  <2>2. joined \in Nat
    BY <1>1 DEF RunTyped
  <2> QED
    BY <1>1, <2>1, <2>2 DEF JoiningLeft
<1>6. ASSUME NEW w \in Workers, WorkerStep(w) \/ FailedCall(w)
      PROVE  JoiningLeft'
  <2>1. phase = "ready" /\ joined' = joined /\ opt' = opt
    BY <1>6 DEF WorkerStep, FailedCall, OpenFiles, WriteHint, DivideByZero, PreadSome, EndRead,
                EndWorker, Replaying, planVars, runVars
  <2> QED
    BY <2>1 DEF JoiningLeft
<1> QED
  BY <1>2, <1>3, <1>4, <1>5, <1>6, StepKinds

\* No worker waits for data that its file does not have, and main waits for no
\* worker that it has not started: in every reachable state before the end one
\* of them can go on (replay.c:495-505, 957-967).
THEOREM NobodyWaits == Spec => []NobodyWaitsInVain
<1>1. ASSUME RunIInv, JoiningLeft, phase = "ready", ~ (created < opt.threads)
      PROVE  joined < opt.threads /\ (wpc[joined] = "ended" \/ CanStep(joined))
  <2>1. /\ opt.threads \in Nat \ {0} /\ Started /\ RunTyped /\ WithinHints
        /\ joined < opt.threads
    BY <1>1, OptFacts DEF RunIInv, PlanIInv, Typed, JoiningLeft
  <2>2. created = opt.threads /\ joined \in Nat /\ joined \in Workers
    BY <1>1, <2>1 DEF RunTyped, Workers
  <2>3. PICK w \in Workers : w = joined
    BY <2>2
  <2>4. wpc[w] \in {"open", "replay", "ended"}
    BY <2>1, <2>2, <2>3 DEF Started, RunTyped
  <2>5. ASSUME wpc[w] = "replay", hint[w] # params[w].end
        PROVE  CanStep(w)
    <3>1. Replaying(w)
      <4>1. hint[w] \in params[w].start .. params[w].end
            /\ params[w].start \in Nat /\ params[w].end \in Nat
        BY <1>1, <2>1, <2>5, WorkFacts DEF HasPlan
      <4>2. hint[w] < params[w].end
        BY <2>5, <4>1
      <4> QED
        BY <1>1, <2>5, <4>2 DEF Replaying
    <3>2. /\ Len(file[w]) \in Nat /\ Len(blk[w]) \in Nat
          /\ HintOffset(w) \in Nat /\ HintSectors(w) \in Nat
      BY <1>1, <3>1, InReplay
    <3>3. Available(w) \in Int
      BY <3>2 DEF Available
    <3>4. ASSUME ~IsWrite(w), Len(blk[w]) # HintSectors(w), ~ (Available(w) <= 0)
          PROVE  1 \in 1 .. HintSectors(w) - Len(blk[w]) /\ 1 <= Available(w)
      <4>1. Len(blk[w]) <= HintSectors(w)
        BY <1>1, <3>1, <3>4, InReplay DEF ReadingOf
      <4> QED
        BY <3>2, <3>3, <3>4, <4>1
    <3> QED
      BY <3>1, <3>4 DEF CanStep
  <2> QED
    BY <2>1, <2>3, <2>4, <2>5 DEF CanStep
<1>2. RunIInv /\ JoiningLeft => NobodyWaitsInVain
  BY <1>1 DEF NobodyWaitsInVain
<1>3. Init => JoiningLeft
  BY DEF Init, PlanInit, JoiningLeft
<1> QED
  BY <1>2, <1>3, JoiningStep, RunInductive, PTL DEF Spec
=============================================================================

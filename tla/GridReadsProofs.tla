-------------------------- MODULE GridReadsProofs --------------------------
(***************************************************************************)
(* Theorems about GridReads, for any grids, boxes, sizes of images, points *)
(* and missing cells: what is read is the right part of the grid, the      *)
(* answer to a point query is near the point, and images and areas are     *)
(* made of what is near their places and leave nothing out.                *)
(***************************************************************************)
EXTENDS GridReads, FiniteSetsExt, FiniteSetTheorems, WellFoundedInduction, TLAPS

-----------------------------------------------------------------------------
(* Whole numbers *)

\* Division with remainder.
LEMMA DivMod ==
    ASSUME NEW a \in Int, NEW d \in Nat \ {0}
    PROVE  /\ a \div d \in Int /\ a % d \in 0 .. d - 1
           /\ a = d * (a \div d) + (a % d)
OBVIOUS

\* What leaves no remainder is a multiple.
LEMMA Multiple ==
    ASSUME NEW a \in Int, NEW d \in Nat \ {0}, a % d = 0
    PROVE  a \div d \in Int /\ a = d * (a \div d)
BY DivMod

\* Products with a natural keep the order, and the order of products is theirs.
LEMMA TimesMonotone ==
    ASSUME NEW d \in Nat, NEW a \in Int, NEW b \in Int, a <= b
    PROVE  d * a <= d * b
OBVIOUS

LEMMA TimesLess ==
    ASSUME NEW d \in Nat \ {0}, NEW a \in Int, NEW b \in Int, d * a < d * b
    PROVE  a < b
OBVIOUS

\* Quotient and remainder are the only such pair.
LEMMA Quotient ==
    ASSUME NEW d \in Nat \ {0}, NEW q \in Int, NEW r \in 0 .. d - 1
    PROVE  (d * q + r) \div d = q /\ (d * q + r) % d = r
OBVIOUS

\* Later times are in later folders, or the same.
LEMMA DivMonotone ==
    ASSUME NEW d \in Nat \ {0}, NEW a \in Int, NEW b \in Int, a <= b
    PROVE  a \div d <= b \div d
OBVIOUS

\* The quotient is the greatest number of times that d goes into a.
LEMMA DivGreatest ==
    ASSUME NEW d \in Nat \ {0}, NEW a \in Int
    PROVE  /\ d * (a \div d) <= a
           /\ \A q \in Int : d * q <= a => q <= a \div d
           /\ a >= 0 => a \div d \in Nat
<1>1. a \div d \in Int /\ d * (a \div d) <= a /\ a < d * ((a \div d) + 1)
  OBVIOUS
<1>2. ASSUME NEW q \in Int, d * q <= a
      PROVE  q <= a \div d
  <2>1. d * q < d * ((a \div d) + 1)
    BY <1>1, <1>2
  <2> QED
    BY <1>1, <2>1, TimesLess
<1>3. a >= 0 => a \div d \in Nat
  <2>1. d * 0 <= a => 0 <= a \div d
    BY <1>2
  <2> QED
    BY <1>1, <2>1
<1> QED
  BY <1>1, <1>2, <1>3

\* So many folders on, at the same place in it.
LEMMA DivShift ==
    ASSUME NEW d \in Nat \ {0}, NEW a \in Int, NEW k \in Int
    PROVE  (a + d * k) \div d = a \div d + k /\ (a + d * k) % d = a % d
<1> DEFINE q == a \div d
           r == a % d
<1>1. q \in Int /\ r \in 0 .. d - 1 /\ a = d * q + r
  BY DivMod
<1> HIDE DEF q, r
<1>2. a + d * k = d * (q + k) + r
  BY <1>1
<1>3. q + k \in Int
  BY <1>1
<1>4. (a + d * k) \div d = q + k /\ (a + d * k) % d = r
  BY <1>1, <1>2, <1>3, Quotient
<1> QED
  BY <1>4 DEF q, r

\* A set of naturals has a least element, a bounded one a greatest: Min and Max
\* are what their names say.
LEMMA LeastOf ==
    ASSUME NEW S \in SUBSET Nat, S # {}
    PROVE  Min(S) \in S /\ \A u \in S : Min(S) <= u
<1>1. PICK x \in S : \A y \in S : ~(<<y, x>> \in OpToRel(<, Nat))
  BY WFMin, NatLessThanWellFounded, Zenon
<1>2. \A y \in S : x <= y
  <2>1. SUFFICES ASSUME NEW y \in S
                 PROVE  x <= y
    OBVIOUS
  <2>2. x \in Nat /\ y \in Nat
    OBVIOUS
  <2>3. ~(y < x)
    BY <1>1, <2>2 DEF OpToRel
  <2> QED
    BY <2>2, <2>3
<1> QED
  BY <1>2, Zenon DEF Min

LEMMA GreatestOf ==
    ASSUME NEW n \in Nat, NEW S \in SUBSET (0 .. n), S # {}
    PROVE  Max(S) \in S /\ \A u \in S : u <= Max(S)
<1> DEFINE Left == {n - t : t \in S}
<1>1. \A t \in S : t \in Int /\ n - t \in Nat
  OBVIOUS
<1>2. Left \in SUBSET Nat /\ Left # {}
  BY <1>1
<1>3. PICK x \in Left : \A y \in Left : x <= y
  BY <1>2, LeastOf
<1>4. PICK t \in S : x = n - t
  BY <1>3
<1>5. \A u \in S : u <= t
  BY <1>1, <1>3, <1>4
<1> QED
  BY <1>1, <1>5 DEF Max

-----------------------------------------------------------------------------
(* Regions *)

\* The numbers of a grid at one of its levels.
LEMMA GridNumbers ==
    ASSUME NEW g \in Grids, NEW l \in Levels(g)
    PROVE  /\ g.box \in BoxType /\ g.box.minLon < g.box.maxLon /\ g.box.minLat < g.box.maxLat
           /\ Shape(g, l)[1] \in Nat \ {0} /\ Shape(g, l)[2] \in Nat \ {0}
           /\ g.chunk[1] \in Nat \ {0} /\ g.chunk[2] \in Nat \ {0}
           /\ Resolution(g, l)[1] \in Nat \ {0} /\ Resolution(g, l)[2] \in Nat \ {0}
           /\ Span(g.box)[1] \in Nat /\ Span(g.box)[1] = Shape(g, l)[1] * Resolution(g, l)[1]
           /\ Span(g.box)[2] \in Nat /\ Span(g.box)[2] = Shape(g, l)[2] * Resolution(g, l)[2]
<1>1. g.box \in BoxType /\ g.box.minLon < g.box.maxLon /\ g.box.minLat < g.box.maxLat
  BY GridsAssumption DEF IsBox
<1>2. \A i \in 1 .. 2 : /\ Shape(g, l)[i] \in Nat \ {0} /\ g.chunk[i] \in Nat \ {0}
                        /\ Span(g.box)[i] % Shape(g, l)[i] = 0
  BY GridsAssumption
<1>3. Span(g.box)[1] \in Nat \ {0} /\ Span(g.box)[2] \in Nat \ {0}
  BY <1>1 DEF Span, BoxType
<1>4. ASSUME NEW a \in Nat \ {0}, NEW d \in Nat \ {0}, a % d = 0
      PROVE  a \div d \in Nat \ {0} /\ a = d * (a \div d)
  <2>1. a \div d \in Nat /\ a = d * (a \div d)
    BY <1>4, Multiple, DivGreatest
  <2>2. a \div d # 0
    BY <1>4, <2>1
  <2> QED
    BY <2>1, <2>2
<1>5. /\ Resolution(g, l)[1] = Span(g.box)[1] \div Shape(g, l)[1]
      /\ Resolution(g, l)[2] = Span(g.box)[2] \div Shape(g, l)[2]
  BY DEF Resolution
<1>6. /\ Shape(g, l)[1] \in Nat \ {0} /\ Span(g.box)[1] % Shape(g, l)[1] = 0
      /\ Shape(g, l)[2] \in Nat \ {0} /\ Span(g.box)[2] % Shape(g, l)[2] = 0
      /\ g.chunk[1] \in Nat \ {0} /\ g.chunk[2] \in Nat \ {0}
  BY <1>2
<1>7. /\ Resolution(g, l)[1] \in Nat \ {0}
      /\ Span(g.box)[1] = Shape(g, l)[1] * Resolution(g, l)[1]
  BY <1>3, <1>4, <1>5, <1>6
<1>8. /\ Resolution(g, l)[2] \in Nat \ {0}
      /\ Span(g.box)[2] = Shape(g, l)[2] * Resolution(g, l)[2]
  BY <1>3, <1>4, <1>5, <1>6
<1> QED
  BY <1>1, <1>3, <1>6, <1>7, <1>8

\* Where a chunk that covers a cell has it, there it is.
LEMMA InChunk ==
    ASSUME NEW g \in Grids, NEW l \in Levels(g), NEW k \in Int \X Int,
           NEW col \in Int, NEW row \in Int, Covers(g, l, k, col, row)
    PROVE  LET at == IndexIn(g, l, k, col, row)
           IN  /\ at \in DOMAIN ReadChunk(g, l, k)
               /\ ReadChunk(g, l, k)[at] = Stored(g, l, col, row)
<1> DEFINE start == ChunkStart(g, k)
           size == ChunkSize(g, l, k)
           x == col - start[1]
           y == row - start[2]
           at == IndexIn(g, l, k, col, row)
<1>1. /\ g.chunk[1] \in Nat \ {0} /\ g.chunk[2] \in Nat \ {0}
      /\ Shape(g, l)[1] \in Nat \ {0} /\ Shape(g, l)[2] \in Nat \ {0}
  BY GridNumbers
<1>2. start[1] \in Int /\ start[2] \in Int
  BY <1>1 DEF ChunkStart
<1> HIDE DEF start
<1>3. size[1] \in Int /\ size[2] \in Int
  BY <1>1, <1>2 DEF ChunkSize, Smaller, start
<1> HIDE DEF size
<1>4. /\ col \in start[1] .. start[1] + size[1] - 1
      /\ row \in start[2] .. start[2] + size[2] - 1
  BY DEF Covers, start, size
<1>5. x \in 0 .. size[1] - 1 /\ y \in 0 .. size[2] - 1
  BY <1>2, <1>3, <1>4
<1>6. size[1] \in Nat \ {0} /\ size[2] \in Nat \ {0}
  BY <1>3, <1>5
<1>7. at = size[1] * y + x
  <2>1. at = y * size[1] + x
    BY DEF IndexIn, start, size
  <2> HIDE DEF x, y, at
  <2> QED
    BY <1>3, <1>5, <2>1
<1>8. col = start[1] + x /\ row = start[2] + y
  BY <1>2
<1> HIDE DEF x, y, at
<1>9. at % size[1] = x /\ at \div size[1] = y
  <2>1. size[1] \in Nat \ {0} /\ y \in Int /\ x \in 0 .. size[1] - 1
    BY <1>5, <1>6
  <2>2. (size[1] * y + x) \div size[1] = y /\ (size[1] * y + x) % size[1] = x
    BY <2>1, Quotient
  <2> QED
    BY <1>7, <2>2
<1>10. at \in 0 .. size[1] * size[2] - 1
  <2>1. size[1] * (y + 1) <= size[1] * size[2] /\ 0 <= size[1] * y
    BY <1>5, <1>6
  <2>2. size[1] * (y + 1) = size[1] * y + size[1] /\ size[1] * y \in Int /\ size[1] * size[2] \in Int
    BY <1>5, <1>6
  <2> QED
    BY <1>5, <1>6, <1>7, <2>1, <2>2
<1>11. ReadChunk(g, l, k) = [i \in 0 .. size[1] * size[2] - 1 |->
           Stored(g, l, start[1] + (i % size[1]), start[2] + (i \div size[1]))]
  BY DEF ReadChunk, start, size
<1>12. /\ at \in DOMAIN ReadChunk(g, l, k)
       /\ ReadChunk(g, l, k)[at] = Stored(g, l, start[1] + x, start[2] + y)
  BY <1>9, <1>10, <1>11, Zenon
<1> QED
  BY <1>8, <1>12 DEF at

\* Some chunk covers a cell of the level: the one at its place.
LEMMA OwnChunk ==
    ASSUME NEW g \in Grids, NEW l \in Levels(g),
           NEW col \in 0 .. Shape(g, l)[1] - 1, NEW row \in 0 .. Shape(g, l)[2] - 1
    PROVE  /\ <<col \div g.chunk[1], row \div g.chunk[2]>> \in Int \X Int
           /\ Covers(g, l, <<col \div g.chunk[1], row \div g.chunk[2]>>, col, row)
<1> DEFINE k == <<col \div g.chunk[1], row \div g.chunk[2]>>
           start == ChunkStart(g, k)
           size == ChunkSize(g, l, k)
<1>1. /\ g.chunk[1] \in Nat \ {0} /\ g.chunk[2] \in Nat \ {0}
      /\ Shape(g, l)[1] \in Nat \ {0} /\ Shape(g, l)[2] \in Nat \ {0}
  BY GridNumbers
<1>2. ASSUME NEW d \in Nat \ {0}, NEW s \in Nat \ {0}, NEW c \in 0 .. s - 1
      PROVE  /\ c \div d \in Int
             /\ c \in (c \div d) * d .. (c \div d) * d + Smaller(d, s - (c \div d) * d) - 1
  <2>1. c \div d \in Int /\ c % d \in 0 .. d - 1 /\ c = d * (c \div d) + (c % d)
    <3>1. c \in Int
      OBVIOUS
    <3> QED
      BY <3>1, DivMod
  <2>2. PICK q \in Int : q = c \div d
    BY <2>1
  <2>3. q * d \in Int /\ c - q * d \in 0 .. d - 1
    BY <2>1, <2>2
  <2> QED
    BY <2>2, <2>3 DEF Smaller
<1>3. col \in start[1] .. start[1] + size[1] - 1
  <2>1. /\ start[1] = (col \div g.chunk[1]) * g.chunk[1]
        /\ size[1] = Smaller(g.chunk[1], Shape(g, l)[1] - start[1])
    BY DEF ChunkStart, ChunkSize
  <2> HIDE DEF start, size
  <2> QED
    BY <1>1, <1>2, <2>1
<1>4. row \in start[2] .. start[2] + size[2] - 1
  <2>1. /\ start[2] = (row \div g.chunk[2]) * g.chunk[2]
        /\ size[2] = Smaller(g.chunk[2], Shape(g, l)[2] - start[2])
    BY DEF ChunkStart, ChunkSize
  <2> HIDE DEF start, size
  <2> QED
    BY <1>1, <1>2, <2>1
<1>5. col \div g.chunk[1] \in Int /\ row \div g.chunk[2] \in Int
  BY <1>1, <1>2
<1> QED
  BY <1>3, <1>4, <1>5 DEF Covers

-----------------------------------------------------------------------------
(* Points *)

\* The native level is the grid's own.
LEMMA Native ==
    ASSUME NEW g \in Grids
    PROVE  /\ 0 \in Levels(g)
           /\ Shape(g, 0)[1] = g.shape[1] /\ Shape(g, 0)[2] = g.shape[2]
           /\ g.shape[1] \in Nat \ {0} /\ g.shape[2] \in Nat \ {0}
           /\ \A col, row \in Int : Stored(g, 0, col, row) = {<<col, row>>} \ g.missing
<1>1. 0 \in Levels(g)
  BY DEF Levels
<1>2. g.shape[1] \in Nat /\ g.shape[2] \in Nat
  BY <1>1, GridsAssumption
<1>3. 2^0 = 1
  OBVIOUS
<1>4. Shape(g, 0)[1] = g.shape[1] /\ Shape(g, 0)[2] = g.shape[2]
  BY <1>2, <1>3 DEF Shape
<1>5. ASSUME NEW col \in Int, NEW row \in Int
      PROVE  Stored(g, 0, col, row) = {<<col, row>>} \ g.missing
  <2>1. \A i \in Int : i * 2^0 .. i * 2^0 + 2^0 - 1 = {i}
    BY <1>3
  <2>2. Stored(g, 0, col, row) = ({col} \X {row}) \ g.missing
    BY <2>1 DEF Stored
  <2> QED
    BY <2>2
<1> QED
  BY <1>1, <1>2, <1>4, <1>5, GridNumbers

\* What is read for a cell is its value.
LEMMA SingleCell ==
    ASSUME NEW g \in Grids, NEW col \in Nat, NEW row \in Nat
    PROVE  Single(g, col, row) = IF col < g.shape[1] /\ row < g.shape[2]
                                 THEN {<<col, row>>} \ g.missing ELSE {}
<1>1. /\ 0 \in Levels(g) /\ Shape(g, 0)[1] = g.shape[1] /\ Shape(g, 0)[2] = g.shape[2]
      /\ g.shape[1] \in Nat \ {0} /\ g.shape[2] \in Nat \ {0}
      /\ Stored(g, 0, col, row) = {<<col, row>>} \ g.missing
  BY Native
<1>2. CASE col < g.shape[1] /\ row < g.shape[2]
  <2> DEFINE k == <<col \div g.chunk[1], row \div g.chunk[2]>>
             at == IndexIn(g, 0, k, col, row)
  <2>1. col \in 0 .. Shape(g, 0)[1] - 1 /\ row \in 0 .. Shape(g, 0)[2] - 1
    BY <1>1, <1>2
  <2>2. k \in Int \X Int /\ Covers(g, 0, k, col, row)
    BY <1>1, <2>1, OwnChunk
  <2>3. /\ at \in DOMAIN ReadChunk(g, 0, k)
        /\ ReadChunk(g, 0, k)[at] = Stored(g, 0, col, row)
    BY <1>1, <2>2, InChunk
  <2>4. ~(col >= g.shape[1]) /\ ~(row >= g.shape[2])
    BY <1>1, <1>2
  <2>5. Single(g, col, row) = ReadChunk(g, 0, k)[at]
    BY <2>3, <2>4, Zenon DEF Single
  <2> QED
    BY <1>1, <1>2, <2>3, <2>5
<1>3. CASE ~(col < g.shape[1] /\ row < g.shape[2])
  <2>1. col >= g.shape[1] \/ row >= g.shape[2]
    BY <1>1, <1>3
  <2> QED
    BY <1>3, <2>1, Zenon DEF Single
<1> QED
  BY <1>2, <1>3

\* A cell that is no farther than one step before or after a place is within
\* two steps as cells stand: one less than there are fill the whole box.
LEMMA StepNear ==
    ASSUME NEW w \in Nat \ {0}, NEW r \in Nat \ {0}, NEW a \in 0 .. w * r,
           NEW n \in Int, n * r - a \in -r .. r
    PROVE  n * (w * r) - (w - 1) * a \in -(2 * (w * r)) .. 2 * (w * r)
<1>1. PICK e \in -r .. r : e = n * r - a
  OBVIOUS
<1>2. a \in Int /\ w * r \in Nat /\ w * e \in Int /\ w * a \in Int /\ n * (w * r) \in Int
      /\ 0 <= a /\ a <= w * r
  OBVIOUS
<1>3. w * e <= w * r /\ -(w * r) <= w * e
  <2>1. -r <= e /\ e <= r /\ -r \in Int /\ e \in Int /\ r \in Int
    OBVIOUS
  <2>2. w * (-r) <= w * e /\ w * e <= w * r
    BY <2>1, TimesMonotone
  <2> QED
    BY <2>2
<1>4. n * (w * r) - (w - 1) * a = w * e + a
  <2>1. n * r = e + a
    BY <1>1, <1>2
  <2>2. n * (w * r) = w * (e + a)
    <3>1. n * (w * r) = w * (n * r)
      OBVIOUS
    <3> QED
      BY <2>1, <3>1
  <2>3. w * (e + a) = w * e + w * a /\ (w - 1) * a = w * a - a
    BY <1>1, <1>2
  <2> QED
    BY <1>2, <2>2, <2>3
<1> QED
  BY <1>2, <1>3, <1>4

\* The cell before a place, the one after it and the nearest one; and when the
\* nearest is the one after the last, for a place that is on a cell.
LEMMA Steps ==
    ASSUME NEW w \in Nat \ {0}, NEW r \in Nat \ {0}, NEW a \in 0 .. w * r
    PROVE  /\ a \div r \in Nat /\ (2 * a + r) \div (2 * r) \in Nat
           /\ a \div r <= w /\ (a \div r = w => a = w * r)
           /\ \A n \in {a \div r, a \div r + 1, (2 * a + r) \div (2 * r)} :
                  n * (w * r) - (w - 1) * a \in -(2 * (w * r)) .. 2 * (w * r)
           /\ \A s \in Nat \ {0} :
                  /\ 2 * s <= r /\ (a % r < s \/ a % r > r - s)
                  /\ (2 * a + r) \div (2 * r) >= w
                  => w * r - a < s
<1>1. a \in Nat /\ w * r \in Nat /\ a <= w * r
  OBVIOUS
<1>2. PICK q \in Int, m \in 0 .. r - 1 : q = a \div r /\ m = a % r /\ a = r * q + m
  BY <1>1, DivMod
<1>3. PICK n \in Int, k \in 0 .. 2 * r - 1 :
          n = (2 * a + r) \div (2 * r) /\ 2 * a + r = (2 * r) * n + k
  <2>1. 2 * a + r \in Int /\ 2 * r \in Nat \ {0}
    BY <1>1
  <2> QED
    BY <2>1, DivMod
<1>4. q \in Nat /\ n \in Nat
  <2>1. 2 * a + r \in Int /\ 2 * a + r >= 0 /\ 2 * r \in Nat \ {0} /\ a \in Int /\ a >= 0
    BY <1>1
  <2> QED
    BY <1>2, <1>3, <2>1, DivGreatest
<1>5. q <= w /\ (q = w => a = w * r)
  <2>1. r * q \in Int /\ r * q <= a
    BY <1>1, <1>2
  <2>2. r * w = w * r
    OBVIOUS
  <2>3. r * q < r * (w + 1)
    BY <1>1, <2>1, <2>2
  <2>4. q < w + 1
    BY <1>2, <2>3, TimesLess
  <2> QED
    BY <1>1, <1>2, <2>1, <2>2, <2>4
<1>6. n * r \in Int /\ 2 * (n * r - a) = r - k /\ (q + 1) * r - a = r - m /\ q * r - a = -m
  <2>1. n * r \in Int /\ (2 * r) * n = 2 * (n * r)
    BY <1>3
  <2>2. (q + 1) * r = q * r + r /\ q * r = r * q /\ q * r \in Int
    BY <1>2
  <2> QED
    BY <1>1, <1>2, <1>3, <2>1, <2>2
<1>7. ASSUME NEW i \in {q, q + 1, n}
      PROVE  i * (w * r) - (w - 1) * a \in -(2 * (w * r)) .. 2 * (w * r)
  <2>1. i \in Int
    BY <1>2, <1>3
  <2>2. i * r - a \in -r .. r
    BY <1>1, <1>2, <1>3, <1>6
  <2> QED
    BY <2>1, <2>2, StepNear
<1>8. ASSUME NEW s \in Nat \ {0}, 2 * s <= r, m < s \/ m > r - s, n >= w
      PROVE  w * r - a < s
  <2>1. PICK d \in Int : d = w * r - a
    BY <1>1
  <2>2. r * w <= r * n /\ r * w = w * r /\ r * n = n * r
    BY <1>3, <1>8, TimesMonotone
  <2>3. 0 <= d /\ 2 * d <= r
    BY <1>1, <1>3, <1>6, <2>1, <2>2
  <2>4. CASE d = 0
    BY <2>1, <2>4
  <2>5. CASE d # 0
    <3>1. r * (w - 1) = w * r - r
      OBVIOUS
    <3>2. a = r * (w - 1) + (r - d) /\ w - 1 \in Int /\ r - d \in 0 .. r - 1
      BY <1>1, <2>1, <2>3, <2>5, <3>1
    <3>3. a % r = r - d
      BY <3>2, Quotient
    <3> QED
      BY <1>2, <1>8, <2>1, <2>3, <3>3
  <2> QED
    BY <2>4, <2>5
<1> QED
  BY <1>2, <1>3, <1>4, <1>5, <1>7, <1>8

\* The first cell of a grid that goes round is near what lies after the last.
LEMMA RoundNear ==
    ASSUME NEW w \in Nat \ {0}, NEW r \in Nat \ {0}, NEW a \in 0 .. w * r,
           NEW c \in Nat, w * r <= c, (w - 1) * (c - w * r) <= w * r, w - 1 <= a \div r
    PROVE  0 * (w * r) - (w - 1) * (a - c) \in -(2 * (w * r)) .. 2 * (w * r)
<1>1. PICK t \in Nat : t = w * r
  OBVIOUS
<1>2. a \in Int /\ a <= t /\ w - 1 \in Nat /\ 0 * (w * r) = 0
  BY <1>1
<1>3. t - r <= a
  <2>1. PICK q \in Int : r * (w - 1) <= r * q /\ r * q <= a
    <3>1. a \div r \in Int /\ w - 1 \in Int
      BY <1>2, DivMod
    <3> QED
      BY <1>2, <3>1, TimesMonotone, DivGreatest
  <2>2. r * (w - 1) = t - r
    BY <1>1
  <2> QED
    BY <1>1, <1>2, <2>1, <2>2
<1>4. PICK u \in Int : u = (w - 1) * (c - t) /\ u >= 0 /\ u <= t
  BY <1>1, <1>2, TimesMonotone
<1>5. PICK v \in Int : v = (w - 1) * (t - a) /\ v >= 0 /\ v <= t
  <2>1. t - a \in 0 .. r
    BY <1>1, <1>2, <1>3
  <2>2. (w - 1) * (t - a) <= (w - 1) * r /\ (w - 1) * 0 <= (w - 1) * (t - a)
    BY <1>2, <2>1, TimesMonotone
  <2>3. (w - 1) * r = t - r
    BY <1>1
  <2> QED
    BY <1>1, <1>2, <2>1, <2>2, <2>3
<1>6. (w - 1) * (a - c) = -(u + v)
  <2>1. a - c = -((c - t) + (t - a))
    BY <1>1, <1>2
  <2> QED
    BY <1>1, <1>2, <1>4, <1>5, <2>1
<1> QED
  BY <1>1, <1>2, <1>4, <1>5, <1>6

\* Gaps that differ by little are near.
LEMMA DistanceWithin ==
    ASSUME NEW a \in Int, NEW b \in Int, NEW k \in Int, a - b \in -k .. k
    PROVE  Distance(a, b) <= k
BY DEF Distance

LEMMA LonNear ==
    ASSUME NEW g \in Grids, NEW x \in Int, NEW y \in Int, NEW lon \in Int,
           NEW turn \in {-Circle, 0, Circle},
           x * Span(g.box)[1] - (g.shape[1] - 1) * (lon - g.box.minLon - turn)
               \in -(2 * Span(g.box)[1]) .. 2 * Span(g.box)[1]
    PROVE  NearLon(g, <<x, y>>, lon, 1, 2)
<1> DEFINE S == Span(g.box)[1]
           w == g.shape[1]
           west == g.box.minLon
<1>1. S \in Nat /\ w \in Nat /\ west \in Int /\ turn \in Int
  BY Native, GridNumbers, PlacesAssumption DEF BoxType
<1>2. Gaps(g, 1) = w - 1
  BY DEF Gaps
<1> SUFFICES Distance(1 * ((w - 1) * (west + turn) + x * S), (w - 1) * lon) <= 1 * 2 * S
  BY <1>2 DEF NearLon
<1>3. x * S - (w - 1) * (lon - west - turn) \in -(2 * S) .. 2 * S
  OBVIOUS
<1> HIDE DEF S, w, west
<1>4. PICK p \in Int : p = x * S
  BY <1>1
<1>5. PICK q \in Int : q = (w - 1) * (west + turn)
  BY <1>1
<1>6. PICK v \in Int : v = (w - 1) * lon
  BY <1>1
<1>7. (w - 1) * (lon - west - turn) = v - q
  <2>1. lon - west - turn = lon - (west + turn) /\ w - 1 \in Int /\ west + turn \in Int
    BY <1>1
  <2> QED
    BY <1>1, <1>5, <1>6, <2>1
<1>8. (q + p) - v \in -(2 * S) .. 2 * S
  BY <1>1, <1>3, <1>4, <1>5, <1>6, <1>7
<1>9. Distance(q + p, v) <= 2 * S
  BY <1>1, <1>4, <1>5, <1>6, <1>8, DistanceWithin
<1> QED
  BY <1>1, <1>4, <1>5, <1>6, <1>9

LEMMA LatNear ==
    ASSUME NEW g \in Grids, NEW x \in Int, NEW y \in Int, NEW lat \in Int,
           y * Span(g.box)[2] - (g.shape[2] - 1) * (g.box.maxLat - lat)
               \in -(2 * Span(g.box)[2]) .. 2 * Span(g.box)[2]
    PROVE  NearLat(g, <<x, y>>, lat, 1, 2)
<1> DEFINE S == Span(g.box)[2]
           h == g.shape[2]
           north == g.box.maxLat
<1>1. S \in Nat /\ h \in Nat /\ north \in Int
  BY Native, GridNumbers DEF BoxType
<1>2. Gaps(g, 2) = h - 1
  BY DEF Gaps
<1> SUFFICES Distance(1 * ((h - 1) * north - y * S), (h - 1) * lat) <= 1 * 2 * S
  BY <1>2 DEF NearLat
<1>3. y * S - (h - 1) * (north - lat) \in -(2 * S) .. 2 * S
  OBVIOUS
<1> HIDE DEF S, h, north
<1>4. PICK p \in Int : p = y * S
  BY <1>1
<1>5. PICK q \in Int : q = (h - 1) * north
  BY <1>1
<1>6. PICK v \in Int : v = (h - 1) * lat
  BY <1>1
<1>7. (h - 1) * (north - lat) = q - v
  BY <1>1, <1>5, <1>6
<1>8. (q - p) - v \in -(2 * S) .. 2 * S
  BY <1>1, <1>3, <1>4, <1>5, <1>6, <1>7
<1>9. Distance(q - p, v) <= 2 * S
  BY <1>1, <1>4, <1>5, <1>6, <1>8, DistanceWithin
<1> QED
  BY <1>1, <1>4, <1>5, <1>6, <1>9

\* What is answered for a point is near it, and there is an answer for every
\* point of the grid but those near a missing one or at the grid's end.
LEMMA PointAnswer ==
    ASSUME NEW g \in Grids, ~g.projected, NEW lon \in Int, NEW lat \in Int
    PROVE  LET lonIn == Turned(lon, g.box)
               value == PointValue(g, lon, lat)
               IsNear(n) == NearLon(g, n, lonIn, 1, 2) /\ NearLat(g, n, lat, 1, 2)
           IN  /\ \A n \in value : IsNear(n)
               /\ value = {} /\ Contains(g.box, lonIn, lat) =>
                    \/ \E n \in g.missing : IsNear(n)
                    \/ g.box.maxLon - lonIn < Snap
                    \/ lat - g.box.minLat < Snap
<1> DEFINE lonIn == Turned(lon, g.box)
           value == PointValue(g, lon, lat)
           IsNear(n) == NearLon(g, n, lonIn, 1, 2) /\ NearLat(g, n, lat, 1, 2)
           w == g.shape[1]
           h == g.shape[2]
           r == Resolution(g, 0)
           at == <<lonIn - g.box.minLon, g.box.maxLat - lat>>
           near == \A i \in 1 .. 2 : at[i] % r[i] < Snap \/ at[i] % r[i] > r[i] - Snap
           x1 == at[1] \div r[1]
           y1 == at[2] \div r[2]
           x2 == RightOf(g, x1)
           y2 == Smaller(y1 + 1, h - 1)
           xn == (2 * at[1] + r[1]) \div (2 * r[1])
           yn == (2 * at[2] + r[2]) \div (2 * r[2])
           corners == {Single(g, x, y) : x \in {x1, x2}, y \in {y1, y2}}
           S == Span(g.box)
<1> SUFFICES /\ \A n \in value : IsNear(n)
             /\ value = {} /\ Contains(g.box, lonIn, lat) =>
                  \/ \E n \in g.missing : IsNear(n)
                  \/ g.box.maxLon - lonIn < Snap
                  \/ lat - g.box.minLat < Snap
  BY Zenon
<1>1. 0 \in Levels(g) /\ w \in Nat \ {0} /\ h \in Nat \ {0}
      /\ Shape(g, 0)[1] = w /\ Shape(g, 0)[2] = h
  BY Native
<1>2. /\ r[1] \in Nat \ {0} /\ r[2] \in Nat \ {0}
      /\ S[1] \in Nat /\ S[1] = w * r[1] /\ S[2] \in Nat /\ S[2] = h * r[2]
      /\ g.box \in BoxType
  BY <1>1, GridNumbers
<1>3. lonIn \in Int /\ Snap \in Nat \ {0} /\ Circle \in Nat
  BY PlacesAssumption DEF Turned
<1>4. 2 * Snap <= r[1] /\ 2 * Snap <= r[2] /\ g.origin = "north"
  BY GridsAssumption
<1>5. CASE ~Contains(g.box, lonIn, lat)
  <2>1. value = {}
    BY <1>5, SMTT(30) DEF PointValue
  <2> QED
    BY <1>5, <2>1
<1>6. CASE Contains(g.box, lonIn, lat)
  <2>1. at[1] = lonIn - g.box.minLon /\ at[2] = g.box.maxLat - lat
    OBVIOUS
  <2>2. at[1] \in 0 .. S[1] /\ at[2] \in 0 .. S[2]
    BY <1>2, <1>3, <1>6 DEF Contains, Span, BoxType
  <2>3. S[1] - at[1] = g.box.maxLon - lonIn /\ S[2] - at[2] = lat - g.box.minLat
    BY <1>2, <1>3 DEF Span, BoxType
  <2>4. value = IF near THEN Single(g, xn, yn)
                ELSE IF x1 >= w \/ y1 >= h THEN {}
                ELSE IF {} \in corners THEN Single(g, xn, yn)
                ELSE UNION corners
    BY <1>4, <1>6 DEF PointValue
  <2>5. near => /\ at[1] % r[1] < Snap \/ at[1] % r[1] > r[1] - Snap
                /\ at[2] % r[2] < Snap \/ at[2] % r[2] > r[2] - Snap
    OBVIOUS
  <2> HIDE DEF at, r, w, h, S, near, lonIn
  <2>6. /\ x1 \in Nat /\ xn \in Nat /\ (x1 >= w => at[1] = S[1])
        /\ \A n \in {x1, x1 + 1, xn} :
               n * S[1] - (w - 1) * at[1] \in -(2 * S[1]) .. 2 * S[1]
        /\ near /\ xn >= w => S[1] - at[1] < Snap
    <3>1. at[1] \in 0 .. w * r[1]
      BY <1>2, <2>2
    <3>2. /\ x1 \in Nat /\ xn \in Nat /\ x1 <= w /\ (x1 = w => at[1] = w * r[1])
          /\ \A n \in {x1, x1 + 1, xn} :
                 n * (w * r[1]) - (w - 1) * at[1] \in -(2 * (w * r[1])) .. 2 * (w * r[1])
          /\ /\ 2 * Snap <= r[1] /\ (at[1] % r[1] < Snap \/ at[1] % r[1] > r[1] - Snap)
             /\ xn >= w
             => w * r[1] - at[1] < Snap
      BY <1>1, <1>2, <1>3, <3>1, Steps
    <3> HIDE DEF x1, xn
    <3> QED
      BY <1>1, <1>2, <1>4, <2>5, <3>2
  <2>7. /\ y1 \in Nat /\ yn \in Nat /\ (y1 >= h => at[2] = S[2])
        /\ \A n \in {y1, y1 + 1, yn} :
               n * S[2] - (h - 1) * at[2] \in -(2 * S[2]) .. 2 * S[2]
        /\ near /\ yn >= h => S[2] - at[2] < Snap
    <3>1. at[2] \in 0 .. h * r[2]
      BY <1>2, <2>2
    <3>2. /\ y1 \in Nat /\ yn \in Nat /\ y1 <= h /\ (y1 = h => at[2] = h * r[2])
          /\ \A n \in {y1, y1 + 1, yn} :
                 n * (h * r[2]) - (h - 1) * at[2] \in -(2 * (h * r[2])) .. 2 * (h * r[2])
          /\ /\ 2 * Snap <= r[2] /\ (at[2] % r[2] < Snap \/ at[2] % r[2] > r[2] - Snap)
             /\ yn >= h
             => h * r[2] - at[2] < Snap
      BY <1>1, <1>2, <1>3, <3>1, Steps
    <3> HIDE DEF y1, yn
    <3> QED
      BY <1>1, <1>2, <1>4, <2>5, <3>2
  <2> HIDE DEF x1, y1, xn, yn
  \* No corner is outside, and all are near.
  <2>8. \A x \in {x1, x1 + 1, xn} : \A y \in Int : NearLon(g, <<x, y>>, lonIn, 1, 2)
    <3> SUFFICES ASSUME NEW x \in {x1, x1 + 1, xn}, NEW y \in Int
                 PROVE  NearLon(g, <<x, y>>, lonIn, 1, 2)
      OBVIOUS
    <3>1. x \in Int /\ lonIn - g.box.minLon - 0 = at[1] /\ 0 \in {-Circle, 0, Circle}
      BY <1>2, <1>3, <2>1, <2>6 DEF BoxType
    <3>2. x * S[1] - (w - 1) * (lonIn - g.box.minLon - 0) \in -(2 * S[1]) .. 2 * S[1]
      BY <2>6, <3>1
    <3> QED
      BY <1>3, <3>1, <3>2, LonNear DEF S, w
  <2>9. \A y \in {y1, y1 + 1, yn} : \A x \in Int : NearLat(g, <<x, y>>, lat, 1, 2)
    <3> SUFFICES ASSUME NEW y \in {y1, y1 + 1, yn}, NEW x \in Int
                 PROVE  NearLat(g, <<x, y>>, lat, 1, 2)
      OBVIOUS
    <3>1. y \in Int
      BY <2>7
    <3>2. y * S[2] - (h - 1) * (g.box.maxLat - lat) \in -(2 * S[2]) .. 2 * S[2]
      BY <2>1, <2>7
    <3> QED
      BY <3>1, <3>2, LatNear DEF S, h
  <2>10. x1 < w => /\ x2 \in Nat /\ x2 < w
                   /\ \A y \in Int : NearLon(g, <<x2, y>>, lonIn, 1, 2)
    <3> SUFFICES ASSUME x1 < w
                 PROVE  /\ x2 \in Nat /\ x2 < w
                        /\ \A y \in Int : NearLon(g, <<x2, y>>, lonIn, 1, 2)
      OBVIOUS
    <3>1. CASE S[1] > GlobalWidth /\ x1 + 1 >= w
      <4>1. x2 = 0
        BY <3>1, Zenon DEF RightOf, S, w
      <4>2. S[1] <= Circle /\ (w - 1) * (Circle - S[1]) <= S[1]
        BY <3>1, GridsAssumption DEF S, w
      <4>3. 0 * S[1] - (w - 1) * (at[1] - Circle) \in -(2 * S[1]) .. 2 * S[1]
        <5>1. w - 1 <= at[1] \div r[1]
          BY <1>1, <2>6, <3>1 DEF x1
        <5>2. at[1] \in 0 .. w * r[1]
          BY <1>2, <2>2
        <5>3. w * r[1] <= Circle /\ (w - 1) * (Circle - w * r[1]) <= w * r[1]
          BY <1>2, <4>2
        <5>4. 0 * (w * r[1]) - (w - 1) * (at[1] - Circle) \in -(2 * (w * r[1])) .. 2 * (w * r[1])
          BY <1>1, <1>2, <1>3, <5>1, <5>2, <5>3, RoundNear
        <5> QED
          BY <1>2, <5>4
      <4>4. \A y \in Int : NearLon(g, <<0, y>>, lonIn, 1, 2)
        <5> SUFFICES ASSUME NEW y \in Int
                     PROVE  NearLon(g, <<0, y>>, lonIn, 1, 2)
          OBVIOUS
        <5>1. lonIn - g.box.minLon - Circle = at[1] - Circle /\ Circle \in {-Circle, 0, Circle}
              /\ 0 \in Int
          BY <1>2, <1>3, <2>1 DEF BoxType
        <5>2. 0 * S[1] - (w - 1) * (lonIn - g.box.minLon - Circle) \in -(2 * S[1]) .. 2 * S[1]
          BY <4>3, <5>1
        <5> QED
          BY <1>3, <5>1, <5>2, LonNear DEF S, w
      <4> QED
        BY <1>1, <4>1, <4>4
    <3>2. CASE ~(S[1] > GlobalWidth /\ x1 + 1 >= w)
      <4>1. x2 = Smaller(x1 + 1, w - 1)
        BY <3>2, Zenon DEF RightOf, S, w
      <4>2. x2 \in {x1, x1 + 1} /\ x2 \in Nat /\ x2 < w
        BY <1>1, <2>6, <4>1 DEF Smaller
      <4> QED
        BY <2>8, <4>2
    <3> QED
      BY <3>1, <3>2
  <2>11. y1 < h => y2 \in {y1, y1 + 1} /\ y2 \in Nat /\ y2 < h
    BY <1>1, <2>7 DEF Smaller
  <2> HIDE DEF x2, y2
  <2>12. CASE value = Single(g, xn, yn)
    <3>1. IsNear(<<xn, yn>>)
      BY <2>6, <2>7, <2>8, <2>9
    <3>2. Single(g, xn, yn) = IF xn < w /\ yn < h THEN {<<xn, yn>>} \ g.missing ELSE {}
      BY <2>6, <2>7, SingleCell DEF w, h
    <3>3. ASSUME value = {}
          PROVE  \/ \E n \in g.missing : IsNear(n)
                 \/ g.box.maxLon - lonIn < Snap
                 \/ lat - g.box.minLat < Snap
      <4>1. CASE xn < w /\ yn < h
        BY <2>12, <3>1, <3>2, <3>3, <4>1
      <4>2. CASE near /\ ~(xn < w /\ yn < h)
        BY <1>1, <2>3, <2>6, <2>7, <4>2
      <4>3. CASE ~near /\ {} \in corners /\ x1 < w /\ y1 < h
        <5>1. PICK x \in {x1, x2}, y \in {y1, y2} : Single(g, x, y) = {}
          BY <4>3
        <5>2. x \in Nat /\ y \in Nat /\ x < w /\ y < h
          BY <2>6, <2>7, <2>10, <2>11, <4>3, <5>1
        <5>3. <<x, y>> \in g.missing
          BY <5>1, <5>2, SingleCell DEF w, h
        <5>4. IsNear(<<x, y>>)
          BY <2>6, <2>7, <2>8, <2>9, <2>10, <2>11, <4>3, <5>1, <5>2
        <5> QED
          BY <5>3, <5>4
      <4>4. CASE ~near /\ (x1 >= w \/ y1 >= h)
        BY <1>2, <1>3, <2>3, <2>6, <2>7, <4>4
      <4>5. CASE ~near /\ x1 < w /\ y1 < h /\ {} \notin corners
        <5>1. Single(g, x1, y1) \in corners
          OBVIOUS
        <5>2. value = UNION corners
          BY <1>1, <2>4, <2>6, <2>7, <4>5
        <5> QED
          BY <3>3, <4>5, <5>1, <5>2
      <4> QED
        BY <1>1, <2>6, <2>7, <4>1, <4>2, <4>3, <4>4, <4>5
    <3> QED
      BY <2>12, <3>1, <3>2, <3>3
  <2>13. CASE value = {} /\ (x1 >= w \/ y1 >= h)
    BY <1>2, <1>3, <2>3, <2>6, <2>7, <2>13
  <2>14. CASE value = UNION corners /\ {} \notin corners /\ x1 < w /\ y1 < h
    <3>1. ASSUME NEW n \in value
          PROVE  IsNear(n)
      <4>1. PICK x \in {x1, x2}, y \in {y1, y2} : n \in Single(g, x, y)
        BY <2>14
      <4>2. x \in Nat /\ y \in Nat /\ x < w /\ y < h
        BY <2>6, <2>7, <2>10, <2>11, <2>14, <4>1
      <4>3. n = <<x, y>>
        BY <4>1, <4>2, SingleCell DEF w, h
      <4>4. IsNear(<<x, y>>)
        BY <2>6, <2>7, <2>8, <2>9, <2>10, <2>11, <2>14, <4>1, <4>2
      <4> QED
        BY <4>3, <4>4
    <3>2. value # {}
      <4>1. Single(g, x1, y1) \in corners
        OBVIOUS
      <4> QED
        BY <2>14, <4>1
    <3> QED
      BY <3>1, <3>2
  <2> QED
    <3> HIDE DEF value, corners
    <3>1. x1 < w \/ x1 >= w
      BY <1>1, <2>6
    <3>2. y1 < h \/ y1 >= h
      BY <1>1, <2>7
    <3>3. \/ value = Single(g, xn, yn)
          \/ value = {} /\ (x1 >= w \/ y1 >= h)
          \/ value = UNION corners /\ {} \notin corners /\ x1 < w /\ y1 < h
      BY <2>4, <3>1, <3>2
    <3> QED
      BY <2>12, <2>13, <2>14, <3>3
<1> QED
  BY <1>5, <1>6

\* A point's answer is near it, whatever grid and place: with the nearest cell,
\* the four around it or what is after the last column, on grids that go round
\* and on others.  (process_point)
THEOREM PointsAreNear == ReadsSpec => []PointsRight
<1>1. ReadsInit => PointsRight
  BY DEF ReadsInit, Idle, PointsRight
<1>2. ASSUME [ReadsNext]_readsVars, PointsRight
      PROVE  PointsRight'
  <2>1. CASE UNCHANGED readsVars
    BY <1>2, <2>1 DEF readsVars, PointsRight
  <2>2. ASSUME NEW g \in Grids, NEW p \in Points, ReadPoint(g, p)
        PROVE  PointsRight'
    <3>1. p[1] \in Int /\ p[2] \in Int
      BY PlacesAssumption
    <3>2. ~g.projected
      BY <2>2 DEF ReadPoint
    <3>3. /\ request'.grid = g /\ request'.lon = p[1] /\ request'.lat = p[2]
          /\ reply'.value = PointValue(g, p[1], p[2])
      BY <2>2 DEF ReadPoint
    <3> QED
      BY <3>1, <3>2, <3>3, PointAnswer DEF PointsRight
  <2>3. CASE \E g \in Grids, b \in Boxes, size \in Sizes : ReadTile(g, b, size)
    BY <2>3 DEF ReadTile, PointsRight
  <2>4. CASE Draw
    BY <2>4 DEF Draw, PointsRight
  <2>5. CASE \E g \in Grids, b \in Boxes : ReadArea(g, b)
    BY <2>5 DEF ReadArea, PointsRight
  <2>6. CASE Sent
    BY <2>6 DEF Sent, Idle, PointsRight
  <2> QED
    BY <1>2, <2>1, <2>2, <2>3, <2>4, <2>5, <2>6 DEF ReadsNext
<1> QED
  BY <1>1, <1>2, PTL DEF ReadsSpec

-----------------------------------------------------------------------------
(* Regions, put together from chunks *)

\* What is before the end of a range is in a chunk before the range's last.
LEMMA CeilDivAbove ==
    ASSUME NEW d \in Nat \ {0}, NEW a \in Int, NEW b \in Int, a < b
    PROVE  CeilDiv(b, d) \in Int /\ a \div d <= CeilDiv(b, d) - 1
<1>1. PICK q \in Int : q = a \div d /\ d * q <= a
  BY DivMod, DivGreatest
<1>2. PICK m \in Int : m = (-b) \div d /\ d * m <= -b
  <2>1. -b \in Int
    OBVIOUS
  <2> QED
    BY <2>1, DivMod, DivGreatest
<1>3. CeilDiv(b, d) = -m
  BY <1>2 DEF CeilDiv
<1>4. d * (q + m) < d * 0
  <2>1. d * (q + m) = d * q + d * m /\ d * q \in Int /\ d * m \in Int /\ d * 0 = 0
    BY <1>1, <1>2
  <2> QED
    BY <1>1, <1>2, <2>1
<1>5. q + m < 0
  BY <1>1, <1>2, <1>4, TimesLess
<1> QED
  BY <1>1, <1>2, <1>3, <1>5

\* The level that is chosen is one of the grid's.
LEMMA LevelChosen ==
    ASSUME NEW g \in Grids, NEW b, NEW size
    PROVE  OptimalLevel(g, b, size) \in Levels(g)
<1> DEFINE native == [i \in 1 .. 2 |-> CeilDiv(Span(b)[i], Resolution(g, 0)[i])]
           good == {l \in Levels(g) : \A i \in 1 .. 2 : CeilDiv(native[i], 2^l) >= size[i]}
<1>1. CASE good = {}
  BY <1>1, Native DEF OptimalLevel
<1>2. CASE good # {}
  <2>1. g.shape[1] \in Nat
    BY Native
  <2>2. good \in SUBSET (0 .. g.shape[1])
    BY <2>1 DEF Levels
  <2>3. PICK l \in good : \A m \in good : m <= l
    BY <1>2, <2>1, <2>2, GreatestOf
  <2>4. OptimalLevel(g, b, size) = CHOOSE k \in good : \A m \in good : m <= k
    BY <1>2, Zenon DEF OptimalLevel
  <2>5. OptimalLevel(g, b, size) \in good
    BY <2>3, <2>4, Zenon
  <2> QED
    BY <2>5
<1> QED
  BY <1>1, <1>2

LEMMA NormalizeIsBox ==
    ASSUME NEW grid, NEW b \in BoxType
    PROVE  NormalizeToGrid(b, grid) \in BoxType
<1>1. /\ b.minLon \in Int /\ b.maxLon \in Int
      /\ DOMAIN b = {"minLon", "minLat", "maxLon", "maxLat"}
  BY DEF BoxType
<1>2. \A lon \in Int : Turned(lon, grid) \in Int
  BY PlacesAssumption DEF Turned
<1>3. Turned(b.minLon, grid) \in Int /\ Turned(b.maxLon, grid) \in Int
  BY <1>1, <1>2
<1>4. NormalizeToGrid(b, grid) = [b EXCEPT !.minLon = Turned(b.minLon, grid),
                                           !.maxLon = Turned(b.maxLon, grid)]
  BY DEF NormalizeToGrid, BoxType
<1> QED
  BY <1>3, <1>4 DEF BoxType

\* A box is read as a box.
LEMMA EffectiveIsBox ==
    ASSUME NEW g \in Grids, NEW l \in Levels(g), NEW b \in BoxType
    PROVE  EffectiveBox(g, l, b) \in BoxType
<1>1. /\ g.box \in BoxType /\ Resolution(g, l)[1] \in Int /\ Resolution(g, l)[2] \in Int
      /\ Buffer \in Int /\ Circle \in Int
  BY GridNumbers, PlacesAssumption
<1>2. NormalizeToGrid(b, g.box) \in BoxType
  BY NormalizeIsBox
<1>3. \A x, y \in Int : Smaller(x, y) \in Int /\ Larger(x, y) \in Int
  BY DEF Smaller, Larger
<1> DEFINE n == NormalizeToGrid(b, g.box)
           r == Resolution(g, l)
           e == [minLon |-> Larger(n.minLon - Buffer * r[1], g.box.minLon),
                 minLat |-> Larger(n.minLat - Buffer * r[2], g.box.minLat),
                 maxLon |-> Smaller(n.maxLon + Buffer * r[1], g.box.maxLon),
                 maxLat |-> Smaller(n.maxLat + Buffer * r[2], g.box.maxLat)]
<1> HIDE DEF n, r
<1>4. Buffer * r[1] \in Int /\ Buffer * r[2] \in Int
  BY <1>1 DEF r
<1>5. n \in BoxType
  BY <1>2 DEF n
<1>6. e \in BoxType
  <2>1. /\ n.minLon - Buffer * r[1] \in Int /\ n.minLat - Buffer * r[2] \in Int
        /\ n.maxLon + Buffer * r[1] \in Int /\ n.maxLat + Buffer * r[2] \in Int
    BY <1>4, <1>5 DEF BoxType
  <2>2. /\ g.box.minLon \in Int /\ g.box.minLat \in Int
        /\ g.box.maxLon \in Int /\ g.box.maxLat \in Int
    BY <1>1 DEF BoxType
  <2>3. /\ e.minLon \in Int /\ e.minLat \in Int /\ e.maxLon \in Int /\ e.maxLat \in Int
    BY <1>3, <2>1, <2>2
  <2> QED
    BY <2>3, Zenon DEF BoxType
<1>7. EffectiveBox(g, l, b) \in {g.box, e}
  BY Zenon DEF EffectiveBox, n, r
<1> QED
  BY <1>1, <1>6, <1>7

\* The cells of a box are cells of the grid.
LEMMA CellsInGrid ==
    ASSUME NEW g \in Grids, NEW l \in Levels(g), NEW b \in BoxType
    PROVE  LET c == Cells(g, l, b)
           IN  /\ c.from[1] \in Nat /\ c.to[1] \in 0 .. Shape(g, l)[1]
               /\ c.from[2] \in Nat /\ c.to[2] \in 0 .. Shape(g, l)[2]
<1>1. /\ g.box \in BoxType /\ Circle \in Int
      /\ Resolution(g, l)[1] \in Nat \ {0} /\ Resolution(g, l)[2] \in Nat \ {0}
      /\ Shape(g, l)[1] \in Nat \ {0} /\ Shape(g, l)[2] \in Nat \ {0}
  BY GridNumbers, PlacesAssumption
<1>2. NormalizeToGrid(b, g.box) \in BoxType
  BY NormalizeIsBox
<1>3. ASSUME NEW d \in Int, NEW r \in Nat \ {0}, NEW s \in Nat \ {0}
      PROVE  From(d, r) \in Nat /\ Until(d, r, s) \in 0 .. s
  <2>1. PICK q \in Int : q = d \div r
    BY DivMod
  <2>2. PICK m \in Int : m = (-d) \div r
    <3>1. -d \in Int
      OBVIOUS
    <3> QED
      BY <3>1, DivMod
  <2>3. From(d, r) \in Nat
    BY <2>1 DEF From, Larger
  <2>4. Until(d, r, s) \in 0 .. s
    BY <2>2 DEF Until, Larger, Smaller, CeilDiv
  <2> QED
    BY <2>3, <2>4
<1> DEFINE n == NormalizeToGrid(b, g.box)
           first == IF g.origin = "north" THEN g.box.maxLat - n.maxLat
                                          ELSE n.minLat - g.box.minLat
           last == IF g.origin = "north" THEN g.box.maxLat - n.minLat
                                         ELSE n.maxLat - g.box.minLat
           r == Resolution(g, l)
           s == Shape(g, l)
<1>4. Cells(g, l, b) =
          [from |-> <<From(n.minLon - g.box.minLon, r[1]), From(first, r[2])>>,
           to |-> <<Until(n.maxLon - g.box.minLon, r[1], s[1]), Until(last, r[2], s[2])>>]
  BY Zenon DEF Cells
<1> HIDE DEF n
<1>5. /\ n.minLon - g.box.minLon \in Int /\ n.maxLon - g.box.minLon \in Int
      /\ first \in Int /\ last \in Int
  BY <1>1, <1>2 DEF BoxType, n
<1> HIDE DEF first, last, r, s
<1>6. /\ From(n.minLon - g.box.minLon, r[1]) \in Nat /\ From(first, r[2]) \in Nat
      /\ Until(n.maxLon - g.box.minLon, r[1], s[1]) \in 0 .. s[1]
      /\ Until(last, r[2], s[2]) \in 0 .. s[2]
  BY <1>1, <1>3, <1>5 DEF r, s
<1> QED
  BY <1>4, <1>6 DEF s

\* The chunks for a box have all its cells.
LEMMA ChunksSuffice ==
    ASSUME NEW g \in Grids, NEW l \in Levels(g), NEW b \in BoxType,
           NEW col \in Int, NEW row \in Int,
           col >= Cells(g, l, b).from[1], col < Cells(g, l, b).to[1],
           row >= Cells(g, l, b).from[2], row < Cells(g, l, b).to[2]
    PROVE  /\ <<col \div g.chunk[1], row \div g.chunk[2]>> \in ChunksForBox(g, l, b)
           /\ col \in 0 .. Shape(g, l)[1] - 1 /\ row \in 0 .. Shape(g, l)[2] - 1
<1> DEFINE c == Cells(g, l, b)
           Along(i) == c.from[i] \div g.chunk[i] ..
                       Smaller(CeilDiv(c.to[i], g.chunk[i]), NumChunks(g, l)[i]) - 1
<1>1. /\ c.from[1] \in Nat /\ c.to[1] \in 0 .. Shape(g, l)[1]
      /\ c.from[2] \in Nat /\ c.to[2] \in 0 .. Shape(g, l)[2]
  BY CellsInGrid
<1>2. /\ g.chunk[1] \in Nat \ {0} /\ g.chunk[2] \in Nat \ {0}
      /\ Shape(g, l)[1] \in Nat \ {0} /\ Shape(g, l)[2] \in Nat \ {0}
  BY GridNumbers
<1>3. ASSUME NEW d \in Nat \ {0}, NEW s \in Nat \ {0}, NEW f \in Nat, NEW t \in 0 .. s,
             NEW x \in Int, f <= x, x < t
      PROVE  x \div d \in f \div d .. Smaller(CeilDiv(t, d), CeilDiv(s, d)) - 1
  <2>1. f \in Int /\ t \in Int /\ s \in Int /\ x < s
    BY <1>3
  <2>2. x \div d \in Int /\ f \div d \in Int /\ f \div d <= x \div d
    BY <1>3, <2>1, DivMod, DivMonotone
  <2>3. CeilDiv(t, d) \in Int /\ x \div d <= CeilDiv(t, d) - 1
    BY <1>3, <2>1, CeilDivAbove
  <2>4. CeilDiv(s, d) \in Int /\ x \div d <= CeilDiv(s, d) - 1
    BY <2>1, CeilDivAbove
  <2>5. Smaller(CeilDiv(t, d), CeilDiv(s, d)) \in {CeilDiv(t, d), CeilDiv(s, d)}
    BY DEF Smaller
  <2> HIDE DEF Smaller, CeilDiv
  <2> QED
    BY <2>2, <2>3, <2>4, <2>5
<1>4. /\ NumChunks(g, l)[1] = CeilDiv(Shape(g, l)[1], g.chunk[1])
      /\ NumChunks(g, l)[2] = CeilDiv(Shape(g, l)[2], g.chunk[2])
  BY DEF NumChunks
<1>5. ChunksForBox(g, l, b) = Along(1) \X Along(2)
  BY Zenon DEF ChunksForBox
<1>6. /\ col >= c.from[1] /\ col < c.to[1]
      /\ row >= c.from[2] /\ row < c.to[2]
  OBVIOUS
<1> HIDE DEF c
<1>7. col \div g.chunk[1] \in Along(1)
  BY <1>1, <1>2, <1>3, <1>4, <1>6
<1>8. row \div g.chunk[2] \in Along(2)
  BY <1>1, <1>2, <1>3, <1>4, <1>6
<1> HIDE DEF Along
<1>9. <<col \div g.chunk[1], row \div g.chunk[2]>> \in ChunksForBox(g, l, b)
  BY <1>5, <1>7, <1>8
<1> QED
  BY <1>1, <1>2, <1>6, <1>9

LEMMA ChunksAreInts ==
    ASSUME NEW g \in Grids, NEW l \in Levels(g), NEW b \in BoxType
    PROVE  ChunksForBox(g, l, b) \subseteq Int \X Int
<1>1. PICK c : c = Cells(g, l, b) /\ c.from[1] \in Int /\ c.from[2] \in Int
  BY CellsInGrid
<1>2. g.chunk[1] \in Nat \ {0} /\ g.chunk[2] \in Nat \ {0}
  BY GridNumbers
<1>3. \A u, v : u .. v \subseteq Int
  OBVIOUS
<1> QED
  BY <1>3 DEF ChunksForBox

IsRecord(b) == b = [minLon |-> b.minLon, minLat |-> b.minLat,
                    maxLon |-> b.maxLon, maxLat |-> b.maxLat]

\* A region that is not empty has the cells of the box that is read, in its
\* box and with their values.
RegionOf(g, l, b, reg) ==
    LET c == Cells(g, l, EffectiveBox(g, l, b))
    IN  /\ reg = Region(reg.data, reg.width, reg.height, reg.box, reg.res)
        /\ IsRecord(reg.box)
        /\ reg.width = c.to[1] - c.from[1] /\ reg.width \in Nat \ {0}
        /\ reg.height = c.to[2] - c.from[2] /\ reg.height \in Nat \ {0}
        /\ reg.res = Resolution(g, l)
        /\ reg.box.minLon = g.box.minLon + c.from[1] * reg.res[1]
        /\ reg.box.maxLon = g.box.minLon + c.to[1] * reg.res[1]
        /\ g.origin = "north" =>
               /\ reg.box.maxLat = g.box.maxLat - c.from[2] * reg.res[2]
               /\ reg.box.minLat = g.box.maxLat - c.to[2] * reg.res[2]
        /\ g.origin # "north" =>
               /\ reg.box.minLat = g.box.minLat + c.from[2] * reg.res[2]
               /\ reg.box.maxLat = g.box.minLat + c.to[2] * reg.res[2]
        /\ DOMAIN reg.data = 0 .. reg.width * reg.height - 1
        /\ \A o \in DOMAIN reg.data :
               reg.data[o] = Stored(g, l, c.from[1] + (o % reg.width),
                                          c.from[2] + (o \div reg.width))

\* A place in a table is in one of its rows and columns.
LEMMA InTable ==
    ASSUME NEW w \in Nat \ {0}, NEW h \in Nat, NEW o \in 0 .. w * h - 1
    PROVE  o % w \in 0 .. w - 1 /\ o \div w \in 0 .. h - 1
<1>1. o \in Int /\ 0 <= o /\ o < w * h /\ w * h \in Int
  OBVIOUS
<1>2. PICK q \in Int, m \in 0 .. w - 1 : q = o \div w /\ m = o % w /\ o = w * q + m
  BY <1>1, DivMod
<1>3. w * q < w * h /\ w * (-1) < w * q
  BY <1>1, <1>2
<1>4. q < h /\ -1 < q
  BY <1>2, <1>3, TimesLess
<1> QED
  BY <1>2, <1>4

LEMMA ReadRegionIs ==
    ASSUME NEW g \in Grids, NEW l \in Levels(g), NEW b \in BoxType,
           NEW reg \in ReadRegion(g, l, b), reg.kind = "region"
    PROVE  \/ reg = Region(<<>>, 0, 0, EffectiveBox(g, l, b), Resolution(g, l))
           \/ RegionOf(g, l, b, reg)
<1> DEFINE e == EffectiveBox(g, l, b)
           c == Cells(g, l, e)
           chunks == ChunksForBox(g, l, e)
           r == Resolution(g, l)
           width == c.to[1] - c.from[1]
           height == c.to[2] - c.from[2]
           Value(col, row) ==
               UNION {ReadChunk(g, l, k)[IndexIn(g, l, k, col, row)] :
                         k \in {k \in chunks :
                                   /\ Covers(g, l, k, col, row)
                                   /\ IndexIn(g, l, k, col, row) \in DOMAIN ReadChunk(g, l, k)}}
           data == [o \in 0 .. width * height - 1 |->
                       Value(c.from[1] + (o % width), c.from[2] + (o \div width))]
           actual ==
               [minLon |-> g.box.minLon + c.from[1] * r[1],
                maxLon |-> g.box.minLon + c.to[1] * r[1],
                minLat |-> IF g.origin = "north" THEN g.box.maxLat - c.to[2] * r[2]
                                                 ELSE g.box.minLat + c.from[2] * r[2],
                maxLat |-> IF g.origin = "north" THEN g.box.maxLat - c.from[2] * r[2]
                                                 ELSE g.box.minLat + c.to[2] * r[2]]
<1>1. e \in BoxType
  BY EffectiveIsBox
<1>2. /\ c.from[1] \in Nat /\ c.to[1] \in 0 .. Shape(g, l)[1]
      /\ c.from[2] \in Nat /\ c.to[2] \in 0 .. Shape(g, l)[2]
  BY <1>1, CellsInGrid
<1>3. width \in Int /\ height \in Int
  BY <1>2, GridNumbers
<1>4. CASE reg = Region(<<>>, 0, 0, e, r)
  BY <1>4
<1>5. CASE reg # Region(<<>>, 0, 0, e, r)
  <2>1. Failed.kind # "region" /\ Broken.kind # "region"
    BY DEF Failed, Broken
  <2>2. reg = AssembleRegion(g, l, e, chunks)
    BY <1>5, <2>1, Zenon DEF ReadRegion
  <2>3. AssembleRegion(g, l, e, chunks) =
            CASE width < 0 \/ height < 0 -> Broken
              [] width = 0 \/ height = 0 -> Region(<<>>, 0, 0, e, r)
              [] OTHER -> Region(data, width, height, actual, r)
    BY Zenon DEF AssembleRegion
  <2> HIDE DEF data, actual, c, r
  <2>5. width > 0 /\ height > 0 /\ reg = Region(data, width, height, actual, r)
    BY <1>3, <1>5, <2>1, <2>2, <2>3
  <2>4. actual = [minLon |-> actual.minLon, minLat |-> actual.minLat,
                  maxLon |-> actual.maxLon, maxLat |-> actual.maxLat]
    BY DEF actual
  <2>6. /\ reg.data = data /\ reg.width = width /\ reg.height = height
        /\ reg.box = actual /\ reg.res = r
    BY <2>5 DEF Region
  \* the chunks that are read have all of them
  <2>7. ASSUME NEW col \in Int, NEW row \in Int,
               col >= c.from[1], col < c.to[1], row >= c.from[2], row < c.to[2]
        PROVE  Value(col, row) = Stored(g, l, col, row)
    <3> DEFINE own == <<col \div g.chunk[1], row \div g.chunk[2]>>
               Covering == {k \in chunks :
                               /\ Covers(g, l, k, col, row)
                               /\ IndexIn(g, l, k, col, row) \in DOMAIN ReadChunk(g, l, k)}
    <3>1. /\ own \in chunks
          /\ col \in 0 .. Shape(g, l)[1] - 1 /\ row \in 0 .. Shape(g, l)[2] - 1
      BY <1>1, <2>7, ChunksSuffice DEF c
    <3>2. own \in Int \X Int /\ Covers(g, l, own, col, row)
      BY <3>1, OwnChunk
    <3>3. own \in Covering
      BY <3>1, <3>2, InChunk
    <3>4. \A k \in Covering : k \in Int \X Int
      <4>1. chunks \subseteq Int \X Int
        BY <1>1, ChunksAreInts
      <4> QED
        BY <4>1
    <3>5. \A k \in Covering :
              ReadChunk(g, l, k)[IndexIn(g, l, k, col, row)] = Stored(g, l, col, row)
      BY <3>4, InChunk
    <3> HIDE DEF Covering, own
    <3>6. {ReadChunk(g, l, k)[IndexIn(g, l, k, col, row)] : k \in Covering}
              = {Stored(g, l, col, row)}
      BY <3>3, <3>5
    <3>7. Value(col, row) = UNION {ReadChunk(g, l, k)[IndexIn(g, l, k, col, row)] : k \in Covering}
      BY Zenon DEF Covering
    <3> QED
      BY <3>6, <3>7
  <2>8. DOMAIN data = 0 .. width * height - 1
    BY DEF data
  <2>9. ASSUME NEW o \in 0 .. width * height - 1
        PROVE  data[o] = Stored(g, l, c.from[1] + (o % width), c.from[2] + (o \div width))
    <3>1. width \in Nat \ {0} /\ height \in Nat
      BY <1>3, <2>5
    <3>2. PICK x \in 0 .. width - 1, y \in 0 .. height - 1 : x = o % width /\ y = o \div width
      BY <3>1, InTable
    <3>3. data[o] = Value(c.from[1] + (o % width), c.from[2] + (o \div width))
      BY DEF data
    <3>4. /\ c.from[1] + x \in Int /\ c.from[2] + y \in Int
          /\ c.from[1] + x >= c.from[1] /\ c.from[1] + x < c.to[1]
          /\ c.from[2] + y >= c.from[2] /\ c.from[2] + y < c.to[2]
      BY <1>2, GridNumbers
    <3>5. Value(c.from[1] + x, c.from[2] + y) = Stored(g, l, c.from[1] + x, c.from[2] + y)
      BY <2>7, <3>4
    <3> HIDE DEF Value
    <3> QED
      BY <3>2, <3>3, <3>5
  <2>10. /\ actual.minLon = g.box.minLon + c.from[1] * r[1]
         /\ actual.maxLon = g.box.minLon + c.to[1] * r[1]
         /\ g.origin = "north" => /\ actual.maxLat = g.box.maxLat - c.from[2] * r[2]
                                  /\ actual.minLat = g.box.maxLat - c.to[2] * r[2]
         /\ g.origin # "north" => /\ actual.minLat = g.box.minLat + c.from[2] * r[2]
                                  /\ actual.maxLat = g.box.minLat + c.to[2] * r[2]
    BY DEF actual
  <2>11. width \in Nat \ {0} /\ height \in Nat \ {0}
    BY <1>3, <2>5
  <2> QED
    BY <2>6, <2>8, <2>9, <2>10, <2>11, <2>4, <2>5, Zenon DEF RegionOf, IsRecord, c, r
<1> QED
  BY <1>4, <1>5

\* Twice the distance, in parts of a cell, from a native cell of a block to the
\* middle of the block's cell: w native cells and s of the level, each of k
\* native ones.
LEMMA BlockMiddle ==
    ASSUME NEW w \in Nat \ {0}, NEW k \in Nat \ {0}, NEW s \in Nat \ {0}, s = w \div k,
           NEW c \in 0 .. s - 1, NEW n \in c * k .. c * k + k - 1
    PROVE  /\ (3 * k) \div 2 \in Nat
           /\ 2 * (n * s) - (w - 1) * (2 * c + 1)
                  \in -(2 * (((3 * k) \div 2) * s)) .. 2 * (((3 * k) \div 2) * s)
<1>1. PICK t \in 0 .. k - 1 : w = k * s + t
  <2>1. w \in Int
    OBVIOUS
  <2>2. w % k \in 0 .. k - 1 /\ w = k * s + (w % k)
    BY <2>1, DivMod
  <2> QED
    BY <2>2
<1>2. PICK ck \in Int, j \in 0 .. k - 1 : ck = c * k /\ n = ck + j
  <2>1. c \in Int /\ c * k \in Int
    OBVIOUS
  <2> QED
    BY <2>1
<1>3. PICK m \in Int : m = (3 * k) \div 2 /\ 3 * k - 1 <= 2 * m /\ 2 * m <= 3 * k
  OBVIOUS
<1>4. PICK ks \in Nat, js \in Nat, ms \in Int : ks = k * s /\ js = j * s /\ ms = m * s
  BY <1>3
<1>5. js + s <= ks
  <2>1. s * (j + 1) <= s * k
    BY TimesMonotone
  <2>2. s * (j + 1) = js + s /\ s * k = ks
    BY <1>4
  <2> QED
    BY <2>1, <2>2
<1>6. 3 * ks - s <= 2 * ms
  <2>1. s * (3 * k - 1) <= s * (2 * m)
    BY <1>3, TimesMonotone
  <2>2. s * (3 * k - 1) = 3 * ks - s /\ s * (2 * m) = 2 * ms
    BY <1>3, <1>4
  <2> QED
    BY <2>1, <2>2
<1>7. PICK p \in Int : p = (t - 1) * (2 * c + 1)
  BY <1>1
<1>8. 2 * (n * s) - (w - 1) * (2 * c + 1) = 2 * js - ks - p
  <2>1. PICK cks \in Int : cks = c * ks
    BY <1>4
  <2>2. n * s = cks + js
    <3>1. (ck + j) * s = ck * s + j * s
      <4>1. ck \in Int /\ j \in Int /\ s \in Int
        BY <1>2
      <4> QED
        BY <4>1
    <3>2. ck * s = c * (k * s)
      <4>1. c \in Int
        OBVIOUS
      <4>2. (c * k) * s = c * (k * s)
        BY <4>1
      <4> QED
        BY <1>2, <4>2
    <3> QED
      BY <1>2, <1>4, <2>1, <3>1, <3>2
  <2>3. (w - 1) * (2 * c + 1) = ks * (2 * c + 1) + p
    <3>1. w - 1 = ks + (t - 1)
      BY <1>1, <1>4
    <3>2. (ks + (t - 1)) * (2 * c + 1) = ks * (2 * c + 1) + (t - 1) * (2 * c + 1)
      BY <1>1, <1>4
    <3> QED
      BY <1>7, <3>1, <3>2
  <2>4. ks * (2 * c + 1) = 2 * cks + ks
    BY <1>4, <2>1
  <2>5. PICK v \in Int, u \in Int : v = n * s /\ u = (w - 1) * (2 * c + 1)
    OBVIOUS
  <2>6. 2 * v - u = 2 * js - ks - p
    BY <1>4, <1>7, <2>1, <2>2, <2>3, <2>4, <2>5
  <2> QED
    BY <2>5, <2>6
\* what halving dropped, if anything
<1>9. p <= 2 * ks - 2 * s /\ (k = 1 => p <= 0) /\ -(2 * s) < p
  <2>1. 2 * c + 1 \in Nat /\ 2 * c + 1 < 2 * s
    OBVIOUS
  <2>2. CASE t = 0
    <3>1. p = -(2 * c + 1)
      BY <1>7, <2>2
    <3> QED
      BY <1>4, <1>5, <2>1, <3>1
  <2>3. CASE t # 0
    <3>1. t - 1 \in Nat /\ t - 1 <= k - 2
      BY <1>1, <2>3
    <3>2. (t - 1) * (2 * c + 1) <= (t - 1) * (2 * s)
      BY <2>1, <3>1, TimesMonotone
    <3>3. (2 * s) * (t - 1) <= (2 * s) * (k - 2)
      BY <3>1, TimesMonotone
    <3>4. (t - 1) * (2 * s) = (2 * s) * (t - 1) /\ (2 * s) * (k - 2) = 2 * ks - 4 * s
      BY <1>4, <3>1
    <3>5. 0 <= p
      <4>1. (t - 1) * 0 <= (t - 1) * (2 * c + 1)
        BY <2>1, <3>1, TimesMonotone
      <4> QED
        BY <1>7, <3>1, <4>1
    <3>6. k # 1
      BY <3>1
    <3> QED
      BY <1>4, <1>7, <3>1, <3>2, <3>3, <3>4, <3>5, <3>6
  <2> QED
    BY <2>2, <2>3
<1>10. 2 * js - ks - p \in -(2 * ms) .. 2 * ms
  <2>1. s <= ks
    BY <1>4, <1>5
  <2> QED
    BY <1>4, <1>5, <1>6, <1>9, <2>1
<1> QED
  BY <1>3, <1>4, <1>8, <1>10

LEMMA InTableBack ==
    ASSUME NEW w \in Nat \ {0}, NEW h \in Nat, NEW x \in 0 .. w - 1, NEW y \in 0 .. h - 1
    PROVE  w * y + x \in 0 .. w * h - 1
<1>1. w * (y + 1) <= w * h
  BY TimesMonotone
<1>2. w * (y + 1) = w * y + w /\ w * y \in Nat /\ w * h \in Nat
  OBVIOUS
<1> QED
  BY <1>1, <1>2

\* So a cell's values are near its middle.
LEMMA Scaled ==
    ASSUME NEW r \in Nat, NEW x \in Int, NEW b \in Nat, x \in -(2 * b) .. 2 * b
    PROVE  r * x \in -(2 * (b * r)) .. 2 * (b * r)
<1>1. -(2 * b) \in Int /\ 2 * b \in Int /\ -(2 * b) <= x /\ x <= 2 * b
  OBVIOUS
<1>2. r * (-(2 * b)) <= r * x /\ r * x <= r * (2 * b)
  BY <1>1, TimesMonotone
<1>3. r * (-(2 * b)) = -(2 * (b * r)) /\ r * (2 * b) = 2 * (b * r) /\ r * x \in Int
      /\ b * r \in Nat
  OBVIOUS
<1> QED
  BY <1>2, <1>3

LEMMA PowerOfTwo ==
    ASSUME NEW g \in Grids, NEW l \in Levels(g)
    PROVE  2^l \in Nat \ {0}
<1>1. 1 \in 1 .. 2
  OBVIOUS
<1> QED
  BY <1>1, GridsAssumption, Zenon

LEMMA LonPlaced ==
    ASSUME NEW g \in Grids, NEW l \in Levels(g), NEW c \in 0 .. Shape(g, l)[1] - 1,
           NEW n, n[1] \in c * 2^l .. c * 2^l + 2^l - 1
    PROVE  NearLon(g, n, 2 * g.box.minLon + (2 * c + 1) * Resolution(g, l)[1],
                   2, (3 * 2^l) \div 2)
<1> DEFINE w == g.shape[1]
           s == Shape(g, l)[1]
           r == Resolution(g, l)[1]
           S == Span(g.box)[1]
           W == g.box.minLon
           k == (3 * 2^l) \div 2
<1>1. /\ w \in Nat \ {0} /\ s \in Nat \ {0} /\ r \in Nat \ {0} /\ 2^l \in Nat \ {0}
      /\ s = w \div 2^l /\ S = s * r /\ W \in Int
  <2>1. /\ w \in Nat \ {0} /\ s \in Nat \ {0} /\ r \in Nat \ {0} /\ S = s * r
        /\ g.box \in BoxType
    BY Native, GridNumbers
  <2>2. 2^l \in Nat \ {0}
    BY PowerOfTwo
  <2>3. s = w \div 2^l
    BY DEF Shape
  <2> QED
    BY <2>1, <2>2, <2>3 DEF BoxType
<1>2. PICK m \in Int : m = n[1]
  OBVIOUS
<1>3. PICK x \in Int : x = 2 * (m * s) - (w - 1) * (2 * c + 1)
  BY <1>1, <1>2
<1>4. k \in Nat /\ x \in -(2 * (k * s)) .. 2 * (k * s)
  BY <1>1, <1>2, <1>3, BlockMiddle
<1>5. Gaps(g, 1) = w - 1
  BY DEF Gaps
<1> SUFFICES Distance(2 * ((w - 1) * (W + 0) + m * S), (w - 1) * (2 * W + (2 * c + 1) * r))
                 <= 2 * k * S
  <2>1. NearLon(g, n, 2 * W + (2 * c + 1) * r, 2, k)
    BY <1>2, <1>5 DEF NearLon
  <2> QED
    BY <2>1
<1> HIDE DEF w, s, r, S, W, k
<1>6. c \in Int
  OBVIOUS
<1>7. PICK ks \in Nat, v \in Int, y \in Int, z \in Int, ms \in Int :
          /\ ks = k * s /\ v = (w - 1) * W /\ y = (w - 1) * (2 * c + 1)
          /\ z = y * r /\ ms = m * s
  BY <1>1, <1>4, <1>6
<1>8. r * x \in -(2 * (ks * r)) .. 2 * (ks * r)
  BY <1>1, <1>4, <1>7, Scaled
<1>9. PICK msr \in Int : msr = ms * r
  BY <1>1, <1>7
<1>10. r * x = 2 * msr - z
  <2>1. x = 2 * ms - y
    BY <1>3, <1>7
  <2>2. r * (2 * ms - y) = 2 * (ms * r) - y * r
    BY <1>1, <1>7
  <2> QED
    BY <1>7, <1>9, <2>1, <2>2
<1>11. m * S = msr /\ k * S = ks * r
  <2>1. m * (s * r) = (m * s) * r /\ k * (s * r) = (k * s) * r
    BY <1>1, <1>4
  <2> QED
    BY <1>1, <1>7, <1>9, <2>1
<1>12. (w - 1) * (2 * W + (2 * c + 1) * r) = 2 * v + z
  <2>1. PICK q \in Int : q = 2 * c + 1
    BY <1>6
  <2>2. (w - 1) * (2 * W + q * r) = 2 * ((w - 1) * W) + ((w - 1) * q) * r
    BY <1>1, <2>1
  <2> QED
    BY <1>7, <2>1, <2>2
<1>13. PICK lim \in Int : lim = ks * r
  BY <1>1, <1>7
<1>14. (2 * (v + msr)) - (2 * v + z) \in -(2 * lim) .. 2 * lim
  BY <1>7, <1>8, <1>9, <1>10, <1>13
<1>15. Distance(2 * (v + msr), 2 * v + z) <= 2 * lim
  BY <1>7, <1>9, <1>13, <1>14, DistanceWithin
<1>16. (w - 1) * (W + 0) + m * S = v + msr /\ 2 * k * S = 2 * lim
  <2>1. W + 0 = W
    BY <1>1
  <2>2. 2 * k * S = 2 * (k * S)
    BY <1>1, <1>4
  <2> QED
    BY <1>7, <1>11, <1>13, <2>1, <2>2
<1> QED
  BY <1>12, <1>15, <1>16

LEMMA LatPlaced ==
    ASSUME NEW g \in Grids, NEW l \in Levels(g), NEW c \in 0 .. Shape(g, l)[2] - 1,
           NEW n, n[2] \in c * 2^l .. c * 2^l + 2^l - 1
    PROVE  NearLat(g, n, 2 * g.box.maxLat - (2 * c + 1) * Resolution(g, l)[2],
                   2, (3 * 2^l) \div 2)
<1> DEFINE w == g.shape[2]
           s == Shape(g, l)[2]
           r == Resolution(g, l)[2]
           S == Span(g.box)[2]
           N == g.box.maxLat
           k == (3 * 2^l) \div 2
<1>1. /\ w \in Nat \ {0} /\ s \in Nat \ {0} /\ r \in Nat \ {0} /\ 2^l \in Nat \ {0}
      /\ s = w \div 2^l /\ S = s * r /\ N \in Int
  <2>1. /\ w \in Nat \ {0} /\ s \in Nat \ {0} /\ r \in Nat \ {0} /\ S = s * r
        /\ g.box \in BoxType
    BY Native, GridNumbers
  <2>2. 2^l \in Nat \ {0}
    BY PowerOfTwo
  <2>3. s = w \div 2^l
    BY DEF Shape
  <2> QED
    BY <2>1, <2>2, <2>3 DEF BoxType
<1>2. PICK m \in Int : m = n[2]
  OBVIOUS
<1>3. PICK x \in Int : x = 2 * (m * s) - (w - 1) * (2 * c + 1)
  BY <1>1, <1>2
<1>4. k \in Nat /\ x \in -(2 * (k * s)) .. 2 * (k * s)
  BY <1>1, <1>2, <1>3, BlockMiddle
<1>5. Gaps(g, 2) = w - 1
  BY DEF Gaps
<1> SUFFICES Distance(2 * ((w - 1) * N - m * S), (w - 1) * (2 * N - (2 * c + 1) * r))
                 <= 2 * k * S
  <2>1. NearLat(g, n, 2 * N - (2 * c + 1) * r, 2, k)
    BY <1>2, <1>5 DEF NearLat
  <2> QED
    BY <2>1
<1> HIDE DEF w, s, r, S, N, k
<1>6. c \in Int
  OBVIOUS
<1>7. PICK ks \in Nat, v \in Int, y \in Int, z \in Int, ms \in Int :
          /\ ks = k * s /\ v = (w - 1) * N /\ y = (w - 1) * (2 * c + 1)
          /\ z = y * r /\ ms = m * s
  BY <1>1, <1>4, <1>6
<1>8. r * x \in -(2 * (ks * r)) .. 2 * (ks * r)
  BY <1>1, <1>4, <1>7, Scaled
<1>9. PICK msr \in Int : msr = ms * r
  BY <1>1, <1>7
<1>10. r * x = 2 * msr - z
  <2>1. x = 2 * ms - y
    BY <1>3, <1>7
  <2>2. r * (2 * ms - y) = 2 * (ms * r) - y * r
    BY <1>1, <1>7
  <2> QED
    BY <1>7, <1>9, <2>1, <2>2
<1>11. m * S = msr /\ k * S = ks * r
  <2>1. m * (s * r) = (m * s) * r /\ k * (s * r) = (k * s) * r
    BY <1>1, <1>4
  <2> QED
    BY <1>1, <1>7, <1>9, <2>1
<1>12. (w - 1) * (2 * N - (2 * c + 1) * r) = 2 * v - z
  <2>1. PICK q \in Int : q = 2 * c + 1
    BY <1>6
  <2>2. (w - 1) * (2 * N - q * r) = 2 * ((w - 1) * N) - ((w - 1) * q) * r
    BY <1>1, <2>1
  <2> QED
    BY <1>7, <2>1, <2>2
<1>13. PICK lim \in Int : lim = ks * r
  BY <1>1, <1>7
<1>14. (2 * (v - msr)) - (2 * v - z) \in -(2 * lim) .. 2 * lim
  BY <1>7, <1>8, <1>9, <1>10, <1>13
<1>15. Distance(2 * (v - msr), 2 * v - z) <= 2 * lim
  BY <1>7, <1>9, <1>13, <1>14, DistanceWithin
<1>16. (w - 1) * N - m * S = v - msr /\ 2 * k * S = 2 * lim
  <2>1. 2 * k * S = 2 * (k * S)
    BY <1>1, <1>4
  <2> QED
    BY <1>7, <1>11, <1>13, <2>1
<1> QED
  BY <1>12, <1>15, <1>16

\* Its box says which cells it has.
LEMMA RegionClaims ==
    ASSUME NEW g \in Grids, NEW l \in Levels(g), NEW b \in BoxType,
           NEW reg, RegionOf(g, l, b, reg), NEW o
    PROVE  LET c == Cells(g, l, EffectiveBox(g, l, b))
           IN  Claimed(g, reg, o) = <<c.from[1] + (o % reg.width),
                                      c.from[2] + (o \div reg.width)>>
<1> DEFINE c == Cells(g, l, EffectiveBox(g, l, b))
           r == Resolution(g, l)
<1>1. c.from[1] \in Nat /\ c.from[2] \in Nat
  BY EffectiveIsBox, CellsInGrid
<1>2. /\ r[1] \in Nat \ {0} /\ r[2] \in Nat \ {0} /\ g.box \in BoxType
  BY GridNumbers
<1>3. ASSUME NEW d \in Nat \ {0}, NEW f \in Nat, NEW x \in Int
      PROVE  /\ ((x + f * d) - x) \div d = f /\ (x - (x - f * d)) \div d = f
  <2>1. f \in Int /\ 0 \in 0 .. d - 1
    OBVIOUS
  <2>2. (d * f + 0) \div d = f
    BY <2>1, Quotient
  <2>3. f * d \in Int /\ d * f + 0 = f * d
    OBVIOUS
  <2> QED
    BY <2>2, <2>3
<1>4. /\ reg.res = r /\ reg.box.minLon = g.box.minLon + c.from[1] * r[1]
      /\ g.origin = "north" => reg.box.maxLat = g.box.maxLat - c.from[2] * r[2]
      /\ g.origin # "north" => reg.box.minLat = g.box.minLat + c.from[2] * r[2]
  BY DEF RegionOf
<1>5. /\ g.box.minLon \in Int /\ g.box.minLat \in Int
      /\ g.box.maxLon \in Int /\ g.box.maxLat \in Int
  BY <1>2 DEF BoxType
<1> HIDE DEF c, r
<1>6. (reg.box.minLon - g.box.minLon) \div reg.res[1] = c.from[1]
  BY <1>1, <1>2, <1>3, <1>4, <1>5
<1>7. (IF g.origin = "north" THEN g.box.maxLat - reg.box.maxLat
                             ELSE reg.box.minLat - g.box.minLat) \div reg.res[2] = c.from[2]
  <2>1. CASE g.origin = "north"
    BY <1>1, <1>2, <1>3, <1>4, <1>5, <2>1
  <2>2. CASE g.origin # "north"
    <3>1. ((g.box.minLat + c.from[2] * r[2]) - g.box.minLat) \div r[2] = c.from[2]
      BY <1>1, <1>2, <1>3, <1>5
    <3> QED
      BY <1>4, <2>2, <3>1
  <2> QED
    BY <2>1, <2>2
<1> QED
  BY <1>6, <1>7, Zenon DEF Claimed, c

\* What a region's values should be.
Right(g, l, reg) ==
    \A o \in DOMAIN reg.data :
        LET c == Claimed(g, reg, o)
            k == (3 * 2^l) \div 2
        IN  /\ reg.data[o] = Stored(g, l, c[1], c[2])
            /\ ~g.projected =>
                   \A n \in reg.data[o] : /\ NearLon(g, n, MiddleLon(reg, o), 2, k)
                                          /\ NearLat(g, n, MiddleLat(reg, o), 2, k)

LEMMA RegionValues ==
    ASSUME NEW g \in Grids, NEW l \in Levels(g), NEW b \in BoxType,
           NEW reg \in ReadRegion(g, l, b), reg.kind = "region"
    PROVE  Right(g, l, reg)
<1>1. CASE reg = Region(<<>>, 0, 0, EffectiveBox(g, l, b), Resolution(g, l))
  BY <1>1 DEF Region, Right
<1>2. CASE RegionOf(g, l, b, reg)
  <2> DEFINE c == Cells(g, l, EffectiveBox(g, l, b))
             r == Resolution(g, l)
             k == (3 * 2^l) \div 2
  <2> SUFFICES ASSUME NEW o \in DOMAIN reg.data
               PROVE  LET d == Claimed(g, reg, o)
                      IN  /\ reg.data[o] = Stored(g, l, d[1], d[2])
                          /\ ~g.projected =>
                                 \A n \in reg.data[o] :
                                     /\ NearLon(g, n, MiddleLon(reg, o), 2, k)
                                     /\ NearLat(g, n, MiddleLat(reg, o), 2, k)
    BY DEF Right
  <2>1. /\ reg.width = c.to[1] - c.from[1] /\ reg.width \in Nat \ {0}
        /\ reg.height = c.to[2] - c.from[2] /\ reg.height \in Nat \ {0}
        /\ o \in 0 .. reg.width * reg.height - 1
        /\ reg.res = r
        /\ reg.box.minLon = g.box.minLon + c.from[1] * reg.res[1]
        /\ g.origin = "north" => reg.box.maxLat = g.box.maxLat - c.from[2] * reg.res[2]
        /\ reg.data[o] = Stored(g, l, c.from[1] + (o % reg.width),
                                      c.from[2] + (o \div reg.width))
    BY <1>2 DEF RegionOf
  <2>2. Claimed(g, reg, o) = <<c.from[1] + (o % reg.width), c.from[2] + (o \div reg.width)>>
    BY <1>2, RegionClaims
  <2>3. /\ c.from[1] \in Nat /\ c.to[1] \in 0 .. Shape(g, l)[1]
        /\ c.from[2] \in Nat /\ c.to[2] \in 0 .. Shape(g, l)[2]
        /\ r[1] \in Nat \ {0} /\ r[2] \in Nat \ {0} /\ g.box \in BoxType
        /\ Shape(g, l)[1] \in Nat /\ Shape(g, l)[2] \in Nat
    BY EffectiveIsBox, CellsInGrid, GridNumbers
  <2> HIDE DEF c, r
  <2>4. PICK w \in Nat \ {0}, h \in Nat \ {0}, f1 \in Nat, f2 \in Nat :
            /\ w = reg.width /\ h = reg.height /\ f1 = c.from[1] /\ f2 = c.from[2]
            /\ f1 + w <= Shape(g, l)[1] /\ f2 + h <= Shape(g, l)[2]
    <3>1. c.from[1] + reg.width = c.to[1] /\ c.from[2] + reg.height = c.to[2]
      BY <2>1, <2>3
    <3>2. c.to[1] <= Shape(g, l)[1] /\ c.to[2] <= Shape(g, l)[2]
      BY <2>3
    <3>3. /\ reg.width \in Nat \ {0} /\ reg.height \in Nat \ {0}
          /\ c.from[1] \in Nat /\ c.from[2] \in Nat
      BY <2>1, <2>3
    <3> QED
      BY <3>1, <3>2, <3>3
  <2>5. PICK x \in 0 .. w - 1, y \in 0 .. h - 1 : x = o % w /\ y = o \div w
    BY <2>1, <2>4, InTable
  <2>6. f1 + x \in 0 .. Shape(g, l)[1] - 1 /\ f2 + y \in 0 .. Shape(g, l)[2] - 1
    BY <2>3, <2>4
  <2>7. reg.data[o] = Stored(g, l, f1 + x, f2 + y) /\ Claimed(g, reg, o) = <<f1 + x, f2 + y>>
    BY <2>1, <2>2, <2>4, <2>5
  <2>8. MiddleLon(reg, o) = 2 * g.box.minLon + (2 * (f1 + x) + 1) * r[1]
    <3>1. PICK west \in Int, step \in Int, p \in Int, q \in Int :
              west = g.box.minLon /\ step = r[1] /\ p = f1 * step /\ q = x * step
      BY <2>3, <2>4 DEF BoxType
    <3>2. MiddleLon(reg, o) = 2 * (west + f1 * step) + (2 * x + 1) * step
      BY <2>1, <2>4, <2>5, <3>1 DEF MiddleLon
    <3>3. (2 * x + 1) * step = 2 * q + step /\ (2 * (f1 + x) + 1) * step = 2 * p + 2 * q + step
      <4>1. x \in Int /\ f1 \in Int /\ step \in Int
        BY <3>1
      <4>2. /\ (2 * x + 1) * step = 2 * (x * step) + step
            /\ (2 * (f1 + x) + 1) * step = 2 * (f1 * step) + 2 * (x * step) + step
        BY <4>1
      <4> QED
        BY <3>1, <4>2
    <3>4. MiddleLon(reg, o) = 2 * (west + p) + (2 * q + step)
      BY <3>1, <3>2, <3>3
    <3>5. 2 * (west + p) + (2 * q + step) = 2 * west + (2 * p + 2 * q + step)
      BY <3>1
    <3> QED
      BY <3>1, <3>3, <3>4, <3>5
  <2>9. g.origin = "north" =>
            MiddleLat(reg, o) = 2 * g.box.maxLat - (2 * (f2 + y) + 1) * r[2]
    <3> SUFFICES ASSUME g.origin = "north"
                 PROVE  MiddleLat(reg, o) = 2 * g.box.maxLat - (2 * (f2 + y) + 1) * r[2]
      OBVIOUS
    <3>1. PICK north \in Int, step \in Int, p \in Int, q \in Int :
              north = g.box.maxLat /\ step = r[2] /\ p = f2 * step /\ q = y * step
      BY <2>3, <2>4 DEF BoxType
    <3>2. MiddleLat(reg, o) = 2 * (north - f2 * step) - (2 * y + 1) * step
      BY <2>1, <2>4, <2>5, <3>1 DEF MiddleLat
    <3>3. (2 * y + 1) * step = 2 * q + step /\ (2 * (f2 + y) + 1) * step = 2 * p + 2 * q + step
      <4>1. y \in Int /\ f2 \in Int /\ step \in Int
        BY <3>1
      <4>2. /\ (2 * y + 1) * step = 2 * (y * step) + step
            /\ (2 * (f2 + y) + 1) * step = 2 * (f2 * step) + 2 * (y * step) + step
        BY <4>1
      <4> QED
        BY <3>1, <4>2
    <3>4. MiddleLat(reg, o) = 2 * (north - p) - (2 * q + step)
      BY <3>1, <3>2, <3>3
    <3>5. 2 * (north - p) - (2 * q + step) = 2 * north - (2 * p + 2 * q + step)
      BY <3>1
    <3> QED
      BY <3>1, <3>3, <3>4, <3>5
  <2>10. ASSUME ~g.projected, NEW n \in reg.data[o]
         PROVE  /\ NearLon(g, n, MiddleLon(reg, o), 2, k)
                /\ NearLat(g, n, MiddleLat(reg, o), 2, k)
    <3>1. g.origin = "north"
      BY <2>10, GridsAssumption
    <3>2. /\ n[1] \in (f1 + x) * 2^l .. (f1 + x) * 2^l + 2^l - 1
          /\ n[2] \in (f2 + y) * 2^l .. (f2 + y) * 2^l + 2^l - 1
      BY <2>7, <2>10 DEF Stored
    <3> QED
      BY <2>6, <2>8, <2>9, <3>1, <3>2, LonPlaced, LatPlaced DEF r
  <2> QED
    BY <2>7, <2>10
<1> QED
  BY <1>1, <1>2, ReadRegionIs

\* A region is a record, and its box is.
LEMMA RegionIsRecord ==
    ASSUME NEW g \in Grids, NEW l \in Levels(g), NEW b \in BoxType,
           NEW reg \in ReadRegion(g, l, b), reg.kind = "region"
    PROVE  /\ reg = Region(reg.data, reg.width, reg.height, reg.box, reg.res)
           /\ IsRecord(reg.box)
<1> DEFINE e == EffectiveBox(g, l, b)
<1>1. IsRecord(e)
  BY EffectiveIsBox DEF BoxType, IsRecord
<1>2. CASE reg = Region(<<>>, 0, 0, e, Resolution(g, l))
  <2> HIDE DEF e
  <2> QED
    BY <1>1, <1>2 DEF Region
<1>3. CASE RegionOf(g, l, b, reg)
  BY <1>3 DEF RegionOf
<1> QED
  BY <1>2, <1>3, ReadRegionIs

\* The box an image is read for is a box.
LEMMA ReadBoxIsBox ==
    ASSUME NEW g \in Grids, NEW b \in Boxes
    PROVE  ReadBox(g, b) \in BoxType /\ b \in BoxType
BY GridsAssumption, BoxesAssumption DEF ReadBox, IsBox

\* The two extractions of an area query: what it makes at the prime meridian is
\* in the box of the request; the date line moves the end of a region's box.
LEMMA ExtractedIs ==
    ASSUME NEW reg, NEW b \in BoxType, reg.kind = "region",
           NEW out, out = ExtractDateline(ExtractPrimeMeridian(reg, b), b)
    PROVE  \/ out = reg
           \/ out.box = b
           \/ out = [reg EXCEPT !.box.maxLon = @ - Circle]
<1> DEFINE pm == ExtractPrimeMeridian(reg, b)
<1>1. b.minLon \in Int
  BY DEF BoxType
<1>2. pm = reg \/ (pm.box = b /\ ~(b.minLon >= 0))
  <2>1. CASE ~Uses360(reg.box) \/ b.minLon >= 0 \/ b.maxLon <= 0
    BY <2>1 DEF ExtractPrimeMeridian
  <2>2. CASE ~(~Uses360(reg.box) \/ b.minLon >= 0 \/ b.maxLon <= 0)
    <3>1. \E data, width, height, res : pm = Region(data, width, height, b, res)
      BY <2>2 DEF ExtractPrimeMeridian
    <3> HIDE DEF pm
    <3> QED
      BY <2>2, <3>1 DEF Region
  <2> QED
    BY <2>1, <2>2
<1> HIDE DEF pm
<1>3. out = ExtractDateline(pm, b)
  BY DEF pm
<1>4. CASE pm = reg
  BY <1>3, <1>4 DEF ExtractDateline
<1>5. CASE pm.box = b /\ ~(b.minLon >= 0)
  <2>1. out = pm
    BY <1>3, <1>5, Zenon DEF ExtractDateline
  <2> QED
    BY <1>5, <2>1
<1> QED
  BY <1>2, <1>4, <1>5

-----------------------------------------------------------------------------
(* Regions have what is asked for *)

\* If there is a cell to be read, there is a region of all of them.
LEMMA SomethingRead ==
    ASSUME NEW g \in Grids, NEW l \in Levels(g), NEW b \in BoxType,
           NEW reg \in ReadRegion(g, l, b), NEW col \in Int, NEW row \in Int,
           LET c == Cells(g, l, EffectiveBox(g, l, b))
           IN  /\ col >= c.from[1] /\ col < c.to[1]
               /\ row >= c.from[2] /\ row < c.to[2]
    PROVE  reg # Broken /\ (reg.kind = "region" => RegionOf(g, l, b, reg))
<1> DEFINE e == EffectiveBox(g, l, b)
           c == Cells(g, l, e)
           chunks == ChunksForBox(g, l, e)
           width == c.to[1] - c.from[1]
           height == c.to[2] - c.from[2]
<1>1. /\ c.from[1] \in Nat /\ c.to[1] \in 0 .. Shape(g, l)[1]
      /\ c.from[2] \in Nat /\ c.to[2] \in 0 .. Shape(g, l)[2]
      /\ e \in BoxType
  BY EffectiveIsBox, CellsInGrid
<1>2. /\ col >= c.from[1] /\ col < c.to[1]
      /\ row >= c.from[2] /\ row < c.to[2]
  OBVIOUS
<1>3. width \in Nat \ {0} /\ height \in Nat \ {0}
  BY <1>1, <1>2, GridNumbers
<1>4. chunks # {}
  BY <1>1, <1>2, ChunksSuffice
<1>5. reg = AssembleRegion(g, l, e, chunks) \/ reg = Failed
  BY <1>4, Zenon DEF ReadRegion
<1>6. \E data, box : AssembleRegion(g, l, e, chunks)
                         = Region(data, width, height, box, Resolution(g, l))
  <2>1. ~(width < 0 \/ height < 0) /\ ~(width = 0 \/ height = 0)
    BY <1>3
  <2> QED
    BY <2>1, Zenon DEF AssembleRegion
<1> HIDE DEF width, height, e
<1>7. reg # Broken
  BY <1>5, <1>6 DEF Region, Broken, Failed
<1>8. reg # Region(<<>>, 0, 0, e, Resolution(g, l))
  BY <1>3, <1>5, <1>6 DEF Region, Failed
<1> QED
  BY <1>7, <1>8, ReadRegionIs DEF e

\* And all of them can be found in it.
LEMMA RegionHas ==
    ASSUME NEW g \in Grids, NEW l \in Levels(g), NEW b \in BoxType,
           NEW reg, RegionOf(g, l, b, reg), NEW col \in Int, NEW row \in Int,
           LET c == Cells(g, l, EffectiveBox(g, l, b))
           IN  /\ col >= c.from[1] /\ col < c.to[1]
               /\ row >= c.from[2] /\ row < c.to[2]
    PROVE  \E o \in DOMAIN reg.data : Claimed(g, reg, o) = <<col, row>>
<1> DEFINE c == Cells(g, l, EffectiveBox(g, l, b))
           o == reg.width * (row - c.from[2]) + (col - c.from[1])
<1>1. c.from[1] \in Nat /\ c.from[2] \in Nat /\ c.to[1] \in Int /\ c.to[2] \in Int
  BY EffectiveIsBox, CellsInGrid, GridNumbers
<1>2. /\ reg.width = c.to[1] - c.from[1] /\ reg.width \in Nat \ {0}
      /\ reg.height = c.to[2] - c.from[2] /\ reg.height \in Nat \ {0}
      /\ DOMAIN reg.data = 0 .. reg.width * reg.height - 1
  BY DEF RegionOf
<1>3. /\ col >= c.from[1] /\ col < c.to[1]
      /\ row >= c.from[2] /\ row < c.to[2]
  OBVIOUS
<1>4. Claimed(g, reg, o) = <<c.from[1] + (o % reg.width), c.from[2] + (o \div reg.width)>>
  BY RegionClaims
<1> HIDE DEF c
<1>5. PICK x \in Int, y \in Int : x = col - c.from[1] /\ y = row - c.from[2]
  BY <1>1
<1>6. o = reg.width * y + x
  BY <1>5
<1>7. x \in 0 .. reg.width - 1 /\ y \in 0 .. reg.height - 1
  <2>1. PICK from \in Int, to \in Int, w \in Nat \ {0} :
            from = c.from[1] /\ to = c.to[1] /\ w = reg.width
    BY <1>1, <1>2
  <2>2. x \in 0 .. w - 1
    <3>1. w = to - from
      BY <1>2, <2>1
    <3>2. col >= from /\ col < to
      BY <1>3, <2>1
    <3>3. x = col - from
      BY <1>5, <2>1
    <3> QED
      BY <3>1, <3>2, <3>3
  <2>3. PICK first \in Int, last \in Int, h \in Nat \ {0} :
            first = c.from[2] /\ last = c.to[2] /\ h = reg.height
    BY <1>1, <1>2
  <2>4. y \in 0 .. h - 1
    <3>1. h = last - first
      BY <1>2, <2>3
    <3>2. row >= first /\ row < last
      BY <1>3, <2>3
    <3>3. y = row - first
      BY <1>5, <2>3
    <3> QED
      BY <3>1, <3>2, <3>3
  <2> QED
    BY <2>1, <2>2, <2>3, <2>4
<1> HIDE DEF o
<1>8. o % reg.width = x /\ o \div reg.width = y
  <2>1. reg.width \in Nat \ {0}
    BY <1>2
  <2>2. (reg.width * y + x) \div reg.width = y /\ (reg.width * y + x) % reg.width = x
    BY <2>1, <1>7, Quotient
  <2> QED
    BY <1>6, <2>2
<1>9. o \in 0 .. reg.width * reg.height - 1
  BY <1>2, <1>6, <1>7, InTableBack
<1>10. c.from[1] + x = col /\ c.from[2] + y = row
  BY <1>1, <1>5
<1> QED
  BY <1>2, <1>4, <1>8, <1>9, <1>10

\* Along one axis: a cell that is touched, and those up to a buffer away, are
\* among the cells of the box with its buffer.
LEMMA AxisCovered ==
    ASSUME NEW r \in Nat \ {0}, NEW s \in Nat \ {0}, NEW buffer \in Nat,
           NEW lo \in Int, NEW hi \in Int,
           NEW j \in 0 .. s - 1, NEW k \in 0 .. s - 1,
           Distance(j, k) <= buffer, k * r < hi, (k + 1) * r > lo
    PROVE  /\ From(Larger(lo - buffer * r, 0), r) <= j
           /\ j < Until(Smaller(hi + buffer * r, s * r), r, s)
<1> DEFINE start == Larger(lo - buffer * r, 0)
           end == Smaller(hi + buffer * r, s * r)
<1>1. PICK br \in Nat : br = buffer * r
  OBVIOUS
<1>2. PICK sr \in Nat : sr = s * r
  OBVIOUS
<1>3. PICK kr \in Nat : kr = k * r
  OBVIOUS
<1>4. PICK jr \in Nat : jr = j * r
  OBVIOUS
<1>5. j - k <= buffer /\ k - j <= buffer
  BY DEF Distance
<1>6. jr <= kr + br /\ kr <= jr + br
  <2>1. r * j <= r * (k + buffer) /\ r * k <= r * (j + buffer)
    BY <1>5, TimesMonotone
  <2>2. /\ r * j = jr /\ r * k = kr
        /\ r * (k + buffer) = kr + br /\ r * (j + buffer) = jr + br
    BY <1>1, <1>3, <1>4
  <2> QED
    BY <2>1, <2>2
<1>7. jr < sr /\ jr + r <= sr
  <2>1. r * (j + 1) <= r * s
    BY TimesMonotone
  <2>2. r * (j + 1) = jr + r /\ r * s = sr
    BY <1>2, <1>4
  <2> QED
    BY <2>1, <2>2
<1>8. start \in Nat /\ start < jr + r
  <2>1. kr + r > lo
    BY <1>3
  <2> QED
    BY <1>1, <1>6, <2>1 DEF Larger
<1>9. end \in Int /\ jr < end /\ end <= sr
  BY <1>1, <1>2, <1>3, <1>6, <1>7 DEF Smaller
<1> HIDE DEF start, end
<1>10. From(start, r) <= j
  <2>1. PICK q \in Nat : q = start \div r /\ r * q <= start
    BY <1>8, DivGreatest
  <2>2. r * q < r * (j + 1)
    <3>1. r * (j + 1) = jr + r /\ r * q \in Int
      BY <1>4
    <3> QED
      BY <1>8, <2>1, <3>1
  <2>3. q < j + 1
    BY <2>2, TimesLess
  <2> QED
    BY <2>1, <2>3 DEF From, Larger
<1>11. j < Until(end, r, s)
  <2>1. jr \in Int /\ jr \div r = j
    <3>1. (r * j + 0) \div r = j /\ r * j + 0 = jr
      BY <1>4, Quotient
    <3> QED
      BY <3>1
  <2>2. CeilDiv(end, r) \in Int /\ j <= CeilDiv(end, r) - 1
    BY <1>9, <2>1, CeilDivAbove
  <2> HIDE DEF CeilDiv
  <2> QED
    BY <2>2 DEF Until, Larger, Smaller
<1> QED
  BY <1>10, <1>11 DEF start, end

LEMMA NormalFields ==
    ASSUME NEW grid, NEW b \in BoxType
    PROVE  LET n == NormalizeToGrid(b, grid)
           IN  /\ n.minLon = Turned(b.minLon, grid) /\ n.maxLon = Turned(b.maxLon, grid)
               /\ n.minLat = b.minLat /\ n.maxLat = b.maxLat
BY DEF NormalizeToGrid, BoxType

\* Cells, along each axis.
LEMMA CellsAlong ==
    ASSUME NEW g \in Grids, NEW l, NEW b \in BoxType
    PROVE  LET c == Cells(g, l, b)
               r == Resolution(g, l)
               s == Shape(g, l)
           IN  /\ c.from[1] = From(Turned(b.minLon, g.box) - g.box.minLon, r[1])
               /\ c.to[1] = Until(Turned(b.maxLon, g.box) - g.box.minLon, r[1], s[1])
               /\ g.origin = "north" =>
                      /\ c.from[2] = From(g.box.maxLat - b.maxLat, r[2])
                      /\ c.to[2] = Until(g.box.maxLat - b.minLat, r[2], s[2])
               /\ g.origin # "north" =>
                      /\ c.from[2] = From(b.minLat - g.box.minLat, r[2])
                      /\ c.to[2] = Until(b.maxLat - g.box.minLat, r[2], s[2])
<1> DEFINE n == NormalizeToGrid(b, g.box)
           first == IF g.origin = "north" THEN g.box.maxLat - n.maxLat
                                          ELSE n.minLat - g.box.minLat
           last == IF g.origin = "north" THEN g.box.maxLat - n.minLat
                                         ELSE n.maxLat - g.box.minLat
           r == Resolution(g, l)
           s == Shape(g, l)
<1>1. Cells(g, l, b) =
          [from |-> <<From(n.minLon - g.box.minLon, r[1]), From(first, r[2])>>,
           to |-> <<Until(n.maxLon - g.box.minLon, r[1], s[1]), Until(last, r[2], s[2])>>]
  BY Zenon DEF Cells
<1>2. /\ n.minLon = Turned(b.minLon, g.box) /\ n.maxLon = Turned(b.maxLon, g.box)
      /\ n.minLat = b.minLat /\ n.maxLat = b.maxLat
  BY NormalFields
<1> HIDE DEF n, r, s
<1>3. /\ Cells(g, l, b).from[1] = From(n.minLon - g.box.minLon, r[1])
      /\ Cells(g, l, b).to[1] = Until(n.maxLon - g.box.minLon, r[1], s[1])
      /\ Cells(g, l, b).from[2] = From(first, r[2])
      /\ Cells(g, l, b).to[2] = Until(last, r[2], s[2])
  <2> HIDE DEF first, last
  <2> QED
    BY <1>1
<1> QED
  BY <1>2, <1>3 DEF r, s

\* The grid's own box needs no turning, and has all cells.
LEMMA NotTurned ==
    ASSUME NEW g \in Grids
    PROVE  /\ Turned(g.box.minLon, g.box) = g.box.minLon
           /\ Turned(g.box.maxLon, g.box) = g.box.maxLon
           /\ ~CrossesOn360(g.box, g.box)
<1>1. g.box \in BoxType /\ g.box.minLon < g.box.maxLon
  BY Native, GridNumbers
<1>2. g.box.minLon \in Int /\ g.box.maxLon \in Int
  BY <1>1 DEF BoxType
<1> QED
  BY <1>1, <1>2 DEF Turned, CrossesOn360, Uses360

LEMMA WholeCells ==
    ASSUME NEW g \in Grids, NEW l \in Levels(g)
    PROVE  LET c == Cells(g, l, g.box)
           IN  /\ c.from[1] = 0 /\ c.to[1] = Shape(g, l)[1]
               /\ c.from[2] = 0 /\ c.to[2] = Shape(g, l)[2]
<1>1. ASSUME NEW r \in Nat \ {0}, NEW s \in Nat \ {0}
      PROVE  From(0, r) = 0 /\ Until(s * r, r, s) = s
  <2>1. (r * 0 + 0) \div r = 0 /\ r * 0 + 0 = 0
    BY Quotient
  <2>2. (r * (-s) + 0) \div r = -s /\ r * (-s) + 0 = -(s * r)
    BY Quotient
  <2>3. CeilDiv(s * r, r) = s
    BY <2>2 DEF CeilDiv
  <2>4. From(0, r) = 0
    BY <2>1 DEF From, Larger
  <2> HIDE DEF CeilDiv
  <2> QED
    BY <2>3, <2>4 DEF Until, Larger, Smaller
<1>2. /\ g.box \in BoxType
      /\ Resolution(g, l)[1] \in Nat \ {0} /\ Resolution(g, l)[2] \in Nat \ {0}
      /\ Shape(g, l)[1] \in Nat \ {0} /\ Shape(g, l)[2] \in Nat \ {0}
      /\ Span(g.box)[1] = Shape(g, l)[1] * Resolution(g, l)[1]
      /\ Span(g.box)[2] = Shape(g, l)[2] * Resolution(g, l)[2]
  BY GridNumbers
<1>3. /\ g.box.minLon - g.box.minLon = 0 /\ g.box.maxLon - g.box.minLon = Span(g.box)[1]
      /\ g.box.minLat - g.box.minLat = 0 /\ g.box.maxLat - g.box.minLat = Span(g.box)[2]
      /\ g.box.maxLat - g.box.maxLat = 0
  BY <1>2 DEF BoxType, Span
<1>4. /\ From(0, Resolution(g, l)[1]) = 0 /\ From(0, Resolution(g, l)[2]) = 0
      /\ Until(Span(g.box)[1], Resolution(g, l)[1], Shape(g, l)[1]) = Shape(g, l)[1]
      /\ Until(Span(g.box)[2], Resolution(g, l)[2], Shape(g, l)[2]) = Shape(g, l)[2]
  <2>1. /\ From(0, Resolution(g, l)[1]) = 0
        /\ Until(Shape(g, l)[1] * Resolution(g, l)[1], Resolution(g, l)[1], Shape(g, l)[1])
               = Shape(g, l)[1]
    BY <1>1, <1>2
  <2>2. /\ From(0, Resolution(g, l)[2]) = 0
        /\ Until(Shape(g, l)[2] * Resolution(g, l)[2], Resolution(g, l)[2], Shape(g, l)[2])
               = Shape(g, l)[2]
    BY <1>1, <1>2
  <2> QED
    BY <1>2, <2>1, <2>2, Zenon
<1> QED
  BY <1>2, <1>3, <1>4, CellsAlong, NotTurned

LEMMA EffectiveWhole ==
    ASSUME NEW g \in Grids, NEW l \in Levels(g), NEW b,
           g.projected \/ CrossesOn360(b, g.box) \/ b = g.box
    PROVE  EffectiveBox(g, l, b) = g.box
<1>1. CASE g.projected \/ CrossesOn360(b, g.box)
  BY <1>1, Zenon DEF EffectiveBox
<1>2. CASE b = g.box /\ ~(g.projected \/ CrossesOn360(b, g.box))
  <2> DEFINE n == NormalizeToGrid(b, g.box)
             r == Resolution(g, l)
  <2>1. /\ g.box \in BoxType /\ r[1] \in Nat /\ r[2] \in Nat /\ Buffer \in Nat
    BY GridNumbers, PlacesAssumption
  <2>2. /\ n.minLon = g.box.minLon /\ n.maxLon = g.box.maxLon
        /\ n.minLat = g.box.minLat /\ n.maxLat = g.box.maxLat
    BY <1>2, <2>1, NormalFields, NotTurned
  <2>3. EffectiveBox(g, l, b) =
            [minLon |-> Larger(n.minLon - Buffer * r[1], g.box.minLon),
             minLat |-> Larger(n.minLat - Buffer * r[2], g.box.minLat),
             maxLon |-> Smaller(n.maxLon + Buffer * r[1], g.box.maxLon),
             maxLat |-> Smaller(n.maxLat + Buffer * r[2], g.box.maxLat)]
    BY <1>2, Zenon DEF EffectiveBox
  <2>4. Buffer * r[1] \in Nat /\ Buffer * r[2] \in Nat
    BY <2>1
  <2>5. ASSUME NEW x \in Int, NEW d \in Nat
        PROVE  Larger(x - d, x) = x /\ Smaller(x + d, x) = x
    BY DEF Larger, Smaller
  <2>6. /\ g.box.minLon \in Int /\ g.box.minLat \in Int
        /\ g.box.maxLon \in Int /\ g.box.maxLat \in Int
        /\ g.box = [minLon |-> g.box.minLon, minLat |-> g.box.minLat,
                    maxLon |-> g.box.maxLon, maxLat |-> g.box.maxLat]
    BY <2>1 DEF BoxType
  <2> HIDE DEF n, r
  <2> QED
    BY <2>2, <2>3, <2>4, <2>5, <2>6
<1> QED
  BY <1>1, <1>2, Zenon

\* A box that is not on both sides of the meridian where the grid begins is
\* turned to where the grid is; what it touches there, it touches.
LEMMA TouchedTurned ==
    ASSUME NEW g \in Grids, NEW l \in Levels(g), NEW b, IsBox(b),
           ~CrossesOn360(b, g.box), -Circle <= b.minLon, b.maxLon <= Circle,
           NEW k \in TouchedColumns(g, l, b)
    PROVE  /\ k \in 0 .. Shape(g, l)[1] - 1
           /\ k * Resolution(g, l)[1] < Turned(b.maxLon, g.box) - g.box.minLon
           /\ (k + 1) * Resolution(g, l)[1] > Turned(b.minLon, g.box) - g.box.minLon
           /\ Turned(b.minLon, g.box) \in Int /\ Turned(b.maxLon, g.box) \in Int
           /\ Uses360(g.box) => /\ Turned(b.maxLon, g.box) >= 0
                                /\ g.box.minLon >= 0 /\ g.box.maxLon >= 0
<1> DEFINE r == Resolution(g, l)[1]
           s == Shape(g, l)[1]
           W == g.box.minLon
<1>1. /\ r \in Nat \ {0} /\ s \in Nat \ {0} /\ Circle \in Nat
      /\ g.box \in BoxType /\ W < g.box.maxLon
      /\ Span(g.box)[1] = s * r
  BY GridNumbers, PlacesAssumption
<1>2. /\ W \in Int /\ g.box.maxLon \in Int /\ g.box.maxLon = W + s * r
      /\ b.minLon \in Int /\ b.maxLon \in Int /\ b.minLon < b.maxLon
  BY <1>1 DEF BoxType, Span, IsBox
<1>3. PICK turn \in Turns(g) :
          W + k * r + turn < b.maxLon /\ W + (k + 1) * r + turn > b.minLon
  BY DEF TouchedColumns
<1>4. k \in 0 .. s - 1
  BY DEF TouchedColumns
<1> HIDE DEF r, s, W
<1>5. PICK near \in Nat, far \in Nat : /\ near = k * r /\ far = (k + 1) * r
                                       /\ near < far /\ W + far <= g.box.maxLon
  <2>1. k \in Nat /\ k + 1 \in Nat /\ k + 1 <= s
    BY <1>1, <1>4
  <2>2. r * (k + 1) <= r * s
    BY <1>1, <2>1, TimesMonotone
  <2>3. r * (k + 1) = (k + 1) * r /\ r * s = s * r /\ (k + 1) * r = k * r + r
        /\ k * r \in Nat /\ (k + 1) * r \in Nat
    BY <1>1, <2>1
  <2> QED
    BY <1>1, <1>2, <2>2, <2>3
<1>6. CASE Uses360(g.box)
  <2>1. W >= 0 /\ g.box.maxLon <= Circle /\ g.box.maxLon >= 0
    BY <1>1, <1>2, <1>6, GridsAssumption DEF Uses360, W
  <2>2. turn \in {-Circle, 0, Circle}
    BY <1>6 DEF Turns
  <2>3. CASE b.minLon < 0
    <3>1. b.maxLon < 0
      BY <1>2, <1>6, <2>3 DEF CrossesOn360
    <3>2. Turned(b.minLon, g.box) = b.minLon + Circle /\ Turned(b.maxLon, g.box) = b.maxLon + Circle
      BY <1>6, <2>3, <3>1 DEF Turned
    <3> QED
      BY <1>1, <1>2, <1>3, <1>4, <1>5, <2>1, <2>2, <2>3, <3>1, <3>2 DEF r, s, W
  <2>4. CASE b.minLon >= 0
    <3>1. Turned(b.minLon, g.box) = b.minLon /\ Turned(b.maxLon, g.box) = b.maxLon
      BY <1>2, <2>4 DEF Turned
    <3> QED
      BY <1>1, <1>2, <1>3, <1>4, <1>5, <2>1, <2>2, <2>4, <3>1 DEF r, s, W
  <2> QED
    BY <1>2, <2>3, <2>4
<1>7. CASE ~Uses360(g.box)
  <2>1. turn = 0
    BY <1>7 DEF Turns
  <2>2. Turned(b.minLon, g.box) = b.minLon /\ Turned(b.maxLon, g.box) = b.maxLon
    BY <1>7 DEF Turned
  <2> QED
    BY <1>2, <1>3, <1>4, <1>5, <1>7, <2>1, <2>2 DEF r, s, W
<1> QED
  BY <1>6, <1>7

\* The box that is read, of a grid whose rows and columns follow the box.
LEMMA EffectiveAlong ==
    ASSUME NEW g \in Grids, NEW l \in Levels(g), NEW b \in BoxType,
           ~g.projected, ~CrossesOn360(b, g.box)
    PROVE  LET e == EffectiveBox(g, l, b)
               r == Resolution(g, l)
           IN  /\ e.minLon = Larger(Turned(b.minLon, g.box) - Buffer * r[1], g.box.minLon)
               /\ e.maxLon = Smaller(Turned(b.maxLon, g.box) + Buffer * r[1], g.box.maxLon)
               /\ e.minLat = Larger(b.minLat - Buffer * r[2], g.box.minLat)
               /\ e.maxLat = Smaller(b.maxLat + Buffer * r[2], g.box.maxLat)
<1> DEFINE n == NormalizeToGrid(b, g.box)
           r == Resolution(g, l)
<1>1. EffectiveBox(g, l, b) =
          [minLon |-> Larger(n.minLon - Buffer * r[1], g.box.minLon),
           minLat |-> Larger(n.minLat - Buffer * r[2], g.box.minLat),
           maxLon |-> Smaller(n.maxLon + Buffer * r[1], g.box.maxLon),
           maxLat |-> Smaller(n.maxLat + Buffer * r[2], g.box.maxLat)]
  BY Zenon DEF EffectiveBox
<1>2. /\ n.minLon = Turned(b.minLon, g.box) /\ n.maxLon = Turned(b.maxLon, g.box)
      /\ n.minLat = b.minLat /\ n.maxLat = b.maxLat
  BY NormalFields
<1> HIDE DEF n, r
<1> QED
  BY <1>1, <1>2 DEF r

LEMMA ColumnsCovered ==
    ASSUME NEW g \in Grids, NEW l \in Levels(g), NEW b, IsBox(b),
           ~g.projected, ~CrossesOn360(b, g.box),
           -Circle <= b.minLon, b.maxLon <= Circle,
           NEW k \in TouchedColumns(g, l, b), NEW j \in 0 .. Shape(g, l)[1] - 1,
           Distance(j, k) <= Buffer
    PROVE  LET c == Cells(g, l, EffectiveBox(g, l, b))
           IN  c.from[1] <= j /\ j < c.to[1]
<1> DEFINE e == EffectiveBox(g, l, b)
           r == Resolution(g, l)[1]
           s == Shape(g, l)[1]
           W == g.box.minLon
           E == g.box.maxLon
           west == Turned(b.minLon, g.box)
           east == Turned(b.maxLon, g.box)
<1>1. /\ r \in Nat \ {0} /\ s \in Nat \ {0} /\ Circle \in Nat /\ Buffer \in Nat
      /\ W \in Int /\ E \in Int /\ E - W = s * r /\ b \in BoxType /\ e \in BoxType
  <2>1. /\ r \in Nat \ {0} /\ s \in Nat \ {0} /\ g.box \in BoxType /\ Span(g.box)[1] = s * r
    BY GridNumbers
  <2>2. b \in BoxType
    BY DEF IsBox
  <2>3. W \in Int /\ E \in Int /\ E - W = s * r
    BY <2>1 DEF BoxType, Span
  <2> QED
    BY <2>1, <2>2, <2>3, PlacesAssumption, EffectiveIsBox
<1>2. /\ k \in 0 .. s - 1 /\ k * r < east - W /\ (k + 1) * r > west - W
      /\ west \in Int /\ east \in Int
      /\ Uses360(g.box) => east >= 0 /\ W >= 0 /\ E >= 0
  BY TouchedTurned
<1>3. e.minLon = Larger(west - Buffer * r, W) /\ e.maxLon = Smaller(east + Buffer * r, E)
  BY <1>1, EffectiveAlong
<1>4. /\ Cells(g, l, e).from[1] = From(Turned(e.minLon, g.box) - W, r)
      /\ Cells(g, l, e).to[1] = Until(Turned(e.maxLon, g.box) - W, r, s)
  BY <1>1, CellsAlong
<1> HIDE DEF e, r, s, W, E, west, east
<1>5. PICK d \in Nat : d = Buffer * r
  BY <1>1
<1>6. Turned(e.minLon, g.box) = e.minLon /\ Turned(e.maxLon, g.box) = e.maxLon
  <2>1. Uses360(g.box) => e.minLon >= 0 /\ e.maxLon >= 0
    BY <1>1, <1>2, <1>3, <1>5 DEF Larger, Smaller
  <2>2. e.minLon \in Int /\ e.maxLon \in Int
    BY <1>1 DEF BoxType
  <2> QED
    BY <2>1, <2>2 DEF Turned
<1>7. /\ Larger(west - d, W) - W = Larger((west - W) - d, 0)
      /\ Smaller(east + d, E) - W = Smaller((east - W) + d, E - W)
  <2>1. west \in Int /\ east \in Int /\ W \in Int /\ E \in Int /\ d \in Int
    BY <1>1, <1>2
  <2> QED
    BY <2>1 DEF Larger, Smaller
<1>8. /\ Cells(g, l, e).from[1] = From(Larger((west - W) - Buffer * r, 0), r)
      /\ Cells(g, l, e).to[1] = Until(Smaller((east - W) + Buffer * r, s * r), r, s)
  BY <1>1, <1>3, <1>4, <1>5, <1>6, <1>7
<1>9. west - W \in Int /\ east - W \in Int /\ j \in 0 .. s - 1
  BY <1>1, <1>2 DEF s
<1>10. /\ From(Larger((west - W) - Buffer * r, 0), r) <= j
       /\ j < Until(Smaller((east - W) + Buffer * r, s * r), r, s)
  BY <1>1, <1>2, <1>9, AxisCovered
<1> QED
  BY <1>8, <1>10 DEF e

LEMMA RowsCovered ==
    ASSUME NEW g \in Grids, NEW l \in Levels(g), NEW b, IsBox(b),
           ~g.projected, ~CrossesOn360(b, g.box),
           NEW k \in TouchedRows(g, l, b), NEW j \in 0 .. Shape(g, l)[2] - 1,
           Distance(j, k) <= Buffer
    PROVE  LET c == Cells(g, l, EffectiveBox(g, l, b))
           IN  c.from[2] <= j /\ j < c.to[2]
<1> DEFINE e == EffectiveBox(g, l, b)
           r == Resolution(g, l)[2]
           s == Shape(g, l)[2]
           S == g.box.minLat
           N == g.box.maxLat
<1>1. /\ r \in Nat \ {0} /\ s \in Nat \ {0} /\ Buffer \in Nat /\ g.origin = "north"
      /\ S \in Int /\ N \in Int /\ N - S = s * r /\ b \in BoxType /\ e \in BoxType
      /\ b.minLat \in Int /\ b.maxLat \in Int
  <2>1. /\ r \in Nat \ {0} /\ s \in Nat \ {0} /\ g.box \in BoxType /\ Span(g.box)[2] = s * r
    BY GridNumbers
  <2>2. b \in BoxType
    BY DEF IsBox
  <2>3. S \in Int /\ N \in Int /\ N - S = s * r
    BY <2>1 DEF BoxType, Span
  <2>4. b.minLat \in Int /\ b.maxLat \in Int
    BY <2>2 DEF BoxType
  <2>5. g.origin = "north"
    BY GridsAssumption
  <2> QED
    BY <2>1, <2>2, <2>3, <2>4, <2>5, PlacesAssumption, EffectiveIsBox
<1>2. k \in 0 .. s - 1 /\ k * r < N - b.minLat /\ (k + 1) * r > N - b.maxLat
  <2>1. k \in 0 .. s - 1 /\ N - (k + 1) * r < b.maxLat /\ (N - (k + 1) * r) + r > b.minLat
    BY <1>1 DEF TouchedRows
  <2> HIDE DEF r, s, S, N
  <2>2. PICK near \in Int : near = k * r /\ (k + 1) * r = near + r
    BY <1>1, <2>1
  <2> QED
    BY <1>1, <2>1, <2>2
<1>3. e.minLat = Larger(b.minLat - Buffer * r, S) /\ e.maxLat = Smaller(b.maxLat + Buffer * r, N)
  BY <1>1, EffectiveAlong
<1>4. /\ Cells(g, l, e).from[2] = From(N - e.maxLat, r)
      /\ Cells(g, l, e).to[2] = Until(N - e.minLat, r, s)
  BY <1>1, CellsAlong
<1> HIDE DEF e, r, s, S, N
<1>5. PICK d \in Nat : d = Buffer * r
  BY <1>1
<1>6. /\ N - Smaller(b.maxLat + d, N) = Larger((N - b.maxLat) - d, 0)
      /\ N - Larger(b.minLat - d, S) = Smaller((N - b.minLat) + d, N - S)
  <2>1. b.maxLat \in Int /\ b.minLat \in Int /\ N \in Int /\ S \in Int /\ d \in Int
    BY <1>1
  <2> QED
    BY <2>1 DEF Larger, Smaller
<1>7. /\ Cells(g, l, e).from[2] = From(Larger((N - b.maxLat) - Buffer * r, 0), r)
      /\ Cells(g, l, e).to[2] = Until(Smaller((N - b.minLat) + Buffer * r, s * r), r, s)
  BY <1>1, <1>3, <1>4, <1>5, <1>6
<1>8. N - b.maxLat \in Int /\ N - b.minLat \in Int /\ j \in 0 .. s - 1
  BY <1>1 DEF s
<1>9. /\ From(Larger((N - b.maxLat) - Buffer * r, 0), r) <= j
      /\ j < Until(Smaller((N - b.minLat) + Buffer * r, s * r), r, s)
  BY <1>1, <1>2, <1>8, AxisCovered
<1> QED
  BY <1>7, <1>9 DEF e

\* A region has all of a set of columns and rows if they are among its cells.
LEMMA RegionCovers ==
    ASSUME NEW g \in Grids, NEW l \in Levels(g), NEW b \in BoxType,
           NEW reg \in ReadRegion(g, l, b),
           NEW columns \in SUBSET Int, NEW rows \in SUBSET Int, columns # {}, rows # {},
           LET c == Cells(g, l, EffectiveBox(g, l, b))
           IN  /\ \A col \in columns : c.from[1] <= col /\ col < c.to[1]
               /\ \A row \in rows : c.from[2] <= row /\ row < c.to[2]
    PROVE  /\ reg # Broken
           /\ reg.kind = "region" =>
                  columns \X rows \subseteq {Claimed(g, reg, o) : o \in DOMAIN reg.data}
<1> DEFINE c == Cells(g, l, EffectiveBox(g, l, b))
<1>0. c.from[1] \in Int /\ c.from[2] \in Int
  BY EffectiveIsBox, CellsInGrid
<1>1. \A col \in columns, row \in rows :
          /\ col \in Int /\ row \in Int
          /\ col >= c.from[1] /\ col < c.to[1] /\ row >= c.from[2] /\ row < c.to[2]
  BY <1>0
<1>2. PICK col \in columns, row \in rows : TRUE
  OBVIOUS
<1>3. reg # Broken /\ (reg.kind = "region" => RegionOf(g, l, b, reg))
  BY <1>1, <1>2, SomethingRead
<1>4. ASSUME reg.kind = "region", NEW x \in columns, NEW y \in rows
      PROVE  \E o \in DOMAIN reg.data : Claimed(g, reg, o) = <<x, y>>
  BY <1>1, <1>3, <1>4, RegionHas
<1>5. ASSUME reg.kind = "region", NEW at \in columns \X rows
      PROVE  at \in {Claimed(g, reg, o) : o \in DOMAIN reg.data}
  <2>1. at[1] \in columns /\ at[2] \in rows /\ at = <<at[1], at[2]>>
    BY <1>5
  <2>2. \E o \in DOMAIN reg.data : Claimed(g, reg, o) = <<at[1], at[2]>>
    BY <1>4, <1>5, <2>1
  <2> QED
    BY <2>1, <2>2
<1> QED
  BY <1>3, <1>5

LEMMA TileCovered ==
    ASSUME NEW g \in Grids, NEW l \in Levels(g), NEW b, IsBox(b),
           NEW reg \in ReadRegion(g, l, ReadBox(g, b))
    PROVE  LET s == Shape(g, l)
               columns == TouchedColumns(g, l, b)
               rows == TouchedRows(g, l, b)
               Around(T, i) == IF g.projected \/ g.full THEN 0 .. s[i] - 1
                               ELSE {j \in 0 .. s[i] - 1 : \E k \in T : Distance(j, k) <= Buffer}
               inCircle == -Circle <= b.minLon /\ b.maxLon <= Circle
           IN  g.projected \/ g.full \/ (inCircle /\ columns # {} /\ rows # {}) =>
                   /\ reg # Broken
                   /\ reg.kind = "region" =>
                          Around(columns, 1) \X Around(rows, 2)
                              \subseteq {Claimed(g, reg, o) : o \in DOMAIN reg.data}
<1> DEFINE s == Shape(g, l)
           columns == TouchedColumns(g, l, b)
           rows == TouchedRows(g, l, b)
           Around(T, i) == IF g.projected \/ g.full THEN 0 .. s[i] - 1
                           ELSE {j \in 0 .. s[i] - 1 : \E k \in T : Distance(j, k) <= Buffer}
           inCircle == -Circle <= b.minLon /\ b.maxLon <= Circle
           read == ReadBox(g, b)
           c == Cells(g, l, EffectiveBox(g, l, read))
<1> SUFFICES ASSUME g.projected \/ g.full \/ (inCircle /\ columns # {} /\ rows # {})
             PROVE  /\ reg # Broken
                    /\ reg.kind = "region" =>
                           Around(columns, 1) \X Around(rows, 2)
                               \subseteq {Claimed(g, reg, o) : o \in DOMAIN reg.data}
  BY Zenon
<1>1. /\ s[1] \in Nat \ {0} /\ s[2] \in Nat \ {0} /\ g.box \in BoxType /\ Buffer \in Nat
      /\ read \in BoxType /\ b \in BoxType
  <2>1. /\ s[1] \in Nat \ {0} /\ s[2] \in Nat \ {0} /\ g.box \in BoxType
    BY GridNumbers
  <2>2. b \in BoxType
    BY DEF IsBox
  <2> QED
    BY <2>1, <2>2, PlacesAssumption DEF ReadBox
<1>2. /\ Around(columns, 1) \subseteq 0 .. s[1] - 1
      /\ Around(rows, 2) \subseteq 0 .. s[2] - 1
  OBVIOUS
<1>3. Around(columns, 1) # {} /\ Around(rows, 2) # {}
  <2>1. CASE g.projected \/ g.full
    <3>1. 0 \in 0 .. s[1] - 1 /\ 0 \in 0 .. s[2] - 1
      BY <1>1
    <3> QED
      BY <2>1, <3>1
  <2>2. CASE ~(g.projected \/ g.full)
    <3>1. PICK x \in columns, y \in rows : TRUE
      BY <2>2
    <3>2. x \in 0 .. s[1] - 1 /\ y \in 0 .. s[2] - 1
      BY DEF TouchedColumns, TouchedRows
    <3>3. Distance(x, x) <= Buffer /\ Distance(y, y) <= Buffer
      BY <1>1, <3>2 DEF Distance
    <3> HIDE DEF columns, rows, s
    <3> QED
      BY <2>2, <3>1, <3>2, <3>3
  <2> QED
    BY <2>1, <2>2
<1>4. CASE g.projected \/ CrossesOn360(read, g.box) \/ read = g.box
  <2>1. /\ c.from[1] = 0 /\ c.to[1] = s[1] /\ c.from[2] = 0 /\ c.to[2] = s[2]
    BY <1>4, EffectiveWhole, WholeCells
  <2> HIDE DEF Around, columns, rows, c, s, read
  <2>2. /\ \A col \in Around(columns, 1) : col \in Int /\ c.from[1] <= col /\ col < c.to[1]
        /\ \A row \in Around(rows, 2) : row \in Int /\ c.from[2] <= row /\ row < c.to[2]
    BY <1>1, <1>2, <2>1
  <2> QED
    BY <1>1, <1>3, <2>2, RegionCovers DEF c, read
<1>5. CASE ~(g.projected \/ CrossesOn360(read, g.box) \/ read = g.box)
  <2>1. read = b /\ ~g.full /\ ~g.projected /\ ~CrossesOn360(b, g.box) /\ inCircle
    BY <1>5 DEF ReadBox
  <2>2. ASSUME NEW j \in Around(columns, 1)
        PROVE  c.from[1] <= j /\ j < c.to[1]
    <3>1. PICK k \in columns : j \in 0 .. s[1] - 1 /\ Distance(j, k) <= Buffer
      BY <2>1
    <3> QED
      BY <2>1, <3>1, ColumnsCovered
  <2>3. ASSUME NEW j \in Around(rows, 2)
        PROVE  c.from[2] <= j /\ j < c.to[2]
    <3>1. PICK k \in rows : j \in 0 .. s[2] - 1 /\ Distance(j, k) <= Buffer
      BY <2>1
    <3> QED
      BY <2>1, <3>1, RowsCovered
  <2> HIDE DEF Around, columns, rows, c, s, read
  <2>4. Around(columns, 1) \in SUBSET Int /\ Around(rows, 2) \in SUBSET Int
    BY <1>2
  <2> QED
    BY <1>1, <1>3, <2>2, <2>3, <2>4, RegionCovers DEF c, read
<1> QED
  BY <1>4, <1>5

-----------------------------------------------------------------------------
(* Levels with enough cells *)

\* CeilDiv is the least number of times d that reaches a.
LEMMA CeilDivLeast ==
    ASSUME NEW d \in Nat \ {0}, NEW a \in Int
    PROVE  /\ CeilDiv(a, d) \in Int /\ a <= d * CeilDiv(a, d)
           /\ d * (CeilDiv(a, d) - 1) < a
           /\ \A m \in Int : a <= d * m => CeilDiv(a, d) <= m
<1>1. -a \in Int
  OBVIOUS
<1>2. PICK q \in Int, m \in 0 .. d - 1 : q = (-a) \div d /\ -a = d * q + m
  BY <1>1, DivMod
<1>3. CeilDiv(a, d) = -q
  BY <1>2 DEF CeilDiv
<1>4. d * (-q) = a + m /\ d * (-q - 1) = a + m - d
  <2>1. d * (-q) = -(d * q) /\ d * (-q - 1) = -(d * q) - d /\ d * q \in Int
    BY <1>2
  <2> QED
    BY <1>2, <2>1
<1>5. ASSUME NEW n \in Int, a <= d * n
      PROVE  -q <= n
  <2>1. d * (-q - 1) < d * n
    BY <1>2, <1>4, <1>5
  <2>2. -q - 1 \in Int
    BY <1>2
  <2>3. -q - 1 < n
    BY <2>1, <2>2, TimesLess
  <2> QED
    BY <1>2, <2>3
<1> QED
  BY <1>2, <1>3, <1>4, <1>5

\* The cells of k native ones each that something from lo to hi touches, are as
\* many as it needs.
LEMMA EnoughAlong ==
    ASSUME NEW r0 \in Nat \ {0}, NEW k \in Nat \ {0}, NEW s \in Nat \ {0},
           NEW r \in Nat \ {0}, r = k * r0,
           NEW lo \in 0 .. s * r, NEW hi \in 0 .. s * r, lo < hi,
           NEW T \in SUBSET (0 .. s - 1),
           \A i \in 0 .. s - 1 : i * r < hi /\ (i + 1) * r > lo => i \in T
    PROVE  Cardinality(T) \in Nat /\ Cardinality(T) >= CeilDiv(CeilDiv(hi - lo, r0), k)
<1> DEFINE from == lo \div r
           to == CeilDiv(hi, r)
           m == to - from
<1>1. /\ lo \in Int /\ hi \in Int /\ hi - lo \in Int /\ 0 <= lo /\ hi <= s * r /\ s * r \in Nat
  OBVIOUS
<1>2. from \in Nat /\ r * from <= lo /\ lo < r * (from + 1)
  <2>1. from \in Nat /\ r * from <= lo
    BY <1>1, DivGreatest
  <2>2. PICK q \in Int, v \in 0 .. r - 1 : q = from /\ lo = r * q + v
    <3>1. from \in Int /\ lo % r \in 0 .. r - 1 /\ lo = r * from + (lo % r)
      BY <1>1, DivMod
    <3> QED
      BY <3>1
  <2>3. r * (q + 1) = r * q + r /\ r * q \in Int
    BY <2>2
  <2> QED
    BY <2>1, <2>2, <2>3
<1>3. /\ to \in Int /\ hi <= r * to /\ r * (to - 1) < hi /\ to <= s
  <2>1. r * s = s * r
    OBVIOUS
  <2> QED
    BY <1>1, <2>1, CeilDivLeast
<1> HIDE DEF from, to
<1>4. m \in Nat \ {0} /\ hi - lo <= r * m
  <2>1. r * from < r * to
    <3>1. r * from \in Int /\ r * to \in Int
      BY <1>2, <1>3
    <3> QED
      BY <1>1, <1>2, <1>3, <3>1
  <2>2. from < to
    BY <1>2, <1>3, <2>1, TimesLess
  <2>3. r * (to - from) = r * to - r * from /\ r * to \in Int /\ r * from \in Int
    BY <1>2, <1>3
  <2> QED
    BY <1>1, <1>2, <1>3, <2>2, <2>3
<1>5. CeilDiv(CeilDiv(hi - lo, r0), k) <= m /\ CeilDiv(CeilDiv(hi - lo, r0), k) \in Int
  <2> HIDE DEF m
  <2>1. r * m = r0 * (k * m) /\ k * m \in Int
    BY <1>4
  <2>2. PICK n \in Int : n = CeilDiv(hi - lo, r0) /\ n <= k * m
    BY <1>1, <1>4, <2>1, CeilDivLeast
  <2>3. CeilDiv(n, k) \in Int /\ CeilDiv(n, k) <= m
    <3>1. m \in Int /\ n <= k * m
      BY <1>4, <2>2
    <3> QED
      BY <3>1, CeilDivLeast
  <2> QED
    BY <2>2, <2>3
<1>6. from .. to - 1 \in SUBSET T
  <2> SUFFICES ASSUME NEW i \in from .. to - 1
               PROVE  i \in T
    OBVIOUS
  <2>1. i \in Int /\ from <= i /\ i <= to - 1 /\ from + 1 <= i + 1 /\ i \in 0 .. s - 1
        /\ from + 1 \in Int /\ i + 1 \in Int /\ to - 1 \in Int
    BY <1>2, <1>3
  <2>2. r * i <= r * (to - 1) /\ r * (from + 1) <= r * (i + 1)
    BY <2>1, TimesMonotone
  <2>3. /\ r * i = i * r /\ r * (i + 1) = (i + 1) * r /\ i * r \in Int /\ (i + 1) * r \in Int
        /\ r * (to - 1) \in Int /\ r * (from + 1) \in Int
    BY <2>1
  <2>4. i * r < hi /\ (i + 1) * r > lo
    BY <1>1, <1>2, <1>3, <2>2, <2>3
  <2> QED
    BY <2>1, <2>4
<1>7. IsFiniteSet(T) /\ Cardinality(T) \in Nat
  <2>1. 0 \in Int /\ s - 1 \in Int
    OBVIOUS
  <2>2. IsFiniteSet(0 .. s - 1)
    BY <2>1, FS_Interval
  <2> QED
    BY <2>2, FS_Subset, FS_CardinalityType
<1>8. Cardinality(from .. to - 1) = m /\ Cardinality(from .. to - 1) <= Cardinality(T)
  <2>1. from \in Int /\ to - 1 \in Int /\ ~(from > to - 1) /\ (to - 1) - from + 1 = m
    BY <1>2, <1>3, <1>4
  <2>2. Cardinality(from .. to - 1) = (to - 1) - from + 1
    BY <2>1, FS_Interval
  <2> QED
    BY <1>6, <1>7, <2>1, <2>2, FS_Subset
<1> HIDE DEF m
<1> QED
  BY <1>4, <1>5, <1>7, <1>8

\* Where halving was exact, cells of a level are as long as native ones together.
LEMMA ExactStep ==
    ASSUME NEW w \in Nat \ {0}, NEW k \in Nat \ {0}, NEW s \in Nat \ {0}, s = w \div k,
           w % k = 0, NEW r0 \in Nat \ {0}, NEW r \in Nat \ {0}, w * r0 = s * r
    PROVE  r = k * r0
<1>1. w = k * s
  <2>1. w \in Int
    OBVIOUS
  <2> QED
    BY <2>1, Multiple
<1>2. PICK x \in Int, y \in Int : x = k * r0 /\ y = r
  OBVIOUS
<1>3. s * x = s * y
  <2>1. s * (k * r0) = (k * s) * r0
    OBVIOUS
  <2> QED
    BY <1>1, <1>2, <2>1
<1>4. x < y => s * (x + 1) <= s * y
  BY <1>2, TimesMonotone
<1>5. y < x => s * (y + 1) <= s * x
  BY <1>2, TimesMonotone
<1>6. s * (x + 1) = s * x + s /\ s * (y + 1) = s * y + s /\ s * x \in Int /\ s * y \in Int
  BY <1>2
<1> QED
  BY <1>2, <1>3, <1>4, <1>5, <1>6

LEMMA ExactHalving ==
    ASSUME NEW g \in Grids, NEW l \in Levels(g),
           g.shape[1] % 2^l = 0, g.shape[2] % 2^l = 0
    PROVE  /\ Resolution(g, l)[1] = 2^l * Resolution(g, 0)[1]
           /\ Resolution(g, l)[2] = 2^l * Resolution(g, 0)[2]
<1>1. PICK k \in Nat \ {0} : k = 2^l
  BY PowerOfTwo
<1>2. /\ Shape(g, l)[1] = g.shape[1] \div 2^l /\ Shape(g, l)[2] = g.shape[2] \div 2^l
      /\ 0 \in Levels(g)
      /\ Shape(g, 0)[1] = g.shape[1] /\ Shape(g, 0)[2] = g.shape[2]
      /\ g.shape[1] \in Nat \ {0} /\ g.shape[2] \in Nat \ {0}
  BY Native DEF Shape
<1>3. PICK w \in Nat \ {0}, s \in Nat \ {0}, r0 \in Nat \ {0}, r \in Nat \ {0} :
          /\ w = g.shape[1] /\ s = Shape(g, l)[1] /\ w * r0 = s * r
          /\ r0 = Resolution(g, 0)[1] /\ r = Resolution(g, l)[1]
  <2>1. /\ Resolution(g, 0)[1] \in Nat \ {0}
        /\ Span(g.box)[1] = g.shape[1] * Resolution(g, 0)[1]
    BY <1>2, GridNumbers
  <2>2. /\ Resolution(g, l)[1] \in Nat \ {0} /\ Shape(g, l)[1] \in Nat \ {0}
        /\ Span(g.box)[1] = Shape(g, l)[1] * Resolution(g, l)[1]
    BY GridNumbers
  <2> QED
    BY <1>2, <2>1, <2>2, Zenon
<1>4. r = k * r0
  <2>1. s = w \div k /\ w % k = 0
    BY <1>1, <1>2, <1>3
  <2>2. w * r0 = s * r
    BY <1>3
  <2> QED
    BY <2>1, <2>2, ExactStep
<1>5. PICK h \in Nat \ {0}, t \in Nat \ {0}, q0 \in Nat \ {0}, q \in Nat \ {0} :
          /\ h = g.shape[2] /\ t = Shape(g, l)[2] /\ h * q0 = t * q
          /\ q0 = Resolution(g, 0)[2] /\ q = Resolution(g, l)[2]
  <2>1. /\ Resolution(g, 0)[2] \in Nat \ {0}
        /\ Span(g.box)[2] = g.shape[2] * Resolution(g, 0)[2]
    BY <1>2, GridNumbers
  <2>2. /\ Resolution(g, l)[2] \in Nat \ {0} /\ Shape(g, l)[2] \in Nat \ {0}
        /\ Span(g.box)[2] = Shape(g, l)[2] * Resolution(g, l)[2]
    BY GridNumbers
  <2> QED
    BY <1>2, <2>1, <2>2, Zenon
<1>6. q = k * q0
  <2>1. t = h \div k /\ h % k = 0
    BY <1>1, <1>2, <1>5
  <2>2. h * q0 = t * q
    BY <1>5
  <2> QED
    BY <2>1, <2>2, ExactStep
<1> QED
  BY <1>1, <1>3, <1>4, <1>5, <1>6

\* A level above the native one is as fine as what was asked for.
LEMMA LevelGood ==
    ASSUME NEW g \in Grids, NEW b, NEW size, OptimalLevel(g, b, size) # 0
    PROVE  LET l == OptimalLevel(g, b, size)
           IN  /\ CeilDiv(CeilDiv(Span(b)[1], Resolution(g, 0)[1]), 2^l) >= size[1]
               /\ CeilDiv(CeilDiv(Span(b)[2], Resolution(g, 0)[2]), 2^l) >= size[2]
<1> DEFINE native == [i \in 1 .. 2 |-> CeilDiv(Span(b)[i], Resolution(g, 0)[i])]
           good == {l \in Levels(g) : \A i \in 1 .. 2 : CeilDiv(native[i], 2^l) >= size[i]}
           l == OptimalLevel(g, b, size)
<1>1. l = IF good = {} THEN 0 ELSE CHOOSE k \in good : \A m \in good : m <= k
  BY Zenon DEF OptimalLevel
<1>2. good # {} /\ good \in SUBSET (0 .. g.shape[1]) /\ g.shape[1] \in Nat
  BY <1>1, Native DEF Levels
<1>3. PICK k \in good : \A m \in good : m <= k
  BY <1>2, GreatestOf
<1>4. l \in good
  BY <1>1, <1>2, <1>3, Zenon
<1>5. native[1] = CeilDiv(Span(b)[1], Resolution(g, 0)[1])
      /\ native[2] = CeilDiv(Span(b)[2], Resolution(g, 0)[2])
  OBVIOUS
<1> HIDE DEF native, l
<1>6. CeilDiv(native[1], 2^l) >= size[1] /\ CeilDiv(native[2], 2^l) >= size[2]
  BY <1>4
<1> QED
  BY <1>5, <1>6 DEF l

\* What a box inside the grid touches of it, turned to where the grid is: from
\* somewhere to somewhere along each axis.
LEMMA InsideTouched ==
    ASSUME NEW g \in Grids, NEW l \in Levels(g), NEW b, IsBox(b), ~CrossesOn360(b, g.box),
           LET n == NormalizeToGrid(b, g.box)
           IN  Contains(g.box, n.minLon, n.minLat) /\ Contains(g.box, n.maxLon, n.maxLat)
    PROVE  LET r == Resolution(g, l)
               s == Shape(g, l)
           IN  /\ \E lo \in 0 .. s[1] * r[1], hi \in 0 .. s[1] * r[1] :
                      /\ hi - lo = Span(b)[1] /\ lo < hi
                      /\ \A i \in 0 .. s[1] - 1 :
                             i * r[1] < hi /\ (i + 1) * r[1] > lo => i \in TouchedColumns(g, l, b)
               /\ \E lo \in 0 .. s[2] * r[2], hi \in 0 .. s[2] * r[2] :
                      /\ hi - lo = Span(b)[2] /\ lo < hi
                      /\ \A i \in 0 .. s[2] - 1 :
                             i * r[2] < hi /\ (i + 1) * r[2] > lo => i \in TouchedRows(g, l, b)
<1> DEFINE r == Resolution(g, l)
           s == Shape(g, l)
           n == NormalizeToGrid(b, g.box)
           west == Turned(b.minLon, g.box)
           east == Turned(b.maxLon, g.box)
           north == g.origin = "north"
           lo == <<west - g.box.minLon,
                   IF north THEN g.box.maxLat - b.maxLat ELSE b.minLat - g.box.minLat>>
           hi == <<east - g.box.minLon,
                   IF north THEN g.box.maxLat - b.minLat ELSE b.maxLat - g.box.minLat>>
<1>1. /\ r[1] \in Nat \ {0} /\ r[2] \in Nat \ {0} /\ s[1] \in Nat \ {0} /\ s[2] \in Nat \ {0}
      /\ g.box \in BoxType /\ b \in BoxType /\ b.minLon < b.maxLon /\ b.minLat < b.maxLat
      /\ Span(g.box)[1] = s[1] * r[1] /\ Span(g.box)[2] = s[2] * r[2]
  BY GridNumbers DEF IsBox
<1>2. /\ g.box.minLon \in Int /\ g.box.minLat \in Int
      /\ g.box.maxLon \in Int /\ g.box.maxLat \in Int
      /\ b.minLon \in Int /\ b.minLat \in Int /\ b.maxLon \in Int /\ b.maxLat \in Int
      /\ Circle \in Int
  BY <1>1, PlacesAssumption DEF BoxType
<1>3. /\ g.box.maxLon - g.box.minLon = s[1] * r[1]
      /\ g.box.maxLat - g.box.minLat = s[2] * r[2]
      /\ b.maxLon - b.minLon = Span(b)[1] /\ b.maxLat - b.minLat = Span(b)[2]
  BY <1>1, <1>2 DEF Span
<1>4. /\ n.minLon = west /\ n.maxLon = east /\ n.minLat = b.minLat /\ n.maxLat = b.maxLat
  BY <1>1, NormalFields
<1>5. /\ g.box.minLon <= west /\ west <= g.box.maxLon
      /\ g.box.minLon <= east /\ east <= g.box.maxLon
      /\ g.box.minLat <= b.minLat /\ b.minLat <= g.box.maxLat
      /\ g.box.minLat <= b.maxLat /\ b.maxLat <= g.box.maxLat
  <2> HIDE DEF n, west, east
  <2> QED
    BY <1>4 DEF Contains, n
<1>6. PICK turn \in Turns(g) : west = b.minLon - turn /\ east = b.maxLon - turn /\ turn \in Int
  <2>1. CASE Uses360(g.box) /\ b.minLon < 0
    <3>1. b.maxLon < 0
      BY <1>2, <2>1 DEF CrossesOn360
    <3>2. west = b.minLon - (-Circle) /\ east = b.maxLon - (-Circle)
      BY <1>2, <2>1, <3>1 DEF Turned
    <3>3. -Circle \in Turns(g) /\ -Circle \in Int
      BY <1>2, <2>1 DEF Turns
    <3> HIDE DEF west, east
    <3> QED
      BY <3>2, <3>3
  <2>2. CASE ~(Uses360(g.box) /\ b.minLon < 0)
    <3>1. west = b.minLon /\ east = b.maxLon
      BY <1>1, <1>2, <2>2 DEF Turned
    <3>2. 0 \in Turns(g)
      BY DEF Turns
    <3> HIDE DEF west, east
    <3> QED
      BY <1>2, <3>1, <3>2
  <2> QED
    BY <2>1, <2>2
<1> HIDE DEF west, east
<1>8. /\ lo[1] \in 0 .. s[1] * r[1] /\ hi[1] \in 0 .. s[1] * r[1]
      /\ hi[1] - lo[1] = Span(b)[1] /\ lo[1] < hi[1]
  <2>1. PICK S \in Int : S = s[1] * r[1]
    BY <1>1
  <2> HIDE DEF r, s
  <2> QED
    BY <1>1, <1>2, <1>3, <1>5, <1>6, <2>1
<1>9. /\ lo[2] \in 0 .. s[2] * r[2] /\ hi[2] \in 0 .. s[2] * r[2]
      /\ hi[2] - lo[2] = Span(b)[2] /\ lo[2] < hi[2]
  <2>1. PICK S \in Int : S = s[2] * r[2]
    BY <1>1
  <2> HIDE DEF r, s
  <2> QED
    BY <1>1, <1>2, <1>3, <1>5, <2>1
<1>10. ASSUME NEW i \in 0 .. s[1] - 1, i * r[1] < hi[1], (i + 1) * r[1] > lo[1]
       PROVE  i \in TouchedColumns(g, l, b)
  <2>1. PICK near \in Int, far \in Int : near = i * r[1] /\ far = (i + 1) * r[1]
    BY <1>1
  <2>2. near < east - g.box.minLon /\ far > west - g.box.minLon
    BY <1>10, <2>1
  <2>3. g.box.minLon + near + turn < b.maxLon /\ g.box.minLon + far + turn > b.minLon
    BY <1>2, <1>6, <2>1, <2>2
  <2> QED
    BY <2>1, <2>3 DEF TouchedColumns
<1>11. ASSUME NEW i \in 0 .. s[2] - 1, i * r[2] < hi[2], (i + 1) * r[2] > lo[2]
       PROVE  i \in TouchedRows(g, l, b)
  <2>1. PICK near \in Int, far \in Int, step \in Int :
            near = i * r[2] /\ far = (i + 1) * r[2] /\ step = r[2] /\ far = near + step
    BY <1>1
  <2>2. near < hi[2] /\ far > lo[2]
    BY <1>11, <2>1
  <2>3. CASE north
    <3>1. near < g.box.maxLat - b.minLat /\ far > g.box.maxLat - b.maxLat
      BY <2>2, <2>3
    <3>2. g.box.maxLat - far < b.maxLat /\ (g.box.maxLat - far) + step > b.minLat
      BY <1>2, <2>1, <3>1
    <3> QED
      BY <2>1, <2>3, <3>2 DEF TouchedRows
  <2>4. CASE ~north
    <3>1. near < b.maxLat - g.box.minLat /\ far > b.minLat - g.box.minLat
      BY <2>2, <2>4
    <3>2. g.box.minLat + near < b.maxLat /\ (g.box.minLat + near) + step > b.minLat
      BY <1>2, <2>1, <3>1
    <3> QED
      BY <2>1, <2>4, <3>2 DEF TouchedRows
  <2> QED
    BY <2>3, <2>4
<1> HIDE DEF lo, hi, r, s
<1>12. \E x \in 0 .. s[1] * r[1], y \in 0 .. s[1] * r[1] :
          /\ y - x = Span(b)[1] /\ x < y
          /\ \A i \in 0 .. s[1] - 1 :
                 i * r[1] < y /\ (i + 1) * r[1] > x => i \in TouchedColumns(g, l, b)
  BY <1>8, <1>10
<1>13. \E x \in 0 .. s[2] * r[2], y \in 0 .. s[2] * r[2] :
          /\ y - x = Span(b)[2] /\ x < y
          /\ \A i \in 0 .. s[2] - 1 :
                 i * r[2] < y /\ (i + 1) * r[2] > x => i \in TouchedRows(g, l, b)
  BY <1>9, <1>11
<1> QED
  BY <1>12, <1>13 DEF r, s

\* So a level above the native one, where halving was exact, has enough cells for
\* a box in the grid.
LEMMA TileEnough ==
    ASSUME NEW g \in Grids, NEW b, IsBox(b), NEW size \in Sizes, ~g.full,
           OptimalLevel(g, b, size) # 0,
           g.shape[1] % 2^OptimalLevel(g, b, size) = 0,
           g.shape[2] % 2^OptimalLevel(g, b, size) = 0,
           ~CrossesOn360(b, g.box),
           LET n == NormalizeToGrid(b, g.box)
           IN  Contains(g.box, n.minLon, n.minLat) /\ Contains(g.box, n.maxLon, n.maxLat)
    PROVE  LET l == OptimalLevel(g, b, size)
           IN  /\ Cardinality(TouchedColumns(g, l, b)) >= size[1]
               /\ Cardinality(TouchedRows(g, l, b)) >= size[2]
<1> DEFINE l == OptimalLevel(g, b, size)
           r == Resolution(g, l)
           s == Shape(g, l)
<1>1. l \in Levels(g)
  BY LevelChosen
<1>2. /\ CeilDiv(CeilDiv(Span(b)[1], Resolution(g, 0)[1]), 2^l) >= size[1]
      /\ CeilDiv(CeilDiv(Span(b)[2], Resolution(g, 0)[2]), 2^l) >= size[2]
  BY LevelGood
<1>3. /\ r[1] = 2^l * Resolution(g, 0)[1] /\ r[2] = 2^l * Resolution(g, 0)[2]
  BY <1>1, ExactHalving
<1>4. size[1] \in Int /\ size[2] \in Int
  BY PlacesAssumption
<1>5. /\ Resolution(g, 0)[1] \in Nat \ {0} /\ Resolution(g, 0)[2] \in Nat \ {0}
  BY Native, GridNumbers
<1>6. /\ r[1] \in Nat \ {0} /\ r[2] \in Nat \ {0} /\ s[1] \in Nat \ {0} /\ s[2] \in Nat \ {0}
  BY <1>1, GridNumbers
<1>7. 2^l \in Nat \ {0}
  BY <1>1, PowerOfTwo
<1>8. /\ TouchedColumns(g, l, b) \in SUBSET (0 .. s[1] - 1)
      /\ TouchedRows(g, l, b) \in SUBSET (0 .. s[2] - 1)
  BY DEF TouchedColumns, TouchedRows
<1>9. /\ \E lo \in 0 .. s[1] * r[1], hi \in 0 .. s[1] * r[1] :
            /\ hi - lo = Span(b)[1] /\ lo < hi
            /\ \A i \in 0 .. s[1] - 1 :
                   i * r[1] < hi /\ (i + 1) * r[1] > lo => i \in TouchedColumns(g, l, b)
      /\ \E lo \in 0 .. s[2] * r[2], hi \in 0 .. s[2] * r[2] :
            /\ hi - lo = Span(b)[2] /\ lo < hi
            /\ \A i \in 0 .. s[2] - 1 :
                   i * r[2] < hi /\ (i + 1) * r[2] > lo => i \in TouchedRows(g, l, b)
  BY <1>1, InsideTouched, Zenon
<1> HIDE DEF l, r, s
<1>10. PICK k \in Nat \ {0}, r0 \in Nat \ {0}, q0 \in Nat \ {0}, w \in Nat \ {0},
            h \in Nat \ {0}, rx \in Nat \ {0}, ry \in Nat \ {0} :
          /\ k = 2^l /\ r0 = Resolution(g, 0)[1] /\ q0 = Resolution(g, 0)[2]
          /\ w = s[1] /\ h = s[2] /\ rx = r[1] /\ ry = r[2]
  BY <1>5, <1>6, <1>7
<1>11. rx = k * r0 /\ ry = k * q0
  BY <1>3, <1>10
<1>12. Cardinality(TouchedColumns(g, l, b)) >= size[1]
  <2>1. PICK lo \in 0 .. w * rx, hi \in 0 .. w * rx :
            /\ hi - lo = Span(b)[1] /\ lo < hi
            /\ \A i \in 0 .. w - 1 :
                   i * rx < hi /\ (i + 1) * rx > lo => i \in TouchedColumns(g, l, b)
    BY <1>9, <1>10
  <2>2. PICK T \in SUBSET (0 .. w - 1) : T = TouchedColumns(g, l, b)
    BY <1>8, <1>10
  <2>3. \A i \in 0 .. w - 1 : i * rx < hi /\ (i + 1) * rx > lo => i \in T
    BY <2>1, <2>2
  <2>4. lo < hi
    BY <2>1
  <2>5. Cardinality(T) \in Nat /\ Cardinality(T) >= CeilDiv(CeilDiv(hi - lo, r0), k)
    BY <1>11, <2>3, <2>4, EnoughAlong
  <2>6. CeilDiv(CeilDiv(hi - lo, r0), k) >= size[1] /\ hi - lo \in Int
    BY <1>2, <1>10, <2>1 DEF l
  <2>7. CeilDiv(CeilDiv(hi - lo, r0), k) \in Int
    BY <2>6, CeilDivLeast
  <2> QED
    BY <1>4, <2>2, <2>5, <2>6, <2>7
<1>13. Cardinality(TouchedRows(g, l, b)) >= size[2]
  <2>1. PICK lo \in 0 .. h * ry, hi \in 0 .. h * ry :
            /\ hi - lo = Span(b)[2] /\ lo < hi
            /\ \A i \in 0 .. h - 1 :
                   i * ry < hi /\ (i + 1) * ry > lo => i \in TouchedRows(g, l, b)
    BY <1>9, <1>10
  <2>2. PICK T \in SUBSET (0 .. h - 1) : T = TouchedRows(g, l, b)
    BY <1>8, <1>10
  <2>3. \A i \in 0 .. h - 1 : i * ry < hi /\ (i + 1) * ry > lo => i \in T
    BY <2>1, <2>2
  <2>4. lo < hi
    BY <2>1
  <2>5. Cardinality(T) \in Nat /\ Cardinality(T) >= CeilDiv(CeilDiv(hi - lo, q0), k)
    BY <1>11, <2>3, <2>4, EnoughAlong
  <2>6. CeilDiv(CeilDiv(hi - lo, q0), k) >= size[2] /\ hi - lo \in Int
    BY <1>2, <1>10, <2>1 DEF l
  <2>7. CeilDiv(CeilDiv(hi - lo, q0), k) \in Int
    BY <2>6, CeilDivLeast
  <2> QED
    BY <1>4, <2>2, <2>5, <2>6, <2>7
<1> QED
  BY <1>12, <1>13 DEF l

\* A region's box may be moved by what does not matter for its values.
LEMMA SamePlaces ==
    ASSUME NEW g, NEW l, NEW reg, NEW out, Right(g, l, reg),
           out.data = reg.data, out.width = reg.width, out.res = reg.res,
           out.box.minLon = reg.box.minLon, out.box.minLat = reg.box.minLat,
           out.box.maxLat = reg.box.maxLat
    PROVE  Right(g, l, out)
<1>1. \A o : /\ Claimed(g, out, o) = Claimed(g, reg, o)
             /\ MiddleLon(out, o) = MiddleLon(reg, o) /\ MiddleLat(out, o) = MiddleLat(reg, o)
  BY Zenon DEF Claimed, MiddleLon, MiddleLat
<1> QED
  BY <1>1, Zenon DEF Right

\* What is right in a region that is answered.
LEMMA RightIs ==
    ASSUME AsRead', Right(request'.grid, request'.level, reply')
    PROVE  Assembled' /\ Placed'
BY Zenon DEF Assembled, Placed, Right

\* A region for an image.
LEMMA TileStep ==
    ASSUME NEW g \in Grids, NEW b \in Boxes, NEW size \in Sizes, ReadTile(g, b, size)
    PROVE  RegionsRight'
<1> DEFINE l == OptimalLevel(g, ReadBox(g, b), size)
<1>1. /\ request' = [kind |-> "tile", grid |-> g, box |-> b, size |-> size, level |-> l]
      /\ reply' \in ReadRegion(g, l, ReadBox(g, b))
  BY Zenon DEF ReadTile
<1>2. /\ request'.kind = "tile" /\ request'.grid = g /\ request'.box = b
      /\ request'.size = size /\ request'.level = l
  BY <1>1
<1>3. l \in Levels(g) /\ ReadBox(g, b) \in BoxType /\ IsBox(b)
  BY LevelChosen, ReadBoxIsBox, BoxesAssumption
<1>4. Assembled' /\ Placed'
  <2>1. CASE ~AsRead'
    BY <2>1 DEF Assembled, Placed
  <2>2. CASE AsRead'
    <3>1. reply'.kind = "region"
      BY <2>2 DEF AsRead, Answered
    <3>2. Right(g, l, reply')
      BY <1>1, <1>3, <3>1, RegionValues
    <3> QED
      BY <1>2, <2>2, <3>2, RightIs
  <2> QED
    BY <2>1, <2>2
<1>5. Covered'
  BY <1>1, <1>2, <1>3, TileCovered DEF Covered, Answered, InCircle
<1>6. EnoughPixels'
  BY <1>2, <1>3, TileEnough DEF EnoughPixels, ReadBox
<1> QED
  BY <1>4, <1>5, <1>6 DEF RegionsRight

\* A region for an area query, which is answered as it was read unless it lies on
\* both sides of the prime meridian.
LEMMA AreaStep ==
    ASSUME NEW g \in Grids, NEW b \in Boxes, ReadArea(g, b)
    PROVE  RegionsRight'
<1>1. /\ request'.kind = "area" /\ request'.box = b
      /\ request'.grid = g /\ request'.level = 0
  BY DEF ReadArea
<1>2. PICK reg \in ReadRegion(g, 0, b) :
          reply' = IF reg.kind = "region"
                   THEN ExtractDateline(ExtractPrimeMeridian(reg, b), b) ELSE reg
  BY Zenon DEF ReadArea
<1>3. b \in BoxType /\ 0 \in Levels(g)
  BY ReadBoxIsBox, Native
<1>4. Assembled' /\ Placed'
  <2>1. CASE ~AsRead'
    BY <2>1 DEF Assembled, Placed
  <2>2. CASE AsRead'
    <3>1. reply'.kind = "region" /\ reply'.box # b
      BY <1>1, <2>2 DEF AsRead, Answered, IsArea
    <3>2. reg.kind = "region"
      BY <1>2, <3>1
    <3>3. Right(g, 0, reg)
      BY <1>3, <3>2, RegionValues
    <3>4. PICK out : out = reply'
      OBVIOUS
    <3>5. out = reg \/ out.box = b \/ out = [reg EXCEPT !.box.maxLon = @ - Circle]
      BY <1>2, <1>3, <3>2, <3>4, ExtractedIs
    <3>6. Right(g, 0, out)
      <4>1. CASE out = reg
        BY <3>3, <4>1
      <4>2. CASE out = [reg EXCEPT !.box.maxLon = @ - Circle]
        <5>1. reg = Region(reg.data, reg.width, reg.height, reg.box, reg.res)
              /\ IsRecord(reg.box)
          BY <1>3, <3>2, RegionIsRecord
        <5>2. /\ out.data = reg.data /\ out.width = reg.width /\ out.res = reg.res
              /\ out.box.minLon = reg.box.minLon /\ out.box.minLat = reg.box.minLat
              /\ out.box.maxLat = reg.box.maxLat
          BY <4>2, <5>1 DEF Region, IsRecord
        <5> QED
          BY <3>3, <5>2, SamePlaces
      <4> QED
        BY <3>1, <3>4, <3>5, <4>1, <4>2
    <3> QED
      BY <1>1, <2>2, <3>4, <3>6, RightIs
  <2> QED
    BY <2>1, <2>2
<1>5. Covered' /\ EnoughPixels'
  BY <1>1 DEF Covered, EnoughPixels, IsTile
<1> QED
  BY <1>4, <1>5 DEF RegionsRight

\* Whatever box is asked for and at whatever level: each value of a region
\* belongs to the cell that its place in the region's box stands for, and is no
\* farther from where it really is than levels allow; no chunk, also a smaller
\* one at the grid's edge, gives its values to other cells.  A request that
\* touches the grid is answered with all it touches and what is interpolated
\* from, and is read from a level that has enough cells for it.  And points are
\* answered from what is near them.  (read_region, assemble_region,
\* optimal_level, read_point)
THEOREM ReadsAreRight == ReadsSpec => []ReadsRight
<1>1. ReadsInit => RegionsRight
  BY DEF ReadsInit, Idle, None, RegionsRight, Assembled, Placed, AsRead, Answered, Covered,
         EnoughPixels, IsTile
<1>2. ASSUME [ReadsNext]_readsVars, RegionsRight
      PROVE  RegionsRight'
  <2>1. CASE UNCHANGED readsVars
    BY <1>2, <2>1 DEF readsVars, RegionsRight, Assembled, Placed, AsRead, IsArea, Answered,
                      Covered, EnoughPixels, IsTile
  <2>2. ASSUME NEW g \in Grids, NEW b \in Boxes, NEW size \in Sizes, ReadTile(g, b, size)
        PROVE  RegionsRight'
    BY <2>2, TileStep
  <2>3. ASSUME NEW g \in Grids, NEW b \in Boxes, ReadArea(g, b)
        PROVE  RegionsRight'
    BY <2>3, AreaStep
  <2>4. CASE \E g \in Grids, p \in Points : ReadPoint(g, p)
    BY <2>4 DEF ReadPoint, RegionsRight, Assembled, Placed, AsRead, Answered, Covered,
                EnoughPixels, IsTile
  <2>5. CASE Draw
    <3>1. reply'.kind = "image" /\ request' = request
      BY <2>5 DEF Draw
    <3>2. reply' # Broken /\ ~Answered'
      BY <3>1 DEF Broken, Answered
    <3>3. Assembled' /\ Placed'
      BY <3>2 DEF Assembled, Placed, AsRead
    <3>4. Covered' /\ EnoughPixels'
      BY <1>2, <3>1, <3>2 DEF RegionsRight, Covered, EnoughPixels, IsTile
    <3> QED
      BY <3>3, <3>4 DEF RegionsRight
  <2>6. CASE Sent
    BY <2>6 DEF Sent, Idle, None, RegionsRight, Assembled, Placed, AsRead, Answered, Covered,
                EnoughPixels, IsTile
  <2> QED
    BY <1>2, <2>1, <2>2, <2>3, <2>4, <2>5, <2>6 DEF ReadsNext
<1>3. RegionsRight /\ PointsRight => ReadsRight
  BY DEF ReadsRight
<1> QED
  BY <1>1, <1>2, <1>3, PointsAreNear, PTL DEF ReadsSpec

-----------------------------------------------------------------------------
(* Distances: how near the places of cells that share a side are *)

\* What multiplies both sides of a division cancels out.
LEMMA CancelDiv ==
    ASSUME NEW p \in Nat \ {0}, NEW w \in Nat \ {0}, NEW a \in Int
    PROVE  (a * w) \div (p * w) = a \div p
<1>1. PICK q \in Int, m \in 0 .. p - 1 : q = a \div p /\ a = p * q + m
  BY DivMod
<1>2. p * w \in Nat \ {0} /\ m * w \in Nat
  OBVIOUS
<1>3. m * w <= p * w - 1
  <2>1. w * (m + 1) <= w * p
    BY TimesMonotone
  <2>2. w * (m + 1) = m * w + w /\ w * p = p * w
    OBVIOUS
  <2> QED
    BY <1>2, <2>1, <2>2
<1>4. a * w = (p * w) * q + m * w
  <2>1. (p * q + m) * w = (p * w) * q + m * w
    OBVIOUS
  <2> QED
    BY <1>1, <2>1
<1>5. ((p * w) * q + m * w) \div (p * w) = q
  <2>1. m * w \in 0 .. p * w - 1
    BY <1>2, <1>3
  <2> QED
    BY <1>2, <2>1, Quotient
<1> QED
  BY <1>1, <1>4, <1>5

\* Of w native cells a level keeps s, each of k of them.  How far the native
\* ones of a cell, or of the next, are from the sides of a cell.
LEMMA SidesNear ==
    ASSUME NEW w \in Nat \ {0}, NEW k \in Nat \ {0}, NEW s \in Nat \ {0}, s = w \div k,
           NEW x \in Nat, NEW i \in {x, x + 1}, i < s, NEW n \in i * k .. i * k + k - 1
    PROVE  /\ n * s - (w - 1) * x <= 2 * (k * s)
           /\ -(2 * (k * s)) <= n * s - (w - 1) * (x + 1)
<1>1. PICK t \in 0 .. k - 1 : w = k * s + t
  <2>1. w \in Int
    OBVIOUS
  <2>2. w % k \in 0 .. k - 1 /\ w = k * s + (w % k)
    BY <2>1, DivMod
  <2> QED
    BY <2>2
<1>2. PICK j \in 0 .. k - 1 : n = i * k + j
  <2>1. i \in Int /\ i * k \in Int
    OBVIOUS
  <2> QED
    BY <2>1
<1>3. PICK ks \in Nat, js \in Nat, xks \in Nat, tx \in Nat :
          ks = k * s /\ js = j * s /\ xks = x * ks /\ tx = t * x
  <2>1. k * s \in Nat /\ j * s \in Nat /\ t * x \in Nat /\ x * (k * s) \in Nat
    BY <1>1
  <2> QED
    BY <2>1
<1>4. js + s <= ks
  <2>1. s * (j + 1) <= s * k
    BY TimesMonotone
  <2>2. s * (j + 1) = js + s /\ s * k = ks
    BY <1>3
  <2> QED
    BY <2>1, <2>2
<1>5. n * s \in {xks + js, xks + ks + js}
  <2>1. (i * k + j) * s = i * (k * s) + j * s
    <3>1. i \in Int /\ j \in Int
      OBVIOUS
    <3> QED
      BY <3>1
  <2>2. i * ks \in {xks, xks + ks}
    BY <1>3
  <2> QED
    BY <1>2, <1>3, <2>1, <2>2
<1>6. (w - 1) * x = xks + tx - x /\ (w - 1) * (x + 1) = xks + tx - x + ks + t - 1
  <2>1. (ks + t - 1) * x = x * ks + t * x - x
    BY <1>1, <1>3
  <2>2. (ks + t - 1) * (x + 1) = x * ks + t * x - x + ks + t - 1
    BY <1>1, <1>3
  <2> QED
    BY <1>1, <1>3, <2>1, <2>2
<1>7. x < s /\ tx + t <= ks
  <2>1. x + 1 <= s /\ x + 1 \in Nat
    OBVIOUS
  <2>2. (x + 1) * t <= (x + 1) * k /\ k * (x + 1) <= k * s
    BY <1>1, <2>1, TimesMonotone
  <2>3. (x + 1) * t = tx + t /\ (x + 1) * k = k * (x + 1) /\ (x + 1) * k \in Int
    BY <1>1, <1>3
  <2> QED
    BY <1>3, <2>1, <2>2, <2>3
<1>8. n * s \in Int /\ n * s >= xks /\ n * s <= xks + ks + js
  BY <1>3, <1>5
<1> QED
  BY <1>1, <1>3, <1>4, <1>6, <1>7, <1>8

\* So the native ones are within two cells of a place between the two sides.
\* All is in parts of a unit; a cell is of p parts.
LEMMA SideNear ==
    ASSUME NEW parts \in Nat \ {0}, NEW w \in Nat \ {0}, NEW k \in Nat \ {0},
           NEW s \in Nat \ {0}, NEW r \in Nat \ {0}, s = w \div k,
           NEW x \in Nat, NEW pos \in Int,
           (parts * r) * x <= pos, pos <= (parts * r) * (x + 1),
           NEW i \in {x, x + 1}, i < s, NEW n \in i * k .. i * k + k - 1
    PROVE  parts * (n * (s * r)) - (w - 1) * pos
               \in -(parts * ((2 * k) * (s * r))) .. parts * ((2 * k) * (s * r))
<1> DEFINE p == parts * r
<1>1. p \in Nat \ {0} /\ n \in Int /\ w - 1 \in Nat
  <2>1. i * k \in Int
    OBVIOUS
  <2> QED
    BY <2>1
<1>2. /\ n * s - (w - 1) * x <= 2 * (k * s)
      /\ -(2 * (k * s)) <= n * s - (w - 1) * (x + 1)
  BY SidesNear
<1>3. p * x <= pos /\ pos <= p * (x + 1)
  OBVIOUS
<1>4. parts * (n * (s * r)) = p * (n * s) /\ parts * ((2 * k) * (s * r)) = p * (2 * (k * s))
  BY <1>1
<1> HIDE DEF p
<1>5. PICK ns \in Int, wx \in Int, wx1 \in Int, lim \in Nat :
          ns = n * s /\ wx = (w - 1) * x /\ wx1 = (w - 1) * (x + 1) /\ lim = 2 * (k * s)
  BY <1>1
<1>6. (w - 1) * (p * x) <= (w - 1) * pos /\ (w - 1) * pos <= (w - 1) * (p * (x + 1))
  <2>1. p * x \in Int /\ p * (x + 1) \in Int
    BY <1>1
  <2> QED
    BY <1>1, <1>3, <2>1, TimesMonotone
<1>7. (w - 1) * (p * x) = p * wx /\ (w - 1) * (p * (x + 1)) = p * wx1
  BY <1>1, <1>5
<1>8. p * (ns - wx) <= p * lim /\ p * (-lim) <= p * (ns - wx1)
  BY <1>1, <1>2, <1>5, TimesMonotone
<1>9. PICK v \in Int, a \in Int, b \in Int, c \in Int, m \in Int :
          /\ v = (w - 1) * pos /\ a = p * ns /\ b = p * wx /\ c = p * wx1 /\ m = p * lim
          /\ p * (ns - wx) = a - b /\ p * (ns - wx1) = a - c /\ p * (-lim) = -m
  BY <1>1, <1>5
<1>10. a - v <= m /\ -m <= a - v
  BY <1>6, <1>7, <1>8, <1>9
<1>11. a - v \in -m .. m
  BY <1>9, <1>10
<1> QED
  BY <1>4, <1>5, <1>9, <1>11

\* The first column of a grid that goes round, from a place in the last column or
\* after it.
LEMMA RoundSideNear ==
    ASSUME NEW parts \in Nat \ {0}, NEW w \in Nat \ {0}, NEW k \in Nat \ {0},
           NEW s \in Nat \ {0}, NEW r \in Nat \ {0}, s = w \div k,
           NEW c \in Nat, s * r <= c, (w - 1) * (c - s * r) <= s * r,
           NEW pos \in Int, pos <= parts * c,
           \/ parts * (s * r) <= pos
           \/ 2 <= s /\ parts * (s * r - r) <= pos,
           NEW n \in 0 .. k - 1
    PROVE  parts * (n * (s * r)) - (w - 1) * (pos - parts * c)
               \in -(parts * (((5 * k) \div 2) * (s * r))) .. parts * (((5 * k) \div 2) * (s * r))
<1>1. PICK S \in Nat \ {0} : S = s * r
  OBVIOUS
<1>2. PICK t \in 0 .. k - 1 : w = k * s + t
  <2>1. w \in Int
    OBVIOUS
  <2>2. w % k \in 0 .. k - 1 /\ w = k * s + (w % k)
    BY <2>1, DivMod
  <2> QED
    BY <2>2
<1>3. PICK m \in Nat : m = (5 * k) \div 2 /\ 5 * k - 1 <= 2 * m /\ k <= m
  OBVIOUS
<1>4. w - 1 \in Nat /\ n \in Int /\ 0 <= n /\ n <= k - 1
  OBVIOUS
\* what is left to the first column that comes again
<1>5. PICK rest \in Nat : rest = parts * c - pos
  OBVIOUS
<1>6. (w - 1) * (c - S) <= S /\ S <= c
  BY <1>1
<1>7. PICK far \in Int, ns \in Nat, all \in Nat :
          far = (w - 1) * rest /\ ns = n * S /\ all = m * S
  <2>1. n \in Nat /\ w - 1 \in Int
    BY <1>4
  <2>2. (w - 1) * rest \in Int /\ n * S \in Nat /\ m * S \in Nat
    BY <2>1
  <2> QED
    BY <2>2
<1>8. far >= 0
  BY <1>4, <1>5, <1>7
<1>9. ns <= (k - 1) * S
  <2>1. S * n <= S * (k - 1)
    BY <1>1, <1>4, TimesMonotone
  <2> QED
    BY <1>1, <1>4, <1>7, <2>1
<1>10. PICK ks \in Nat : ks = k * S /\ (k - 1) * S = ks - S
  <2>1. k * S \in Nat /\ (k - 1) * S = k * S - S
    OBVIOUS
  <2> QED
    BY <2>1
<1>11. ASSUME NEW d \in Nat, rest <= parts * (c - S + d),
              NEW wd \in Int, wd = (w - 1) * d
       PROVE  far <= parts * (S + wd)
  <2>1. c - S + d \in Nat
    BY <1>1, <1>6
  <2>2. (w - 1) * rest <= (w - 1) * (parts * (c - S + d))
    <3>1. parts * (c - S + d) \in Int /\ rest \in Int
      BY <2>1
    <3> QED
      BY <1>4, <1>11, <3>1, TimesMonotone
  <2>3. PICK cs \in Int : cs = (w - 1) * (c - S)
    BY <1>1, <1>4
  <2>4. (w - 1) * (parts * (c - S + d)) = parts * (cs + wd)
    <3>1. PICK e \in Int : e = c - S
      BY <1>1
    <3>2. (w - 1) * (parts * (e + d)) = parts * ((w - 1) * e + (w - 1) * d)
      BY <1>4, <3>1
    <3> QED
      BY <1>11, <2>3, <3>1, <3>2
  <2>5. parts * (cs + wd) <= parts * (S + wd)
    <3>1. cs + wd <= S + wd /\ cs + wd \in Int /\ S + wd \in Int
      BY <1>1, <1>6, <1>11, <2>3
    <3> QED
      BY <3>1, TimesMonotone
  <2> QED
    BY <1>7, <2>2, <2>4, <2>5
<1>12. parts * ns + far <= parts * all
  <2>1. CASE parts * S <= pos
    <3>1. rest <= parts * (c - S + 0)
      <4>1. parts * (c - S + 0) = parts * c - parts * S
        BY <1>1
      <4> QED
        BY <1>1, <1>5, <2>1, <4>1
    <3>2. far <= parts * (S + 0)
      <4>1. (w - 1) * 0 = 0
        BY <1>4
      <4> QED
        BY <1>11, <3>1, <4>1
    <3>3. ns + S <= all
      <4>1. S * k <= S * m
        BY <1>1, <1>3, TimesMonotone
      <4>2. S * k = ks /\ S * m = all
        BY <1>1, <1>3, <1>7, <1>10
      <4> QED
        BY <1>1, <1>7, <1>9, <1>10, <4>1, <4>2
    <3>4. parts * (ns + S) <= parts * all
      <4>1. ns + S \in Int /\ all \in Int
        BY <1>1, <1>7
      <4> QED
        BY <3>3, <4>1, TimesMonotone
    <3>5. parts * (ns + S) = parts * ns + parts * (S + 0)
      BY <1>1, <1>7
    <3> QED
      BY <1>1, <1>7, <3>2, <3>4, <3>5
  <2>2. CASE 2 <= s /\ parts * (S - r) <= pos
    <3>1. rest <= parts * (c - S + r)
      <4>1. parts * (c - S + r) = parts * c - parts * (S - r)
        BY <1>1
      <4> QED
        BY <1>1, <1>5, <2>2, <4>1
    <3>2. PICK wd \in Int : wd = (w - 1) * r
      BY <1>4
    <3>3. far <= parts * (S + wd)
      BY <1>11, <3>1, <3>2
    <3>4. PICK kr \in Nat, tr \in Nat : kr = k * r /\ tr = t * r /\ tr <= kr - r
      <4>1. r * t <= r * (k - 1)
        BY <1>2, TimesMonotone
      <4>2. r * t = t * r /\ r * (k - 1) = k * r - r /\ t * r \in Nat /\ k * r \in Nat
        BY <1>2
      <4> QED
        BY <4>1, <4>2
    <3>5. wd = ks + tr - r
      <4>1. (k * s + t - 1) * r = k * (s * r) + t * r - r
        BY <1>2
      <4> QED
        BY <1>1, <1>2, <1>10, <3>2, <3>4, <4>1
    <3>6. 2 * kr - 2 * r <= ks - S
      <4>1. 2 * r <= S
        <5>1. r * 2 <= r * s
          BY <2>2, TimesMonotone
        <5> QED
          BY <1>1, <5>1
      <4>2. (k - 1) * (2 * r) <= (k - 1) * S
        BY <1>1, <4>1, TimesMonotone
      <4>3. (k - 1) * (2 * r) = 2 * kr - 2 * r
        BY <3>4
      <4> QED
        BY <1>10, <4>2, <4>3
    <3>7. 5 * ks - S <= 2 * all
      <4>1. S * (5 * k - 1) <= S * (2 * m)
        BY <1>1, <1>3, TimesMonotone
      <4>2. S * (5 * k - 1) = 5 * ks - S /\ S * (2 * m) = 2 * all
        BY <1>1, <1>3, <1>7, <1>10
      <4> QED
        BY <4>1, <4>2
    <3>8. ns + (S + wd) <= all
      BY <1>1, <1>7, <1>9, <1>10, <3>4, <3>5, <3>6, <3>7
    <3>9. parts * (ns + (S + wd)) <= parts * all
      <4>1. ns + (S + wd) \in Int /\ all \in Int
        BY <1>1, <1>7, <3>2
      <4> QED
        BY <3>8, <4>1, TimesMonotone
    <3>10. parts * (ns + (S + wd)) = parts * ns + parts * (S + wd)
      BY <1>1, <1>7, <3>2
    <3> QED
      BY <1>1, <1>7, <3>2, <3>3, <3>9, <3>10
  <2> QED
    BY <1>1, <2>1, <2>2
<1>13. (w - 1) * (pos - parts * c) = -far
  <2>1. pos - parts * c = -rest
    BY <1>5
  <2> QED
    BY <1>4, <1>5, <1>7, <2>1
<1>14. PICK a \in Nat, z \in Nat : a = parts * ns /\ z = parts * all
  BY <1>7
<1>15. a - (-far) \in -z .. z
  BY <1>7, <1>8, <1>12, <1>14
<1> QED
  BY <1>1, <1>3, <1>7, <1>13, <1>14, <1>15

\* The last column, from a place between it and the first that comes again.
LEMMA LastNear ==
    ASSUME NEW parts \in Nat \ {0}, NEW w \in Nat \ {0}, NEW k \in Nat \ {0},
           NEW s \in Nat \ {0}, NEW r \in Nat \ {0}, s = w \div k,
           NEW c \in Nat, s * r <= c, (w - 1) * (c - s * r) <= s * r,
           NEW pos \in Int, parts * (s * r) <= pos, pos <= parts * c,
           NEW n \in (s - 1) * k .. (s - 1) * k + k - 1
    PROVE  parts * (n * (s * r)) - (w - 1) * pos
               \in -(parts * ((2 * k) * (s * r))) .. parts * ((2 * k) * (s * r))
<1>1. PICK S \in Nat \ {0} : S = s * r
  OBVIOUS
<1>2. PICK t \in 0 .. k - 1 : w = k * s + t
  <2>1. w \in Int
    OBVIOUS
  <2>2. w % k \in 0 .. k - 1 /\ w = k * s + (w % k)
    BY <2>1, DivMod
  <2> QED
    BY <2>2
<1>3. n \in Int /\ k * s - k <= n /\ n <= k * s - 1 /\ w - 1 \in Nat
  <2>1. (s - 1) * k = k * s - k /\ k * s \in Int
    OBVIOUS
  <2> QED
    BY <2>1
<1>4. (w - 1) * (parts * S) <= (w - 1) * pos /\ (w - 1) * pos <= (w - 1) * (parts * c)
  <2>1. parts * S \in Int /\ parts * c \in Int
    BY <1>1
  <2> QED
    BY <1>1, <1>3, <2>1, TimesMonotone
<1>5. (w - 1) * (parts * S) = parts * ((w - 1) * S)
      /\ (w - 1) * (parts * c) = parts * ((w - 1) * c)
  <2>1. PICK e \in Nat : e = w - 1
    BY <1>3
  <2>2. e * (parts * S) = parts * (e * S) /\ e * (parts * c) = parts * (e * c)
    OBVIOUS
  <2> QED
    BY <2>1, <2>2
<1>6. PICK ks \in Int, ws \in Int : ks = k * s /\ ws = w * S
  <2>1. k * s \in Int /\ w * S \in Int
    OBVIOUS
  <2> QED
    BY <2>1
<1>7. (w - 1) * S = ws - S /\ (w - 1) * c <= ws
  <2>1. (w - 1) * c = (w - 1) * (c - S) + (w - 1) * S
    BY <1>1, <1>3
  <2>2. (w - 1) * S = ws - S
    BY <1>6
  <2>3. PICK u \in Int, v \in Int : u = (w - 1) * c /\ v = (w - 1) * (c - S)
    BY <1>1, <1>3
  <2>4. v <= S
    BY <1>1, <2>3
  <2> QED
    BY <1>1, <1>6, <2>1, <2>2, <2>3, <2>4
<1>8. PICK nS \in Int, kS \in Int, tS \in Nat, ksS \in Int :
          nS = n * S /\ kS = k * S /\ tS = t * S /\ ksS = ks * S
  <2>1. n \in Int /\ t \in Nat
    BY <1>3
  <2>2. n * S \in Int /\ k * S \in Int /\ t * S \in Nat /\ ks * S \in Int
    BY <2>1
  <2> QED
    BY <2>2
<1>9. ws = ksS + tS /\ tS <= kS - S /\ ksS - kS <= nS /\ nS <= ksS - S
  <2>1. (ks + t) * S = ks * S + t * S
    BY <1>1, <1>2, <1>6
  <2>2. S * t <= S * (k - 1) /\ S * (ks - k) <= S * n /\ S * n <= S * (ks - 1)
    BY <1>1, <1>2, <1>3, <1>6, TimesMonotone
  <2>3. /\ S * t = tS /\ S * (k - 1) = kS - S /\ S * n = nS
        /\ S * (ks - k) = ksS - kS /\ S * (ks - 1) = ksS - S
    <3>1. /\ S * t = t * S /\ S * (k - 1) = k * S - S /\ S * n = n * S
          /\ S * (ks - k) = ks * S - k * S /\ S * (ks - 1) = ks * S - S
      BY <1>3
    <3> QED
      BY <1>8, <3>1
  <2> QED
    BY <1>2, <1>6, <1>8, <2>1, <2>2, <2>3
<1>10. PICK v \in Int : v = (w - 1) * pos /\ parts * (ws - S) <= v /\ v <= parts * ws
  <2>1. parts * ((w - 1) * c) <= parts * ws
    <3>1. (w - 1) * c \in Int
      BY <1>3
    <3> QED
      BY <1>6, <1>7, <3>1, TimesMonotone
  <2>2. PICK v \in Int : v = (w - 1) * pos
    BY <1>3
  <2>3. parts * ((w - 1) * c) \in Int /\ parts * ws \in Int /\ parts * (ws - S) \in Int
    BY <1>1, <1>3, <1>6
  <2> QED
    BY <1>4, <1>5, <1>7, <2>1, <2>2, <2>3
<1>11. nS - ws >= -(2 * kS) /\ nS - (ws - S) <= 2 * kS
  BY <1>1, <1>8, <1>9
<1>12. parts * (-(2 * kS)) <= parts * (nS - ws) /\ parts * (nS - (ws - S)) <= parts * (2 * kS)
  <2>1. -(2 * kS) \in Int /\ nS - ws \in Int /\ nS - (ws - S) \in Int /\ 2 * kS \in Int
    BY <1>1, <1>6, <1>8
  <2> QED
    BY <1>11, <2>1, TimesMonotone
<1>13. PICK a \in Int, b \in Int, m \in Int, d \in Int :
          /\ a = parts * nS /\ b = parts * ws /\ m = parts * (2 * kS) /\ d = parts * (ws - S)
          /\ parts * (nS - ws) = a - b /\ parts * (nS - (ws - S)) = a - d
          /\ parts * (-(2 * kS)) = -m
  <2>1. parts * nS \in Int /\ parts * ws \in Int /\ parts * (2 * kS) \in Int
        /\ parts * (ws - S) \in Int
    OBVIOUS
  <2>2. /\ parts * (nS - ws) = parts * nS - parts * ws
        /\ parts * (nS - (ws - S)) = parts * nS - parts * (ws - S)
        /\ parts * (-(2 * kS)) = -(parts * (2 * kS))
    OBVIOUS
  <2> QED
    BY <2>1, <2>2
<1>14. a - v \in -m .. m
  BY <1>10, <1>12, <1>13
<1>15. (2 * k) * S = 2 * kS
  BY <1>1, <1>8
<1> QED
  BY <1>1, <1>8, <1>10, <1>13, <1>14, <1>15

\* From a distance along a row of the grid to one in longitudes.
LEMMA LonNearBy ==
    ASSUME NEW g \in Grids, NEW n, n[1] \in Int, NEW parts \in Nat, NEW lon \in Int,
           NEW turn \in {-Circle, 0, Circle}, NEW m \in Nat, NEW k \in Nat, m <= k,
           parts * (n[1] * Span(g.box)[1])
               - (g.shape[1] - 1) * (lon - parts * (g.box.minLon + turn))
               \in -(parts * (m * Span(g.box)[1])) .. parts * (m * Span(g.box)[1])
    PROVE  NearLon(g, n, lon, parts, k)
<1> DEFINE S == Span(g.box)[1]
           w == g.shape[1]
           west == g.box.minLon
           x == n[1]
<1>1. S \in Nat /\ w \in Nat /\ west \in Int /\ turn \in Int /\ x \in Int
  BY Native, GridNumbers, PlacesAssumption DEF BoxType
<1>2. Gaps(g, 1) = w - 1
  BY DEF Gaps
<1> SUFFICES Distance(parts * ((w - 1) * (west + turn) + x * S), (w - 1) * lon) <= parts * k * S
  BY <1>2 DEF NearLon
<1>3. parts * (x * S) - (w - 1) * (lon - parts * (west + turn))
          \in -(parts * (m * S)) .. parts * (m * S)
  OBVIOUS
<1> HIDE DEF S, w, west, x
<1>4. PICK at \in Int, e \in Int, xS \in Int : at = west + turn /\ e = w - 1 /\ xS = x * S
  <2>1. west + turn \in Int /\ w - 1 \in Int /\ x * S \in Int
    BY <1>1
  <2> QED
    BY <2>1
<1>5. PICK p \in Int, q \in Int, v \in Int, lim \in Int, far \in Int :
          /\ p = parts * xS /\ q = parts * (e * at) /\ v = e * lon
          /\ lim = parts * (m * S) /\ far = parts * k * S
  <2>1. /\ parts * xS \in Int /\ parts * (e * at) \in Int /\ e * lon \in Int
        /\ parts * (m * S) \in Int /\ parts * k * S \in Int
    BY <1>1
  <2> QED
    BY <2>1
<1>6. e * (lon - parts * at) = v - q
  <2>1. e * (lon - parts * at) = e * lon - parts * (e * at)
    OBVIOUS
  <2> QED
    BY <1>5, <2>1
<1>7. lim <= far
  <2>1. S * m <= S * k
    BY <1>1, TimesMonotone
  <2>2. parts * (S * m) <= parts * (S * k)
    BY <1>1, <2>1, TimesMonotone
  <2>3. parts * (S * m) = parts * (m * S) /\ parts * (S * k) = parts * k * S
    BY <1>1
  <2> QED
    BY <1>5, <2>2, <2>3
<1>8. p - (v - q) \in -lim .. lim
  BY <1>3, <1>4, <1>5, <1>6
<1>9. (q + p) - v \in -far .. far
  BY <1>5, <1>7, <1>8
<1>10. Distance(q + p, v) <= far
  BY <1>5, <1>9, DistanceWithin
<1>11. parts * (e * at + xS) = q + p
  BY <1>4, <1>5
<1> QED
  BY <1>4, <1>5, <1>10, <1>11

LEMMA LatNearBy ==
    ASSUME NEW g \in Grids, NEW n, n[2] \in Int, NEW parts \in Nat, NEW lat \in Int,
           NEW m \in Nat, NEW k \in Nat, m <= k,
           parts * (n[2] * Span(g.box)[2])
               - (g.shape[2] - 1) * (parts * g.box.maxLat - lat)
               \in -(parts * (m * Span(g.box)[2])) .. parts * (m * Span(g.box)[2])
    PROVE  NearLat(g, n, lat, parts, k)
<1> DEFINE S == Span(g.box)[2]
           w == g.shape[2]
           north == g.box.maxLat
           y == n[2]
<1>1. S \in Nat /\ w \in Nat /\ north \in Int /\ y \in Int
  BY Native, GridNumbers DEF BoxType
<1>2. Gaps(g, 2) = w - 1
  BY DEF Gaps
<1> SUFFICES Distance(parts * ((w - 1) * north - y * S), (w - 1) * lat) <= parts * k * S
  BY <1>2 DEF NearLat
<1>3. parts * (y * S) - (w - 1) * (parts * north - lat)
          \in -(parts * (m * S)) .. parts * (m * S)
  OBVIOUS
<1> HIDE DEF S, w, north, y
<1>4. PICK e \in Int, yS \in Int : e = w - 1 /\ yS = y * S
  <2>1. w - 1 \in Int /\ y * S \in Int
    BY <1>1
  <2> QED
    BY <2>1
<1>5. PICK p \in Int, q \in Int, v \in Int, lim \in Int, far \in Int :
          /\ p = parts * yS /\ q = parts * (e * north) /\ v = e * lat
          /\ lim = parts * (m * S) /\ far = parts * k * S
  <2>1. /\ parts * yS \in Int /\ parts * (e * north) \in Int /\ e * lat \in Int
        /\ parts * (m * S) \in Int /\ parts * k * S \in Int
    BY <1>1
  <2> QED
    BY <2>1
<1>6. e * (parts * north - lat) = q - v
  <2>1. e * (parts * north - lat) = parts * (e * north) - e * lat
    BY <1>1
  <2> QED
    BY <1>5, <2>1
<1>7. lim <= far
  <2>1. S * m <= S * k
    BY <1>1, TimesMonotone
  <2>2. parts * (S * m) <= parts * (S * k)
    BY <1>1, <2>1, TimesMonotone
  <2>3. parts * (S * m) = parts * (m * S) /\ parts * (S * k) = parts * k * S
    BY <1>1
  <2> QED
    BY <1>5, <2>2, <2>3
<1>8. p - (q - v) \in -lim .. lim
  BY <1>3, <1>4, <1>5, <1>6
<1>9. (q - p) - v \in -far .. far
  BY <1>5, <1>7, <1>8
<1>10. Distance(q - p, v) <= far
  BY <1>5, <1>9, DistanceWithin
<1>11. parts * (e * north - yS) = q - p
  BY <1>1, <1>4, <1>5
<1> QED
  BY <1>4, <1>5, <1>10, <1>11

\* The numbers of a level.
LEMMA LevelNumbers ==
    ASSUME NEW g \in Grids, NEW l \in Levels(g)
    PROVE  /\ 2^l \in Nat \ {0} /\ 2 * 2^l \in Nat
           /\ (5 * 2^l) \div 2 \in Nat /\ 2 * 2^l <= (5 * 2^l) \div 2
           /\ \A i \in {1, 2} : /\ g.shape[i] \in Nat \ {0} /\ Shape(g, l)[i] \in Nat \ {0}
                                /\ Resolution(g, l)[i] \in Nat \ {0}
                                /\ Shape(g, l)[i] = g.shape[i] \div 2^l
                                /\ Span(g.box)[i] = Shape(g, l)[i] * Resolution(g, l)[i]
           /\ g.box.minLon \in Int /\ g.box.maxLon \in Int
           /\ g.box.minLat \in Int /\ g.box.maxLat \in Int
           /\ g.box.maxLon = g.box.minLon + Span(g.box)[1]
           /\ g.box.minLat = g.box.maxLat - Span(g.box)[2]
           /\ Circle \in Nat
<1>1. 2^l \in Nat \ {0}
  BY PowerOfTwo
<1>2. \A k \in Nat \ {0} : 2 * k \in Nat /\ (5 * k) \div 2 \in Nat /\ 2 * k <= (5 * k) \div 2
  OBVIOUS
<1>3. /\ Shape(g, l)[1] \in Nat \ {0} /\ Shape(g, l)[2] \in Nat \ {0}
      /\ Resolution(g, l)[1] \in Nat \ {0} /\ Resolution(g, l)[2] \in Nat \ {0}
      /\ Span(g.box)[1] = Shape(g, l)[1] * Resolution(g, l)[1]
      /\ Span(g.box)[2] = Shape(g, l)[2] * Resolution(g, l)[2]
      /\ g.shape[1] \in Nat \ {0} /\ g.shape[2] \in Nat \ {0}
      /\ g.box \in BoxType
  BY GridNumbers, Native
<1>4. Shape(g, l)[1] = g.shape[1] \div 2^l /\ Shape(g, l)[2] = g.shape[2] \div 2^l
  BY DEF Shape
<1>5. /\ g.box.minLon \in Int /\ g.box.maxLon \in Int
      /\ g.box.minLat \in Int /\ g.box.maxLat \in Int
      /\ g.box.maxLon = g.box.minLon + Span(g.box)[1]
      /\ g.box.minLat = g.box.maxLat - Span(g.box)[2]
  BY <1>3 DEF BoxType, Span
<1> QED
  BY <1>1, <1>2, <1>3, <1>4, <1>5, PlacesAssumption

\* The same of the two sides, without the powers.
LEMMA Sides ==
    ASSUME NEW g \in Grids, NEW l \in Levels(g)
    PROVE  /\ Shape(g, l)[1] \in Nat \ {0} /\ Shape(g, l)[2] \in Nat \ {0}
           /\ Resolution(g, l)[1] \in Nat \ {0} /\ Resolution(g, l)[2] \in Nat \ {0}
           /\ Span(g.box)[1] = Shape(g, l)[1] * Resolution(g, l)[1]
           /\ Span(g.box)[2] = Shape(g, l)[2] * Resolution(g, l)[2]
           /\ g.box.minLon \in Int /\ g.box.maxLon \in Int
           /\ g.box.minLat \in Int /\ g.box.maxLat \in Int
           /\ g.box.maxLon = g.box.minLon + Span(g.box)[1]
           /\ g.box.minLat = g.box.maxLat - Span(g.box)[2]
<1>1. g.box \in BoxType
  BY GridNumbers
<1>2. /\ g.box.minLon \in Int /\ g.box.maxLon \in Int
      /\ g.box.minLat \in Int /\ g.box.maxLat \in Int
      /\ g.box.maxLon = g.box.minLon + Span(g.box)[1]
      /\ g.box.minLat = g.box.maxLat - Span(g.box)[2]
  BY <1>1 DEF BoxType, Span
<1> QED
  BY <1>2, GridNumbers

\* A cell, or the one after it, is near a place in the first.
LEMMA CellNearLon ==
    ASSUME NEW g \in Grids, NEW l \in Levels(g), NEW parts \in Nat \ {0}, NEW lon \in Int,
           NEW turn \in {-Circle, 0, Circle},
           NEW x \in Nat, NEW i \in {x, x + 1}, i < Shape(g, l)[1],
           (parts * Resolution(g, l)[1]) * x <= lon - parts * (g.box.minLon + turn),
           lon - parts * (g.box.minLon + turn) <= (parts * Resolution(g, l)[1]) * (x + 1),
           NEW n, n[1] \in i * 2^l .. i * 2^l + 2^l - 1
    PROVE  NearLon(g, n, lon, parts, (5 * 2^l) \div 2)
<1> DEFINE w == g.shape[1]
           s == Shape(g, l)[1]
           r == Resolution(g, l)[1]
           S == Span(g.box)[1]
           k == 2^l
           pos == lon - parts * (g.box.minLon + turn)
<1>1. /\ w \in Nat \ {0} /\ s \in Nat \ {0} /\ r \in Nat \ {0} /\ k \in Nat \ {0}
      /\ s = w \div k /\ S = s * r /\ g.box.minLon \in Int /\ turn \in Int
      /\ 2 * k \in Nat /\ (5 * k) \div 2 \in Nat /\ 2 * k <= (5 * k) \div 2
  BY LevelNumbers
<1>2. pos \in Int
  BY <1>1
<1>3. /\ (parts * r) * x <= pos /\ pos <= (parts * r) * (x + 1)
      /\ n[1] \in i * k .. i * k + k - 1 /\ i < s
  OBVIOUS
<1>4. n[1] \in Int
  <2>1. i * k \in Int
    BY <1>1
  <2> QED
    BY <1>3, <2>1
<1> HIDE DEF w, s, r, S, k, pos
<1>5. PICK m : m = n[1] /\ m \in i * k .. i * k + k - 1
  BY <1>3
<1>6. parts * (m * (s * r)) - (w - 1) * pos
          \in -(parts * ((2 * k) * (s * r))) .. parts * ((2 * k) * (s * r))
  BY <1>1, <1>2, <1>3, <1>5, SideNear
<1>7. parts * (n[1] * S) - (w - 1) * pos \in -(parts * ((2 * k) * S)) .. parts * ((2 * k) * S)
  BY <1>1, <1>5, <1>6
<1>8. NearLon(g, n, lon, parts, (5 * k) \div 2)
  BY <1>1, <1>4, <1>7, LonNearBy DEF w, S, pos
<1> QED
  BY <1>8 DEF k

LEMMA CellNearLat ==
    ASSUME NEW g \in Grids, NEW l \in Levels(g), NEW parts \in Nat \ {0}, NEW lat \in Int,
           NEW y \in Nat, NEW j \in {y, y + 1}, j < Shape(g, l)[2],
           (parts * Resolution(g, l)[2]) * y <= parts * g.box.maxLat - lat,
           parts * g.box.maxLat - lat <= (parts * Resolution(g, l)[2]) * (y + 1),
           NEW n, n[2] \in j * 2^l .. j * 2^l + 2^l - 1
    PROVE  NearLat(g, n, lat, parts, (5 * 2^l) \div 2)
<1> DEFINE w == g.shape[2]
           s == Shape(g, l)[2]
           r == Resolution(g, l)[2]
           S == Span(g.box)[2]
           k == 2^l
           pos == parts * g.box.maxLat - lat
<1>1. /\ w \in Nat \ {0} /\ s \in Nat \ {0} /\ r \in Nat \ {0} /\ k \in Nat \ {0}
      /\ s = w \div k /\ S = s * r /\ g.box.maxLat \in Int
      /\ 2 * k \in Nat /\ (5 * k) \div 2 \in Nat /\ 2 * k <= (5 * k) \div 2
  BY LevelNumbers
<1>2. pos \in Int
  BY <1>1
<1>3. /\ (parts * r) * y <= pos /\ pos <= (parts * r) * (y + 1)
      /\ n[2] \in j * k .. j * k + k - 1 /\ j < s
  OBVIOUS
<1>4. n[2] \in Int
  <2>1. j * k \in Int
    BY <1>1
  <2> QED
    BY <1>3, <2>1
<1> HIDE DEF w, s, r, S, k, pos
<1>5. PICK m : m = n[2] /\ m \in j * k .. j * k + k - 1
  BY <1>3
<1>6. parts * (m * (s * r)) - (w - 1) * pos
          \in -(parts * ((2 * k) * (s * r))) .. parts * ((2 * k) * (s * r))
  BY <1>1, <1>2, <1>3, <1>5, SideNear
<1>7. parts * (n[2] * S) - (w - 1) * pos \in -(parts * ((2 * k) * S)) .. parts * ((2 * k) * S)
  BY <1>1, <1>5, <1>6
<1>8. NearLat(g, n, lat, parts, (5 * k) \div 2)
  BY <1>1, <1>4, <1>7, LatNearBy DEF w, S, pos
<1> QED
  BY <1>8 DEF k

\* On a grid that goes round, the last column and the first that comes again are
\* near a place between them.
LEMMA GapNearLon ==
    ASSUME NEW g \in Grids, NEW l \in Levels(g), Span(g.box)[1] > GlobalWidth,
           NEW parts \in Nat \ {0}, NEW lon \in Int, NEW turn \in {-Circle, 0},
           NEW i \in {0, Shape(g, l)[1] - 1},
           LET pos == lon - parts * (g.box.minLon + turn)
           IN  /\ pos <= parts * Circle
               /\ \/ parts * Span(g.box)[1] <= pos
                  \/ /\ i = 0 /\ 2 <= Shape(g, l)[1]
                     /\ parts * (Span(g.box)[1] - Resolution(g, l)[1]) <= pos,
           NEW n, n[1] \in i * 2^l .. i * 2^l + 2^l - 1
    PROVE  NearLon(g, n, lon, parts, (5 * 2^l) \div 2)
<1> DEFINE w == g.shape[1]
           s == Shape(g, l)[1]
           r == Resolution(g, l)[1]
           S == Span(g.box)[1]
           k == 2^l
           pos == lon - parts * (g.box.minLon + turn)
<1>1. /\ w \in Nat \ {0} /\ s \in Nat \ {0} /\ r \in Nat \ {0} /\ k \in Nat \ {0}
      /\ s = w \div k /\ S = s * r /\ g.box.minLon \in Int /\ turn \in Int
      /\ 2 * k \in Nat /\ (5 * k) \div 2 \in Nat /\ 2 * k <= (5 * k) \div 2 /\ Circle \in Nat
  BY LevelNumbers
<1>2. S <= Circle /\ (w - 1) * (Circle - S) <= S
  BY GridsAssumption
<1>3. pos \in Int
  BY <1>1
<1>4. /\ pos <= parts * Circle
      /\ parts * S <= pos \/ (i = 0 /\ 2 <= s /\ parts * (S - r) <= pos)
      /\ n[1] \in i * k .. i * k + k - 1 /\ i \in {0, s - 1}
  OBVIOUS
<1>5. n[1] \in Int
  <2>1. i * k \in Int
    BY <1>1
  <2> QED
    BY <1>4, <2>1
<1> HIDE DEF w, s, r, S, k, pos
<1>6. PICK m \in Int : m = n[1] /\ m \in i * k .. i * k + k - 1
  BY <1>4, <1>5
<1>7. CASE i = 0
  <2>1. m \in 0 .. k - 1
    BY <1>1, <1>6, <1>7
  <2>2. parts * (s * r) <= pos \/ (2 <= s /\ parts * (s * r - r) <= pos)
    BY <1>1, <1>4
  <2>3. s * r <= Circle /\ (w - 1) * (Circle - s * r) <= s * r
    BY <1>1, <1>2
  <2>4. parts * (m * (s * r)) - (w - 1) * (pos - parts * Circle)
            \in -(parts * (((5 * k) \div 2) * (s * r))) .. parts * (((5 * k) \div 2) * (s * r))
    BY <1>1, <1>3, <1>4, <2>1, <2>2, <2>3, RoundSideNear
  <2>5. pos - parts * Circle = lon - parts * (g.box.minLon + (turn + Circle))
    <3>1. PICK p \in Int : p = parts * Circle
      BY <1>1
    <3>2. parts * (g.box.minLon + (turn + Circle)) = parts * (g.box.minLon + turn) + p
      BY <1>1, <3>1
    <3>3. parts * (g.box.minLon + turn) \in Int
      BY <1>1
    <3> QED
      BY <3>1, <3>2, <3>3 DEF pos
  <2>6. turn + Circle \in {-Circle, 0, Circle}
    BY <1>1
  <2>7. parts * (n[1] * S) - (w - 1) * (lon - parts * (g.box.minLon + (turn + Circle)))
            \in -(parts * (((5 * k) \div 2) * S)) .. parts * (((5 * k) \div 2) * S)
    BY <1>1, <1>6, <2>4, <2>5
  <2>8. PICK again \in {-Circle, 0, Circle} : again = turn + Circle
    BY <2>6
  <2>9. parts * (n[1] * S) - (w - 1) * (lon - parts * (g.box.minLon + again))
            \in -(parts * (((5 * k) \div 2) * S)) .. parts * (((5 * k) \div 2) * S)
    BY <2>7, <2>8
  <2>10. PICK far \in Nat : far = (5 * k) \div 2 /\ far <= far
    BY <1>1
  <2>11. parts * (n[1] * S) - (w - 1) * (lon - parts * (g.box.minLon + again))
            \in -(parts * (far * S)) .. parts * (far * S)
    BY <2>9, <2>10
  <2>12. NearLon(g, n, lon, parts, far)
    BY <1>5, <2>10, <2>11, LonNearBy DEF w, S
  <2> QED
    BY <2>10, <2>12 DEF k
<1>8. CASE i # 0
  <2>1. i = s - 1 /\ parts * S <= pos
    BY <1>4, <1>8
  <2>2. m \in (s - 1) * k .. (s - 1) * k + k - 1
    BY <1>6, <2>1
  <2>3. s * r <= Circle /\ (w - 1) * (Circle - s * r) <= s * r /\ parts * (s * r) <= pos
    BY <1>1, <1>2, <2>1
  <2>4. parts * (m * (s * r)) - (w - 1) * pos
            \in -(parts * ((2 * k) * (s * r))) .. parts * ((2 * k) * (s * r))
    BY <1>1, <1>3, <1>4, <2>2, <2>3, LastNear
  <2>5. parts * (n[1] * S) - (w - 1) * pos
            \in -(parts * ((2 * k) * S)) .. parts * ((2 * k) * S)
    BY <1>1, <1>6, <2>4
  <2>6. turn \in {-Circle, 0, Circle}
    OBVIOUS
  <2>7. NearLon(g, n, lon, parts, (5 * k) \div 2)
    BY <1>1, <1>5, <2>5, <2>6, LonNearBy DEF w, S, pos
  <2> QED
    BY <2>7 DEF k
<1> QED
  BY <1>7, <1>8

\* Along one axis: the cell that a place is in is among those of a box with the
\* place in it.
LEMMA AxisRead ==
    ASSUME NEW parts \in Nat \ {0}, NEW r \in Nat \ {0}, NEW s \in Nat \ {0},
           NEW lo \in Int, NEW hi \in Int, NEW pos \in Int,
           0 <= pos, pos < parts * (s * r), parts * lo <= pos, pos < parts * hi
    PROVE  LET x == pos \div (parts * r)
           IN  /\ x \in 0 .. s - 1
               /\ From(Larger(lo, 0), r) <= x /\ x < Until(Smaller(hi, s * r), r, s)
<1> DEFINE p == parts * r
           first == Larger(lo, 0)
           end == Smaller(hi, s * r)
<1>1. p \in Nat \ {0} /\ s * r \in Nat
  OBVIOUS
<1>2. PICK x \in Nat : x = pos \div p /\ p * x <= pos /\ \A q \in Int : p * q <= pos => q <= x
  BY <1>1, DivGreatest
<1>3. first \in Nat /\ parts * first <= pos
  BY DEF Larger
<1>4. end \in Int /\ pos < parts * end /\ end <= s * r
  BY <1>1 DEF Smaller
<1>5. r * x \in Int /\ parts * (r * x) = p * x
  OBVIOUS
<1> HIDE DEF p, first, end
<1>6. From(first, r) <= x
  <2>1. PICK q \in Nat : q = first \div r /\ r * q <= first
    BY <1>3, DivGreatest
  <2>2. parts * (r * q) <= parts * first
    <3>1. r * q \in Int /\ first \in Int
      BY <1>3, <2>1
    <3> QED
      BY <2>1, <3>1, TimesMonotone
  <2>3. p * q = parts * (r * q) /\ p * q \in Int /\ parts * first \in Int
    <3>1. (parts * r) * q = parts * (r * q) /\ (parts * r) * q \in Int
      BY <2>1
    <3>2. parts * first \in Int
      BY <1>3
    <3> QED
      BY <3>1, <3>2 DEF p
  <2>4. q <= x
    BY <1>2, <1>3, <2>1, <2>2, <2>3
  <2> QED
    BY <1>2, <2>1, <2>4 DEF From, Larger
<1>7. r * x < end
  <2>1. parts * (r * x) < parts * end
    <3>1. p * x \in Int /\ parts * end \in Int
      BY <1>1, <1>2, <1>4
    <3> QED
      BY <1>2, <1>4, <1>5, <3>1
  <2> QED
    BY <1>4, <1>5, <2>1, TimesLess
<1>8. x < s
  <2>1. r * x < r * s
    <3>1. r * s = s * r
      OBVIOUS
    <3> QED
      BY <1>1, <1>4, <1>5, <1>7, <3>1
  <2> QED
    BY <1>2, <2>1, TimesLess
<1>9. x < Until(end, r, s)
  <2>1. (r * x) \div r = x
    <3>1. (r * x + 0) \div r = x
      <4>1. x \in Int /\ 0 \in 0 .. r - 1
        BY <1>2
      <4> QED
        BY <4>1, Quotient
    <3>2. r * x + 0 = r * x
      BY <1>5
    <3> QED
      BY <3>1, <3>2
  <2>2. CeilDiv(end, r) \in Int /\ x <= CeilDiv(end, r) - 1
    BY <1>4, <1>5, <1>7, <2>1, CeilDivAbove
  <2> HIDE DEF CeilDiv
  <2> QED
    BY <1>2, <1>8, <2>2 DEF Until, Larger, Smaller
<1> QED
  BY <1>2, <1>6, <1>8, <1>9 DEF p, first, end

\* A place more than a cell before the end of a box is in the last cell, or after
\* it, only if the cells end with the grid.
LEMMA AxisEnd ==
    ASSUME NEW parts \in Nat \ {0}, NEW r \in Nat \ {0}, NEW s \in Nat \ {0},
           NEW hi \in Int, NEW pos \in Int, pos < parts * (hi - r),
           NEW x \in Int, (parts * r) * x <= pos, Until(Smaller(hi, s * r), r, s) - 1 <= x
    PROVE  Until(Smaller(hi, s * r), r, s) = s
<1> DEFINE end == Smaller(hi, s * r)
           to == Until(end, r, s)
<1> SUFFICES ASSUME to # s
             PROVE  FALSE
  OBVIOUS
<1>1. end \in Int /\ (end = hi \/ end = s * r)
  BY DEF Smaller
<1> HIDE DEF end
<1>2. PICK n \in Int : n = CeilDiv(end, r) /\ end <= r * n
  BY <1>1, CeilDivLeast
<1>3. to \in Int /\ n <= to /\ to < s
  BY <1>2 DEF Until, Larger, Smaller
<1> HIDE DEF to
<1>4. end <= r * to /\ r * to < r * s
  <2>1. r * n <= r * to
    BY <1>3, TimesMonotone
  <2>2. r * (to + 1) <= r * s
    BY <1>3, TimesMonotone
  <2>3. r * (to + 1) = r * to + r /\ r * n \in Int /\ r * to \in Int /\ r * s \in Int
    BY <1>2, <1>3
  <2> QED
    BY <1>1, <1>2, <2>1, <2>2, <2>3
<1>5. hi <= r * to
  <2>1. r * s = s * r /\ r * to \in Int /\ r * s \in Int
    BY <1>3
  <2> QED
    BY <1>1, <1>4, <2>1
<1>6. parts * (hi - r) <= parts * (r * x)
  <2>1. r * (to - 1) <= r * x
    BY <1>3 DEF to, end
  <2>2. hi - r <= r * x /\ hi - r \in Int /\ r * x \in Int
    <3>1. r * (to - 1) = r * to - r /\ r * to \in Int /\ r * x \in Int
      BY <1>3
    <3> QED
      BY <1>5, <2>1, <3>1
  <2> QED
    BY <2>2, TimesMonotone
<1>7. parts * (r * x) = (parts * r) * x /\ parts * (r * x) \in Int /\ parts * (hi - r) \in Int
  OBVIOUS
<1> QED
  BY <1>6, <1>7

\* The cells of the box that is read, counted from the grid's first.
LEMMA EffectiveColumns ==
    ASSUME NEW g \in Grids, NEW l \in Levels(g), NEW b \in BoxType,
           ~g.projected, ~CrossesOn360(b, g.box),
           Uses360(g.box) => Turned(b.maxLon, g.box) >= 0
    PROVE  LET c == Cells(g, l, EffectiveBox(g, l, b))
               r == Resolution(g, l)[1]
               s == Shape(g, l)[1]
               west == Turned(b.minLon, g.box)
               east == Turned(b.maxLon, g.box)
           IN  /\ west \in Int /\ east \in Int
               /\ c.from[1] = From(Larger((west - g.box.minLon) - Buffer * r, 0), r)
               /\ c.to[1] = Until(Smaller((east - g.box.minLon) + Buffer * r, s * r), r, s)
<1> DEFINE e == EffectiveBox(g, l, b)
           r == Resolution(g, l)[1]
           s == Shape(g, l)[1]
           W == g.box.minLon
           E == g.box.maxLon
           west == Turned(b.minLon, g.box)
           east == Turned(b.maxLon, g.box)
<1>1. /\ r \in Nat \ {0} /\ s \in Nat \ {0} /\ Circle \in Nat /\ Buffer \in Nat
      /\ W \in Int /\ E \in Int /\ E - W = s * r /\ e \in BoxType
  <2>1. /\ r \in Nat \ {0} /\ s \in Nat \ {0} /\ Span(g.box)[1] = s * r
        /\ W \in Int /\ E = W + Span(g.box)[1]
    BY LevelNumbers
  <2> QED
    BY <2>1, PlacesAssumption, EffectiveIsBox
<1>2. /\ west \in Int /\ east \in Int
      /\ Uses360(g.box) => east >= 0 /\ W >= 0 /\ E >= 0
  <2>1. b.minLon \in Int /\ b.maxLon \in Int
    BY DEF BoxType
  <2>2. west \in Int /\ east \in Int
    BY <1>1, <2>1 DEF Turned
  <2>3. Uses360(g.box) => W >= 0 /\ E >= 0
    BY <1>1 DEF Uses360
  <2> QED
    BY <2>2, <2>3
<1>3. e.minLon = Larger(west - Buffer * r, W) /\ e.maxLon = Smaller(east + Buffer * r, E)
  BY <1>1, EffectiveAlong
<1>4. /\ Cells(g, l, e).from[1] = From(Turned(e.minLon, g.box) - W, r)
      /\ Cells(g, l, e).to[1] = Until(Turned(e.maxLon, g.box) - W, r, s)
  BY <1>1, CellsAlong
<1> HIDE DEF e, r, s, W, E, west, east
<1>5. PICK d \in Nat : d = Buffer * r
  BY <1>1
<1>6. Turned(e.minLon, g.box) = e.minLon /\ Turned(e.maxLon, g.box) = e.maxLon
  <2>1. Uses360(g.box) => e.minLon >= 0 /\ e.maxLon >= 0
    BY <1>1, <1>2, <1>3, <1>5 DEF Larger, Smaller
  <2>2. e.minLon \in Int /\ e.maxLon \in Int
    BY <1>1 DEF BoxType
  <2> QED
    BY <2>1, <2>2 DEF Turned
<1>7. /\ Larger(west - d, W) - W = Larger((west - W) - d, 0)
      /\ Smaller(east + d, E) - W = Smaller((east - W) + d, E - W)
  <2>1. west \in Int /\ east \in Int /\ W \in Int /\ E \in Int /\ d \in Int
    BY <1>1, <1>2
  <2> QED
    BY <2>1 DEF Larger, Smaller
<1>8. /\ Cells(g, l, e).from[1] = From(Larger((west - W) - Buffer * r, 0), r)
      /\ Cells(g, l, e).to[1] = Until(Smaller((east - W) + Buffer * r, s * r), r, s)
  BY <1>1, <1>3, <1>4, <1>5, <1>6, <1>7
<1> QED
  BY <1>2, <1>8 DEF e, r, s, W, west, east

LEMMA EffectiveRows ==
    ASSUME NEW g \in Grids, NEW l \in Levels(g), NEW b \in BoxType,
           ~g.projected, ~CrossesOn360(b, g.box)
    PROVE  LET c == Cells(g, l, EffectiveBox(g, l, b))
               r == Resolution(g, l)[2]
               s == Shape(g, l)[2]
           IN  /\ c.from[2] = From(Larger((g.box.maxLat - b.maxLat) - Buffer * r, 0), r)
               /\ c.to[2] = Until(Smaller((g.box.maxLat - b.minLat) + Buffer * r, s * r), r, s)
<1> DEFINE e == EffectiveBox(g, l, b)
           r == Resolution(g, l)[2]
           s == Shape(g, l)[2]
           S == g.box.minLat
           N == g.box.maxLat
<1>1. /\ r \in Nat \ {0} /\ s \in Nat \ {0} /\ Buffer \in Nat /\ g.origin = "north"
      /\ S \in Int /\ N \in Int /\ N - S = s * r /\ e \in BoxType
      /\ b.minLat \in Int /\ b.maxLat \in Int
  <2>1. /\ r \in Nat \ {0} /\ s \in Nat \ {0} /\ Span(g.box)[2] = s * r
        /\ S \in Int /\ N \in Int /\ S = N - Span(g.box)[2]
    BY LevelNumbers
  <2>2. b.minLat \in Int /\ b.maxLat \in Int
    BY DEF BoxType
  <2>3. g.origin = "north"
    BY GridsAssumption
  <2>4. N - S = s * r
    BY <2>1
  <2> QED
    BY <2>1, <2>2, <2>3, <2>4, PlacesAssumption, EffectiveIsBox
<1>2. e.minLat = Larger(b.minLat - Buffer * r, S) /\ e.maxLat = Smaller(b.maxLat + Buffer * r, N)
  BY <1>1, EffectiveAlong
<1>3. /\ Cells(g, l, e).from[2] = From(N - e.maxLat, r)
      /\ Cells(g, l, e).to[2] = Until(N - e.minLat, r, s)
  BY <1>1, CellsAlong
<1> HIDE DEF e, r, s, S, N
<1>4. PICK d \in Nat : d = Buffer * r
  BY <1>1
<1>5. /\ N - Smaller(b.maxLat + d, N) = Larger((N - b.maxLat) - d, 0)
      /\ N - Larger(b.minLat - d, S) = Smaller((N - b.minLat) + d, N - S)
  <2>1. b.maxLat \in Int /\ b.minLat \in Int /\ N \in Int /\ S \in Int /\ d \in Int
    BY <1>1
  <2> QED
    BY <2>1 DEF Larger, Smaller
<1>6. /\ Cells(g, l, e).from[2] = From(Larger((N - b.maxLat) - Buffer * r, 0), r)
      /\ Cells(g, l, e).to[2] = Until(Smaller((N - b.minLat) + Buffer * r, s * r), r, s)
  BY <1>1, <1>2, <1>3, <1>4, <1>5
<1> QED
  BY <1>6 DEF e, r, s, N

\* The column and the row that a place of the box is in are read.
LEMMA ColumnsRead ==
    ASSUME NEW g \in Grids, NEW l \in Levels(g), NEW b \in BoxType,
           ~g.projected, ~CrossesOn360(b, g.box),
           NEW parts \in Nat \ {0}, NEW lon \in Int,
           parts * Turned(b.minLon, g.box) <= lon, lon < parts * Turned(b.maxLon, g.box),
           parts * g.box.minLon <= lon
    PROVE  LET c == Cells(g, l, EffectiveBox(g, l, b))
               x == (lon - parts * g.box.minLon) \div (parts * Resolution(g, l)[1])
           IN  /\ lon < parts * g.box.maxLon => c.from[1] <= x /\ x < c.to[1]
               /\ c.to[1] - 1 <= x => c.to[1] = Shape(g, l)[1]
<1> DEFINE c == Cells(g, l, EffectiveBox(g, l, b))
           r == Resolution(g, l)[1]
           s == Shape(g, l)[1]
           W == g.box.minLon
           west == Turned(b.minLon, g.box)
           east == Turned(b.maxLon, g.box)
           pos == lon - parts * W
           x == pos \div (parts * r)
<1>1. /\ r \in Nat \ {0} /\ s \in Nat \ {0} /\ Buffer \in Nat \ {0}
      /\ W \in Int /\ g.box.maxLon = W + s * r
      /\ west \in Int /\ east \in Int
  <2>1. /\ r \in Nat \ {0} /\ s \in Nat \ {0} /\ Span(g.box)[1] = s * r /\ Circle \in Nat
        /\ W \in Int /\ g.box.maxLon = W + Span(g.box)[1]
    BY LevelNumbers
  <2>2. b.minLon \in Int /\ b.maxLon \in Int
    BY DEF BoxType
  <2>3. west \in Int /\ east \in Int
    BY <2>1, <2>2 DEF Turned
  <2> QED
    BY <2>1, <2>3, PlacesAssumption
<1>2. /\ parts * west <= lon /\ lon < parts * east /\ parts * W <= lon
  OBVIOUS
<1>3. Uses360(g.box) => east >= 0
  <2>1. SUFFICES ASSUME Uses360(g.box)
                 PROVE  east >= 0
    OBVIOUS
  <2>2. W >= 0
    BY <2>1, <1>1 DEF Uses360
  <2> HIDE DEF W, east
  <2>3. parts * 0 <= parts * W /\ parts * 0 = 0 /\ parts * W \in Int /\ parts * east \in Int
    BY <1>1, <2>2, TimesMonotone
  <2>4. parts * 0 < parts * east
    BY <1>2, <2>3
  <2> QED
    BY <1>1, <2>4, TimesLess
<1>4. /\ c.from[1] = From(Larger((west - W) - Buffer * r, 0), r)
      /\ c.to[1] = Until(Smaller((east - W) + Buffer * r, s * r), r, s)
  BY <1>3, EffectiveColumns
<1> HIDE DEF c, r, s, W, west, east
<1>5. PICK lo \in Int, hi \in Int, d \in Nat :
          /\ d = Buffer * r /\ lo = (west - W) - d /\ hi = (east - W) + d /\ r <= d
  <2>1. r * 1 <= r * Buffer
    BY <1>1, TimesMonotone
  <2>2. r * Buffer = Buffer * r /\ Buffer * r \in Nat
    BY <1>1
  <2> QED
    BY <1>1, <2>1, <2>2
<1>6. /\ pos \in Int /\ 0 <= pos /\ parts * lo <= pos /\ pos < parts * (hi - r) /\ pos < parts * hi
  <2>1. PICK pw \in Int, pa \in Int, pe \in Int, pd \in Nat, pr \in Nat :
            /\ pw = parts * W /\ pa = parts * west /\ pe = parts * east
            /\ pd = parts * d /\ pr = parts * r /\ pr <= pd
    <3>1. parts * r <= parts * d
      BY <1>1, <1>5, TimesMonotone
    <3>2. /\ parts * W \in Int /\ parts * west \in Int /\ parts * east \in Int
          /\ parts * d \in Nat /\ parts * r \in Nat
      BY <1>1
    <3> QED
      BY <3>1, <3>2
  <2>2. /\ parts * ((west - W) - d) = pa - pw - pd
        /\ parts * (((east - W) + d) - r) = ((pe - pw) + pd) - pr
        /\ parts * ((east - W) + d) = pe - pw + pd
    <3>1. /\ parts * ((west - W) - d) = parts * west - parts * W - parts * d
          /\ parts * (((east - W) + d) - r) = ((parts * east - parts * W) + parts * d) - parts * r
          /\ parts * ((east - W) + d) = parts * east - parts * W + parts * d
      BY <1>1
    <3> QED
      BY <2>1, <3>1
  <2>3. /\ parts * lo = pa - pw - pd
        /\ parts * (hi - r) = ((pe - pw) + pd) - pr
        /\ parts * hi = pe - pw + pd
    BY <1>5, <2>2
  <2>4. pos = lon - pw /\ pa <= lon /\ lon < pe /\ pw <= lon
    BY <1>2, <2>1
  <2> HIDE DEF pos
  <2> QED
    BY <2>1, <2>3, <2>4
<1>7. PICK n \in Int : n = x /\ (parts * r) * n <= pos
  <2>1. parts * r \in Nat \ {0}
    BY <1>1
  <2> HIDE DEF pos
  <2>2. x \in Int /\ (parts * r) * x <= pos
    BY <1>6, <2>1, DivGreatest, DivMod
  <2> QED
    BY <2>2
<1>8. ASSUME lon < parts * g.box.maxLon
      PROVE  c.from[1] <= x /\ x < c.to[1]
  <2>1. pos < parts * (s * r)
    <3>1. parts * (W + s * r) = parts * W + parts * (s * r)
      BY <1>1
    <3>2. parts * W \in Int /\ parts * (s * r) \in Int
      BY <1>1
    <3> QED
      BY <1>1, <1>8, <3>1, <3>2
  <2> HIDE DEF pos
  <2>2. /\ From(Larger(lo, 0), r) <= x /\ x < Until(Smaller(hi, s * r), r, s)
    BY <1>1, <1>5, <1>6, <2>1, AxisRead
  <2> QED
    BY <1>4, <1>5, <2>2
<1>9. ASSUME c.to[1] - 1 <= x
      PROVE  c.to[1] = s
  <2> HIDE DEF pos
  <2>1. c.to[1] = Until(Smaller(hi, s * r), r, s)
    BY <1>4, <1>5
  <2>2. Until(Smaller(hi, s * r), r, s) - 1 <= n
    BY <1>7, <1>9, <2>1
  <2> QED
    BY <1>1, <1>5, <1>6, <1>7, <2>1, <2>2, AxisEnd
<1> QED
  BY <1>8, <1>9 DEF c, r, s, W, pos

LEMMA RowsRead ==
    ASSUME NEW g \in Grids, NEW l \in Levels(g), NEW b \in BoxType,
           ~g.projected, ~CrossesOn360(b, g.box),
           NEW parts \in Nat \ {0}, NEW lat \in Int,
           parts * b.minLat < lat, lat <= parts * b.maxLat,
           parts * g.box.minLat < lat, lat <= parts * g.box.maxLat
    PROVE  LET c == Cells(g, l, EffectiveBox(g, l, b))
               y == (parts * g.box.maxLat - lat) \div (parts * Resolution(g, l)[2])
           IN  c.from[2] <= y /\ y < c.to[2]
<1> DEFINE c == Cells(g, l, EffectiveBox(g, l, b))
           r == Resolution(g, l)[2]
           s == Shape(g, l)[2]
           N == g.box.maxLat
           pos == parts * N - lat
           y == pos \div (parts * r)
<1>1. /\ r \in Nat \ {0} /\ s \in Nat \ {0} /\ Buffer \in Nat
      /\ N \in Int /\ g.box.minLat = N - s * r
      /\ b.minLat \in Int /\ b.maxLat \in Int
  <2>1. /\ r \in Nat \ {0} /\ s \in Nat \ {0} /\ Span(g.box)[2] = s * r
        /\ N \in Int /\ g.box.minLat = N - Span(g.box)[2]
    BY LevelNumbers
  <2>2. b.minLat \in Int /\ b.maxLat \in Int
    BY DEF BoxType
  <2> QED
    BY <2>1, <2>2, PlacesAssumption
<1>2. /\ c.from[2] = From(Larger((N - b.maxLat) - Buffer * r, 0), r)
      /\ c.to[2] = Until(Smaller((N - b.minLat) + Buffer * r, s * r), r, s)
  BY EffectiveRows
<1> HIDE DEF c, r, s, N
<1>3. PICK lo \in Int, hi \in Int, d \in Nat :
          d = Buffer * r /\ lo = (N - b.maxLat) - d /\ hi = (N - b.minLat) + d
  <2>1. PICK d \in Nat : d = Buffer * r
    BY <1>1
  <2>2. (N - b.maxLat) - d \in Int /\ (N - b.minLat) + d \in Int
    BY <1>1, <2>1
  <2> QED
    BY <2>1, <2>2
<1>4. /\ pos \in Int /\ 0 <= pos /\ pos < parts * (s * r) /\ parts * lo <= pos /\ pos < parts * hi
  <2>1. PICK pn \in Int, pa \in Int, pe \in Int, pd \in Nat, ps \in Nat :
            /\ pn = parts * N /\ pa = parts * b.maxLat /\ pe = parts * b.minLat
            /\ pd = parts * d /\ ps = parts * (s * r)
    <3>1. /\ parts * N \in Int /\ parts * b.maxLat \in Int /\ parts * b.minLat \in Int
          /\ parts * d \in Nat /\ parts * (s * r) \in Nat
      BY <1>1
    <3> QED
      BY <3>1
  <2>2. /\ parts * lo = pn - pa - pd
        /\ parts * hi = pn - pe + pd
        /\ parts * g.box.minLat = pn - ps
    <3>3. s * r \in Nat
      BY <1>1
    <3>1. PICK A \in Int, B \in Int, q \in Nat : A = b.maxLat /\ B = b.minLat /\ q = s * r
      BY <1>1, <3>3
    <3>2. /\ parts * ((N - A) - d) = parts * N - parts * A - parts * d
          /\ parts * ((N - B) + d) = parts * N - parts * B + parts * d
          /\ parts * (N - q) = parts * N - parts * q
      BY <1>1
    <3> QED
      BY <1>1, <1>3, <2>1, <3>1, <3>2
  <2>3. pos = pn - lat /\ pe < lat /\ lat <= pa /\ pn - ps < lat /\ lat <= pn
    <3>1. parts * b.minLat < lat /\ lat <= parts * b.maxLat /\ parts * g.box.minLat < lat
      OBVIOUS
    <3>2. lat <= parts * N
      BY DEF N
    <3> QED
      BY <2>1, <2>2, <3>1, <3>2
  <2> HIDE DEF pos
  <2> QED
    BY <2>1, <2>2, <2>3
<1> HIDE DEF pos
<1>5. From(Larger(lo, 0), r) <= y /\ y < Until(Smaller(hi, s * r), r, s)
  BY <1>1, <1>3, <1>4, AxisRead
<1> QED
  BY <1>2, <1>3, <1>5 DEF c, r, N, pos

-----------------------------------------------------------------------------
(* Pixels in rows and columns of the grid *)

\* Where a region has the value of one of its cells.
LEMMA RegionCell ==
    ASSUME NEW g \in Grids, NEW l \in Levels(g), NEW b \in BoxType,
           NEW reg, RegionOf(g, l, b, reg),
           NEW i \in 0 .. reg.width - 1, NEW j \in 0 .. reg.height - 1
    PROVE  LET c == Cells(g, l, EffectiveBox(g, l, b))
           IN  reg.data[j * reg.width + i] = Stored(g, l, c.from[1] + i, c.from[2] + j)
<1> DEFINE c == Cells(g, l, EffectiveBox(g, l, b))
           o == reg.width * j + i
<1>1. /\ reg.width \in Nat \ {0} /\ reg.height \in Nat \ {0}
      /\ DOMAIN reg.data = 0 .. reg.width * reg.height - 1
      /\ \A u \in DOMAIN reg.data :
             reg.data[u] = Stored(g, l, c.from[1] + (u % reg.width),
                                        c.from[2] + (u \div reg.width))
  BY Zenon DEF RegionOf
<1>2. j * reg.width + i = o
  BY <1>1
<1>3. o \in 0 .. reg.width * reg.height - 1
  BY <1>1, InTableBack
<1>4. o \div reg.width = j /\ o % reg.width = i
  <2>1. j \in Int
    BY <1>1
  <2> QED
    BY <1>1, <2>1, Quotient
<1> HIDE DEF c, o
<1>5. reg.data[o] = Stored(g, l, c.from[1] + i, c.from[2] + j)
  BY <1>1, <1>3, <1>4, Zenon
<1> QED
  BY <1>2, <1>5 DEF c

\* The column and the row of the level that a place is in.
ColumnAt(g, l, lon, parts) ==
    (lon - parts * g.box.minLon) \div (parts * Resolution(g, l)[1])
RowAt(g, l, lat, parts) ==
    (parts * g.box.maxLat - lat) \div (parts * Resolution(g, l)[2])

\* A pixel in the grid's own rows and columns: d is the box of the data and c
\* its cells.
GoesRound(g, d) == Uses360(g.box) /\ Span(d)[1] > GlobalWidth
InGapOf(g, d, lon, parts) ==
    GoesRound(g, d) /\ lon > parts * d.maxLon /\ lon < parts * Circle
OutLon(g, l, d, c, lon, parts) ==
    /\ ~InGapOf(g, d, lon, parts)
    /\ \/ lon < parts * d.minLon
       \/ lon > parts * d.maxLon
       \/ ColumnAt(g, l, lon, parts) >= c.to[1]
OutLat(g, l, d, c, lat, parts) ==
    \/ lat < parts * d.minLat
    \/ lat > parts * d.maxLat
    \/ RowAt(g, l, lat, parts) >= c.to[2]
PixelColumns(g, l, d, c, lon, parts) ==
    LET x == ColumnAt(g, l, lon, parts)
    IN  IF InGapOf(g, d, lon, parts) THEN {c.to[1] - 1, c.from[1]}
        ELSE IF GoesRound(g, d) /\ x + 1 >= c.to[1] THEN {x, c.from[1]}
        ELSE {x, Smaller(x + 1, c.to[1] - 1)}
PixelRows(g, l, c, lat, parts) ==
    LET y == RowAt(g, l, lat, parts)
    IN  {y, Smaller(y + 1, c.to[2] - 1)}

\* The values of a level in some columns and rows.
Blocks(g, l, columns, rows) == {Stored(g, l, i, j) : i \in columns, j \in rows}

\* The place of a pixel in a region is the one in the grid less the region's
\* first column or row.
LEMMA PlaceInRegion ==
    ASSUME NEW parts \in Nat \ {0}, NEW r \in Nat \ {0}, NEW pos \in Int,
           NEW from \in Nat, NEW width \in Nat \ {0}
    PROVE  ((pos - parts * (from * r)) * width) \div (parts * (width * r))
               = pos \div (parts * r) - from
<1>1. PICK q \in Nat \ {0} : q = parts * r
  BY TimesMonotone
<1>2. PICK a \in Int, k \in Int :
          a = pos - parts * (from * r) /\ k = -from /\ a = pos + q * k
  <2>1. PICK pfr \in Int : pfr = parts * (from * r)
    <3>1. parts * (from * r) \in Int
      OBVIOUS
    <3> QED
      BY <3>1
  <2>2. q * (-from) = -pfr
    <3>1. (parts * r) * (-from) = -(parts * (from * r))
      OBVIOUS
    <3> QED
      BY <1>1, <2>1, <3>1
  <2>3. pos - pfr \in Int /\ -from \in Int /\ pos - pfr = pos + q * (-from)
    BY <2>1, <2>2
  <2> QED
    BY <2>1, <2>3
<1>3. (a * width) \div (parts * (width * r)) = a \div (parts * r)
  BY CancelDiv
<1>4. a \div q = pos \div q + k /\ pos \div q \in Int
  <2>1. (pos + q * k) \div q = pos \div q + k
    BY DivShift
  <2>2. pos \div q \in Int
    BY DivMod
  <2> QED
    BY <1>2, <2>1, <2>2
<1> QED
  BY <1>1, <1>2, <1>3, <1>4
\* A pixel is made of cells of the grid.
LEMMA PixelIs ==
    ASSUME NEW g \in Grids, NEW l \in Levels(g), NEW q \in BoxType, ~g.projected,
           NEW reg, RegionOf(g, l, q, reg), NEW b \in BoxType,
           NEW size \in (Nat \ {0}) \X (Nat \ {0}), NEW x \in Int, NEW y \in Int
    PROVE  LET c == Cells(g, l, EffectiveBox(g, l, q))
               p1 == 2 * size[1]
               p2 == 2 * size[2]
               lon == PixelLon(g, reg.box, p1 * b.minLon + (2 * x + 1) * Span(b)[1], p1)
               lat == p2 * b.maxLat - (2 * y + 1) * Span(b)[2]
               blocks == Blocks(g, l, PixelColumns(g, l, reg.box, c, lon, p1),
                                      PixelRows(g, l, c, lat, p2))
           IN  Pixel(g, reg, b, size, x, y) =
                   IF \/ OutLon(g, l, reg.box, c, lon, p1)
                      \/ OutLat(g, l, reg.box, c, lat, p2)
                      \/ {} \in blocks
                   THEN {} ELSE UNION blocks
<1> DEFINE d == reg.box
           c == Cells(g, l, EffectiveBox(g, l, q))
           r1 == Resolution(g, l)[1]
           r2 == Resolution(g, l)[2]
           p1 == 2 * size[1]
           p2 == 2 * size[2]
           mid == p1 * b.minLon + (2 * x + 1) * Span(b)[1]
           lon == PixelLon(g, d, mid, p1)
           lat == p2 * b.maxLat - (2 * y + 1) * Span(b)[2]
           global == GoesRound(g, d)
           inGap == InGapOf(g, d, lon, p1)
           w == reg.width
           h == reg.height
           x1 == IF inGap THEN w - 1
                 ELSE ((lon - p1 * d.minLon) * w) \div (p1 * Span(d)[1])
           y1 == ((p2 * d.maxLat - lat) * h) \div (p2 * Span(d)[2])
           x2 == IF global /\ x1 + 1 >= w THEN 0 ELSE Smaller(x1 + 1, w - 1)
           y2 == Smaller(y1 + 1, h - 1)
           corners == Corners(reg, {x1, x2}, {y1, y2})
           X == ColumnAt(g, l, lon, p1)
           Y == RowAt(g, l, lat, p2)
           columns == PixelColumns(g, l, d, c, lon, p1)
           rows == PixelRows(g, l, c, lat, p2)
           blocks == Blocks(g, l, columns, rows)
<1>1. Pixel(g, reg, b, size, x, y) =
          IF \/ ~inGap /\ (lon < p1 * d.minLon \/ lon > p1 * d.maxLon)
             \/ lat < p2 * d.minLat \/ lat > p2 * d.maxLat
             \/ x1 >= w \/ y1 >= h
             \/ {} \in corners
          THEN {} ELSE UNION corners
  <2> DEFINE parts == [i \in 1 .. 2 |-> 2 * size[i]]
  <2>1. parts[1] = p1 /\ parts[2] = p2
    OBVIOUS
  <2> HIDE DEF parts
  <2>2. Pixel(g, reg, b, size, x, y) =
          LET lonP == PixelLon(g, d, parts[1] * b.minLon + (2 * x + 1) * Span(b)[1], parts[1])
              latP == parts[2] * b.maxLat - (2 * y + 1) * Span(b)[2]
              gap == global /\ lonP > parts[1] * d.maxLon /\ lonP < parts[1] * Circle
              xa == IF gap THEN w - 1
                    ELSE ((lonP - parts[1] * d.minLon) * w) \div (parts[1] * Span(d)[1])
              ya == ((parts[2] * d.maxLat - latP) * h) \div (parts[2] * Span(d)[2])
              xb == IF global /\ xa + 1 >= w THEN 0 ELSE Smaller(xa + 1, w - 1)
              yb == Smaller(ya + 1, h - 1)
              cs == Corners(reg, {xa, xb}, {ya, yb})
          IN  IF \/ ~gap /\ (lonP < parts[1] * d.minLon \/ lonP > parts[1] * d.maxLon)
                 \/ latP < parts[2] * d.minLat \/ latP > parts[2] * d.maxLat
                 \/ xa >= w \/ ya >= h
                 \/ {} \in cs
              THEN {} ELSE UNION cs
    BY ZenonT(100) DEF Pixel, GoesRound, parts
  <2> QED
    BY <2>1, <2>2, ZenonT(60) DEF InGapOf
<1>2. /\ r1 \in Nat \ {0} /\ r2 \in Nat \ {0} /\ p1 \in Nat \ {0} /\ p2 \in Nat \ {0}
      /\ w \in Nat \ {0} /\ h \in Nat \ {0}
      /\ lon \in Int /\ lat \in Int
      /\ g.box.minLon \in Int /\ g.box.maxLat \in Int
  <2>1. /\ r1 \in Nat \ {0} /\ r2 \in Nat \ {0}
        /\ g.box.minLon \in Int /\ g.box.maxLat \in Int /\ Circle \in Nat
    BY LevelNumbers
  <2>2. w \in Nat \ {0} /\ h \in Nat \ {0}
    BY Zenon DEF RegionOf
  <2>3. p1 \in Nat \ {0} /\ p2 \in Nat \ {0}
    OBVIOUS
  <2>4. PICK sx \in Int, sy \in Int, bl \in Int, bt \in Int :
            Span(b)[1] = sx /\ Span(b)[2] = sy /\ b.minLon = bl /\ b.maxLat = bt
    BY DEF BoxType, Span
  <2>5. mid \in Int /\ lat \in Int
    <3> HIDE DEF p1, p2
    <3>1. p1 * bl + (2 * x + 1) * sx \in Int /\ p2 * bt - (2 * y + 1) * sy \in Int
      BY <2>3
    <3> QED
      BY <2>4, <3>1
  <2> HIDE DEF mid, p1
  <2>6. lon \in {mid, mid - p1 * Circle, mid + p1 * Circle}
    BY Zenon DEF PixelLon
  <2>7. p1 * Circle \in Int
    BY <2>1, <2>3
  <2> HIDE DEF lon
  <2>8. lon \in Int
    BY <2>5, <2>6, <2>7
  <2> QED
    BY <2>1, <2>2, <2>3, <2>5, <2>8
<1>3. PICK f \in Nat, t \in Nat, f2 \in Nat, t2 \in Nat :
          /\ f = c.from[1] /\ t = c.to[1] /\ f2 = c.from[2] /\ t2 = c.to[2]
          /\ w = t - f /\ h = t2 - f2
          /\ d.minLon = g.box.minLon + f * r1 /\ d.maxLon = g.box.minLon + t * r1
          /\ d.maxLat = g.box.maxLat - f2 * r2 /\ d.minLat = g.box.maxLat - t2 * r2
  <2>1. /\ c.from[1] \in Nat /\ c.from[2] \in Nat /\ c.to[1] \in Nat /\ c.to[2] \in Nat
    BY EffectiveIsBox, CellsInGrid, GridNumbers
  <2>2. g.origin = "north"
    BY GridsAssumption
  <2>3. /\ w = c.to[1] - c.from[1] /\ h = c.to[2] - c.from[2]
        /\ d.minLon = g.box.minLon + c.from[1] * r1 /\ d.maxLon = g.box.minLon + c.to[1] * r1
        /\ d.maxLat = g.box.maxLat - c.from[2] * r2 /\ d.minLat = g.box.maxLat - c.to[2] * r2
    BY <2>2, Zenon DEF RegionOf
  <2> HIDE DEF c, r1, r2, w, h, d
  <2> QED
    BY <2>1, <2>3
<1> HIDE DEF p1, p2, mid, lon, lat, c, r1, r2, w, h
<1>4. ((lon - p1 * d.minLon) * w) \div (p1 * Span(d)[1]) = X - f /\ X \in Int
      /\ (lon >= p1 * d.minLon => X >= f)
  <2>1. PICK pos \in Int : pos = lon - p1 * g.box.minLon
    BY <1>2
  <2>2. lon - p1 * d.minLon = pos - p1 * (f * r1) /\ pos - p1 * (f * r1) \in Int
    <3>1. PICK W \in Int : W = g.box.minLon
      BY <1>2
    <3>2. p1 * (W + f * r1) = p1 * W + p1 * (f * r1)
          /\ p1 * W \in Int /\ p1 * (f * r1) \in Int
      BY <1>2
    <3>3. lon - p1 * (W + f * r1) = (lon - p1 * W) - p1 * (f * r1)
      BY <1>2, <3>2
    <3> QED
      BY <1>2, <1>3, <2>1, <3>1, <3>2, <3>3
  <2>3. Span(d)[1] = w * r1
    <3>1. PICK W \in Int : W = g.box.minLon
      BY <1>2
    <3>2. (W + t * r1) - (W + f * r1) = (t - f) * r1
      BY <1>2
    <3> QED
      BY <1>3, <3>1, <3>2 DEF Span
  <2>4. ((pos - p1 * (f * r1)) * w) \div (p1 * (w * r1)) = pos \div (p1 * r1) - f
    BY <1>2, PlaceInRegion
  <2>5. X = pos \div (p1 * r1) /\ X \in Int
    <3>1. p1 * r1 \in Nat \ {0}
      BY <1>2
    <3> QED
      BY <2>1, <3>1, DivMod DEF ColumnAt, r1
  <2>6. ((lon - p1 * d.minLon) * w) \div (p1 * Span(d)[1]) = X - f
    BY <2>2, <2>3, <2>4, <2>5
  <2>7. ASSUME lon >= p1 * d.minLon
        PROVE  X >= f
    <3>1. PICK a \in Nat : a = (pos - p1 * (f * r1)) * w
      <4>1. PICK u \in Nat : u = pos - p1 * (f * r1)
        <5>1. PICK z \in Int : z = p1 * d.minLon
          <6>1. lon - (pos - p1 * (f * r1)) \in Int
            BY <1>2, <2>2
          <6>2. p1 * d.minLon \in Int
            <7>1. d.minLon \in Int
              <8>1. g.box.minLon + f * r1 \in Int
                BY <1>2
              <8> QED
                BY <1>3, <8>1
            <7> QED
              BY <1>2, <7>1
          <6> QED
            BY <6>2
        <5> QED
          BY <1>2, <2>2, <2>7, <5>1
      <4> QED
        BY <1>2, <4>1
    <3>2. PICK e \in Nat \ {0} : e = p1 * (w * r1)
      BY <1>2
    <3>3. a \div e \in Nat
      BY DivGreatest
    <3> QED
      BY <2>4, <2>5, <3>1, <3>2, <3>3
  <2> QED
    BY <2>5, <2>6, <2>7
<1>5. y1 = Y - f2 /\ Y \in Int /\ (lat <= p2 * d.maxLat => Y >= f2)
  <2>1. PICK pos \in Int : pos = p2 * g.box.maxLat - lat
    BY <1>2
  <2>2. p2 * d.maxLat - lat = pos - p2 * (f2 * r2) /\ pos - p2 * (f2 * r2) \in Int
        /\ p2 * d.maxLat \in Int
    <3>1. PICK N \in Int : N = g.box.maxLat
      BY <1>2
    <3>2. p2 * (N - f2 * r2) = p2 * N - p2 * (f2 * r2)
          /\ p2 * N \in Int /\ p2 * (f2 * r2) \in Int
      BY <1>2
    <3>3. p2 * (N - f2 * r2) - lat = (p2 * N - lat) - p2 * (f2 * r2)
      BY <1>2, <3>2
    <3> QED
      BY <1>2, <1>3, <2>1, <3>1, <3>2, <3>3
  <2>3. Span(d)[2] = h * r2
    <3>1. PICK N \in Int : N = g.box.maxLat
      BY <1>2
    <3>2. (N - f2 * r2) - (N - t2 * r2) = (t2 - f2) * r2
      BY <1>2
    <3> QED
      BY <1>3, <3>1, <3>2 DEF Span
  <2>4. ((pos - p2 * (f2 * r2)) * h) \div (p2 * (h * r2)) = pos \div (p2 * r2) - f2
    BY <1>2, PlaceInRegion
  <2>5. Y = pos \div (p2 * r2) /\ Y \in Int
    <3>1. p2 * r2 \in Nat \ {0}
      BY <1>2
    <3> QED
      BY <2>1, <3>1, DivMod DEF RowAt, r2
  <2>6. y1 = Y - f2
    BY <2>2, <2>3, <2>4, <2>5
  <2>7. ASSUME lat <= p2 * d.maxLat
        PROVE  Y >= f2
    <3>1. PICK a \in Nat : a = (pos - p2 * (f2 * r2)) * h
      <4>1. PICK u \in Nat : u = pos - p2 * (f2 * r2)
        BY <1>2, <2>2, <2>7
      <4> QED
        BY <1>2, <4>1
    <3>2. PICK e \in Nat \ {0} : e = p2 * (h * r2)
      BY <1>2
    <3>3. a \div e \in Nat
      BY DivGreatest
    <3> QED
      BY <2>4, <2>5, <3>1, <3>2, <3>3
  <2> QED
    BY <2>5, <2>6, <2>7
<1>6. x1 = IF inGap THEN w - 1 ELSE X - f
  BY <1>4
<1>7. PICK u1 \in Int, v1 \in Int : u1 = x1 /\ v1 = y1
  BY <1>2, <1>3, <1>4, <1>5, <1>6
<1>8. /\ (x1 >= w <=> ~inGap /\ X >= t) /\ (y1 >= h <=> Y >= t2)
  BY <1>2, <1>3, <1>4, <1>5, <1>6
<1> HIDE DEF x1, y1
<1>9. ASSUME ~OutLon(g, l, d, c, lon, p1), ~OutLat(g, l, d, c, lat, p2)
      PROVE  corners = blocks
  <2>1. x1 \in 0 .. w - 1
    <3>1. ~inGap => lon >= p1 * d.minLon /\ X < t
      <4>1. p1 * d.minLon \in Int
        <5>1. d.minLon \in Int
          <6>1. g.box.minLon + f * r1 \in Int
            BY <1>2
          <6> QED
            BY <1>3, <6>1
        <5> QED
          BY <1>2, <5>1
      <4> QED
        BY <1>2, <1>3, <1>4, <1>9, <4>1 DEF OutLon
    <3>2. CASE inGap
      <4>1. x1 = w - 1
        BY <1>6, <3>2, Zenon
      <4> QED
        BY <1>2, <4>1
    <3>3. CASE ~inGap
      <4>1. X >= f /\ X < t
        BY <1>4, <3>1, <3>3, Zenon
      <4>2. x1 = X - f
        BY <1>6, <3>3, Zenon
      <4> HIDE DEF X
      <4> QED
        BY <1>3, <1>4, <4>1, <4>2
    <3> QED
      BY <3>2, <3>3
  <2>2. y1 \in 0 .. h - 1
    <3>1. p2 * d.maxLat \in Int
      <4>1. d.maxLat \in Int
        <5>1. g.box.maxLat - f2 * r2 \in Int
          BY <1>2
        <5> QED
          BY <1>3, <5>1
      <4> QED
        BY <1>2, <4>1
    <3> QED
      BY <1>2, <1>3, <1>5, <1>9, <3>1 DEF OutLat, y1
  <2>3. x2 \in 0 .. w - 1 /\ y2 \in 0 .. h - 1
    BY <1>2, <2>1, <2>2 DEF Smaller
  <2>4. columns = {f + x1, f + x2}
    <3>1. CASE inGap
      <4>1. columns = {t - 1, f}
        BY <1>3, <3>1 DEF PixelColumns
      <4>2. global
        BY <3>1 DEF InGapOf
      <4>3. x1 = w - 1 /\ x2 = 0
        BY <1>2, <1>6, <3>1, <4>2
      <4>4. f + x1 = t - 1 /\ f + x2 = f
        BY <1>3, <4>3
      <4> QED
        BY <4>1, <4>4
    <3>2. CASE ~inGap
      <4>1. x1 = X - f
        BY <1>6, <3>2
      <4>2. x1 + 1 >= w <=> X + 1 >= t
        BY <1>3, <1>4, <4>1
      <4>3. columns = IF global /\ X + 1 >= t THEN {X, f} ELSE {X, Smaller(X + 1, t - 1)}
        BY <1>3, <3>2, Zenon DEF PixelColumns
      <4>4. CASE global /\ X + 1 >= t
        <5>1. x2 = 0
          BY <4>2, <4>4
        <5>2. f + x1 = X /\ f + x2 = f
          BY <1>3, <1>4, <4>1, <5>1
        <5> QED
          BY <4>3, <4>4, <5>2
      <4>5. CASE ~(global /\ X + 1 >= t)
        <5>1. x2 = Smaller(x1 + 1, w - 1)
          BY <4>2, <4>5
        <5>2. f + x1 = X /\ f + x2 = Smaller(X + 1, t - 1)
          BY <1>2, <1>3, <1>4, <4>1, <5>1 DEF Smaller
        <5> HIDE DEF x2
        <5> QED
          BY <4>3, <4>5, <5>2
      <4> QED
        BY <4>4, <4>5
    <3> QED
      BY <3>1, <3>2
  <2>5. rows = {f2 + y1, f2 + y2}
    <3>1. f2 + y1 = Y /\ f2 + y2 = Smaller(Y + 1, t2 - 1)
      BY <1>2, <1>3, <1>5 DEF Smaller, y1
    <3> HIDE DEF y2
    <3> QED
      BY <1>3, <3>1 DEF PixelRows
  <2>6. \A i \in {x1, x2}, j \in {y1, y2} : reg.data[j * w + i] = Stored(g, l, f + i, f2 + j)
    <3>1. \A i \in 0 .. w - 1, j \in 0 .. h - 1 :
              reg.data[j * w + i] = Stored(g, l, f + i, f2 + j)
      BY <1>3, RegionCell DEF c, w, h
    <3> HIDE DEF x2, y2
    <3> QED
      BY <2>1, <2>2, <2>3, <3>1
  <2> HIDE DEF x2, y2, columns, rows
  <2>7. corners = {Stored(g, l, f + i, f2 + j) : i \in {x1, x2}, j \in {y1, y2}}
    BY <2>6, <1>3 DEF Corners, w
  <2>8. blocks = {Stored(g, l, f + i, f2 + j) : i \in {x1, x2}, j \in {y1, y2}}
    <3>1. blocks = {Stored(g, l, i, j) : i \in columns, j \in rows}
      BY DEF Blocks
    <3> HIDE DEF Stored, blocks
    <3> QED
      BY <2>4, <2>5, <3>1
  <2> HIDE DEF corners, blocks
  <2> QED
    BY <2>7, <2>8
<1>10. ASSUME OutLon(g, l, d, c, lon, p1) \/ OutLat(g, l, d, c, lat, p2)
       PROVE  \/ ~inGap /\ (lon < p1 * d.minLon \/ lon > p1 * d.maxLon)
              \/ lat < p2 * d.minLat \/ lat > p2 * d.maxLat
              \/ x1 >= w \/ y1 >= h
  <2> HIDE DEF X, Y
  <2>1. X = ColumnAt(g, l, lon, p1) /\ Y = RowAt(g, l, lat, p2)
    BY DEF X, Y
  <2> QED
    BY <1>3, <1>8, <1>10, <2>1, Zenon DEF OutLon, OutLat
<1>11. ASSUME ~OutLon(g, l, d, c, lon, p1), ~OutLat(g, l, d, c, lat, p2)
       PROVE  ~(\/ ~inGap /\ (lon < p1 * d.minLon \/ lon > p1 * d.maxLon)
                \/ lat < p2 * d.minLat \/ lat > p2 * d.maxLat
                \/ x1 >= w \/ y1 >= h)
  <2> HIDE DEF X, Y
  <2>1. X = ColumnAt(g, l, lon, p1) /\ Y = RowAt(g, l, lat, p2)
    BY DEF X, Y
  <2> QED
    BY <1>3, <1>8, <1>11, <2>1, Zenon DEF OutLon, OutLat
<1> HIDE DEF corners, blocks, inGap, X, Y
<1>12. Pixel(g, reg, b, size, x, y) =
           IF \/ OutLon(g, l, d, c, lon, p1) \/ OutLat(g, l, d, c, lat, p2) \/ {} \in blocks
           THEN {} ELSE UNION blocks
  <2>1. CASE OutLon(g, l, d, c, lon, p1) \/ OutLat(g, l, d, c, lat, p2)
    BY <1>1, <1>10, <2>1, Zenon
  <2>2. CASE ~OutLon(g, l, d, c, lon, p1) /\ ~OutLat(g, l, d, c, lat, p2)
    BY <1>1, <1>9, <1>11, <2>2, Zenon
  <2> QED
    BY <2>1, <2>2, Zenon
<1> QED
  BY <1>12 DEF blocks, columns, rows, p1, p2, mid, lon, lat, c

\* A place is in the cell of its quotient.
LEMMA InCell ==
    ASSUME NEW p \in Nat \ {0}, NEW pos \in Int
    PROVE  /\ pos \div p \in Int
           /\ p * (pos \div p) <= pos /\ pos < p * (pos \div p + 1)
           /\ pos >= 0 => pos \div p \in Nat
           /\ \A x \in Int : p * x <= pos => x <= pos \div p
           /\ \A x \in Int : pos < p * x => pos \div p < x
<1>1. PICK q \in Int, m \in 0 .. p - 1 : q = pos \div p /\ pos = p * q + m
  BY DivMod
<1>2. p * q \in Int /\ p * (q + 1) = p * q + p
  BY <1>1
<1>3. p * q <= pos /\ pos < p * (q + 1)
  BY <1>1, <1>2
<1>4. ASSUME NEW x \in Int, pos < p * x
      PROVE  q < x
  <2>1. p * q < p * x
    BY <1>2, <1>3, <1>4
  <2> QED
    BY <1>1, <2>1, TimesLess
<1>5. /\ pos >= 0 => pos \div p \in Nat
      /\ \A x \in Int : p * x <= pos => x <= pos \div p
  BY DivGreatest
<1> QED
  BY <1>1, <1>3, <1>4, <1>5

\* The turn that the longitude of a pixel takes.
LEMMA PixelLonIs ==
    ASSUME NEW g \in Grids, NEW d, d.minLon \in Int, NEW lon \in Int, NEW parts \in Nat \ {0}
    PROVE  \E turn \in {-Circle, 0, Circle} :
               /\ PixelLon(g, d, lon, parts) = lon - parts * turn
               /\ 2 * d.minLon >= -Circle => turn \in {-Circle, 0}
<1> DEFINE circle == parts * Circle
           west == 2 * d.minLon < -Circle
           less == lon > 0 /\ 2 * lon < circle /\ lon - circle >= parts * d.minLon
           more == /\ 2 * d.minLon >= -Circle /\ Uses360(g.box)
                   /\ lon < 0 \/ (lon < parts * (Circle - GlobalWidth) /\ 2 * d.minLon > Circle)
<1>1. Circle \in Nat /\ circle \in Int /\ parts * (-Circle) = -circle /\ parts * 0 = 0
  BY PlacesAssumption
<1>2. PixelLon(g, d, lon, parts) =
          CASE west -> IF less THEN lon - circle ELSE lon
            [] more -> lon + circle
            [] OTHER -> lon
  BY Zenon DEF PixelLon
<1>3. west <=> ~(2 * d.minLon >= -Circle)
  BY <1>1
<1> HIDE DEF circle, west, less, more
<1>4. \/ PixelLon(g, d, lon, parts) = lon - circle /\ west
      \/ PixelLon(g, d, lon, parts) = lon
      \/ PixelLon(g, d, lon, parts) = lon + circle
  BY <1>2
<1>5. CASE PixelLon(g, d, lon, parts) = lon - circle /\ west
  <2>1. Circle \in {-Circle, 0, Circle} /\ PixelLon(g, d, lon, parts) = lon - parts * Circle
    BY <1>5 DEF circle
  <2> QED
    BY <1>3, <1>5, <2>1
<1>6. CASE PixelLon(g, d, lon, parts) = lon
  <2>1. 0 \in {-Circle, 0, Circle} /\ PixelLon(g, d, lon, parts) = lon - parts * 0
    BY <1>1, <1>6
  <2> QED
    BY <2>1
<1>7. CASE PixelLon(g, d, lon, parts) = lon + circle
  <2>1. lon + circle = lon - parts * (-Circle)
    BY <1>1
  <2>2. -Circle \in {-Circle, 0, Circle} /\ PixelLon(g, d, lon, parts) = lon - parts * (-Circle)
    BY <1>7, <2>1
  <2>3. PICK turn \in Int : turn = -Circle
    BY <1>1
  <2> QED
    BY <2>2, <2>3
<1> QED
  BY <1>4, <1>5, <1>6, <1>7

\* A pixel's rows are near it.
LEMMA RowNear ==
    ASSUME NEW g \in Grids, NEW l \in Levels(g), NEW parts \in Nat \ {0}, NEW lat \in Int,
           NEW d, NEW c, c.from[2] \in Nat, c.to[2] \in 0 .. Shape(g, l)[2],
           d.maxLat = g.box.maxLat - c.from[2] * Resolution(g, l)[2],
           ~OutLat(g, l, d, c, lat, parts),
           NEW j \in PixelRows(g, l, c, lat, parts),
           NEW n, n[2] \in j * 2^l .. j * 2^l + 2^l - 1
    PROVE  NearLat(g, n, lat, parts, (5 * 2^l) \div 2)
<1> DEFINE r == Resolution(g, l)[2]
           s == Shape(g, l)[2]
           N == g.box.maxLat
           pos == parts * N - lat
           Y == pos \div (parts * r)
<1>1. r \in Nat \ {0} /\ s \in Nat \ {0} /\ N \in Int
  BY LevelNumbers
<1>2. PICK f \in Nat, t \in 0 .. s : f = c.from[2] /\ t = c.to[2] /\ d.maxLat = N - f * r
  OBVIOUS
<1>3. Y = RowAt(g, l, lat, parts)
  BY DEF RowAt
<1>4. j \in {Y, Smaller(Y + 1, t - 1)}
  BY <1>2, <1>3 DEF PixelRows
<1> HIDE DEF r, s, N
<1>5. pos \in Int /\ parts * r \in Nat \ {0}
  BY <1>1
<1>6. pos >= 0
  <2>1. PICK top \in Int : top = parts * d.maxLat /\ top <= parts * N
    <3>1. N - f * r \in Int /\ N - f * r <= N
      BY <1>1
    <3>2. parts * (N - f * r) <= parts * N /\ parts * (N - f * r) \in Int
      BY <1>1, <3>1, TimesMonotone
    <3> QED
      BY <1>2, <3>2
  <2>2. ~(lat > top)
    BY <2>1, Zenon DEF OutLat
  <2>3. parts * N \in Int
    BY <1>1
  <2> QED
    BY <2>1, <2>2, <2>3
<1> HIDE DEF pos
<1>7. Y \in Nat /\ (parts * r) * Y <= pos /\ pos < (parts * r) * (Y + 1)
  BY <1>5, <1>6, InCell
<1> HIDE DEF Y
<1>8. Y < t
  <2>1. ~(Y >= t)
    BY <1>2, <1>3, Zenon DEF OutLat
  <2> QED
    BY <1>7, <2>1
<1>9. j \in {Y, Y + 1} /\ j < s
  BY <1>1, <1>4, <1>7, <1>8 DEF Smaller
<1>10. (parts * r) * (Y + 1) \in Int /\ pos <= (parts * r) * (Y + 1)
  <2>1. (parts * r) * (Y + 1) \in Int
    BY <1>5, <1>7
  <2> QED
    BY <1>5, <1>7, <2>1
<1> QED
  BY <1>7, <1>9, <1>10, CellNearLat DEF r, s, N, pos

\* Nor does a region have more columns than the grid: one that goes round is of
\* a grid that does.
LEMMA RoundGrid ==
    ASSUME NEW g \in Grids, NEW l \in Levels(g), NEW d,
           NEW f \in Nat, NEW t \in 0 .. Shape(g, l)[1], GoesRound(g, d),
           d.minLon = g.box.minLon + f * Resolution(g, l)[1],
           d.maxLon = g.box.minLon + t * Resolution(g, l)[1]
    PROVE  /\ Span(g.box)[1] > GlobalWidth /\ Span(d)[1] = (t - f) * Resolution(g, l)[1]
           /\ g.box.minLon >= 0 /\ g.box.maxLon <= Circle
           /\ d.minLon >= g.box.minLon /\ d.maxLon <= g.box.maxLon
           /\ d.minLon \in Int /\ d.maxLon \in Int /\ Span(d)[1] > GlobalWidth
<1> DEFINE r == Resolution(g, l)[1]
           s == Shape(g, l)[1]
           W == g.box.minLon
<1>1. /\ r \in Nat \ {0} /\ s \in Nat \ {0} /\ W \in Int /\ g.box.maxLon \in Int
      /\ g.box.maxLon = W + Span(g.box)[1] /\ Span(g.box)[1] = s * r
      /\ GlobalWidth \in Int /\ Circle \in Int
  BY LevelNumbers, PlacesAssumption
<1>2. W >= 0 /\ g.box.maxLon <= Circle /\ Span(d)[1] > GlobalWidth
  BY GridsAssumption DEF GoesRound, Uses360
<1>3. d.minLon = W + f * r /\ d.maxLon = W + t * r /\ t \in Nat /\ t <= s
  BY <1>1
<1> HIDE DEF r, s, W
<1>4. PICK fr \in Nat, tr \in Nat, sr \in Nat :
          /\ fr = f * r /\ tr = t * r /\ sr = s * r /\ tr <= sr /\ (t - f) * r = tr - fr
  <2>1. r * t <= r * s
    BY <1>1, <1>3, TimesMonotone
  <2>2. /\ r * t = t * r /\ r * s = s * r /\ (t - f) * r = t * r - f * r
        /\ f * r \in Nat /\ t * r \in Nat /\ s * r \in Nat
    BY <1>1, <1>3
  <2> QED
    BY <2>1, <2>2
<1>5. Span(d)[1] = tr - fr
  <2>1. d.maxLon - d.minLon = tr - fr
    BY <1>1, <1>3, <1>4
  <2> QED
    BY <2>1 DEF Span
<1>6. Span(g.box)[1] > GlobalWidth
  BY <1>1, <1>2, <1>4, <1>5
<1>7. /\ W + fr >= W /\ W + tr <= g.box.maxLon /\ W + fr \in Int /\ W + tr \in Int
  BY <1>1, <1>4
<1> QED
  BY <1>2, <1>3, <1>4, <1>5, <1>6, <1>7 DEF r, W

\* A pixel's columns are near it, but for the first of a region that is taken for
\* one that goes round.
LEMMA ColumnNear ==
    ASSUME NEW g \in Grids, NEW l \in Levels(g), NEW parts \in Nat \ {0},
           NEW mid \in Int, NEW lon \in Int, NEW d, NEW c,
           \E turn \in {-Circle, 0, Circle} : /\ lon = mid - parts * turn
                                              /\ GoesRound(g, d) => turn \in {-Circle, 0},
           c.from[1] \in Nat, c.to[1] \in 0 .. Shape(g, l)[1], c.from[1] < c.to[1],
           d.minLon = g.box.minLon + c.from[1] * Resolution(g, l)[1],
           d.maxLon = g.box.minLon + c.to[1] * Resolution(g, l)[1],
           ~OutLon(g, l, d, c, lon, parts),
           GoesRound(g, d)
               /\ (InGapOf(g, d, lon, parts) \/ ColumnAt(g, l, lon, parts) + 1 >= c.to[1])
               => c.to[1] = Shape(g, l)[1],
           NEW i \in PixelColumns(g, l, d, c, lon, parts),
           NEW n, n[1] \in i * 2^l .. i * 2^l + 2^l - 1
    PROVE  \/ NearLon(g, n, mid, parts, (5 * 2^l) \div 2)
           \/ /\ GoesRound(g, d) /\ c.from[1] > 0
              /\ lon >= parts * (g.box.maxLon - Resolution(g, l)[1])
<1> PICK f \in Nat, t \in 0 .. Shape(g, l)[1] : f = c.from[1] /\ t = c.to[1]
  OBVIOUS
<1> PICK turn \in {-Circle, 0, Circle} : /\ lon = mid - parts * turn
                                         /\ GoesRound(g, d) => turn \in {-Circle, 0}
  BY Zenon
<1>0. /\ f < t /\ d.minLon = g.box.minLon + f * Resolution(g, l)[1]
      /\ d.maxLon = g.box.minLon + t * Resolution(g, l)[1]
  BY Zenon
<1> DEFINE r == Resolution(g, l)[1]
           s == Shape(g, l)[1]
           W == g.box.minLon
           E == g.box.maxLon
           pos == lon - parts * W
           X == pos \div (parts * r)
           gap == InGapOf(g, d, lon, parts)
           round == GoesRound(g, d)
<1>1. /\ r \in Nat \ {0} /\ s \in Nat \ {0} /\ W \in Int /\ E \in Int /\ Circle \in Nat
      /\ E = W + s * r /\ Span(g.box)[1] = s * r /\ turn \in Int
  BY LevelNumbers
<1>2. pos = mid - parts * (W + turn) /\ pos \in Int /\ parts * W \in Int
  <2>1. parts * (W + turn) = parts * W + parts * turn /\ parts * W \in Int /\ parts * turn \in Int
    BY <1>1
  <2> QED
    BY <2>1
<1>3. parts * r \in Nat \ {0}
  <2>1. \A u, v \in Nat \ {0} : u * v \in Nat \ {0}
    OBVIOUS
  <2> HIDE DEF r
  <2> QED
    BY <1>1, <2>1
<1>4. X = ColumnAt(g, l, lon, parts)
  BY DEF ColumnAt
<1>5. /\ X \in Int /\ (parts * r) * X <= pos /\ pos < (parts * r) * (X + 1)
      /\ pos >= 0 => X \in Nat
  <2> HIDE DEF pos, r
  <2> QED
    BY <1>2, <1>3, InCell
<1>6. /\ i = t - 1 \/ i = f \/ i = X \/ i = X + 1
      /\ gap => i \in {t - 1, f}
      /\ ~gap /\ round /\ X + 1 >= t => i \in {X, f}
      /\ ~gap /\ ~(round /\ X + 1 >= t) => i \in {X, Smaller(X + 1, t - 1)}
  <2>1. i \in IF gap THEN {t - 1, f}
              ELSE IF round /\ X + 1 >= t THEN {X, f} ELSE {X, Smaller(X + 1, t - 1)}
    BY <1>4, Zenon DEF PixelColumns
  <2> HIDE DEF gap, round, X
  <2> QED
    BY <2>1 DEF Smaller
<1>7. round => /\ Span(g.box)[1] > GlobalWidth /\ W >= 0 /\ E <= Circle
  BY RoundGrid
<1>8. /\ ~gap => /\ parts * d.minLon <= lon /\ lon <= parts * d.maxLon /\ X < t
      /\ gap => round /\ lon > parts * d.maxLon /\ lon < parts * Circle
  <2>1. /\ parts * d.minLon \in Int /\ parts * d.maxLon \in Int
    <3>1. W + f * r \in Int /\ W + t * r \in Int
      BY <1>1
    <3> QED
      BY <3>1
  <2>2. ~gap => /\ ~(lon < parts * d.minLon) /\ ~(lon > parts * d.maxLon) /\ ~(X >= t)
    BY <1>4, Zenon DEF OutLon
  <2>3. gap => round /\ lon > parts * d.maxLon /\ lon < parts * Circle
    BY Zenon DEF InGapOf
  <2> HIDE DEF gap, round, X
  <2> QED
    BY <1>1, <1>5, <2>1, <2>2, <2>3
<1>9. d.minLon = W + f * r /\ d.maxLon = W + t * r
  OBVIOUS
<1>10. round /\ (gap \/ X + 1 >= t) => t = s
  BY <1>4, Zenon
<1> HIDE DEF r, s, W, E, pos, X, gap, round
<1>11. PICK pf \in Nat, pt \in Nat, pr \in Nat, ps \in Nat, pw \in Int, pe \in Int :
           /\ pf = parts * (f * r) /\ pt = parts * (t * r) /\ pr = parts * r
           /\ ps = parts * (s * r) /\ pw = parts * W /\ pe = parts * E
           /\ parts * d.minLon = pw + pf /\ parts * d.maxLon = pw + pt /\ pe = pw + ps
           /\ parts * (E - r) = pe - pr /\ parts * (s * r - r) = ps - pr
           /\ pos = lon - pw
  <2>1. /\ parts * (f * r) \in Nat /\ parts * (t * r) \in Nat /\ parts * r \in Nat
        /\ parts * (s * r) \in Nat /\ parts * W \in Int /\ parts * E \in Int
    BY <1>1
  <2>2. /\ parts * (W + f * r) = parts * W + parts * (f * r)
        /\ parts * (W + t * r) = parts * W + parts * (t * r)
        /\ parts * (W + s * r) = parts * W + parts * (s * r)
        /\ parts * (E - r) = parts * E - parts * r
        /\ parts * (s * r - r) = parts * (s * r) - parts * r
    BY <1>1
  <2> QED
    BY <1>1, <1>9, <2>1, <2>2 DEF pos
<1>12. CASE ~gap /\ i \in {X, X + 1} /\ i < s
  <2>1. X \in Nat
    BY <1>5, <1>8, <1>11, <1>12
  <2>2. (parts * r) * X <= mid - parts * (W + turn) /\ mid - parts * (W + turn) <= (parts * r) * (X + 1)
    <3>1. (parts * r) * (X + 1) \in Int
      BY <1>3, <1>5
    <3> QED
      BY <1>2, <1>5, <3>1
  <2>3. i \in {X, X + 1} /\ i < s
    BY <1>12
  <2> QED
    BY <2>1, <2>2, <2>3, CellNearLon DEF r, s, W
<1>13. CASE ~gap /\ ~(i \in {X, X + 1} /\ i < s)
  <2>1. X < t /\ X \in Int
    BY <1>5, <1>8, <1>13
  <2>2. round /\ X + 1 >= t
    <3>1. SUFFICES ASSUME ~(round /\ X + 1 >= t)
                   PROVE  FALSE
      OBVIOUS
    <3>2. i \in {X, Smaller(X + 1, t - 1)}
      BY <1>6, <1>13, <3>1
    <3>3. t <= s /\ t \in Int /\ s \in Int
      BY <1>1 DEF s
    <3> QED
      BY <1>13, <2>1, <3>2, <3>3 DEF Smaller
  <2>3. t = s /\ X = s - 1 /\ i = f
    <3>1. t = s /\ i \in {X, f}
      BY <1>6, <1>10, <1>13, <2>2
    <3>2. X = s - 1
      BY <1>1, <2>1, <2>2, <3>1
    <3> QED
      BY <1>1, <1>13, <3>1, <3>2
  <2>4. ps - pr <= pos
    <3>1. (parts * r) * (s - 1) = parts * (s * r) - parts * r
      BY <1>1
    <3> QED
      BY <1>5, <1>11, <2>3, <3>1
  <2>5. CASE f > 0
    <3>1. lon >= parts * (E - r)
      BY <1>11, <2>4
    <3> QED
      BY <2>2, <2>3, <2>5, <3>1 DEF round, r, E
  <2>6. CASE f = 0
    <3>1. s >= 2
      BY <1>1, <1>13, <2>3, <2>6
    <3>2. pos <= parts * Circle
      <4>1. parts * E <= parts * Circle /\ parts * Circle \in Int
        <5>1. E \in Int /\ Circle \in Int /\ E <= Circle
          BY <1>1, <1>7, <2>2
        <5>2. parts * Circle \in Int
          BY <5>1
        <5> QED
          BY <5>1, <5>2, TimesMonotone
      <4>2. pw >= 0
        <5>1. parts * 0 <= parts * W /\ parts * 0 = 0
          BY <1>1, <1>7, <2>2, TimesMonotone
        <5> QED
          BY <1>11, <5>1
      <4>3. lon <= pe
        BY <1>8, <1>11, <1>13, <2>3
      <4> QED
        BY <1>11, <4>1, <4>2, <4>3
    <3>3. parts * (Span(g.box)[1] - r) <= mid - parts * (W + turn)
          /\ mid - parts * (W + turn) <= parts * Circle
      BY <1>1, <1>2, <1>11, <2>4, <3>2
    <3>4. i = 0 /\ i \in {0, s - 1} /\ turn \in {-Circle, 0} /\ Span(g.box)[1] > GlobalWidth
      BY <1>7, <2>2, <2>3, <2>6 DEF round
    <3> QED
      BY <3>1, <3>3, <3>4, GapNearLon DEF r, s, W
  <2> QED
    BY <2>5, <2>6
<1>14. CASE gap
  <2>1. t = s /\ round /\ i \in {t - 1, f} /\ lon > parts * d.maxLon /\ lon < parts * Circle
    BY <1>6, <1>8, <1>10, <1>14
  <2>2. lon > pe
    BY <1>11, <2>1
  <2>3. CASE f > 0
    <3>1. lon >= parts * (E - r)
      BY <1>11, <2>2
    <3> QED
      BY <2>1, <2>3, <3>1 DEF round, r, E
  <2>4. CASE f = 0
    <3>1. pos <= parts * Circle
      <4>1. pw >= 0
        <5>1. parts * 0 <= parts * W /\ parts * 0 = 0
          BY <1>1, <1>7, <2>1, TimesMonotone
        <5> QED
          BY <1>11, <5>1
      <4>2. parts * Circle \in Int
        BY <1>1
      <4> QED
        BY <1>11, <2>1, <4>1, <4>2
    <3>2. parts * Span(g.box)[1] <= mid - parts * (W + turn)
          /\ mid - parts * (W + turn) <= parts * Circle
      BY <1>1, <1>2, <1>11, <2>2, <3>1
    <3>3. i \in {0, s - 1} /\ turn \in {-Circle, 0} /\ Span(g.box)[1] > GlobalWidth
      BY <1>7, <2>1, <2>4 DEF round
    <3> QED
      BY <3>2, <3>3, GapNearLon DEF r, s, W
  <2> QED
    BY <2>3, <2>4
<1> QED
  BY <1>12, <1>13, <1>14

\* The middle of a pixel is in the box of the image.
LEMMA MiddleInside ==
    ASSUME NEW size \in Nat \ {0}, NEW x \in 0 .. size - 1, NEW lo \in Int, NEW hi \in Int, lo < hi
    PROVE  LET p == 2 * size
               mid == p * lo + (2 * x + 1) * (hi - lo)
           IN  /\ mid \in Int /\ p * lo < mid /\ mid < p * hi
               /\ p * hi - (2 * x + 1) * (hi - lo) \in Int
               /\ p * lo < p * hi - (2 * x + 1) * (hi - lo)
               /\ p * hi - (2 * x + 1) * (hi - lo) < p * hi
<1> DEFINE p == 2 * size
<1>1. PICK span \in Nat \ {0} : span = hi - lo /\ hi = lo + span
  OBVIOUS
<1>2. PICK a \in Nat \ {0}, pl \in Int, ps \in Nat, ph \in Int :
          /\ a = (2 * x + 1) * span /\ pl = p * lo /\ ps = p * span /\ ph = p * hi
          /\ ph = pl + ps
  <2>1. (2 * x + 1) * span \in Nat \ {0} /\ p * lo \in Int /\ p * span \in Nat /\ p * hi \in Int
    <3>1. \A u, v \in Nat \ {0} : u * v \in Nat \ {0}
      OBVIOUS
    <3> QED
      BY <3>1
  <2>2. p * (lo + span) = p * lo + p * span
    OBVIOUS
  <2> QED
    BY <1>1, <2>1, <2>2
<1>3. a < ps
  <2>1. span * (2 * x + 1) < span * p
    <3>1. 2 * x + 1 + 1 <= p
      OBVIOUS
    <3>2. span * (2 * x + 1 + 1) <= span * p
      BY <3>1, TimesMonotone
    <3>3. span * (2 * x + 1 + 1) = span * (2 * x + 1) + span
      OBVIOUS
    <3>4. span * (2 * x + 1) \in Int /\ span * p \in Int
      OBVIOUS
    <3> QED
      BY <3>2, <3>3, <3>4
  <2>2. span * (2 * x + 1) = (2 * x + 1) * span /\ span * p = p * span
    OBVIOUS
  <2> QED
    BY <1>2, <2>1, <2>2
<1> QED
  BY <1>1, <1>2, <1>3

\* A region's pixels are turned as its box is.
LEMMA LonTurned ==
    ASSUME NEW g \in Grids, NEW b \in BoxType, b.minLon < b.maxLon, ~CrossesOn360(b, g.box),
           NEW parts \in Nat \ {0}, NEW mid \in Int,
           parts * b.minLon < mid, mid < parts * b.maxLon,
           NEW d, d.minLon \in Int, 2 * d.minLon >= -Circle,
           2 * d.minLon > Circle => parts * d.minLon <= mid
    PROVE  LET lon == PixelLon(g, d, mid, parts)
           IN  /\ parts * Turned(b.minLon, g.box) <= lon
               /\ lon < parts * Turned(b.maxLon, g.box)
<1> DEFINE circle == parts * Circle
           special == mid < parts * (Circle - GlobalWidth) /\ 2 * d.minLon > Circle
           lon == PixelLon(g, d, mid, parts)
           west == Turned(b.minLon, g.box)
           east == Turned(b.maxLon, g.box)
<1>1. /\ Circle \in Nat /\ GlobalWidth \in Int /\ GlobalWidth >= Circle \div 2
      /\ circle \in Int /\ b.minLon \in Int /\ b.maxLon \in Int
  BY PlacesAssumption DEF BoxType
<1>2. ~(2 * d.minLon < -Circle)
  BY <1>1
<1>3. ~special
  <2>1. SUFFICES ASSUME special
                 PROVE  FALSE
    OBVIOUS
  <2>2. PICK a \in Int, v \in Int : a = d.minLon /\ v = Circle - GlobalWidth
    BY <1>1
  <2>3. parts * a < parts * v
    <3>1. parts * a \in Int /\ parts * v \in Int
      OBVIOUS
    <3> QED
      BY <2>1, <2>2, <3>1
  <2>4. a < v
    BY <2>3, TimesLess
  <2> QED
    BY <1>1, <2>1, <2>2, <2>4
<1>4. lon = IF Uses360(g.box) /\ mid < 0 THEN mid + circle ELSE mid
  <2>1. lon =
          CASE 2 * d.minLon < -Circle ->
                 IF mid > 0 /\ 2 * mid < circle /\ mid - circle >= parts * d.minLon
                 THEN mid - circle ELSE mid
            [] 2 * d.minLon >= -Circle /\ Uses360(g.box) /\ (mid < 0 \/ special) -> mid + circle
            [] OTHER -> mid
    BY Zenon DEF PixelLon
  <2> HIDE DEF circle, special, lon
  <2> QED
    BY <1>2, <1>3, <2>1
<1> HIDE DEF lon, circle
<1>5. CASE ~Uses360(g.box)
  <2>1. west = b.minLon /\ east = b.maxLon /\ lon = mid
    BY <1>4, <1>5 DEF Turned
  <2>2. parts * b.minLon <= mid
    <3>1. parts * b.minLon \in Int
      BY <1>1
    <3> QED
      BY <3>1
  <2> QED
    BY <2>1, <2>2 DEF lon
<1>6. CASE Uses360(g.box)
  <2>1. CASE b.minLon >= 0
    <3>1. west = b.minLon /\ east = b.maxLon
      BY <1>1, <2>1 DEF Turned
    <3>2. parts * 0 <= parts * b.minLon /\ parts * 0 = 0 /\ parts * b.minLon \in Int
      BY <1>1, <2>1, TimesMonotone
    <3>3. mid >= 0 /\ parts * b.minLon <= mid
      BY <3>2
    <3>4. lon = mid
      BY <1>4, <3>3
    <3> QED
      BY <3>1, <3>3, <3>4 DEF lon
  <2>2. CASE b.minLon < 0
    <3>1. b.maxLon < 0
      BY <1>1, <1>6, <2>2 DEF CrossesOn360
    <3>2. west = b.minLon + Circle /\ east = b.maxLon + Circle
      BY <1>6, <2>2, <3>1 DEF Turned
    <3>3. parts * b.maxLon <= parts * 0 /\ parts * 0 = 0
          /\ parts * b.maxLon \in Int /\ parts * b.minLon \in Int
      BY <1>1, <3>1, TimesMonotone
    <3>4. lon = mid + circle
      BY <1>4, <1>6, <3>3
    <3>5. parts * west = parts * b.minLon + circle /\ parts * east = parts * b.maxLon + circle
      <4>1. /\ parts * (b.minLon + Circle) = parts * b.minLon + parts * Circle
            /\ parts * (b.maxLon + Circle) = parts * b.maxLon + parts * Circle
        BY <1>1
      <4> QED
        BY <3>2, <4>1 DEF circle
    <3> QED
      BY <1>1, <3>3, <3>4, <3>5 DEF lon
  <2> QED
    BY <1>1, <2>1, <2>2
<1> QED
  BY <1>5, <1>6

\* Nothing is drawn of an empty region.
LEMMA NothingDrawn ==
    ASSUME NEW g \in Grids, NEW e \in BoxType, NEW res, NEW b \in BoxType,
           NEW size \in (Nat \ {0}) \X (Nat \ {0}), NEW x \in Int, NEW y \in Int,
           LET p == 2 * size[2]
               lat == p * b.maxLat - (2 * y + 1) * Span(b)[2]
           IN  p * e.minLat <= lat /\ lat <= p * e.maxLat => e.minLat < e.maxLat
    PROVE  Pixel(g, Region(<<>>, 0, 0, e, res), b, size, x, y) = {}
<1> DEFINE reg == Region(<<>>, 0, 0, e, res)
           p == 2 * size[2]
           lat == p * b.maxLat - (2 * y + 1) * Span(b)[2]
           y1 == ((p * e.maxLat - lat) * 0) \div (p * Span(e)[2])
<1>1. reg.width = 0 /\ reg.height = 0 /\ reg.box = e
  BY DEF Region
<1>2. lat < p * e.minLat \/ lat > p * e.maxLat \/ y1 >= 0
            => Pixel(g, reg, b, size, x, y) = {}
  <2> DEFINE parts == [i \in 1 .. 2 |-> 2 * size[i]]
             ya == ((parts[2] * e.maxLat - (parts[2] * b.maxLat - (2 * y + 1) * Span(b)[2])) * 0)
                       \div (parts[2] * Span(e)[2])
  <2>1. parts[2] = p
    OBVIOUS
  <2>2. \/ parts[2] * b.maxLat - (2 * y + 1) * Span(b)[2] < parts[2] * e.minLat
        \/ parts[2] * b.maxLat - (2 * y + 1) * Span(b)[2] > parts[2] * e.maxLat
        \/ ya >= 0
        => Pixel(g, reg, b, size, x, y) = {}
    <3> HIDE DEF reg
    <3> QED
      BY <1>1, Zenon DEF Pixel
  <2> HIDE DEF parts
  <2> QED
    BY <2>1, <2>2, Zenon
<1>3. p \in Nat \ {0} /\ lat \in Int /\ p * e.minLat \in Int /\ p * e.maxLat \in Int
  <2>1. PICK sy \in Int, bt \in Int, en \in Int, ex \in Int :
            sy = Span(b)[2] /\ bt = b.maxLat /\ en = e.minLat /\ ex = e.maxLat
    BY DEF Span, BoxType
  <2>2. p \in Nat \ {0}
    OBVIOUS
  <2> HIDE DEF p
  <2>3. p * bt - (2 * y + 1) * sy \in Int /\ p * en \in Int /\ p * ex \in Int
    BY <2>2
  <2> QED
    BY <2>1, <2>2, <2>3
<1>4. CASE lat < p * e.minLat \/ lat > p * e.maxLat
  BY <1>2, <1>4, Zenon
<1>5. CASE ~(lat < p * e.minLat \/ lat > p * e.maxLat)
  <2>1. e.minLat < e.maxLat
    BY <1>3, <1>5
  <2> HIDE DEF p, lat
  <2>2. PICK a \in Int : a = p * e.maxLat - lat
    BY <1>3
  <2>3. PICK q \in Nat \ {0} : q = p * Span(e)[2]
    <3>1. PICK sy \in Nat \ {0} : sy = Span(e)[2]
      BY <2>1 DEF Span, BoxType
    <3>2. p * sy \in Nat \ {0}
      BY <1>3
    <3> QED
      BY <3>1, <3>2
  <2>4. a * 0 = 0 /\ 0 \div q = 0
    <3>1. (q * 0 + 0) \div q = 0 /\ q * 0 + 0 = 0
      BY Quotient
    <3> QED
      BY <3>1
  <2>5. y1 >= 0
    BY <2>2, <2>3, <2>4
  <2> QED
    BY <1>2, <2>5, Zenon DEF p, lat
<1> QED
  BY <1>4, <1>5

-----------------------------------------------------------------------------
(* What a pixel is drawn of *)

\* The box that is read has rows, if a place of the request's box is in it.
LEMMA EffectiveHigh ==
    ASSUME NEW g \in Grids, NEW l \in Levels(g), NEW b \in Boxes, ~g.projected,
           NEW p \in Nat \ {0}, NEW lat \in Int, p * b.minLat < lat, lat < p * b.maxLat,
           LET e == EffectiveBox(g, l, ReadBox(g, b))
           IN  p * e.minLat <= lat /\ lat <= p * e.maxLat
    PROVE  LET e == EffectiveBox(g, l, ReadBox(g, b)) IN e.minLat < e.maxLat
<1> DEFINE q == ReadBox(g, b)
           e == EffectiveBox(g, l, q)
<1>1. /\ IsBox(g.box) /\ IsBox(b) /\ b \in BoxType /\ q \in BoxType /\ e \in BoxType
  BY GridsAssumption, BoxesAssumption, ReadBoxIsBox, EffectiveIsBox DEF IsBox
<1>2. CASE g.full \/ CrossesOn360(b, g.box)
  <2>1. e = g.box
    BY <1>2, EffectiveWhole DEF ReadBox
  <2> HIDE DEF e, q
  <2> QED
    BY <1>1, <2>1 DEF IsBox, e, q
<1>3. CASE ~(g.full \/ CrossesOn360(b, g.box))
  <2>1. q = b
    BY <1>3 DEF ReadBox
  <2>2. /\ e.minLat = Larger(b.minLat - Buffer * Resolution(g, l)[2], g.box.minLat)
        /\ e.maxLat = Smaller(b.maxLat + Buffer * Resolution(g, l)[2], g.box.maxLat)
    BY <1>1, <1>3, <2>1, EffectiveAlong
  <2>3. PICK d \in Nat : d = Buffer * Resolution(g, l)[2]
    <3>1. Resolution(g, l)[2] \in Nat /\ Buffer \in Nat
      BY LevelNumbers, PlacesAssumption
    <3>2. \A u, v \in Nat : u * v \in Nat
      OBVIOUS
    <3> QED
      BY <3>1, <3>2
  <2>4. PICK s1 \in Int, n1 \in Int, s2 \in Int, n2 \in Int :
            s1 = b.minLat /\ n1 = b.maxLat /\ s2 = g.box.minLat /\ n2 = g.box.maxLat
    BY <1>1 DEF BoxType, IsBox
  <2>5. s1 < n1 /\ s2 < n2
    BY <1>1, <2>4 DEF IsBox
  <2>6. PICK lo \in Int, hi \in Int :
            /\ lo = e.minLat /\ hi = e.maxLat
            /\ lo = s1 - d \/ lo = s2
            /\ hi = n1 + d \/ hi = n2
            /\ s1 - d <= lo /\ s2 <= lo /\ hi <= n1 + d /\ hi <= n2
    BY <2>2, <2>3, <2>4 DEF Larger, Smaller
  <2>7. p * lo <= lat /\ lat <= p * hi /\ p * s1 < lat /\ lat < p * n1
    BY <2>4, <2>6
  <2> HIDE DEF q, e
  <2>8. SUFFICES ASSUME hi <= lo
                 PROVE  FALSE
    BY <2>6 DEF q, e
  <2>9. p * s1 < p * hi /\ p * lo < p * n1
    BY <2>7
  <2>10. s1 < hi /\ lo < n1
    BY <2>9, TimesLess
  <2>11. lo = s2 /\ hi = n2
    BY <2>3, <2>5, <2>6, <2>8, <2>10
  <2> QED
    BY <2>5, <2>8, <2>11
<1> QED
  BY <1>2, <1>3

\* The cells that a pixel is drawn from are near it.
LEMMA PixelBlocks ==
    ASSUME NEW g \in Grids, ~g.projected, NEW l \in Levels(g), NEW b \in Boxes,
           NEW reg, RegionOf(g, l, ReadBox(g, b), reg),
           NEW p1 \in Nat \ {0}, NEW p2 \in Nat \ {0}, NEW mid \in Int, NEW lat \in Int,
           p1 * b.minLon < mid, mid < p1 * b.maxLon,
           LET c == Cells(g, l, EffectiveBox(g, l, ReadBox(g, b)))
           IN  /\ ~OutLon(g, l, reg.box, c, PixelLon(g, reg.box, mid, p1), p1)
               /\ ~OutLat(g, l, reg.box, c, lat, p2),
           NEW i \in PixelColumns(g, l, reg.box, Cells(g, l, EffectiveBox(g, l, ReadBox(g, b))),
                                  PixelLon(g, reg.box, mid, p1), p1),
           NEW j \in PixelRows(g, l, Cells(g, l, EffectiveBox(g, l, ReadBox(g, b))), lat, p2),
           NEW n, n[1] \in i * 2^l .. i * 2^l + 2^l - 1, n[2] \in j * 2^l .. j * 2^l + 2^l - 1
    PROVE  LET c == Cells(g, l, EffectiveBox(g, l, ReadBox(g, b)))
               k == (5 * 2^l) \div 2
           IN  /\ NearLon(g, n, mid, p1, k) \/ IsMistaken(g, l, c, mid, p1)
               /\ NearLat(g, n, lat, p2, k)
<1> DEFINE q == ReadBox(g, b)
           e == EffectiveBox(g, l, q)
           c == Cells(g, l, e)
           d == reg.box
           lon == PixelLon(g, d, mid, p1)
           k == (5 * 2^l) \div 2
<1>1. /\ IsBox(b) /\ b \in BoxType /\ q \in BoxType /\ e \in BoxType
      /\ b.minLon \in Int /\ b.maxLon \in Int /\ b.minLon < b.maxLon
  BY BoxesAssumption, ReadBoxIsBox, EffectiveIsBox DEF IsBox, BoxType
<1>2. p1 \in Nat \ {0} /\ p2 \in Nat \ {0}
  OBVIOUS
<1>3. mid \in Int /\ p1 * b.minLon < mid /\ mid < p1 * b.maxLon
  OBVIOUS
<1>4. lat \in Int
  OBVIOUS
<1> HIDE DEF q, e, c
<1>5. RegionOf(g, l, q, reg)
  BY DEF q
<1>6. /\ i \in PixelColumns(g, l, d, c, lon, p1) /\ j \in PixelRows(g, l, c, lat, p2)
      /\ ~OutLon(g, l, d, c, lon, p1) /\ ~OutLat(g, l, d, c, lat, p2)
  BY DEF c, e, q
<1>7. n[1] \in i * 2^l .. i * 2^l + 2^l - 1 /\ n[2] \in j * 2^l .. j * 2^l + 2^l - 1
  OBVIOUS
<1>8. PICK f \in Nat, t \in 0 .. Shape(g, l)[1] :
          /\ f = c.from[1] /\ t = c.to[1] /\ f < t /\ t \in Nat
          /\ d.minLon = g.box.minLon + f * Resolution(g, l)[1]
          /\ d.maxLon = g.box.minLon + t * Resolution(g, l)[1]
          /\ c.from[2] \in Nat /\ c.to[2] \in 0 .. Shape(g, l)[2]
          /\ d.maxLat = g.box.maxLat - c.from[2] * Resolution(g, l)[2]
  <2>1. /\ c.from[1] \in Nat /\ c.to[1] \in 0 .. Shape(g, l)[1]
        /\ c.from[2] \in Nat /\ c.to[2] \in 0 .. Shape(g, l)[2] /\ c.to[1] \in Nat
    BY <1>1, CellsInGrid, LevelNumbers DEF c
  <2>2. g.origin = "north"
    BY GridsAssumption
  <2>3. /\ c.to[1] - c.from[1] \in Nat \ {0}
        /\ d.minLon = g.box.minLon + c.from[1] * Resolution(g, l)[1]
        /\ d.maxLon = g.box.minLon + c.to[1] * Resolution(g, l)[1]
        /\ d.maxLat = g.box.maxLat - c.from[2] * Resolution(g, l)[2]
    BY <1>5, <2>2, Zenon DEF RegionOf, c, e
  <2>4. c.from[1] < c.to[1]
    BY <2>1, <2>3
  <2> HIDE DEF d
  <2> QED
    BY <2>1, <2>3, <2>4
<1>9. /\ Resolution(g, l)[1] \in Nat \ {0} /\ g.box.minLon \in Int /\ g.box.maxLon \in Int
      /\ Circle \in Nat /\ GlobalWidth \in Int /\ Circle \div 2 <= GlobalWidth
  BY LevelNumbers, PlacesAssumption
<1>10. d.minLon \in Int /\ d.maxLon \in Int
  <2>1. \A u \in Nat, v \in Nat, w \in Int : w + u * v \in Int
    OBVIOUS
  <2> HIDE DEF d
  <2> QED
    BY <1>8, <1>9, <2>1
<1>11. PICK turn \in {-Circle, 0, Circle} :
           lon = mid - p1 * turn /\ (2 * d.minLon >= -Circle => turn \in {-Circle, 0})
  BY <1>2, <1>3, <1>10, PixelLonIs
<1>12. turn \in Int /\ lon \in Int
  <2>1. turn \in Int
    BY <1>9
  <2>2. p1 * turn \in Int
    BY <1>2, <2>1
  <2> HIDE DEF lon
  <2> QED
    BY <1>3, <1>11, <2>1, <2>2
<1> HIDE DEF lon, d
<1>13. NearLat(g, n, lat, p2, k)
  BY <1>2, <1>4, <1>6, <1>7, <1>8, RowNear
<1>14. GoesRound(g, d) => /\ 2 * d.minLon >= -Circle /\ turn \in {-Circle, 0}
                          /\ d.minLon >= g.box.minLon /\ d.minLon <= d.maxLon
                          /\ 2 * d.minLon <= Circle
                          /\ Span(d)[1] = (t - f) * Resolution(g, l)[1]
                          /\ Span(d)[1] > GlobalWidth
  <2>1. SUFFICES ASSUME GoesRound(g, d)
                 PROVE  /\ 2 * d.minLon >= -Circle /\ turn \in {-Circle, 0}
                        /\ d.minLon >= g.box.minLon /\ d.minLon <= d.maxLon
                        /\ 2 * d.minLon <= Circle
                        /\ Span(d)[1] = (t - f) * Resolution(g, l)[1]
                        /\ Span(d)[1] > GlobalWidth
    OBVIOUS
  <2>2. /\ Span(d)[1] = (t - f) * Resolution(g, l)[1]
        /\ g.box.minLon >= 0 /\ g.box.maxLon <= Circle
        /\ d.minLon >= g.box.minLon /\ d.maxLon <= g.box.maxLon
        /\ Span(d)[1] > GlobalWidth
    BY <1>8, <2>1, RoundGrid
  <2>3. d.maxLon - d.minLon > GlobalWidth
    BY <2>2 DEF Span
  <2>4. 2 * d.minLon >= -Circle /\ d.minLon <= d.maxLon /\ 2 * d.minLon <= Circle
    BY <1>9, <1>10, <2>2, <2>3
  <2> QED
    BY <1>11, <2>2, <2>4
<1>15. ASSUME GoesRound(g, d),
              InGapOf(g, d, lon, p1) \/ ColumnAt(g, l, lon, p1) + 1 >= t
       PROVE  t = Shape(g, l)[1]
  <2>1. CASE g.full \/ CrossesOn360(b, g.box)
    <3>1. e = g.box
      BY <2>1, EffectiveWhole DEF ReadBox, e, q
    <3> QED
      BY <1>8, <3>1, WholeCells DEF c
  <2>2. CASE ~(g.full \/ CrossesOn360(b, g.box))
    <3>1. q = b
      BY <2>2 DEF ReadBox, q
    <3>2. p1 * Turned(b.minLon, g.box) <= lon /\ lon < p1 * Turned(b.maxLon, g.box)
      <4>1. 2 * d.minLon >= -Circle /\ ~(2 * d.minLon > Circle)
        BY <1>9, <1>10, <1>14, <1>15
      <4> QED
        BY <1>1, <1>2, <1>3, <1>10, <2>2, <4>1, LonTurned DEF lon
    <3>3. p1 * g.box.minLon <= p1 * d.minLon /\ p1 * d.minLon <= p1 * d.maxLon
          /\ p1 * g.box.minLon \in Int /\ p1 * d.minLon \in Int /\ p1 * d.maxLon \in Int
      BY <1>2, <1>9, <1>10, <1>14, <1>15, TimesMonotone
    <3>4. p1 * g.box.minLon <= lon
      <4>1. CASE InGapOf(g, d, lon, p1)
        BY <1>12, <3>3, <4>1 DEF InGapOf
      <4>2. CASE ~InGapOf(g, d, lon, p1)
        <5>1. ~(lon < p1 * d.minLon)
          BY <1>6, <4>2, Zenon DEF OutLon
        <5> QED
          BY <1>12, <3>3, <5>1
      <4> QED
        BY <4>1, <4>2
    <3>5. t - 1 <= ColumnAt(g, l, lon, p1)
      <4> DEFINE r == Resolution(g, l)[1]
                 pos == lon - p1 * g.box.minLon
      <4>1. p1 * r \in Nat \ {0} /\ pos \in Int
        <5>1. \A u, v \in Nat \ {0} : u * v \in Nat \ {0}
          OBVIOUS
        <5> HIDE DEF r
        <5> QED
          BY <1>2, <1>9, <1>12, <3>3, <5>1 DEF r
      <4>2. ColumnAt(g, l, lon, p1) = pos \div (p1 * r)
        BY DEF ColumnAt
      <4> HIDE DEF pos, r
      <4>3. /\ pos \div (p1 * r) \in Int
            /\ (p1 * r) * t <= pos => t <= pos \div (p1 * r)
        <5>1. PICK p \in Nat \ {0} : p = p1 * r
          BY <4>1
        <5>2. t \in Int
          BY <1>8
        <5>3. pos \div p \in Int /\ (p * t <= pos => t <= pos \div p)
          BY <4>1, <5>2, InCell
        <5> QED
          BY <5>1, <5>3
      <4>4. CASE InGapOf(g, d, lon, p1)
        <5>1. lon > p1 * d.maxLon
          BY <4>4 DEF InGapOf
        <5>2. PICK W \in Int, rr \in Nat : W = g.box.minLon /\ rr = r
          BY <1>9 DEF r
        <5>3. p1 * (W + t * rr) = p1 * W + (p1 * rr) * t
          BY <1>2, <1>8
        <5>4. p1 * W \in Int /\ (p1 * rr) * t \in Int
          BY <1>2, <1>8
        <5>5. p1 * d.maxLon = p1 * W + (p1 * rr) * t
          BY <1>8, <5>2, <5>3 DEF r
        <5>6. pos = lon - p1 * W
          BY <5>2 DEF pos
        <5>7. (p1 * rr) * t <= pos
          BY <1>12, <5>1, <5>4, <5>5, <5>6
        <5> QED
          BY <1>8, <4>2, <4>3, <5>2, <5>7
      <4>5. CASE ~InGapOf(g, d, lon, p1)
        BY <1>8, <1>15, <4>2, <4>3, <4>5
      <4> QED
        BY <4>4, <4>5
    <3>6. c = Cells(g, l, EffectiveBox(g, l, b))
      BY <3>1 DEF c, e
    <3>7. t - 1 <= (lon - p1 * g.box.minLon) \div (p1 * Resolution(g, l)[1])
      BY <3>5 DEF ColumnAt
    <3>8. Cells(g, l, EffectiveBox(g, l, b)).to[1] = Shape(g, l)[1]
      BY <1>1, <1>2, <1>8, <1>12, <2>2, <3>2, <3>4, <3>6, <3>7, ColumnsRead
    <3> QED
      BY <1>8, <3>6, <3>8
  <2> QED
    BY <2>1, <2>2
<1>16. \/ NearLon(g, n, mid, p1, k)
       \/ /\ GoesRound(g, d) /\ f > 0
          /\ lon >= p1 * (g.box.maxLon - Resolution(g, l)[1])
  <2>1. GoesRound(g, d) => turn \in {-Circle, 0}
    BY <1>14
  <2>2. lon = mid - p1 * turn /\ turn \in {-Circle, 0, Circle} /\ lon \in Int /\ mid \in Int
    BY <1>3, <1>11, <1>12
  <2>3. GoesRound(g, d) /\ (InGapOf(g, d, lon, p1) \/ ColumnAt(g, l, lon, p1) + 1 >= t)
            => t = Shape(g, l)[1]
    BY <1>15
  <2>4. /\ c.from[1] \in Nat /\ c.to[1] \in 0 .. Shape(g, l)[1] /\ c.from[1] < c.to[1]
        /\ d.minLon = g.box.minLon + c.from[1] * Resolution(g, l)[1]
        /\ d.maxLon = g.box.minLon + c.to[1] * Resolution(g, l)[1]
    BY <1>8
  <2>5. GoesRound(g, d) /\ (InGapOf(g, d, lon, p1) \/ ColumnAt(g, l, lon, p1) + 1 >= c.to[1])
            => c.to[1] = Shape(g, l)[1]
    BY <1>8, <2>3
  <2>6. \E back \in {-Circle, 0, Circle} : /\ lon = mid - p1 * back
                                           /\ GoesRound(g, d) => back \in {-Circle, 0}
    BY <2>1, <2>2
  <2>7. \/ NearLon(g, n, mid, p1, k)
        \/ /\ GoesRound(g, d) /\ c.from[1] > 0
           /\ lon >= p1 * (g.box.maxLon - Resolution(g, l)[1])
    BY <1>2, <1>6, <1>7, <2>2, <2>4, <2>5, <2>6, ColumnNear
  <2> QED
    BY <1>8, <2>7
<1>17. ASSUME GoesRound(g, d), f > 0, lon >= p1 * (g.box.maxLon - Resolution(g, l)[1])
       PROVE  IsMistaken(g, l, c, mid, p1)
  <2>1. c.from[1] > 0 /\ (c.to[1] - c.from[1]) * Resolution(g, l)[1] > GlobalWidth
    BY <1>8, <1>14, <1>17
  <2>2. PICK back \in {0, Circle} : lon = mid + p1 * back
    <3>1. turn = 0 \/ turn = -Circle
      BY <1>14, <1>17
    <3>2. p1 * (-Circle) = -(p1 * Circle) /\ p1 * 0 = 0 /\ p1 * Circle \in Int
      BY <1>2, <1>9
    <3>3. CASE turn = 0
      BY <1>3, <1>11, <3>2, <3>3
    <3>4. CASE turn = -Circle
      BY <1>3, <1>11, <3>2, <3>4
    <3> QED
      BY <3>1, <3>3, <3>4
  <2> QED
    BY <1>17, <2>1, <2>2 DEF IsMistaken
<1> QED
  BY <1>13, <1>16, <1>17 DEF k, c, e, q

\* The middle of a pixel of the image of a box.
LEMMA PixelMiddle ==
    ASSUME NEW b \in Boxes, NEW size \in (Nat \ {0}) \X (Nat \ {0}),
           NEW x \in 0 .. size[1] - 1, NEW y \in 0 .. size[2] - 1
    PROVE  LET p1 == 2 * size[1]
               p2 == 2 * size[2]
               mid == p1 * b.minLon + (2 * x + 1) * Span(b)[1]
               lat == p2 * b.maxLat - (2 * y + 1) * Span(b)[2]
           IN  /\ p1 \in Nat \ {0} /\ p2 \in Nat \ {0} /\ mid \in Int /\ lat \in Int
               /\ p1 * b.minLon < mid /\ mid < p1 * b.maxLon
               /\ p2 * b.minLat < lat /\ lat < p2 * b.maxLat
<1>1. /\ b.minLon \in Int /\ b.maxLon \in Int /\ b.minLat \in Int /\ b.maxLat \in Int
      /\ b.minLon < b.maxLon /\ b.minLat < b.maxLat
      /\ Span(b)[1] = b.maxLon - b.minLon /\ Span(b)[2] = b.maxLat - b.minLat
  BY BoxesAssumption DEF IsBox, BoxType, Span
<1>2. /\ size[1] \in Nat \ {0} /\ size[2] \in Nat \ {0}
      /\ 2 * size[1] \in Nat \ {0} /\ 2 * size[2] \in Nat \ {0}
  OBVIOUS
<1> QED
  BY <1>1, <1>2, MiddleInside

\* What a pixel is drawn from is near it.
LEMMA PixelNear ==
    ASSUME NEW g \in Grids, ~g.projected, NEW l \in Levels(g), NEW b \in Boxes,
           NEW reg \in ReadRegion(g, l, ReadBox(g, b)), reg.kind = "region",
           NEW size \in (Nat \ {0}) \X (Nat \ {0}),
           NEW x \in 0 .. size[1] - 1, NEW y \in 0 .. size[2] - 1,
           NEW n \in Pixel(g, reg, b, size, x, y)
    PROVE  LET c == Cells(g, l, EffectiveBox(g, l, ReadBox(g, b)))
               p1 == 2 * size[1]
               p2 == 2 * size[2]
               mid == p1 * b.minLon + (2 * x + 1) * Span(b)[1]
               lat == p2 * b.maxLat - (2 * y + 1) * Span(b)[2]
               k == (5 * 2^l) \div 2
           IN  /\ NearLon(g, n, mid, p1, k) \/ IsMistaken(g, l, c, mid, p1)
               /\ NearLat(g, n, lat, p2, k)
<1> DEFINE q == ReadBox(g, b)
           e == EffectiveBox(g, l, q)
           c == Cells(g, l, e)
           d == reg.box
           p1 == 2 * size[1]
           p2 == 2 * size[2]
           mid == p1 * b.minLon + (2 * x + 1) * Span(b)[1]
           lon == PixelLon(g, d, mid, p1)
           lat == p2 * b.maxLat - (2 * y + 1) * Span(b)[2]
           k == (5 * 2^l) \div 2
<1>1. /\ b \in BoxType /\ q \in BoxType /\ e \in BoxType
  BY ReadBoxIsBox, EffectiveIsBox
<1>2. x \in Int /\ y \in Int
  OBVIOUS
<1>3. /\ p1 \in Nat \ {0} /\ p2 \in Nat \ {0}
      /\ mid \in Int /\ p1 * b.minLon < mid /\ mid < p1 * b.maxLon
      /\ lat \in Int /\ p2 * b.minLat < lat /\ lat < p2 * b.maxLat
  BY PixelMiddle
<1> HIDE DEF q, e, c, mid, lat
<1>5. RegionOf(g, l, q, reg)
  <2>1. CASE reg = Region(<<>>, 0, 0, e, Resolution(g, l))
    <3>1. p2 * e.minLat <= lat /\ lat <= p2 * e.maxLat => e.minLat < e.maxLat
      BY <1>3, EffectiveHigh DEF e, q
    <3>2. Pixel(g, Region(<<>>, 0, 0, e, Resolution(g, l)), b, size, x, y) = {}
      BY <1>1, <1>2, <3>1, NothingDrawn DEF lat
    <3> QED
      BY <2>1, <3>2
  <2> QED
    BY <1>1, <2>1, ReadRegionIs DEF e, q
<1>6. PICK i \in PixelColumns(g, l, d, c, lon, p1), j \in PixelRows(g, l, c, lat, p2) :
          /\ n \in Stored(g, l, i, j)
          /\ ~OutLon(g, l, d, c, lon, p1) /\ ~OutLat(g, l, d, c, lat, p2)
  <2> DEFINE columns == PixelColumns(g, l, d, c, lon, p1)
             rows == PixelRows(g, l, c, lat, p2)
             blocks == Blocks(g, l, columns, rows)
  <2>1. Pixel(g, reg, b, size, x, y) =
            IF OutLon(g, l, d, c, lon, p1) \/ OutLat(g, l, d, c, lat, p2) \/ {} \in blocks
            THEN {} ELSE UNION blocks
    BY <1>1, <1>2, <1>5, PixelIs DEF c, e, mid, lat
  <2>2. ~OutLon(g, l, d, c, lon, p1) /\ ~OutLat(g, l, d, c, lat, p2) /\ n \in UNION blocks
    <3> HIDE DEF blocks, lon, d
    <3> QED
      BY <2>1
  <2>3. blocks = {Stored(g, l, i, j) : i \in columns, j \in rows}
    BY DEF Blocks
  <2> HIDE DEF lon, d, blocks, columns, rows
  <2>4. PICK i \in columns, j \in rows : n \in Stored(g, l, i, j)
    BY <2>2, <2>3
  <2> QED
    BY <2>2, <2>4 DEF columns, rows
<1>7. n[1] \in i * 2^l .. i * 2^l + 2^l - 1 /\ n[2] \in j * 2^l .. j * 2^l + 2^l - 1
  BY <1>6 DEF Stored
<1> HIDE DEF p1, p2, k
<1>8. /\ NearLon(g, n, mid, p1, k) \/ IsMistaken(g, l, c, mid, p1)
      /\ NearLat(g, n, lat, p2, k)
  BY <1>3, <1>5, <1>6, <1>7, PixelBlocks DEF c, e, q, k
<1> QED
  BY <1>8 DEF p1, p2, mid, lat, k, c, e, q

\* How a place of the circle is turned to be in the grid: not where it is, and
\* one circle east only if it is west of longitude 0, one circle west only on a
\* grid that goes beyond the date line.
LEMMA TurnIs ==
    ASSUME NEW g \in Grids, NEW parts \in Nat \ {0}, NEW mid \in Int, NEW turn,
           -(parts * Circle) < mid, mid < parts * Circle,
           turn \in Turns(g) \/ (turn = -Circle /\ 2 * mid < parts * Circle),
           LET lon == mid + parts * turn
           IN  /\ parts * g.box.minLon <= lon
               /\ lon < parts * g.box.maxLon \/ (Uses360(g.box) /\ lon < parts * Circle)
    PROVE  /\ parts * turn \in Int
           /\ Uses360(g.box) => \/ parts * turn = 0 /\ mid >= 0
                                \/ parts * turn = parts * Circle /\ mid < 0
           /\ ~Uses360(g.box) =>
                  \/ parts * turn = 0
                  \/ /\ parts * turn = -(parts * Circle) /\ 2 * g.box.minLon < -Circle
                     /\ mid > 0 /\ 2 * mid < parts * Circle
<1> DEFINE W == g.box.minLon
           E == g.box.maxLon
<1>1. W \in Int /\ E \in Int /\ Circle \in Nat
  BY PlacesAssumption, GridsAssumption DEF IsBox, BoxType
<1>2. PICK pc \in Nat, pw \in Int, pe \in Int :
          pc = parts * Circle /\ pw = parts * W /\ pe = parts * E
  <2>1. parts * Circle \in Nat /\ parts * W \in Int /\ parts * E \in Int
    BY <1>1
  <2> QED
    BY <2>1
<1>3. turn \in {-Circle, 0, Circle} /\ (~Uses360(g.box) /\ turn # -Circle => turn = 0)
      /\ (turn = -Circle /\ ~Uses360(g.box) => turn = 0 \/ 2 * mid < pc)
  BY <1>2 DEF Turns
<1>4. /\ turn = -Circle => parts * turn = -pc
      /\ turn = 0 => parts * turn = 0
      /\ turn = Circle => parts * turn = pc
  <2>1. parts * (-Circle) = -(parts * Circle) /\ parts * 0 = 0
    BY <1>1
  <2> QED
    BY <1>2, <2>1
<1>5. PICK pt \in Int : pt = parts * turn /\ pt \in {-pc, 0, pc}
  BY <1>2, <1>3, <1>4
<1>6. /\ pw <= mid + pt
      /\ mid + pt < pe \/ (Uses360(g.box) /\ mid + pt < pc)
      /\ -pc < mid /\ mid < pc
  BY <1>2, <1>5
<1>7. CASE Uses360(g.box)
  <2>1. W >= 0 /\ E <= Circle
    BY <1>7, GridsAssumption DEF Uses360
  <2>2. pw >= 0 /\ pe <= pc
    <3>1. parts * 0 <= parts * W /\ parts * E <= parts * Circle /\ parts * 0 = 0
      BY <1>1, <2>1, TimesMonotone
    <3> QED
      BY <1>2, <3>1
  <2>3. \/ pt = 0 /\ mid >= 0
        \/ pt = pc /\ mid < 0
    BY <1>5, <1>6, <2>2
  <2> QED
    BY <1>2, <1>5, <1>7, <2>3
<1>8. CASE ~Uses360(g.box)
  <2>1. CASE turn = 0
    BY <1>2, <1>4, <1>8, <2>1
  <2>2. CASE turn # 0
    <3>1. turn = -Circle /\ 2 * mid < pc /\ pt = -pc
      BY <1>3, <1>4, <1>5, <1>8, <2>2
    <3>2. pw <= mid - pc
      BY <1>6, <3>1
    <3>3. 2 * W < -Circle
      <4>1. SUFFICES ASSUME 2 * W >= -Circle
                     PROVE  FALSE
        BY <1>1
      <4>2. parts * (-Circle) <= parts * (2 * W)
        BY <1>1, <4>1, TimesMonotone
      <4>3. parts * (-Circle) = -pc /\ parts * (2 * W) = 2 * pw
        <5>1. parts * (-Circle) = -(parts * Circle) /\ parts * (2 * W) = 2 * (parts * W)
          BY <1>1
        <5> QED
          BY <1>2, <5>1
      <4> QED
        BY <3>1, <3>2, <4>2, <4>3
    <3>4. pw > -pc
      <4>1. W > -Circle
        BY <3>3, GridsAssumption
      <4>2. parts * (-Circle + 1) <= parts * W
        BY <1>1, <4>1, TimesMonotone
      <4>3. parts * (-Circle + 1) = parts - parts * Circle
        BY <1>1
      <4> QED
        BY <1>2, <4>2, <4>3
    <3>5. mid > 0
      BY <3>2, <3>4
    <3> QED
      BY <1>2, <1>5, <1>8, <3>1, <3>3, <3>5
  <2> QED
    BY <2>1, <2>2
<1> QED
  BY <1>7, <1>8

\* A pixel is taken to be where the grid is.
LEMMA TurnedPixel ==
    ASSUME NEW g \in Grids, NEW parts \in Nat \ {0}, NEW mid \in Int, NEW turn,
           -(parts * Circle) < mid, mid < parts * Circle,
           turn \in Turns(g) \/ (turn = -Circle /\ 2 * mid < parts * Circle),
           LET lon == mid + parts * turn
           IN  /\ parts * g.box.minLon <= lon
               /\ lon < parts * g.box.maxLon \/ (Uses360(g.box) /\ lon < parts * Circle),
           NEW d, d.minLon \in Int, d.minLon >= g.box.minLon,
           2 * g.box.minLon < -Circle => d.minLon = g.box.minLon,
           2 * d.minLon > Circle => parts * d.minLon <= mid + parts * turn
    PROVE  LET lon == PixelLon(g, d, mid, parts)
           IN  /\ mid + parts * turn \in Int /\ lon \in Int
               /\ parts * g.box.minLon <= lon
               /\ lon = mid + parts * turn \/ (2 * g.box.minLon < -Circle /\ lon < mid + parts * turn)
<1> DEFINE circle == parts * Circle
           special == mid < parts * (Circle - GlobalWidth) /\ 2 * d.minLon > Circle
           lon == PixelLon(g, d, mid, parts)
           W == g.box.minLon
           pt == parts * turn
<1>1. /\ Circle \in Nat /\ GlobalWidth \in Int /\ GlobalWidth >= Circle \div 2
      /\ circle \in Nat /\ W \in Int /\ parts * W \in Int
  BY PlacesAssumption, GridsAssumption DEF IsBox, BoxType
<1>2. /\ pt \in Int
      /\ Uses360(g.box) => (pt = 0 /\ mid >= 0) \/ (pt = circle /\ mid < 0)
      /\ ~Uses360(g.box) =>
             pt = 0 \/ (pt = -circle /\ 2 * W < -Circle /\ mid > 0 /\ 2 * mid < circle)
  BY TurnIs
<1>3. parts * W <= mid + pt
  OBVIOUS
<1>4. lon =
          CASE 2 * d.minLon < -Circle ->
                 IF mid > 0 /\ 2 * mid < circle /\ mid - circle >= parts * d.minLon
                 THEN mid - circle ELSE mid
            [] 2 * d.minLon >= -Circle /\ Uses360(g.box) /\ (mid < 0 \/ special) -> mid + circle
            [] OTHER -> mid
  BY Zenon DEF PixelLon
<1>5. mid >= 0 /\ pt = 0 => ~special
  <2>1. SUFFICES ASSUME special, pt = 0
                 PROVE  FALSE
    OBVIOUS
  <2>2. PICK a \in Int, v \in Int : a = d.minLon /\ v = Circle - GlobalWidth
    BY <1>1
  <2>3. parts * a < parts * v
    <3>1. parts * a \in Int /\ parts * v \in Int
      OBVIOUS
    <3>2. parts * a <= mid + pt /\ mid < parts * v
      BY <2>1, <2>2
    <3> QED
      BY <2>1, <3>1, <3>2
  <2>4. a < v
    BY <2>3, TimesLess
  <2> QED
    BY <1>1, <2>1, <2>2, <2>4
<1>6. /\ 2 * d.minLon < -Circle => 2 * W < -Circle /\ d.minLon = W /\ ~Uses360(g.box)
      /\ 2 * d.minLon >= -Circle <=> ~(2 * d.minLon < -Circle)
  <2>1. 2 * d.minLon < -Circle => 2 * W < -Circle
    BY <1>1
  <2>2. 2 * W < -Circle => ~Uses360(g.box)
    BY <1>1 DEF Uses360
  <2> QED
    BY <1>1, <2>1, <2>2
<1> HIDE DEF lon, circle, special, W, pt
<1>7. CASE Uses360(g.box)
  <2>1. lon = IF mid < 0 \/ special THEN mid + circle ELSE mid
    BY <1>4, <1>6, <1>7
  <2>2. lon = mid + pt
    BY <1>1, <1>2, <1>5, <1>7, <2>1
  <2> QED
    BY <1>1, <1>2, <1>3, <2>2 DEF lon, W, pt
<1>8. CASE ~Uses360(g.box) /\ ~(2 * d.minLon < -Circle)
  <2>1. lon = mid
    BY <1>4, <1>6, <1>8
  <2>2. d.minLon >= W /\ (2 * W < -Circle => d.minLon = W)
    BY DEF W
  <2>3. ~(2 * W < -Circle)
    BY <1>1, <1>8, <2>2
  <2>4. pt = 0
    BY <1>2, <1>8, <2>3
  <2> QED
    BY <1>1, <1>2, <1>3, <2>1, <2>4 DEF lon, W, pt
<1>9. CASE ~Uses360(g.box) /\ 2 * d.minLon < -Circle
  <2>1. lon = IF mid > 0 /\ 2 * mid < circle /\ mid - circle >= parts * d.minLon
              THEN mid - circle ELSE mid
    BY <1>4, <1>9
  <2>2. d.minLon = W /\ 2 * W < -Circle
    BY <1>6, <1>9
  <2>3. PICK pw \in Int : pw = parts * W
    BY <1>1
  <2>4. lon = IF mid > 0 /\ 2 * mid < circle /\ mid - circle >= pw THEN mid - circle ELSE mid
    BY <2>1, <2>2, <2>3
  <2>5. pw <= lon /\ lon \in Int /\ (lon = mid + pt \/ lon < mid + pt)
    BY <1>1, <1>2, <1>3, <1>9, <2>3, <2>4
  <2> QED
    BY <1>2, <2>2, <2>3, <2>5 DEF lon, W, pt
<1> QED
  BY <1>7, <1>8, <1>9

\* It is in the box that is read, turned as that is.
LEMMA TurnedBox ==
    ASSUME NEW g \in Grids, NEW parts \in Nat \ {0}, NEW mid \in Int, NEW turn,
           -(parts * Circle) < mid, mid < parts * Circle,
           turn \in Turns(g) \/ (turn = -Circle /\ 2 * mid < parts * Circle),
           LET lon == mid + parts * turn
           IN  parts * g.box.minLon <= lon /\ lon < parts * g.box.maxLon,
           ~(2 * g.box.minLon < -Circle),
           NEW b \in BoxType, b.minLon < b.maxLon, ~CrossesOn360(b, g.box),
           parts * b.minLon < mid, mid < parts * b.maxLon
    PROVE  /\ parts * Turned(b.minLon, g.box) <= mid + parts * turn
           /\ mid + parts * turn < parts * Turned(b.maxLon, g.box)
<1> DEFINE circle == parts * Circle
           W == g.box.minLon
           pt == parts * turn
           west == Turned(b.minLon, g.box)
           east == Turned(b.maxLon, g.box)
<1>1. Circle \in Nat /\ b.minLon \in Int /\ b.maxLon \in Int /\ circle \in Nat
  BY PlacesAssumption DEF BoxType
<1>2. /\ pt \in Int
      /\ Uses360(g.box) => (pt = 0 /\ mid >= 0) \/ (pt = circle /\ mid < 0)
      /\ ~Uses360(g.box) => pt = 0
  BY TurnIs
<1>3. PICK pl \in Int, ph \in Int :
          /\ pl = parts * b.minLon /\ ph = parts * b.maxLon
          /\ parts * (b.minLon + Circle) = pl + circle /\ parts * (b.maxLon + Circle) = ph + circle
  <2>1. /\ parts * b.minLon \in Int /\ parts * b.maxLon \in Int
        /\ parts * (b.minLon + Circle) = parts * b.minLon + circle
        /\ parts * (b.maxLon + Circle) = parts * b.maxLon + circle
    BY <1>1
  <2> QED
    BY <2>1
<1>4. pl < mid /\ mid < ph
  BY <1>3
<1>5. /\ b.minLon >= 0 => pl >= 0
      /\ b.maxLon < 0 => ph <= 0
  <2>1. parts * 0 = 0
    OBVIOUS
  <2>2. b.minLon >= 0 => parts * 0 <= parts * b.minLon
    BY <1>1, TimesMonotone
  <2>3. b.maxLon < 0 => parts * b.maxLon <= parts * 0
    BY <1>1, TimesMonotone
  <2> QED
    BY <1>3, <2>1, <2>2, <2>3
<1>6. b.minLon < b.maxLon
  OBVIOUS
<1> HIDE DEF circle, pt
<1>7. CASE ~Uses360(g.box)
  <2>1. west = b.minLon /\ east = b.maxLon /\ pt = 0
    BY <1>2, <1>7 DEF Turned
  <2> QED
    BY <1>3, <1>4, <2>1 DEF pt
<1>8. CASE Uses360(g.box)
  <2>1. b.minLon >= 0 \/ b.maxLon < 0
    BY <1>1, <1>8 DEF CrossesOn360
  <2>2. CASE b.minLon >= 0
    <3>1. west = b.minLon /\ east = b.maxLon
      BY <1>1, <1>6, <2>2 DEF Turned
    <3>2. pt = 0
      BY <1>2, <1>4, <1>5, <1>8, <2>2
    <3> QED
      BY <1>3, <1>4, <3>1, <3>2 DEF pt
  <2>3. CASE b.maxLon < 0
    <3>1. west = b.minLon + Circle /\ east = b.maxLon + Circle
      BY <1>1, <1>6, <1>8, <2>3 DEF Turned
    <3>2. pt = circle
      BY <1>2, <1>4, <1>5, <1>8, <2>3
    <3> HIDE DEF west, east
    <3>3. parts * west = pl + circle /\ parts * east = ph + circle
      BY <1>3, <3>1
    <3>4. pl + circle <= mid + pt /\ mid + pt < ph + circle
      BY <1>1, <1>4, <3>2
    <3> QED
      BY <3>3, <3>4 DEF pt, west, east
  <2> QED
    BY <2>1, <2>2, <2>3
<1> QED
  BY <1>7, <1>8

-----------------------------------------------------------------------------
(* Which pixels are drawn *)

\* A place in a column of the region is not out of it.
LEMMA ColumnInside ==
    ASSUME NEW g \in Grids, NEW l \in Levels(g), NEW parts \in Nat \ {0}, NEW lon \in Int,
           NEW d, NEW c, c.from[1] \in Nat, c.to[1] \in Nat,
           d.minLon = g.box.minLon + c.from[1] * Resolution(g, l)[1],
           d.maxLon = g.box.minLon + c.to[1] * Resolution(g, l)[1],
           c.from[1] <= ColumnAt(g, l, lon, parts), ColumnAt(g, l, lon, parts) < c.to[1]
    PROVE  /\ parts * d.minLon <= lon /\ lon < parts * d.maxLon
           /\ ~OutLon(g, l, d, c, lon, parts)
<1>1. PICK r \in Nat \ {0}, W \in Int : r = Resolution(g, l)[1] /\ W = g.box.minLon
  BY LevelNumbers
<1>2. PICK f \in Nat, t \in Nat : f = c.from[1] /\ t = c.to[1]
  OBVIOUS
<1>3. PICK p \in Nat \ {0}, pos \in Int : p = parts * r /\ pos = lon - parts * W
  <2>1. \A u, v \in Nat \ {0} : u * v \in Nat \ {0}
    OBVIOUS
  <2>2. parts * r \in Nat \ {0} /\ lon - parts * W \in Int
    BY <2>1
  <2> QED
    BY <2>2
<1>4. PICK x \in Int : x = pos \div p /\ p * x <= pos /\ pos < p * (x + 1)
  BY <1>3, InCell
<1>5. x = ColumnAt(g, l, lon, parts) /\ f <= x /\ x + 1 <= t
  <2>1. x = ColumnAt(g, l, lon, parts)
    BY <1>1, <1>3, <1>4 DEF ColumnAt
  <2> QED
    BY <1>2, <1>4, <2>1
<1>6. p * f <= p * x /\ p * (x + 1) <= p * t
  <2>1. f \in Int /\ t \in Int /\ x \in Int /\ x + 1 \in Int /\ p \in Nat
    BY <1>2, <1>3, <1>4
  <2> QED
    BY <1>5, <2>1, TimesMonotone
<1>7. PICK pf \in Int, pt \in Int, pw \in Int :
          /\ pf = p * f /\ pt = p * t /\ pw = parts * W
          /\ parts * (W + f * r) = pw + pf /\ parts * (W + t * r) = pw + pt
  <2>1. /\ p * f \in Int /\ p * t \in Int /\ parts * W \in Int
    BY <1>1, <1>2, <1>3
  <2>2. /\ parts * (W + f * r) = parts * W + (parts * r) * f
        /\ parts * (W + t * r) = parts * W + (parts * r) * t
    <3>1. \A u \in Int : parts * (W + u) = parts * W + parts * u
      BY <1>1
    <3>2. /\ f * r \in Int /\ t * r \in Int
          /\ parts * (f * r) = (parts * r) * f /\ parts * (t * r) = (parts * r) * t
      BY <1>1, <1>2
    <3> QED
      BY <3>1, <3>2
  <2> QED
    BY <1>3, <2>1, <2>2
<1>8. d.minLon = W + f * r /\ d.maxLon = W + t * r
  BY <1>1, <1>2
<1>9. pf <= pos /\ pos < pt /\ pos = lon - pw
  <2>1. p * x \in Int /\ p * (x + 1) \in Int
    BY <1>3, <1>4
  <2> QED
    BY <1>3, <1>4, <1>6, <1>7, <2>1
<1>10. PICK lo \in Int, hi \in Int : /\ lo = parts * d.minLon /\ hi = parts * d.maxLon
                                     /\ lo <= lon /\ lon < hi
  <2>1. pw + pf <= lon /\ lon < pw + pt
    BY <1>3, <1>7, <1>9
  <2> QED
    BY <1>7, <1>8, <2>1
<1>11. ~(lon < lo \/ lon > hi \/ x >= t)
  BY <1>4, <1>5, <1>10
<1>12. ~OutLon(g, l, d, c, lon, parts)
  BY <1>2, <1>5, <1>10, <1>11, Zenon DEF OutLon
<1> QED
  BY <1>10, <1>12

LEMMA RowInside ==
    ASSUME NEW g \in Grids, NEW l \in Levels(g), NEW parts \in Nat \ {0}, NEW lat \in Int,
           NEW d, NEW c, c.from[2] \in Nat, c.to[2] \in Nat,
           d.maxLat = g.box.maxLat - c.from[2] * Resolution(g, l)[2],
           d.minLat = g.box.maxLat - c.to[2] * Resolution(g, l)[2],
           c.from[2] <= RowAt(g, l, lat, parts), RowAt(g, l, lat, parts) < c.to[2]
    PROVE  ~OutLat(g, l, d, c, lat, parts)
<1>1. PICK r \in Nat \ {0}, N \in Int : r = Resolution(g, l)[2] /\ N = g.box.maxLat
  BY LevelNumbers
<1>2. PICK f \in Nat, t \in Nat : f = c.from[2] /\ t = c.to[2]
  OBVIOUS
<1>3. PICK p \in Nat \ {0}, pos \in Int : p = parts * r /\ pos = parts * N - lat
  <2>1. \A u, v \in Nat \ {0} : u * v \in Nat \ {0}
    OBVIOUS
  <2>2. parts * r \in Nat \ {0} /\ parts * N - lat \in Int
    BY <2>1
  <2> QED
    BY <2>2
<1>4. PICK y \in Int : y = pos \div p /\ p * y <= pos /\ pos < p * (y + 1)
  BY <1>3, InCell
<1>5. y = RowAt(g, l, lat, parts) /\ f <= y /\ y + 1 <= t
  <2>1. y = RowAt(g, l, lat, parts)
    BY <1>1, <1>3, <1>4 DEF RowAt
  <2> QED
    BY <1>2, <1>4, <2>1
<1>6. p * f <= p * y /\ p * (y + 1) <= p * t
  <2>1. f \in Int /\ t \in Int /\ y \in Int /\ y + 1 \in Int /\ p \in Nat
    BY <1>2, <1>3, <1>4
  <2> QED
    BY <1>5, <2>1, TimesMonotone
<1>7. PICK pf \in Int, pt \in Int, pn \in Int :
          /\ pf = p * f /\ pt = p * t /\ pn = parts * N
          /\ parts * (N - f * r) = pn - pf /\ parts * (N - t * r) = pn - pt
  <2>1. /\ p * f \in Int /\ p * t \in Int /\ parts * N \in Int
    BY <1>1, <1>2, <1>3
  <2>2. /\ parts * (N - f * r) = parts * N - (parts * r) * f
        /\ parts * (N - t * r) = parts * N - (parts * r) * t
    <3>1. \A u \in Int : parts * (N - u) = parts * N - parts * u
      BY <1>1
    <3>2. /\ f * r \in Int /\ t * r \in Int
          /\ parts * (f * r) = (parts * r) * f /\ parts * (t * r) = (parts * r) * t
      BY <1>1, <1>2
    <3> QED
      BY <3>1, <3>2
  <2> QED
    BY <1>3, <2>1, <2>2
<1>8. d.maxLat = N - f * r /\ d.minLat = N - t * r
  BY <1>1, <1>2
<1>9. pf <= pos /\ pos < pt /\ pos = pn - lat
  <2>1. p * y \in Int /\ p * (y + 1) \in Int
    BY <1>3, <1>4
  <2> QED
    BY <1>3, <1>4, <1>6, <1>7, <2>1
<1>10. PICK hi \in Int, lo \in Int : /\ hi = parts * d.maxLat /\ lo = parts * d.minLat
                                     /\ lo <= lat /\ lat <= hi
  <2>1. pn - pt <= lat /\ lat <= pn - pf
    BY <1>3, <1>7, <1>9
  <2> QED
    BY <1>7, <1>8, <2>1
<1>11. ~(lat < lo \/ lat > hi \/ y >= t)
  BY <1>4, <1>5, <1>10
<1> QED
  BY <1>2, <1>5, <1>10, <1>11, Zenon DEF OutLat

\* The box and the cells of a region, side by side.
LEMMA RegionSides ==
    ASSUME NEW g \in Grids, ~g.projected, NEW l \in Levels(g), NEW q \in BoxType,
           NEW reg, RegionOf(g, l, q, reg)
    PROVE  LET c == Cells(g, l, EffectiveBox(g, l, q))
               r == Resolution(g, l)
               d == reg.box
           IN  /\ c.from[1] \in Nat /\ c.to[1] \in 0 .. Shape(g, l)[1] /\ c.from[1] < c.to[1]
               /\ c.from[2] \in Nat /\ c.to[2] \in 0 .. Shape(g, l)[2] /\ c.from[2] < c.to[2]
               /\ c.to[1] \in Nat /\ c.to[2] \in Nat
               /\ d.minLon = g.box.minLon + c.from[1] * r[1]
               /\ d.maxLon = g.box.minLon + c.to[1] * r[1]
               /\ d.maxLat = g.box.maxLat - c.from[2] * r[2]
               /\ d.minLat = g.box.maxLat - c.to[2] * r[2]
               /\ d.minLon \in Int /\ d.minLon >= g.box.minLon
<1> DEFINE c == Cells(g, l, EffectiveBox(g, l, q))
           r == Resolution(g, l)
           d == reg.box
<1>1. /\ c.from[1] \in Nat /\ c.to[1] \in 0 .. Shape(g, l)[1]
      /\ c.from[2] \in Nat /\ c.to[2] \in 0 .. Shape(g, l)[2]
      /\ Shape(g, l)[1] \in Nat /\ Shape(g, l)[2] \in Nat
  BY EffectiveIsBox, CellsInGrid, LevelNumbers
<1>2. g.origin = "north" /\ r[1] \in Nat /\ g.box.minLon \in Int
  BY GridsAssumption, LevelNumbers
<1>3. /\ c.to[1] - c.from[1] \in Nat \ {0} /\ c.to[2] - c.from[2] \in Nat \ {0}
      /\ d.minLon = g.box.minLon + c.from[1] * r[1]
      /\ d.maxLon = g.box.minLon + c.to[1] * r[1]
      /\ d.maxLat = g.box.maxLat - c.from[2] * r[2]
      /\ d.minLat = g.box.maxLat - c.to[2] * r[2]
  BY <1>2, Zenon DEF RegionOf
<1> HIDE DEF c, r, d
<1>4. /\ c.to[1] \in Nat /\ c.to[2] \in Nat /\ c.from[1] < c.to[1] /\ c.from[2] < c.to[2]
  BY <1>1, <1>3
<1>5. d.minLon \in Int /\ d.minLon >= g.box.minLon
  <2>1. PICK a \in Nat : a = c.from[1] * r[1]
    <3>1. \A u, v \in Nat : u * v \in Nat
      OBVIOUS
    <3> QED
      BY <1>1, <1>2, <3>1
  <2> QED
    BY <1>2, <1>3, <2>1
<1> QED
  BY <1>1, <1>3, <1>4, <1>5, Zenon DEF c, r, d

\* A place of the grid has a column and a row there.
LEMMA GridColumn ==
    ASSUME NEW g \in Grids, NEW l \in Levels(g), NEW parts \in Nat \ {0}, NEW lon \in Int,
           parts * g.box.minLon <= lon, lon < parts * g.box.maxLon
    PROVE  ColumnAt(g, l, lon, parts) \in 0 .. Shape(g, l)[1] - 1
<1>1. PICK r \in Nat \ {0}, s \in Nat \ {0}, W \in Int :
          /\ r = Resolution(g, l)[1] /\ s = Shape(g, l)[1] /\ W = g.box.minLon
          /\ g.box.maxLon = W + s * r
  <2>1. PICK r \in Nat \ {0}, s \in Nat \ {0}, W \in Int, E \in Int :
            /\ r = Resolution(g, l)[1] /\ s = Shape(g, l)[1] /\ W = g.box.minLon
            /\ E = g.box.maxLon /\ Span(g.box)[1] = s * r
    BY Sides
  <2>2. E - W = s * r
    BY <2>1 DEF Span
  <2>3. s * r \in Int
    OBVIOUS
  <2>4. E = W + s * r
    BY <2>2, <2>3
  <2> QED
    BY <2>1, <2>4
<1>2. PICK p \in Nat \ {0}, pw \in Int, u \in Nat : p = parts * r /\ pw = parts * W /\ u = s * r
  <2>1. \A a, b \in Nat \ {0} : a * b \in Nat \ {0}
    OBVIOUS
  <2>2. parts * r \in Nat \ {0} /\ s * r \in Nat \ {0} /\ parts * W \in Int
    BY <2>1
  <2> QED
    BY <2>2
<1>3. parts * (W + u) = pw + p * s
  <2>1. parts * (W + u) = parts * W + parts * u
    OBVIOUS
  <2>2. parts * (s * r) = (parts * r) * s
    OBVIOUS
  <2> QED
    BY <1>2, <2>1, <2>2
<1>4. PICK pos \in Int : pos = lon - pw /\ 0 <= pos /\ pos < p * s
  <2>1. pw <= lon /\ lon < pw + p * s
    BY <1>1, <1>2, <1>3
  <2>2. p * s \in Int
    BY <1>2
  <2> QED
    BY <2>1, <2>2
<1>5. pos \div p \in Nat /\ pos \div p < s
  <2>1. s \in Int
    OBVIOUS
  <2> QED
    BY <1>4, <2>1, InCell
<1>6. ColumnAt(g, l, lon, parts) = pos \div p
  BY <1>1, <1>2, <1>4 DEF ColumnAt
<1> QED
  BY <1>1, <1>5, <1>6

LEMMA GridRow ==
    ASSUME NEW g \in Grids, NEW l \in Levels(g), NEW parts \in Nat \ {0}, NEW lat \in Int,
           parts * g.box.minLat < lat, lat <= parts * g.box.maxLat
    PROVE  RowAt(g, l, lat, parts) \in 0 .. Shape(g, l)[2] - 1
<1>1. PICK r \in Nat \ {0}, s \in Nat \ {0}, N \in Int :
          /\ r = Resolution(g, l)[2] /\ s = Shape(g, l)[2] /\ N = g.box.maxLat
          /\ g.box.minLat = N - s * r
  BY LevelNumbers
<1>2. PICK p \in Nat \ {0}, pn \in Int, u \in Nat : p = parts * r /\ pn = parts * N /\ u = s * r
  <2>1. \A a, b \in Nat \ {0} : a * b \in Nat \ {0}
    OBVIOUS
  <2>2. parts * r \in Nat \ {0} /\ s * r \in Nat \ {0} /\ parts * N \in Int
    BY <2>1
  <2> QED
    BY <2>2
<1>3. parts * (N - u) = pn - p * s
  <2>1. parts * (N - u) = parts * N - parts * u
    OBVIOUS
  <2>2. parts * (s * r) = (parts * r) * s
    OBVIOUS
  <2> QED
    BY <1>2, <2>1, <2>2
<1>4. PICK pos \in Int : pos = pn - lat /\ 0 <= pos /\ pos < p * s
  <2>1. pn - p * s < lat /\ lat <= pn
    BY <1>1, <1>2, <1>3
  <2>2. p * s \in Int
    BY <1>2
  <2> QED
    BY <2>1, <2>2
<1>5. pos \div p \in Nat /\ pos \div p < s
  <2>1. s \in Int
    OBVIOUS
  <2> QED
    BY <1>4, <2>1, InCell
<1>6. RowAt(g, l, lat, parts) = pos \div p
  BY <1>1, <1>2, <1>4 DEF RowAt
<1> QED
  BY <1>1, <1>5, <1>6

\* What is in the grid, is in the region that is read for the image.
LEMMA PixelInside ==
    ASSUME NEW g \in Grids, ~g.projected, NEW l \in Levels(g), NEW b \in Boxes, InCircle(b),
           NEW reg \in ReadRegion(g, l, ReadBox(g, b)), reg.kind = "region",
           NEW p1 \in Nat \ {0}, NEW p2 \in Nat \ {0}, NEW mid \in Int, NEW lat \in Int,
           p1 * b.minLon < mid, mid < p1 * b.maxLon,
           p2 * b.minLat < lat, lat < p2 * b.maxLat,
           p2 * g.box.minLat < lat, lat <= p2 * g.box.maxLat,
           NEW turn, turn \in Turns(g) \/ (turn = -Circle /\ 2 * mid < p1 * Circle),
           LET lon == mid + p1 * turn
           IN  /\ p1 * g.box.minLon <= lon
               /\ \/ lon < p1 * g.box.maxLon
                  \/ /\ Uses360(g.box) /\ Span(g.box)[1] > GlobalWidth
                     /\ CrossesOn360(b, g.box) \/ g.full
                     /\ lon > p1 * g.box.maxLon /\ lon < p1 * Circle
    PROVE  LET c == Cells(g, l, EffectiveBox(g, l, ReadBox(g, b)))
           IN  /\ RegionOf(g, l, ReadBox(g, b), reg)
               /\ ~OutLon(g, l, reg.box, c, PixelLon(g, reg.box, mid, p1), p1)
               /\ ~OutLat(g, l, reg.box, c, lat, p2)
<1> DEFINE q == ReadBox(g, b)
           e == EffectiveBox(g, l, q)
           c == Cells(g, l, e)
           d == reg.box
           lonT == mid + p1 * turn
           lon == PixelLon(g, d, mid, p1)
           round == /\ Uses360(g.box) /\ Span(g.box)[1] > GlobalWidth
                    /\ CrossesOn360(b, g.box) \/ g.full
                    /\ lonT > p1 * g.box.maxLon /\ lonT < p1 * Circle
<1>1. /\ b \in BoxType /\ q \in BoxType /\ e \in BoxType /\ Circle \in Nat
      /\ b.minLon \in Int /\ b.maxLon \in Int /\ b.minLon < b.maxLon
      /\ g.box.minLon \in Int /\ g.box.maxLon \in Int
  BY BoxesAssumption, PlacesAssumption, ReadBoxIsBox, EffectiveIsBox, LevelNumbers
  DEF IsBox, BoxType
<1>2. -(p1 * Circle) < mid /\ mid < p1 * Circle
  <2>1. -Circle <= b.minLon /\ b.maxLon <= Circle
    BY DEF InCircle
  <2>2. p1 * (-Circle) <= p1 * b.minLon /\ p1 * b.maxLon <= p1 * Circle
    BY <1>1, <2>1, TimesMonotone
  <2>3. /\ p1 * (-Circle) = -(p1 * Circle) /\ p1 * Circle \in Int
        /\ p1 * b.minLon \in Int /\ p1 * b.maxLon \in Int
    BY <1>1
  <2> QED
    BY <2>2, <2>3
<1>3. /\ turn \in Turns(g) \/ (turn = -Circle /\ 2 * mid < p1 * Circle)
      /\ p1 * g.box.minLon <= lonT /\ (lonT < p1 * g.box.maxLon \/ round)
  OBVIOUS
<1>4. /\ p1 * turn \in Int /\ lonT \in Int
  <2>1. p1 * turn \in Int
    BY <1>2, <1>3, TurnIs
  <2> QED
    BY <2>1
<1>5. \/ g.full \/ CrossesOn360(b, g.box)
      \/ ~(2 * g.box.minLon < -Circle)
  BY GridsAssumption
<1> HIDE DEF q, e, c, lonT
<1>6. CASE g.full \/ CrossesOn360(b, g.box)
  <2>1. e = g.box
    BY <1>6, EffectiveWhole DEF ReadBox, e, q
  <2>2. PICK s1 \in Nat \ {0}, s2 \in Nat \ {0} :
            /\ s1 = Shape(g, l)[1] /\ s2 = Shape(g, l)[2]
            /\ c.from[1] = 0 /\ c.to[1] = s1 /\ c.from[2] = 0 /\ c.to[2] = s2
    BY <2>1, WholeCells, LevelNumbers DEF c
  <2>3. RegionOf(g, l, q, reg)
    <3>1. 0 >= c.from[1] /\ 0 < c.to[1] /\ 0 >= c.from[2] /\ 0 < c.to[2]
      BY <2>2
    <3>2. 0 \in Int
      OBVIOUS
    <3> QED
      BY <1>1, <3>1, <3>2, SomethingRead DEF c, e, q
  <2>4. /\ d.minLon = g.box.minLon + c.from[1] * Resolution(g, l)[1]
        /\ d.maxLon = g.box.minLon + c.to[1] * Resolution(g, l)[1]
        /\ d.maxLat = g.box.maxLat - c.from[2] * Resolution(g, l)[2]
        /\ d.minLat = g.box.maxLat - c.to[2] * Resolution(g, l)[2]
        /\ d.minLon \in Int /\ d.minLon >= g.box.minLon
        /\ c.from[1] \in Nat /\ c.to[1] \in Nat /\ c.from[2] \in Nat /\ c.to[2] \in Nat
    BY <1>1, <2>3, RegionSides DEF c, e
  <2>5. d.minLon = g.box.minLon /\ d.maxLon = g.box.maxLon
    <3>1. PICK r \in Nat \ {0} : r = Resolution(g, l)[1] /\ Span(g.box)[1] = s1 * r
                                 /\ g.box.maxLon = g.box.minLon + Span(g.box)[1]
      BY <2>2, LevelNumbers
    <3>2. 0 * r = 0
      OBVIOUS
    <3> HIDE DEF d
    <3> QED
      BY <1>1, <2>2, <2>4, <3>1, <3>2
  <2> HIDE DEF d, round
  <2>6. /\ lon \in Int /\ p1 * g.box.minLon <= lon
        /\ lon = lonT \/ (2 * g.box.minLon < -Circle /\ lon < lonT)
    <3>1. 2 * d.minLon > Circle => p1 * d.minLon <= mid + p1 * turn
      BY <1>3, <2>5 DEF lonT
    <3>2. LET at == mid + p1 * turn
          IN  /\ p1 * g.box.minLon <= at
              /\ at < p1 * g.box.maxLon \/ (Uses360(g.box) /\ at < p1 * Circle)
      BY <1>3 DEF lonT, round
    <3>3. d.minLon \in Int /\ d.minLon >= g.box.minLon
          /\ (2 * g.box.minLon < -Circle => d.minLon = g.box.minLon)
      BY <2>4, <2>5
    <3> QED
      BY <1>2, <1>3, <3>1, <3>2, <3>3, TurnedPixel DEF lonT
  <2> HIDE DEF lon
  <2>7. ~OutLat(g, l, d, c, lat, p2)
    <3>1. RowAt(g, l, lat, p2) \in 0 .. s2 - 1
      BY <2>2, GridRow
    <3>2. c.from[2] <= RowAt(g, l, lat, p2) /\ RowAt(g, l, lat, p2) < c.to[2]
      BY <2>2, <3>1
    <3> QED
      BY <2>4, <3>2, RowInside
  <2>8. ~OutLon(g, l, d, c, lon, p1)
    <3>1. CASE lonT < p1 * g.box.maxLon
      <4>1. lon < p1 * g.box.maxLon
        <5>1. p1 * g.box.maxLon \in Int
          BY <1>1
        <5> QED
          BY <1>4, <2>6, <3>1, <5>1
      <4>2. ColumnAt(g, l, lon, p1) \in 0 .. s1 - 1
        BY <2>2, <2>6, <4>1, GridColumn
      <4>3. c.from[1] <= ColumnAt(g, l, lon, p1) /\ ColumnAt(g, l, lon, p1) < c.to[1]
        BY <2>2, <4>2
      <4> QED
        BY <2>4, <2>6, <4>3, ColumnInside
    <3>2. CASE round
      <4>1. lon = lonT
        <5>1. Uses360(g.box) /\ g.box.minLon >= 0
          BY <3>2 DEF round, Uses360
        <5> QED
          BY <1>1, <2>6, <5>1
      <4>2. Span(d)[1] = Span(g.box)[1]
        BY <2>5 DEF Span
      <4>3. InGapOf(g, d, lon, p1)
        BY <2>5, <3>2, <4>1, <4>2 DEF round, InGapOf, GoesRound
      <4> QED
        BY <4>3 DEF OutLon
    <3> QED
      BY <1>3, <3>1, <3>2
  <2> QED
    BY <2>3, <2>7, <2>8 DEF lon, d, c, e, q
<1>7. CASE ~(g.full \/ CrossesOn360(b, g.box))
  <2>1. q = b
    BY <1>7 DEF ReadBox, q
  <2>2. lonT < p1 * g.box.maxLon /\ ~(2 * g.box.minLon < -Circle)
    BY <1>3, <1>5, <1>7
  <2>3. /\ p1 * Turned(b.minLon, g.box) <= lonT
        /\ lonT < p1 * Turned(b.maxLon, g.box)
    <3>1. p1 * g.box.minLon <= mid + p1 * turn /\ mid + p1 * turn < p1 * g.box.maxLon
      BY <1>3, <2>2 DEF lonT
    <3>2. p1 * b.minLon < mid /\ mid < p1 * b.maxLon /\ ~CrossesOn360(b, g.box)
      BY <1>7
    <3> QED
      BY <1>1, <1>2, <1>3, <2>2, <3>1, <3>2, TurnedBox DEF lonT
  <2>4. c.from[1] <= ColumnAt(g, l, lonT, p1) /\ ColumnAt(g, l, lonT, p1) < c.to[1]
    <3>1. LET cb == Cells(g, l, EffectiveBox(g, l, b))
              x == (lonT - p1 * g.box.minLon) \div (p1 * Resolution(g, l)[1])
          IN  cb.from[1] <= x /\ x < cb.to[1]
      BY <1>1, <1>3, <1>4, <1>7, <2>2, <2>3, ColumnsRead
    <3> QED
      BY <2>1, <3>1 DEF c, e, ColumnAt
  <2>5. c.from[2] <= RowAt(g, l, lat, p2) /\ RowAt(g, l, lat, p2) < c.to[2]
    <3>1. LET cb == Cells(g, l, EffectiveBox(g, l, b))
              y == (p2 * g.box.maxLat - lat) \div (p2 * Resolution(g, l)[2])
          IN  cb.from[2] <= y /\ y < cb.to[2]
      <4>1. p2 * b.minLat \in Int /\ p2 * b.maxLat \in Int
        BY <1>1 DEF BoxType
      <4>2. p2 * b.minLat < lat /\ lat <= p2 * b.maxLat
        BY <4>1
      <4> QED
        BY <1>1, <1>7, <4>2, RowsRead
    <3> QED
      BY <2>1, <3>1 DEF c, e, RowAt
  <2>6. RegionOf(g, l, q, reg)
    <3>1. ColumnAt(g, l, lonT, p1) \in Int
      <4>1. lonT < p1 * g.box.maxLon /\ p1 * g.box.minLon <= lonT
        BY <1>3, <2>2
      <4>2. ColumnAt(g, l, lonT, p1) \in 0 .. Shape(g, l)[1] - 1
        BY <1>4, <4>1, GridColumn
      <4> QED
        BY <4>2
    <3>2. RowAt(g, l, lat, p2) \in Int
      <4>1. RowAt(g, l, lat, p2) \in 0 .. Shape(g, l)[2] - 1
        BY GridRow
      <4> QED
        BY <4>1
    <3>3. PICK col \in Int, row \in Int : col = ColumnAt(g, l, lonT, p1) /\ row = RowAt(g, l, lat, p2)
      BY <3>1, <3>2
    <3>4. c.from[1] \in Nat /\ c.to[1] \in Int /\ c.from[2] \in Nat /\ c.to[2] \in Int
      BY <1>1, CellsInGrid, LevelNumbers DEF c
    <3>5. col >= c.from[1] /\ col < c.to[1] /\ row >= c.from[2] /\ row < c.to[2]
      BY <2>4, <2>5, <3>3, <3>4
    <3> QED
      BY <1>1, <3>5, SomethingRead DEF c, e, q
  <2>7. /\ d.minLon = g.box.minLon + c.from[1] * Resolution(g, l)[1]
        /\ d.maxLon = g.box.minLon + c.to[1] * Resolution(g, l)[1]
        /\ d.maxLat = g.box.maxLat - c.from[2] * Resolution(g, l)[2]
        /\ d.minLat = g.box.maxLat - c.to[2] * Resolution(g, l)[2]
        /\ d.minLon \in Int /\ d.minLon >= g.box.minLon
        /\ c.from[1] \in Nat /\ c.to[1] \in Nat /\ c.from[2] \in Nat /\ c.to[2] \in Nat
    BY <1>1, <2>6, RegionSides DEF c, e
  <2> HIDE DEF d, round
  <2>8. /\ ~OutLon(g, l, d, c, lonT, p1) /\ p1 * d.minLon <= lonT
    BY <1>4, <2>4, <2>7, ColumnInside
  <2>9. ~OutLat(g, l, d, c, lat, p2)
    BY <2>5, <2>7, RowInside
  <2>10. lon = lonT
    <3>1. 2 * d.minLon > Circle => p1 * d.minLon <= mid + p1 * turn
      BY <2>8 DEF lonT
    <3>2. LET at == mid + p1 * turn
          IN  /\ p1 * g.box.minLon <= at
              /\ at < p1 * g.box.maxLon \/ (Uses360(g.box) /\ at < p1 * Circle)
      BY <1>3, <2>2 DEF lonT
    <3>3. d.minLon \in Int /\ d.minLon >= g.box.minLon
          /\ (2 * g.box.minLon < -Circle => d.minLon = g.box.minLon)
      BY <2>2, <2>7
    <3>4. lon = lonT \/ 2 * g.box.minLon < -Circle
      BY <1>2, <1>3, <3>1, <3>2, <3>3, TurnedPixel DEF lonT
    <3> QED
      BY <2>2, <3>4
  <2> HIDE DEF lon
  <2> QED
    BY <2>6, <2>8, <2>9, <2>10 DEF lon, d, c, e, q
<1> QED
  BY <1>6, <1>7

\* A block of the level that has no value, has a native cell that has none.
LEMMA NothingStored ==
    ASSUME NEW g \in Grids, NEW l \in Levels(g), NEW i \in Int, NEW j \in Int,
           Stored(g, l, i, j) = {}
    PROVE  \E n \in g.missing : /\ n[1] \in i * 2^l .. i * 2^l + 2^l - 1
                                /\ n[2] \in j * 2^l .. j * 2^l + 2^l - 1
<1>1. PICK k \in Nat \ {0} : k = 2^l
  BY LevelNumbers
<1>2. \A a \in Int : a * k \in Int /\ a * k \in a * k .. a * k + k - 1
  <2>1. \A a \in Int : a * k \in Int
    OBVIOUS
  <2>2. \A m \in Int : m \in m .. m + k - 1
    OBVIOUS
  <2> QED
    BY <2>1, <2>2
<1>3. PICK p \in Int, q \in Int : /\ p = i * 2^l /\ q = j * 2^l
                                  /\ p \in i * 2^l .. i * 2^l + 2^l - 1
                                  /\ q \in j * 2^l .. j * 2^l + 2^l - 1
  BY <1>1, <1>2
<1>4. <<p, q>> \in g.missing
  BY <1>3 DEF Stored
<1> QED
  BY <1>3, <1>4

\* The columns and rows of a pixel are numbers.
LEMMA PixelCells ==
    ASSUME NEW g \in Grids, NEW l \in Levels(g), NEW d, NEW c,
           c.from[1] \in Nat, c.to[1] \in Nat, c.to[2] \in Nat,
           NEW p1 \in Nat \ {0}, NEW p2 \in Nat \ {0}, NEW lon \in Int, NEW lat \in Int
    PROVE  /\ PixelColumns(g, l, d, c, lon, p1) \subseteq Int
           /\ PixelRows(g, l, c, lat, p2) \subseteq Int
<1>1. ColumnAt(g, l, lon, p1) \in Int /\ RowAt(g, l, lat, p2) \in Int
  <2>1. PICK r1 \in Nat \ {0}, r2 \in Nat \ {0}, W \in Int, N \in Int :
            /\ r1 = Resolution(g, l)[1] /\ r2 = Resolution(g, l)[2]
            /\ W = g.box.minLon /\ N = g.box.maxLat
    BY LevelNumbers
  <2>2. \A a, b \in Nat \ {0} : a * b \in Nat \ {0}
    OBVIOUS
  <2>3. PICK u \in Nat \ {0}, v \in Nat \ {0}, x \in Int, y \in Int :
            u = p1 * r1 /\ v = p2 * r2 /\ x = lon - p1 * W /\ y = p2 * N - lat
    <3>1. lon - p1 * W \in Int /\ p2 * N - lat \in Int
      OBVIOUS
    <3> QED
      BY <2>2, <3>1
  <2>4. x \div u \in Int /\ y \div v \in Int
    OBVIOUS
  <2> QED
    BY <2>1, <2>3, <2>4 DEF ColumnAt, RowAt
<1>2. \A a, b \in Int : Smaller(a, b) \in Int
  BY DEF Smaller
<1>3. PICK x \in Int, y \in Int : x = ColumnAt(g, l, lon, p1) /\ y = RowAt(g, l, lat, p2)
  BY <1>1
<1>4. Smaller(x + 1, c.to[1] - 1) \in Int /\ Smaller(y + 1, c.to[2] - 1) \in Int
  <2>1. PICK t1 \in Int, t2 \in Int : t1 = c.to[1] - 1 /\ t2 = c.to[2] - 1
    OBVIOUS
  <2>2. x + 1 \in Int /\ y + 1 \in Int
    OBVIOUS
  <2> QED
    BY <1>2, <2>1, <2>2
<1>5. PixelRows(g, l, c, lat, p2) = {y, Smaller(y + 1, c.to[2] - 1)}
  BY <1>3 DEF PixelRows
<1>6. \/ PixelColumns(g, l, d, c, lon, p1) = {c.to[1] - 1, c.from[1]}
      \/ PixelColumns(g, l, d, c, lon, p1) = {x, c.from[1]}
      \/ PixelColumns(g, l, d, c, lon, p1) = {x, Smaller(x + 1, c.to[1] - 1)}
  BY <1>3, Zenon DEF PixelColumns
<1> QED
  BY <1>3, <1>4, <1>5, <1>6

\* Some of the cells have no value.
SomeEmpty(g, l, columns, rows) == \E i \in columns, j \in rows : Stored(g, l, i, j) = {}

\* A pixel that is not drawn is beside the region or between cells one of which
\* has no value.
LEMMA NotDrawn ==
    ASSUME NEW g \in Grids, NEW l \in Levels(g), NEW q \in BoxType, ~g.projected,
           NEW reg, RegionOf(g, l, q, reg), NEW b \in BoxType,
           NEW size \in (Nat \ {0}) \X (Nat \ {0}), NEW x \in Int, NEW y \in Int
    PROVE  LET c == Cells(g, l, EffectiveBox(g, l, q))
               p1 == 2 * size[1]
               p2 == 2 * size[2]
               lon == PixelLon(g, reg.box, p1 * b.minLon + (2 * x + 1) * Span(b)[1], p1)
               lat == p2 * b.maxLat - (2 * y + 1) * Span(b)[2]
           IN  Pixel(g, reg, b, size, x, y) = {} =>
                   \/ OutLon(g, l, reg.box, c, lon, p1)
                   \/ OutLat(g, l, reg.box, c, lat, p2)
                   \/ SomeEmpty(g, l, PixelColumns(g, l, reg.box, c, lon, p1),
                                       PixelRows(g, l, c, lat, p2))
<1> DEFINE c == Cells(g, l, EffectiveBox(g, l, q))
           p1 == 2 * size[1]
           p2 == 2 * size[2]
           lon == PixelLon(g, reg.box, p1 * b.minLon + (2 * x + 1) * Span(b)[1], p1)
           lat == p2 * b.maxLat - (2 * y + 1) * Span(b)[2]
           columns == PixelColumns(g, l, reg.box, c, lon, p1)
           rows == PixelRows(g, l, c, lat, p2)
           blocks == Blocks(g, l, columns, rows)
           out == OutLon(g, l, reg.box, c, lon, p1) \/ OutLat(g, l, reg.box, c, lat, p2)
<1>1. Pixel(g, reg, b, size, x, y) =
          IF OutLon(g, l, reg.box, c, lon, p1) \/ OutLat(g, l, reg.box, c, lat, p2)
             \/ {} \in blocks
          THEN {} ELSE UNION blocks
  BY PixelIs
<1>2. columns # {} /\ rows # {}
  <2> HIDE DEF c, lon, lat, p1, p2
  <2>1. \E i, j : i \in columns /\ j \in rows
    BY Zenon DEF PixelColumns, PixelRows
  <2> QED
    BY <2>1
<1> HIDE DEF out, columns, rows
<1>3. blocks = {Stored(g, l, i, j) : i \in columns, j \in rows}
  BY DEF Blocks
<1> HIDE DEF blocks
<1>4. UNION blocks = {} => {} \in blocks
  <2>1. PICK B : B \in blocks
    <3>1. PICK i, j : i \in columns /\ j \in rows
      BY <1>2
    <3>2. Stored(g, l, i, j) \in blocks
      BY <1>3, <3>1
    <3> QED
      BY <3>2
  <2>2. UNION blocks = {} => B = {}
    BY <2>1
  <2> QED
    BY <2>1, <2>2
<1>5. Pixel(g, reg, b, size, x, y) = {} => out \/ {} \in blocks
  BY <1>1, <1>4, Zenon DEF out
<1>6. Pixel(g, reg, b, size, x, y) = {} => out \/ SomeEmpty(g, l, columns, rows)
  BY <1>3, <1>5 DEF SomeEmpty
<1> QED
  BY <1>6, Zenon DEF out, columns, rows

\* A pixel in the grid is drawn, unless a grid point near it is missing or its
\* region is taken for one that goes round.
LEMMA PixelEmpty ==
    ASSUME NEW g \in Grids, ~g.projected, NEW l \in Levels(g), NEW b \in Boxes, InCircle(b),
           NEW reg \in ReadRegion(g, l, ReadBox(g, b)), reg.kind = "region",
           NEW size \in (Nat \ {0}) \X (Nat \ {0}),
           NEW x \in 0 .. size[1] - 1, NEW y \in 0 .. size[2] - 1
    PROVE  LET c == Cells(g, l, EffectiveBox(g, l, ReadBox(g, b)))
               p1 == 2 * size[1]
               p2 == 2 * size[2]
               mid == p1 * b.minLon + (2 * x + 1) * Span(b)[1]
               lat == p2 * b.maxLat - (2 * y + 1) * Span(b)[2]
               k == (5 * 2^l) \div 2
           IN  Pixel(g, reg, b, size, x, y) = {} /\ PlaceInGrid(g, b, mid, lat, p1, p2) =>
                   \/ \E n \in g.missing : NearLon(g, n, mid, p1, k) /\ NearLat(g, n, lat, p2, k)
                   \/ IsMistaken(g, l, c, mid, p1)
<1> DEFINE q == ReadBox(g, b)
           e == EffectiveBox(g, l, q)
           c == Cells(g, l, e)
           d == reg.box
           p1 == 2 * size[1]
           p2 == 2 * size[2]
           mid == p1 * b.minLon + (2 * x + 1) * Span(b)[1]
           lon == PixelLon(g, d, mid, p1)
           lat == p2 * b.maxLat - (2 * y + 1) * Span(b)[2]
           k == (5 * 2^l) \div 2
           columns == PixelColumns(g, l, d, c, lon, p1)
           rows == PixelRows(g, l, c, lat, p2)
<1>1. /\ b \in BoxType /\ q \in BoxType /\ e \in BoxType
  BY ReadBoxIsBox, EffectiveIsBox
<1>2. x \in Int /\ y \in Int
  OBVIOUS
<1>3. /\ p1 \in Nat \ {0} /\ p2 \in Nat \ {0}
      /\ mid \in Int /\ p1 * b.minLon < mid /\ mid < p1 * b.maxLon
      /\ lat \in Int /\ p2 * b.minLat < lat /\ lat < p2 * b.maxLat
  BY PixelMiddle
<1> HIDE DEF mid, lat, q, e, c
<1>7. ASSUME RegionOf(g, l, q, reg)
      PROVE  Pixel(g, reg, b, size, x, y) = {} =>
                 \/ OutLon(g, l, d, c, lon, p1)
                 \/ OutLat(g, l, d, c, lat, p2)
                 \/ SomeEmpty(g, l, columns, rows)
  BY <1>1, <1>2, <1>7, NotDrawn DEF c, e, mid, lat
<1> HIDE DEF p1, p2, d, lon, columns, rows
<1>4. ASSUME PlaceInGrid(g, b, mid, lat, p1, p2)
      PROVE  /\ RegionOf(g, l, q, reg)
             /\ ~OutLon(g, l, d, c, lon, p1)
             /\ ~OutLat(g, l, d, c, lat, p2)
  <2>1. PICK turn :
            /\ turn \in Turns(g) \/ (turn = -Circle /\ 2 * mid < p1 * Circle)
            /\ p1 * g.box.minLon <= mid + p1 * turn
            /\ \/ mid + p1 * turn < p1 * g.box.maxLon
               \/ /\ Uses360(g.box) /\ Span(g.box)[1] > GlobalWidth
                  /\ CrossesOn360(b, g.box) \/ g.full
                  /\ mid + p1 * turn > p1 * g.box.maxLon /\ mid + p1 * turn < p1 * Circle
    <3>1. PICK turn \in Turns(g) \cup {-Circle} :
              /\ turn \in Turns(g) \/ 2 * mid < p1 * Circle
              /\ p1 * g.box.minLon <= mid + p1 * turn
              /\ \/ mid + p1 * turn < p1 * g.box.maxLon
                 \/ /\ Uses360(g.box) /\ Span(g.box)[1] > GlobalWidth
                    /\ CrossesOn360(b, g.box) \/ g.full
                    /\ mid + p1 * turn > p1 * g.box.maxLon /\ mid + p1 * turn < p1 * Circle
      BY <1>4, Zenon DEF PlaceInGrid
    <3>2. turn \in Turns(g) \/ turn = -Circle
      OBVIOUS
    <3> QED
      BY <3>1, <3>2
  <2>2. p2 * g.box.minLat < lat /\ lat <= p2 * g.box.maxLat
    BY <1>4 DEF PlaceInGrid
  <2> QED
    BY <1>3, <2>1, <2>2, PixelInside DEF q, e, c, d, lon
<1>5. ASSUME RegionOf(g, l, q, reg), ~OutLon(g, l, d, c, lon, p1), ~OutLat(g, l, d, c, lat, p2)
      PROVE  Pixel(g, reg, b, size, x, y) = {} =>
                 \/ \E n \in g.missing : NearLon(g, n, mid, p1, k) /\ NearLat(g, n, lat, p2, k)
                 \/ IsMistaken(g, l, c, mid, p1)
  <2>1. Pixel(g, reg, b, size, x, y) = {} =>
            \E i \in columns, j \in rows : Stored(g, l, i, j) = {}
    BY <1>5, <1>7, Zenon DEF SomeEmpty
  <2>2. columns \subseteq Int /\ rows \subseteq Int
    <3>1. c.from[1] \in Nat /\ c.to[1] \in Nat /\ c.to[2] \in Nat /\ d.minLon \in Int
      BY <1>1, <1>5, RegionSides DEF c, e, d
    <3>2. lon \in Int
      <4>1. PICK t \in {-Circle, 0, Circle} : lon = mid - p1 * t
        BY <1>3, <3>1, PixelLonIs DEF lon
      <4>2. Circle \in Int
        BY PlacesAssumption
      <4>3. p1 * t \in Int
        BY <1>3, <4>2
      <4> QED
        BY <1>3, <4>1, <4>3
    <3> QED
      BY <1>3, <3>1, <3>2, PixelCells DEF columns, rows
  <2>3. ASSUME NEW i \in columns, NEW j \in rows, Stored(g, l, i, j) = {}
        PROVE  \/ \E n \in g.missing : NearLon(g, n, mid, p1, k) /\ NearLat(g, n, lat, p2, k)
               \/ IsMistaken(g, l, c, mid, p1)
    <3>1. PICK n \in g.missing : /\ n[1] \in i * 2^l .. i * 2^l + 2^l - 1
                                 /\ n[2] \in j * 2^l .. j * 2^l + 2^l - 1
      BY <2>2, <2>3, NothingStored
    <3>2. /\ NearLon(g, n, mid, p1, k) \/ IsMistaken(g, l, c, mid, p1)
          /\ NearLat(g, n, lat, p2, k)
      BY <1>3, <1>5, <3>1, PixelBlocks DEF columns, rows, c, e, q, k, d, lon
    <3> QED
      BY <3>2
  <2> HIDE DEF k
  <2> QED
    BY <2>1, <2>3, Zenon
<1> HIDE DEF k
<1>6. Pixel(g, reg, b, size, x, y) = {} /\ PlaceInGrid(g, b, mid, lat, p1, p2) =>
          \/ \E n \in g.missing : NearLon(g, n, mid, p1, k) /\ NearLat(g, n, lat, p2, k)
          \/ IsMistaken(g, l, c, mid, p1)
  BY <1>4, <1>5, Zenon
<1> QED
  BY <1>6, Zenon DEF mid, lat, p1, p2, q, e, c, k

-----------------------------------------------------------------------------
(* Images *)

\* A tile's region is one that was read for it.
TileRead ==
    IsTile => /\ request.grid \in Grids /\ request.box \in Boxes /\ request.size \in Sizes
              /\ request.level \in Levels(request.grid)
              /\ reply.kind = "region" =>
                     reply \in ReadRegion(request.grid, request.level,
                                          ReadBox(request.grid, request.box))

\* What a pixel is drawn of is near its place in the image.
LEMMA PixelDrawn ==
    ASSUME NEW g \in Grids, ~g.projected, NEW l \in Levels(g), NEW b \in Boxes,
           NEW reg \in ReadRegion(g, l, ReadBox(g, b)), reg.kind = "region",
           NEW size \in Sizes, NEW o \in 0 .. size[1] * size[2] - 1
    PROVE  DrawnAt(g, b, l, size, Pixel(g, reg, b, size, o % size[1], o \div size[1]), o)
<1>1. size \in (Nat \ {0}) \X (Nat \ {0})
  <2>1. size \in Nat \X Nat
    BY PlacesAssumption
  <2>2. \A v, w \in Nat : 0 .. v * w - 1 # {} => v # 0 /\ w # 0
    <3>1. \A v \in Nat : 0 * v = 0 /\ v * 0 = 0
      OBVIOUS
    <3>2. 0 .. 0 - 1 = {}
      OBVIOUS
    <3> QED
      BY <3>1, <3>2
  <2>3. size[1] # 0 /\ size[2] # 0
    BY <2>1, <2>2
  <2> QED
    BY <2>1, <2>3
<1>2. PICK x \in 0 .. size[1] - 1, y \in 0 .. size[2] - 1 : x = o % size[1] /\ y = o \div size[1]
  BY <1>1, InTable
<1> DEFINE c == Cells(g, l, EffectiveBox(g, l, ReadBox(g, b)))
           p1 == 2 * size[1]
           p2 == 2 * size[2]
           mid == p1 * b.minLon + (2 * x + 1) * Span(b)[1]
           lat == p2 * b.maxLat - (2 * y + 1) * Span(b)[2]
           k == (5 * 2^l) \div 2
           v == Pixel(g, reg, b, size, x, y)
<1>3. \A n \in v : /\ NearLon(g, n, mid, p1, k) \/ IsMistaken(g, l, c, mid, p1)
                   /\ NearLat(g, n, lat, p2, k)
  <2> HIDE DEF v
  <2>1. SUFFICES ASSUME NEW n \in v
                 PROVE  /\ NearLon(g, n, mid, p1, k) \/ IsMistaken(g, l, c, mid, p1)
                        /\ NearLat(g, n, lat, p2, k)
    OBVIOUS
  <2>2. n \in Pixel(g, reg, b, size, x, y)
    BY DEF v
  <2> QED
    BY <1>1, <2>2, PixelNear
<1>4. InCircle(b) => (v = {} /\ PlaceInGrid(g, b, mid, lat, p1, p2) =>
          \/ \E n \in g.missing : NearLon(g, n, mid, p1, k) /\ NearLat(g, n, lat, p2, k)
          \/ IsMistaken(g, l, c, mid, p1))
  <2>1. ASSUME InCircle(b)
        PROVE  v = {} /\ PlaceInGrid(g, b, mid, lat, p1, p2) =>
                   \/ \E n \in g.missing : NearLon(g, n, mid, p1, k) /\ NearLat(g, n, lat, p2, k)
                   \/ IsMistaken(g, l, c, mid, p1)
    BY <1>1, <2>1, PixelEmpty
  <2> QED
    BY <2>1
<1>5. /\ \A n \in v : \/ NearLon(g, n, mid, p1, k) /\ NearLat(g, n, lat, p2, k)
                      \/ IsMistaken(g, l, c, mid, p1)
      /\ v = {} /\ InCircle(b) /\ PlaceInGrid(g, b, mid, lat, p1, p2) =>
             \/ \E n \in g.missing : NearLon(g, n, mid, p1, k) /\ NearLat(g, n, lat, p2, k)
             \/ IsMistaken(g, l, c, mid, p1)
  <2> HIDE DEF v, mid, lat, p1, p2, k, c
  <2> QED
    BY <1>3, <1>4, Zenon
<1>6. DrawnAt(g, b, l, size, v, o)
  <2> HIDE DEF v
  <2> QED
    BY <1>2, <1>5, Zenon DEF DrawnAt
<1> QED
  BY <1>2, <1>6, Zenon

\* An image is drawn of the region that was read for it.
LEMMA DrawStep ==
    ASSUME TileRead, Draw
    PROVE  Drawn'
<1>1. PICK g, b, l, size : g = request.grid /\ b = request.box /\ l = request.level
                           /\ size = request.size
  OBVIOUS
<1>2. /\ g \in Grids /\ ~g.projected /\ b \in Boxes /\ size \in Sizes /\ l \in Levels(g)
      /\ reply \in ReadRegion(g, l, ReadBox(g, b)) /\ reply.kind = "region"
  BY <1>1 DEF TileRead, IsTile, Draw
<1>3. /\ request'.grid = g /\ request'.box = b /\ request'.level = l /\ request'.size = size
      /\ reply'.pixels = [o \in 0 .. size[1] * size[2] - 1 |->
                             Pixel(g, reply, b, size, o % size[1], o \div size[1])]
  BY <1>1 DEF Draw
<1>4. ASSUME NEW o \in DOMAIN reply'.pixels
      PROVE  DrawnAt(g, b, l, size, reply'.pixels[o], o)
  <2>1. o \in 0 .. size[1] * size[2] - 1
    BY <1>3
  <2>2. reply'.pixels[o] = Pixel(g, reply, b, size, o % size[1], o \div size[1])
    BY <1>3, <2>1
  <2> QED
    BY <1>2, <2>1, <2>2, PixelDrawn
<1> QED
  BY <1>3, <1>4, Zenon DEF Drawn

\* Every step keeps a region to its request.
LEMMA TileReadNext ==
    ASSUME TileRead, [ReadsNext]_readsVars
    PROVE  TileRead'
<1>1. CASE UNCHANGED readsVars
  BY <1>1 DEF TileRead, IsTile, readsVars
<1>2. ASSUME NEW g \in Grids, NEW b \in Boxes, NEW size \in Sizes, ReadTile(g, b, size)
      PROVE  TileRead'
  <2>1. PICK l : l = OptimalLevel(g, ReadBox(g, b), size)
    OBVIOUS
  <2>2. /\ request' = [kind |-> "tile", grid |-> g, box |-> b, size |-> size, level |-> l]
        /\ reply' \in ReadRegion(g, l, ReadBox(g, b))
    BY <1>2, <2>1, Zenon DEF ReadTile
  <2>3. /\ request'.grid = g /\ request'.box = b /\ request'.size = size
        /\ request'.level = l
    BY <2>2
  <2>4. l \in Levels(g)
    BY <2>1, LevelChosen
  <2> QED
    BY <2>2, <2>3, <2>4, Zenon DEF TileRead
<1>3. CASE Draw
  <2>1. request' = request /\ reply'.kind # "region"
    BY <1>3 DEF Draw
  <2> QED
    BY <2>1 DEF TileRead, IsTile
<1>4. ASSUME request'.kind # "tile"
      PROVE  TileRead'
  BY <1>4 DEF TileRead, IsTile
<1>5. /\ \A g \in Grids, b \in Boxes : ReadArea(g, b) => request'.kind # "tile"
      /\ \A g \in Grids, p \in Points : ReadPoint(g, p) => request'.kind # "tile"
      /\ Sent => request'.kind # "tile"
  BY DEF ReadArea, ReadPoint, Sent, Idle
<1> QED
  BY <1>1, <1>2, <1>3, <1>4, <1>5, Zenon DEF ReadsNext

\* Regions, failures and points are no images.
LEMMA NoImage ==
    ASSUME NEW g \in Grids, NEW l \in Levels(g), NEW b \in BoxType,
           NEW reg \in ReadRegion(g, l, b)
    PROVE  reg.kind # "image"
<1> DEFINE e == EffectiveBox(g, l, b)
<1>1. \/ \E data, width, height, box, res : reg = Region(data, width, height, box, res)
      \/ reg = Failed \/ reg = Broken
  BY Zenon DEF ReadRegion, AssembleRegion
<1> QED
  BY <1>1 DEF Region, Failed, Broken

\* Every step keeps the images drawn right.
LEMMA DrawnNext ==
    ASSUME TileRead, Drawn, [ReadsNext]_readsVars
    PROVE  Drawn'
<1>1. CASE UNCHANGED readsVars
  BY <1>1, Zenon DEF Drawn, readsVars
<1>2. CASE Draw
  BY <1>2, DrawStep
<1>3. ASSUME reply'.kind # "image"
      PROVE  Drawn'
  BY <1>3 DEF Drawn
<1>4. ASSUME NEW g \in Grids, NEW b \in Boxes, NEW size \in Sizes, ReadTile(g, b, size)
      PROVE  reply'.kind # "image"
  BY <1>4, LevelChosen, ReadBoxIsBox, NoImage DEF ReadTile
<1>5. ASSUME NEW g \in Grids, NEW b \in Boxes, ReadArea(g, b)
      PROVE  reply'.kind # "image"
  <2>1. PICK reg \in ReadRegion(g, 0, b) :
            reply' = IF reg.kind = "region"
                     THEN ExtractDateline(ExtractPrimeMeridian(reg, b), b) ELSE reg
    BY <1>5, Zenon DEF ReadArea
  <2>2. reg.kind # "image" /\ b \in BoxType /\ 0 \in Levels(g)
    BY NoImage, ReadBoxIsBox, Native
  <2>3. ASSUME reg.kind = "region"
        PROVE  ExtractDateline(ExtractPrimeMeridian(reg, b), b).kind = "region"
    <3>1. reg = Region(reg.data, reg.width, reg.height, reg.box, reg.res)
      BY <2>2, <2>3, RegionIsRecord
    <3>2. \E data, width, height, box, res :
              ExtractPrimeMeridian(reg, b) = Region(data, width, height, box, res)
      BY <3>1, Zenon DEF ExtractPrimeMeridian
    <3> QED
      BY <3>2 DEF ExtractDateline, Region
  <2> QED
    BY <2>1, <2>2, <2>3
<1>6. ASSUME NEW g \in Grids, NEW p \in Points, ReadPoint(g, p)
      PROVE  reply'.kind # "image"
  BY <1>6 DEF ReadPoint
<1>7. Sent => reply'.kind # "image"
  BY DEF Sent, None
<1> QED
  BY <1>1, <1>2, <1>3, <1>4, <1>5, <1>6, <1>7, Zenon DEF ReadsNext

-----------------------------------------------------------------------------
(* Area queries: between grid points *)

\* The cells of an answer begin with its box and go no farther than half a cell
\* beyond it.
LEMMA AnswerMiddle ==
    ASSUME NEW lo \in Int, NEW hi \in Int, lo < hi, NEW r \in Nat \ {0}
    PROVE  LET s == Larger(CeilDiv(hi - lo, r), 1)
           IN  /\ s \in Nat \ {0}
               /\ \A x \in 0 .. s - 1 :
                      /\ 2 * lo + (2 * x + 1) * r \in Int /\ 2 * hi - (2 * x + 1) * r \in Int
                      /\ 2 * lo < 2 * lo + (2 * x + 1) * r
                      /\ 2 * lo + (2 * x + 1) * r < 2 * hi + r
                      /\ 2 * lo - r < 2 * hi - (2 * x + 1) * r
                      /\ 2 * hi - (2 * x + 1) * r < 2 * hi
<1>1. PICK d \in Nat \ {0} : d = hi - lo
  OBVIOUS
<1>2. PICK n \in Int : n = CeilDiv(d, r) /\ d <= r * n /\ r * (n - 1) < d
  <2>1. d \in Int
    OBVIOUS
  <2>2. CeilDiv(d, r) \in Int /\ d <= r * CeilDiv(d, r) /\ r * (CeilDiv(d, r) - 1) < d
    BY <2>1, CeilDivLeast
  <2> QED
    BY <2>2
<1>3. n >= 1
  <2>1. r * 0 < r * n
    BY <1>1, <1>2
  <2> QED
    BY <1>2, <2>1, TimesLess
<1>4. n = Larger(CeilDiv(hi - lo, r), 1) /\ n \in Nat \ {0}
  BY <1>1, <1>2, <1>3 DEF Larger
<1>5. ASSUME NEW x \in 0 .. n - 1
      PROVE  /\ 2 * lo + (2 * x + 1) * r \in Int /\ 2 * hi - (2 * x + 1) * r \in Int
             /\ 2 * lo < 2 * lo + (2 * x + 1) * r
             /\ 2 * lo + (2 * x + 1) * r < 2 * hi + r
             /\ 2 * lo - r < 2 * hi - (2 * x + 1) * r
             /\ 2 * hi - (2 * x + 1) * r < 2 * hi
  <2>1. r * x <= r * (n - 1)
    <3>1. x \in Int /\ n - 1 \in Int /\ x <= n - 1
      BY <1>2
    <3> QED
      BY <3>1, TimesMonotone
  <2>2. PICK rx \in Nat : rx = r * x
    OBVIOUS
  <2>3. rx < d
    <3>1. r * (n - 1) \in Int
      BY <1>2
    <3> QED
      BY <1>1, <1>2, <2>1, <2>2, <3>1
  <2>4. (2 * x + 1) * r = 2 * rx + r
    BY <2>2
  <2> QED
    BY <1>1, <2>3, <2>4
<1> QED
  BY <1>4, <1>5

\* A grid point of w, in cells of r, that is a step inside from d to d + span
\* has its cell touched by it, and is the cell that some value of the answer
\* begins with.
LEMMA PointAnswered ==
    ASSUME NEW w \in Nat \ {0}, NEW r \in Nat \ {0}, NEW n \in 0 .. w - 1,
           NEW d \in Int, NEW span \in Nat \ {0},
           n * (w * r) - (w - 1) * d >= w * r,
           (w - 1) * span - (n * (w * r) - (w - 1) * d) >= w * r
    PROVE  /\ n * r < d + span /\ (n + 1) * r > d
           /\ \E x \in 0 .. Larger(CeilDiv(span, r), 1) - 1 :
                  /\ (2 * r) * n <= 2 * d + (2 * x + 1) * r
                  /\ 2 * d + (2 * x + 1) * r < (2 * r) * (n + 1)
<1>1. PICK S \in Nat \ {0}, e \in Nat : S = w * r /\ e = w - 1
  <2>1. w * r \in Nat \ {0} /\ w - 1 \in Nat
    OBVIOUS
  <2> QED
    BY <2>1
<1>2. PICK nS \in Nat, ed \in Int, es \in Nat : nS = n * S /\ ed = e * d /\ es = e * span
  <2>1. n * S \in Nat /\ e * d \in Int /\ e * span \in Nat
    BY <1>1
  <2> QED
    BY <2>1
<1>3. nS - ed >= S /\ es - (nS - ed) >= S
  BY <1>1, <1>2
<1>4. e # 0
  <2>1. ASSUME e = 0 PROVE FALSE
    <3>1. ed = 0 /\ es = 0
      BY <1>2, <2>1
    <3>2. n = 0
      BY <1>1, <2>1
    <3>3. nS = 0
      BY <1>1, <1>2, <3>2
    <3> QED
      BY <1>1, <1>3, <3>1, <3>3
  <2> QED
    BY <2>1
<1>5. PICK nr \in Nat : nr = n * r /\ nr <= S - r
  <2>1. r * n <= r * (w - 1)
    <3>1. n \in Int /\ w - 1 \in Int /\ n <= w - 1
      OBVIOUS
    <3> QED
      BY <3>1, TimesMonotone
  <2>2. r * n = n * r /\ r * (w - 1) = w * r - r /\ n * r \in Nat
    OBVIOUS
  <2> QED
    BY <1>1, <2>1, <2>2
<1>6. e * nr = nS - nr /\ e * r = S - r
  <2>1. (w - 1) * (n * r) = n * (w * r) - n * r /\ (w - 1) * r = w * r - r
    OBVIOUS
  <2> QED
    BY <1>1, <1>2, <1>5, <2>1
<1>7. 2 * d < 2 * nr + r
  <2>1. e * (2 * d) < e * (2 * nr + r)
    <3>1. e * (2 * d) = 2 * ed
      BY <1>1, <1>2
    <3>2. e * (2 * nr + r) = 2 * (e * nr) + e * r
      BY <1>1, <1>5
    <3>3. 2 * ed <= 2 * nS - 2 * S
      BY <1>1, <1>2, <1>3
    <3>4. 2 * nS - 2 * S < 2 * (nS - nr) + (S - r)
      BY <1>1, <1>2, <1>5
    <3> QED
      BY <1>1, <1>2, <1>5, <1>6, <3>1, <3>2, <3>3, <3>4
  <2>2. 2 * d \in Int /\ 2 * nr + r \in Int /\ e \in Nat \ {0}
    BY <1>1, <1>4, <1>5
  <2> QED
    BY <2>1, <2>2, TimesLess
<1>8. nr + r < d + span
  <2>1. e * (nr + r) < e * (d + span)
    <3>1. e * (nr + r) = e * nr + e * r /\ e * (d + span) = e * d + e * span
      BY <1>1, <1>5
    <3> QED
      BY <1>1, <1>2, <1>3, <1>5, <1>6, <3>1
  <2>2. nr + r \in Int /\ d + span \in Int /\ e \in Nat \ {0}
    BY <1>1, <1>4, <1>5
  <2> QED
    BY <2>1, <2>2, TimesLess
<1>9. n * r < d + span /\ (n + 1) * r > d
  <2>1. (n + 1) * r = n * r + r
    OBVIOUS
  <2> QED
    BY <1>5, <1>7, <1>8, <2>1
<1>10. PICK c \in Nat \ {0} : c = 2 * r
  OBVIOUS
<1>11. PICK m \in Int : c * m <= 2 * d + r /\ 2 * d + r < c * (m + 1)
  <2>1. 2 * d + r \in Int
    OBVIOUS
  <2> QED
    BY <1>10, <2>1, InCell
<1>12. PICK cm \in Int, cn \in Nat : cm = c * m /\ cn = c * n /\ cn = 2 * nr
  <2>1. c * m \in Int /\ c * n \in Nat
    OBVIOUS
  <2>2. c * n = 2 * (n * r)
    BY <1>10
  <2> QED
    BY <1>5, <2>1, <2>2
<1>13. cm <= 2 * d + r /\ 2 * d + r < cm + c
  <2>1. c * (m + 1) = c * m + c
    OBVIOUS
  <2> QED
    BY <1>11, <1>12, <2>1
<1>14. m <= n
  <2>1. c * m < c * (n + 1)
    <3>1. c * (n + 1) = c * n + c
      OBVIOUS
    <3> QED
      BY <1>7, <1>10, <1>12, <1>13, <3>1
  <2>2. n + 1 \in Int
    OBVIOUS
  <2>3. m < n + 1
    BY <2>1, <2>2, TimesLess
  <2> QED
    BY <2>3
<1>15. PICK x \in Nat, rx \in Nat : x = n - m /\ rx = r * x /\ c * x = 2 * rx
  <2>1. PICK x \in Nat : x = n - m
    BY <1>14
  <2>2. r * x \in Nat /\ c * x = 2 * (r * x)
    BY <1>10
  <2> QED
    BY <2>1, <2>2
<1>16. 2 * rx = cn - cm
  <2>1. c * (n - m) = c * n - c * m
    OBVIOUS
  <2> QED
    BY <1>12, <1>15, <2>1
<1>17. /\ (2 * r) * n = cn /\ (2 * r) * (n + 1) = cn + c
       /\ 2 * d + (2 * x + 1) * r = 2 * d + r + 2 * rx
  <2>1. (2 * r) * (n + 1) = (2 * r) * n + 2 * r
    OBVIOUS
  <2>2. (2 * x + 1) * r = 2 * (r * x) + r
    OBVIOUS
  <2> QED
    BY <1>10, <1>12, <1>15, <2>1, <2>2
<1>18. /\ (2 * r) * n <= 2 * d + (2 * x + 1) * r
       /\ 2 * d + (2 * x + 1) * r < (2 * r) * (n + 1)
  BY <1>10, <1>12, <1>13, <1>16, <1>17
<1>19. rx < span
  BY <1>8, <1>10, <1>12, <1>13, <1>16
<1>20. x \in 0 .. Larger(CeilDiv(span, r), 1) - 1
  <2>1. PICK q \in Int : q = CeilDiv(span, r) /\ span <= r * q
    <3>1. span \in Int
      OBVIOUS
    <3>2. CeilDiv(span, r) \in Int /\ span <= r * CeilDiv(span, r)
      BY <3>1, CeilDivLeast
    <3> QED
      BY <3>2
  <2>2. r * x < r * q
    <3>1. r * q \in Int
      OBVIOUS
    <3> QED
      BY <1>15, <1>19, <2>1, <3>1
  <2>3. x < q
    BY <2>2, TimesLess
  <2> QED
    BY <2>1, <2>3 DEF Larger
<1> QED
  BY <1>9, <1>18, <1>20

\* The first columns that come again after a circle c, from a place beyond the
\* last.
LEMMA BeyondNear ==
    ASSUME NEW w \in Nat \ {0}, NEW r \in Nat \ {0}, NEW c \in Nat,
           w * r <= c, (w - 1) * (c - w * r) <= w * r,
           NEW pos \in Int, 2 * (w * r) <= pos, pos < 2 * c + r,
           NEW i \in {0, (pos \div (2 * r)) % w}
    PROVE  /\ i \in 0 .. w - 1
           /\ 2 * (i * (w * r)) - (w - 1) * (pos - 2 * c)
                  \in -(2 * (2 * (w * r))) .. 2 * (2 * (w * r))
<1>1. PICK S \in Nat \ {0}, e \in Nat, p \in Nat \ {0} : S = w * r /\ e = w - 1 /\ p = 2 * r
  <2>1. w * r \in Nat \ {0} /\ w - 1 \in Nat /\ 2 * r \in Nat \ {0}
    OBVIOUS
  <2> QED
    BY <2>1
<1>2. PICK rest \in Int : rest = 2 * c - pos /\ rest <= 2 * (c - S) /\ -r < rest
  <2>1. 2 * S <= pos /\ S \in Int
    BY <1>1
  <2>2. 2 * c - pos \in Int /\ 2 * c - pos <= 2 * c - 2 * S /\ -r < 2 * c - pos
    BY <2>1
  <2>3. 2 * (c - S) = 2 * c - 2 * S
    BY <2>1
  <2> QED
    BY <2>2, <2>3
<1>3. PICK u \in Int : u = e * rest /\ u <= 2 * S /\ -S <= u
  <2>1. e * rest <= e * (2 * (c - S))
    <3>1. 2 * (c - S) \in Int
      BY <1>1
    <3> QED
      BY <1>1, <1>2, <3>1, TimesMonotone
  <2>2. e * (2 * (c - S)) = 2 * (e * (c - S)) /\ e * (c - S) \in Int
    BY <1>1
  <2>3. e * (c - S) <= S
    BY <1>1
  <2>4. e * (-r) <= e * rest
    <3>1. -r \in Int /\ -r <= rest
      BY <1>2
    <3> QED
      BY <1>1, <1>2, <3>1, TimesMonotone
  <2>5. e * (-r) = r - S
    <3>1. (w - 1) * (-r) = r - w * r
      OBVIOUS
    <3> QED
      BY <1>1, <3>1
  <2>6. e * rest \in Int
    BY <1>1, <1>2
  <2> QED
    BY <1>1, <2>1, <2>2, <2>3, <2>4, <2>5, <2>6
<1>4. PICK x \in Int : x = pos \div p /\ p * x <= pos /\ \A y \in Int : p * y <= pos => y <= x
  BY <1>1, DivGreatest
<1>5. x % w \in 0 .. w - 1 /\ x = w * (x \div w) + (x % w) /\ x \div w \in Int
  BY <1>4, DivMod
<1>6. i \in 0 .. w - 1
  <2>1. i = 0 \/ i = x % w
    BY <1>1, <1>4
  <2> QED
    BY <1>5, <2>1
<1>7. w <= x
  <2>1. p * w = 2 * S
    BY <1>1
  <2> QED
    BY <1>1, <1>4, <2>1
<1>8. x % w <= 1
  <2>1. CASE w <= 2
    BY <1>5, <2>1
  <2>2. CASE w >= 3
    <3>1. 2 * (c - S) <= 3 * r
      <4>1. e * (2 * (c - S)) <= e * (3 * r) + 0
        <5>1. e * (2 * (c - S)) = 2 * (e * (c - S)) /\ e * (c - S) \in Int
          BY <1>1
        <5>2. e * (c - S) <= S
          BY <1>1
        <5>3. e * (3 * r) = 3 * S - 3 * r
          <6>1. (w - 1) * (3 * r) = 3 * (w * r) - 3 * r
            OBVIOUS
          <6> QED
            BY <1>1, <6>1
        <5>4. 3 * r <= S
          <6>1. r * 3 <= r * w
            BY <2>2, TimesMonotone
          <6>2. r * w = w * r
            OBVIOUS
          <6> QED
            BY <1>1, <6>1, <6>2
        <5> QED
          BY <1>1, <5>1, <5>2, <5>3, <5>4
      <4>2. ~(e * (3 * r) < e * (2 * (c - S)))
        <5>1. e * (3 * r) \in Int /\ e * (2 * (c - S)) \in Int
          BY <1>1
        <5> QED
          BY <4>1, <5>1
      <4>3. ASSUME 3 * r < 2 * (c - S)
            PROVE  FALSE
        <5>1. PICK v \in Nat \ {0} : 2 * (c - S) = 3 * r + v
          BY <1>1, <4>3
        <5>2. e * (3 * r + v) = e * (3 * r) + e * v
          BY <1>1
        <5>3. e \in Nat \ {0}
          BY <1>1, <2>2
        <5>4. e * v > 0 /\ e * v \in Int /\ e * (3 * r) \in Int
          BY <5>3
        <5> QED
          BY <4>2, <5>1, <5>2, <5>4
      <4> QED
        BY <1>1, <4>3
    <3>2. p * x < p * (w + 2)
      <4>1. p * (w + 2) = 2 * S + 4 * r
        BY <1>1
      <4>2. p * x \in Int
        BY <1>1, <1>4
      <4> QED
        BY <1>1, <1>4, <3>1, <4>1, <4>2
    <3>3. x < w + 2
      <4>1. w + 2 \in Int
        OBVIOUS
      <4> QED
        BY <1>1, <1>4, <3>2, <4>1, TimesLess
    <3>4. PICK m \in 0 .. 1 : x = w * 1 + m /\ m \in 0 .. w - 1
      <4>1. x - w \in 0 .. 1 /\ x - w \in 0 .. w - 1
        BY <1>4, <1>7, <2>2, <3>3
      <4>2. x = w * 1 + (x - w)
        BY <1>4
      <4> QED
        BY <4>1, <4>2
    <3>5. x % w = m
      <4>1. 1 \in Int
        OBVIOUS
      <4> QED
        BY <3>4, <4>1, Quotient
    <3> QED
      BY <3>4, <3>5
  <2> QED
    BY <2>1, <2>2
<1>9. i <= 1 /\ i \in Nat
  <2>1. i = 0 \/ i = x % w
    BY <1>1, <1>4
  <2> QED
    BY <1>5, <1>8, <2>1
<1>10. PICK iS \in Nat : iS = i * S /\ iS <= S
  <2>1. i = 0 \/ i = 1
    BY <1>9
  <2>2. 0 * S = 0 /\ 1 * S = S
    BY <1>1
  <2> QED
    BY <1>1, <2>1, <2>2
<1>11. (w - 1) * (pos - 2 * c) = -u
  <2>1. pos - 2 * c = -rest
    BY <1>2
  <2>2. e * (-rest) = -(e * rest)
    BY <1>1, <1>2
  <2> QED
    BY <1>1, <1>3, <2>1, <2>2
<1>12. 2 * iS - (-u) \in -(2 * (2 * S)) .. 2 * (2 * S)
  BY <1>1, <1>3, <1>10
<1> QED
  BY <1>1, <1>6, <1>10, <1>11, <1>12

\* Areas that the query answers as they were read.
Kept(reg, b) == ~Uses360(reg.box) \/ b.minLon >= 0 \/ b.maxLon <= 0

\* A region that is the whole grid.
IsWhole(g, reg) ==
    /\ reg.width = Shape(g, 0)[1] /\ reg.height = Shape(g, 0)[2]
    /\ reg.res = Resolution(g, 0)
    /\ reg.box.minLon = g.box.minLon /\ reg.box.maxLon = g.box.maxLon
    /\ reg.box.minLat = g.box.minLat /\ reg.box.maxLat = g.box.maxLat
    /\ \A i \in 0 .. Shape(g, 0)[1] - 1, j \in 0 .. Shape(g, 0)[2] - 1 :
           reg.data[j * reg.width + i] = Stored(g, 0, i, j)

\* A request across the prime meridian is answered from the whole grid.
LEMMA CrossingRead ==
    ASSUME NEW g \in Grids, ~g.projected, NEW b \in Boxes, CrossesOn360(b, g.box),
           NEW reg \in ReadRegion(g, 0, b), reg.kind = "region"
    PROVE  IsWhole(g, reg) /\ RegionOf(g, 0, b, reg) /\ reg.box.minLon >= 0
           /\ Uses360(reg.box)
<1> DEFINE e == EffectiveBox(g, 0, b)
           c == Cells(g, 0, e)
<1>1. 0 \in Levels(g) /\ b \in BoxType
  BY Native, ReadBoxIsBox
<1>2. e = g.box
  BY <1>1, EffectiveWhole
<1>3. PICK w \in Nat \ {0}, h \in Nat \ {0}, r1 \in Nat \ {0}, r2 \in Nat \ {0},
           W \in Int, E \in Int, N \in Int, S \in Int :
          /\ w = Shape(g, 0)[1] /\ h = Shape(g, 0)[2]
          /\ r1 = Resolution(g, 0)[1] /\ r2 = Resolution(g, 0)[2]
          /\ W = g.box.minLon /\ E = g.box.maxLon /\ N = g.box.maxLat /\ S = g.box.minLat
          /\ E = W + Span(g.box)[1] /\ S = N - Span(g.box)[2]
          /\ Span(g.box)[1] = w * r1 /\ Span(g.box)[2] = h * r2
  <2>1. /\ Shape(g, 0)[1] \in Nat \ {0} /\ Shape(g, 0)[2] \in Nat \ {0}
        /\ Resolution(g, 0)[1] \in Nat \ {0} /\ Resolution(g, 0)[2] \in Nat \ {0}
        /\ Span(g.box)[1] = Shape(g, 0)[1] * Resolution(g, 0)[1]
        /\ Span(g.box)[2] = Shape(g, 0)[2] * Resolution(g, 0)[2]
        /\ g.box.minLon \in Int /\ g.box.maxLon \in Int
        /\ g.box.minLat \in Int /\ g.box.maxLat \in Int
        /\ g.box.maxLon = g.box.minLon + Span(g.box)[1]
        /\ g.box.minLat = g.box.maxLat - Span(g.box)[2]
    BY <1>1, LevelNumbers
  <2> QED
    BY <2>1, Zenon
<1>4. c.from[1] = 0 /\ c.to[1] = w /\ c.from[2] = 0 /\ c.to[2] = h
  BY <1>1, <1>2, <1>3, WholeCells
<1> HIDE DEF c, e
<1>5. RegionOf(g, 0, b, reg)
  <2>1. 0 >= c.from[1] /\ 0 < c.to[1] /\ 0 >= c.from[2] /\ 0 < c.to[2] /\ 0 \in Int
    BY <1>3, <1>4
  <2> QED
    BY <1>1, <2>1, SomethingRead DEF c, e
<1>6. /\ reg.box.minLon = g.box.minLon + c.from[1] * Resolution(g, 0)[1]
      /\ reg.box.maxLon = g.box.minLon + c.to[1] * Resolution(g, 0)[1]
      /\ reg.box.maxLat = g.box.maxLat - c.from[2] * Resolution(g, 0)[2]
      /\ reg.box.minLat = g.box.maxLat - c.to[2] * Resolution(g, 0)[2]
  BY <1>1, <1>5, RegionSides DEF c, e
<1>7. /\ reg.box.minLon = W /\ reg.box.maxLon = E /\ reg.box.maxLat = N /\ reg.box.minLat = S
  <2>1. 0 * r1 = 0 /\ 0 * r2 = 0
    OBVIOUS
  <2> QED
    BY <1>3, <1>4, <1>6, <2>1
<1>8. reg.width = c.to[1] - c.from[1] /\ reg.height = c.to[2] - c.from[2] /\ reg.res = Resolution(g, 0)
  BY <1>5, Zenon DEF RegionOf, c, e
<1>9. reg.width = w /\ reg.height = h
  BY <1>3, <1>4, <1>8
<1>10. ASSUME NEW i \in 0 .. w - 1, NEW j \in 0 .. h - 1
       PROVE  reg.data[j * reg.width + i] = Stored(g, 0, i, j)
  <2>1. i \in 0 .. reg.width - 1 /\ j \in 0 .. reg.height - 1
    BY <1>9
  <2>2. reg.data[j * reg.width + i] = Stored(g, 0, c.from[1] + i, c.from[2] + j)
    BY <1>1, <1>5, <2>1, RegionCell DEF c, e
  <2>3. c.from[1] + i = i /\ c.from[2] + j = j
    BY <1>4
  <2> QED
    BY <2>2, <2>3
<1>11. IsWhole(g, reg)
  BY <1>3, <1>7, <1>8, <1>9, <1>10, Zenon DEF IsWhole
<1>12. Uses360(g.box)
  BY DEF CrossesOn360
<1> QED
  BY <1>3, <1>5, <1>7, <1>11, <1>12 DEF Uses360

\* What the query does not keep, is such a request.
LEMMA NotKept ==
    ASSUME NEW g \in Grids, ~g.projected, NEW b \in Boxes,
           NEW reg \in ReadRegion(g, 0, b), reg.kind = "region", ~Kept(reg, b)
    PROVE  CrossesOn360(b, g.box) /\ b.maxLon > 0
<1> DEFINE e == EffectiveBox(g, 0, b)
           c == Cells(g, 0, e)
<1>1. 0 \in Levels(g) /\ b \in BoxType /\ e \in BoxType
  BY Native, ReadBoxIsBox, EffectiveIsBox
<1>2. b.minLon \in Int /\ b.maxLon \in Int /\ b.minLon < 0 /\ b.maxLon > 0 /\ Uses360(reg.box)
  BY <1>1 DEF BoxType, Kept
<1>3. SUFFICES ASSUME ~Uses360(g.box) PROVE FALSE
  BY <1>2 DEF CrossesOn360
<1>4. PICK w \in Nat \ {0}, r \in Nat \ {0}, W \in Int, E \in Int :
          /\ w = Shape(g, 0)[1] /\ r = Resolution(g, 0)[1]
          /\ W = g.box.minLon /\ E = g.box.maxLon
          /\ E = W + Span(g.box)[1] /\ Span(g.box)[1] = w * r
  <2>1. /\ Shape(g, 0)[1] \in Nat \ {0} /\ Resolution(g, 0)[1] \in Nat \ {0}
        /\ Span(g.box)[1] = Shape(g, 0)[1] * Resolution(g, 0)[1]
        /\ g.box.minLon \in Int /\ g.box.maxLon \in Int
        /\ g.box.maxLon = g.box.minLon + Span(g.box)[1]
    BY <1>1, LevelNumbers
  <2> QED
    BY <2>1, Zenon
<1>5. ~CrossesOn360(b, g.box) /\ Turned(b.minLon, g.box) = b.minLon
      /\ Turned(b.maxLon, g.box) = b.maxLon /\ Turned(e.minLon, g.box) = e.minLon
  BY <1>3 DEF CrossesOn360, Turned
<1>6. /\ e.minLon = Larger(b.minLon - Buffer * r, W)
      /\ e.maxLon = Smaller(b.maxLon + Buffer * r, E)
  BY <1>1, <1>4, <1>5, EffectiveAlong
<1>7. e.minLon \in Int /\ (W < 0 => e.minLon < 0) /\ W <= e.minLon /\ e.maxLon \in Int /\ e.maxLon <= E
  <2>1. PICK u \in Nat : u = Buffer * r
    BY PlacesAssumption
  <2> QED
    BY <1>1, <1>2, <1>6, <2>1 DEF BoxType, Larger, Smaller
<1>8. c.from[1] = From(e.minLon - W, r) /\ c.to[1] \in 0 .. w /\ c.from[1] \in Nat
  BY <1>1, <1>4, <1>5, CellsAlong, CellsInGrid
<1> HIDE DEF c, e
<1>9. PICK west \in Int, east \in Int :
          west = reg.box.minLon /\ east = reg.box.maxLon /\ (W < 0 => west < 0) /\ east <= E
  <2>1. CASE reg = Region(<<>>, 0, 0, e, Resolution(g, 0))
    <3>1. reg.box = e
      BY <2>1 DEF Region
    <3> QED
      BY <1>4, <1>7, <3>1
  <2>2. CASE RegionOf(g, 0, b, reg)
    <3>1. /\ reg.box.minLon = W + c.from[1] * r /\ reg.box.maxLon = W + c.to[1] * r
      BY <1>1, <1>4, <2>2, RegionSides DEF c, e
    <3>2. PICK f \in Nat, t \in Nat, u \in Nat, v \in Nat :
              /\ f = c.from[1] /\ t = c.to[1] /\ t <= w /\ u = f * r /\ v = t * r
      <4>1. c.from[1] \in Nat /\ c.to[1] \in Nat /\ c.to[1] <= w
        BY <1>8
      <4>2. \A a \in Nat : a * r \in Nat
        OBVIOUS
      <4> QED
        BY <4>1, <4>2
    <3>3. u <= e.minLon - W
      <4>1. PICK d \in Nat : d = e.minLon - W
        BY <1>4, <1>7
      <4>2. d \div r \in Nat /\ r * (d \div r) <= d
        BY <4>1, DivGreatest
      <4>3. f = d \div r
        BY <1>8, <3>2, <4>1, <4>2 DEF From, Larger
      <4>4. r * f = f * r
        BY <3>2
      <4> QED
        BY <3>2, <4>1, <4>2, <4>3, <4>4
    <3>4. v <= w * r
      <4>1. r * t <= r * w
        BY <3>2, TimesMonotone
      <4>2. r * t = t * r /\ r * w = w * r
        BY <3>2
      <4> QED
        BY <3>2, <4>1, <4>2
    <3>5. W + u \in Int /\ W + v \in Int /\ (W < 0 => W + u < 0) /\ W + v <= E
      <4>1. w * r \in Int
        BY <1>4
      <4> QED
        BY <1>4, <1>7, <3>2, <3>3, <3>4, <4>1
    <3> QED
      BY <3>1, <3>2, <3>5
  <2> QED
    BY <1>1, <2>1, <2>2, ReadRegionIs DEF e
<1>10. Circle \div 2 \in Int
  BY PlacesAssumption
<1> QED
  BY <1>2, <1>3, <1>4, <1>9, <1>10 DEF Uses360

-----------------------------------------------------------------------------
(* Area queries: across the prime meridian *)

\* A cell of the answer across the prime meridian in the grid's own rows and
\* columns.
MeridianLon(mid) == IF mid < 0 THEN mid + 2 * Circle ELSE mid
MeridianColumns(g, mid) ==
    LET x == ColumnAt(g, 0, MeridianLon(mid), 2)
    IN  {x % Shape(g, 0)[1], RightOf(g, x)}
MeridianRows(g, lat) ==
    LET y == RowAt(g, 0, lat, 2)
    IN  {y, Smaller(y + 1, Shape(g, 0)[2] - 1)}
MeridianOut(g, mid, lat) ==
    LET x == ColumnAt(g, 0, MeridianLon(mid), 2)
    IN  \/ RowAt(g, 0, lat, 2) \notin 0 .. Shape(g, 0)[2] - 1
        \/ x < 0
        \/ Span(g.box)[1] <= GlobalWidth /\ x >= Shape(g, 0)[1]

\* PrimeMeridianCell in these terms.
LEMMA MeridianCellIs ==
    ASSUME NEW g \in Grids, NEW reg, IsWhole(g, reg), NEW b \in BoxType,
           NEW x \in Int, NEW y \in Int
    PROVE  LET mid == 2 * b.minLon + (2 * x + 1) * Resolution(g, 0)[1]
               lat == 2 * b.maxLat - (2 * y + 1) * Resolution(g, 0)[2]
               blocks == Blocks(g, 0, MeridianColumns(g, mid), MeridianRows(g, lat))
           IN  PrimeMeridianCell(reg, b, x, y) =
                   IF MeridianOut(g, mid, lat) \/ {} \in blocks THEN {} ELSE UNION blocks
<1> DEFINE r == reg.res
           global == Span(reg.box)[1] > GlobalWidth
           Turn(lon2) == IF lon2 < 0 THEN lon2 + 2 * Circle ELSE lon2
           mid == 2 * b.minLon + (2 * x + 1) * r[1]
           lat == 2 * b.maxLat - (2 * y + 1) * r[2]
           x1 == (Turn(mid) - 2 * reg.box.minLon) \div (2 * r[1])
           y1 == (2 * reg.box.maxLat - 2 * b.maxLat + (2 * y + 1) * r[2]) \div (2 * r[2])
           x2 == IF global /\ x1 + 1 >= reg.width THEN 0 ELSE Smaller(x1 + 1, reg.width - 1)
           y2 == Smaller(y1 + 1, reg.height - 1)
           corners == Corners(reg, {x1 % reg.width, x2}, {y1, y2})
           out == \/ y1 \notin 0 .. reg.height - 1
                  \/ x1 < 0 \/ (~global /\ x1 >= reg.width)
           columns == MeridianColumns(g, mid)
           rows == MeridianRows(g, lat)
           blocks == Blocks(g, 0, columns, rows)
<1>1. PrimeMeridianCell(reg, b, x, y) =
          IF \/ y1 \notin 0 .. reg.height - 1
             \/ x1 < 0 \/ (~global /\ x1 >= reg.width)
             \/ {} \in corners
          THEN {} ELSE UNION corners
  BY Zenon DEF PrimeMeridianCell
<1>2. 0 \in Levels(g)
  BY Native
<1>3. PICK w \in Nat \ {0}, h \in Nat \ {0}, r1 \in Nat \ {0}, r2 \in Nat \ {0},
           W \in Int, N \in Int :
          /\ w = Shape(g, 0)[1] /\ h = Shape(g, 0)[2]
          /\ r1 = Resolution(g, 0)[1] /\ r2 = Resolution(g, 0)[2]
          /\ W = g.box.minLon /\ N = g.box.maxLat
          /\ w = g.shape[1]
  <2>1. /\ Shape(g, 0)[1] \in Nat \ {0} /\ Shape(g, 0)[2] \in Nat \ {0}
        /\ Resolution(g, 0)[1] \in Nat \ {0} /\ Resolution(g, 0)[2] \in Nat \ {0}
        /\ g.box.minLon \in Int /\ g.box.maxLat \in Int
        /\ Shape(g, 0)[1] = g.shape[1]
    BY <1>2, LevelNumbers, Native
  <2> QED
    BY <2>1, Zenon
<1>4. /\ reg.width = w /\ reg.height = h /\ r[1] = r1 /\ r[2] = r2
      /\ reg.box.minLon = W /\ reg.box.maxLat = N
      /\ Span(reg.box) = Span(g.box)
      /\ \A i \in 0 .. w - 1, j \in 0 .. h - 1 : reg.data[j * w + i] = Stored(g, 0, i, j)
  BY <1>3 DEF IsWhole, Span
<1>5. mid \in Int /\ lat \in Int
  <2>1. (2 * x + 1) * r1 \in Int /\ (2 * y + 1) * r2 \in Int
    BY <1>3
  <2>2. 2 * b.minLon \in Int /\ 2 * b.maxLat \in Int
    BY DEF BoxType
  <2> QED
    BY <1>4, <2>1, <2>2
<1>6. x1 = ColumnAt(g, 0, MeridianLon(mid), 2)
  <2> HIDE DEF mid
  <2> QED
    BY <1>3, <1>4 DEF ColumnAt, MeridianLon
<1>7. y1 = RowAt(g, 0, lat, 2)
  <2>1. PICK v \in Int, m \in Int : v = (2 * y + 1) * r2 /\ m = 2 * b.maxLat
    <3>1. (2 * y + 1) * r2 \in Int /\ 2 * b.maxLat \in Int
      BY <1>3 DEF BoxType
    <3> QED
      BY <3>1
  <2>2. 2 * N - m + v = 2 * N - (m - v)
    BY <1>3, <2>1
  <2> QED
    BY <1>3, <1>4, <2>1, <2>2 DEF RowAt
<1>8. x1 \in Int /\ y1 \in Int
  <2>1. PICK p1 \in Nat \ {0}, p2 \in Nat \ {0} : p1 = 2 * r1 /\ p2 = 2 * r2
    BY <1>3
  <2>2. PICK u \in Int, v \in Int :
            u = Turn(mid) - 2 * W /\ v = 2 * N - 2 * b.maxLat + (2 * y + 1) * r2
    <3>1. Turn(mid) \in Int
      <4> HIDE DEF mid
      <4> QED
        BY <1>5, PlacesAssumption
    <3>2. (2 * y + 1) * r2 \in Int /\ 2 * b.maxLat \in Int
      BY <1>3 DEF BoxType
    <3>3. \A t, m, v \in Int : t - 2 * W \in Int /\ 2 * N - m + v \in Int
      OBVIOUS
    <3> HIDE DEF Turn, mid
    <3> QED
      BY <3>1, <3>2, <3>3
  <2>3. u \div p1 \in Int /\ v \div p2 \in Int
    BY DivMod
  <2> HIDE DEF Turn, mid
  <2> QED
    BY <1>4, <2>1, <2>2, <2>3
<1> HIDE DEF x1, y1, mid, lat
<1>9. global = (Span(g.box)[1] > GlobalWidth)
  BY <1>4
<1>10. x2 = RightOf(g, x1)
  BY <1>3, <1>4 DEF RightOf
<1>11. out = MeridianOut(g, mid, lat)
  <2>1. Span(g.box)[1] \in Int /\ GlobalWidth \in Int
    BY GridNumbers, <1>2, PlacesAssumption
  <2> QED
    BY <1>3, <1>4, <1>6, <1>7, <2>1 DEF MeridianOut
<1>12. ASSUME ~out
       PROVE  corners = blocks
  <2>1. x1 \in Nat /\ y1 \in 0 .. h - 1
    BY <1>4, <1>8, <1>12
  <2>2. x1 % w \in 0 .. w - 1 /\ x2 \in 0 .. w - 1
    <3>1. x1 % w \in 0 .. w - 1
      BY <2>1
    <3>2. x2 \in 0 .. w - 1
      BY <1>4, <2>1 DEF Smaller
    <3> QED
      BY <3>1, <3>2
  <2>3. y2 \in 0 .. h - 1
    BY <1>4, <2>1 DEF Smaller
  <2>4. columns = {x1 % w, x2} /\ rows = {y1, y2}
    BY <1>3, <1>4, <1>6, <1>7, <1>10 DEF MeridianColumns, MeridianRows
  <2>5. columns \subseteq 0 .. w - 1 /\ rows \subseteq 0 .. h - 1
    BY <2>1, <2>2, <2>3, <2>4
  <2>6. corners = Corners(reg, columns, rows)
    BY <1>4, <2>4
  <2> HIDE DEF columns, rows, corners
  <2>7. Corners(reg, columns, rows) = {reg.data[j * w + i] : i \in columns, j \in rows}
    BY <1>4 DEF Corners
  <2>8. \A i \in columns, j \in rows : reg.data[j * w + i] = Stored(g, 0, i, j)
    BY <1>4, <2>5
  <2>9. corners = {Stored(g, 0, i, j) : i \in columns, j \in rows}
    BY <2>6, <2>7, <2>8
  <2>10. blocks = {Stored(g, 0, i, j) : i \in columns, j \in rows}
    BY DEF Blocks, blocks
  <2> HIDE DEF blocks
  <2> QED
    BY <2>9, <2>10
<1> HIDE DEF corners, blocks, out
<1>13. PrimeMeridianCell(reg, b, x, y) = IF out \/ {} \in blocks THEN {} ELSE UNION blocks
  <2>1. PrimeMeridianCell(reg, b, x, y) = IF out \/ {} \in corners THEN {} ELSE UNION corners
    BY <1>1, Zenon DEF out
  <2> QED
    BY <1>12, <2>1, Zenon
<1> QED
  BY <1>3, <1>4, <1>11, <1>13 DEF blocks, columns, rows, mid, lat

\* A native cell beside a place is near it.
LEMMA BesideLon ==
    ASSUME NEW g \in Grids, NEW lon \in Int, NEW turn \in {-Circle, 0, Circle},
           NEW x \in Nat, NEW i \in {x, x + 1}, i < Shape(g, 0)[1],
           (2 * Resolution(g, 0)[1]) * x <= lon - 2 * (g.box.minLon + turn),
           lon - 2 * (g.box.minLon + turn) <= (2 * Resolution(g, 0)[1]) * (x + 1),
           NEW n, n[1] = i
    PROVE  NearLon(g, n, lon, 2, 2)
<1>1. 2^0 = 1 /\ (5 * 2^0) \div 2 = 2
  OBVIOUS
<1>2. n[1] \in i * 2^0 .. i * 2^0 + 2^0 - 1
  BY <1>1
<1>3. 0 \in Levels(g)
  BY Native
<1>4. NearLon(g, n, lon, 2, (5 * 2^0) \div 2)
  <2>1. 2 \in Nat \ {0}
    OBVIOUS
  <2> QED
    BY <1>2, <1>3, <2>1, CellNearLon, Zenon
<1> QED
  BY <1>1, <1>4

LEMMA BesideLat ==
    ASSUME NEW g \in Grids, NEW lat \in Int,
           NEW y \in Nat, NEW j \in {y, y + 1}, j < Shape(g, 0)[2],
           (2 * Resolution(g, 0)[2]) * y <= 2 * g.box.maxLat - lat,
           2 * g.box.maxLat - lat <= (2 * Resolution(g, 0)[2]) * (y + 1),
           NEW n, n[2] = j
    PROVE  NearLat(g, n, lat, 2, 2)
<1>1. 2^0 = 1 /\ (5 * 2^0) \div 2 = 2
  OBVIOUS
<1>2. n[2] \in j * 2^0 .. j * 2^0 + 2^0 - 1
  BY <1>1
<1>3. 0 \in Levels(g)
  BY Native
<1>4. NearLat(g, n, lat, 2, (5 * 2^0) \div 2)
  <2>1. 2 \in Nat \ {0}
    OBVIOUS
  <2> QED
    BY <1>2, <1>3, <2>1, CellNearLat, Zenon
<1> QED
  BY <1>1, <1>4

\* The columns of a cell across the prime meridian are near it, round the globe
\* too.
LEMMA MeridianColumnNear ==
    ASSUME NEW g \in Grids, Uses360(g.box), NEW mid \in Int, NEW lat,
           ~MeridianOut(g, mid, lat),
           -(2 * Circle) < mid, mid < 2 * Circle + Resolution(g, 0)[1],
           NEW i \in MeridianColumns(g, mid), NEW n, n[1] = i
    PROVE  NearLon(g, n, mid, 2, 2)
<1> DEFINE T == MeridianLon(mid)
           x == ColumnAt(g, 0, T, 2)
           pos == T - 2 * g.box.minLon
<1>1. 0 \in Levels(g) /\ 2^0 = 1 /\ (5 * 2^0) \div 2 = 2
  BY Native
<1>2. PICK w \in Nat \ {0}, r \in Nat \ {0}, W \in Nat, S \in Nat \ {0} :
          /\ w = Shape(g, 0)[1] /\ r = Resolution(g, 0)[1] /\ W = g.box.minLon
          /\ S = Span(g.box)[1] /\ S = w * r /\ w = g.shape[1]
  <2>1. /\ Shape(g, 0)[1] \in Nat \ {0} /\ Resolution(g, 0)[1] \in Nat \ {0}
        /\ Span(g.box)[1] = Shape(g, 0)[1] * Resolution(g, 0)[1]
        /\ g.box.minLon \in Nat /\ Shape(g, 0)[1] = g.shape[1]
    BY <1>1, LevelNumbers, Native DEF Uses360
  <2>2. \A u, v \in Nat \ {0} : u * v \in Nat \ {0}
    OBVIOUS
  <2>3. Span(g.box)[1] \in Nat \ {0}
    BY <2>1, <2>2
  <2> QED
    BY <2>1, <2>3, Zenon
<1>3. Circle \in Nat
  BY PlacesAssumption
<1>4. PICK t \in {0, Circle} : T = mid + 2 * t /\ 0 <= T /\ T < 2 * Circle + r
  BY <1>2, <1>3 DEF MeridianLon
<1>5. T \in Int /\ pos \in Int /\ pos < 2 * Circle + r
  BY <1>2, <1>3, <1>4
<1> HIDE DEF T
<1>6. PICK p \in Nat \ {0} : p = 2 * r
  BY <1>2
<1>7. x = pos \div p /\ x \in Int /\ p * x <= pos /\ pos < p * (x + 1)
  <2>1. x = pos \div p
    BY <1>2, <1>6 DEF ColumnAt
  <2> HIDE DEF x, pos
  <2> QED
    BY <1>5, <1>6, <2>1, InCell
<1>8. x >= 0 /\ (S <= GlobalWidth => x < w)
  <2>1. x = ColumnAt(g, 0, MeridianLon(mid), 2)
    BY DEF T
  <2> HIDE DEF x
  <2>2. ~(x < 0) /\ ~(Span(g.box)[1] <= GlobalWidth /\ x >= Shape(g, 0)[1])
    BY <2>1, Zenon DEF MeridianOut
  <2> QED
    BY <1>2, <1>7, <2>2
<1>9. i = x % w \/ i = RightOf(g, x)
  <2>1. x = ColumnAt(g, 0, MeridianLon(mid), 2)
    BY DEF T
  <2> HIDE DEF x
  <2> QED
    BY <1>2, <2>1 DEF MeridianColumns
<1>10. PICK c \in Nat, back \in Int, on \in Int :
           /\ c = Circle /\ back = -t /\ on = c - t
           /\ back \in {-Circle, 0, Circle} /\ back \in {-Circle, 0}
           /\ on \in {-Circle, 0, Circle}
           /\ mid - 2 * (W + back) = pos /\ mid - 2 * (W + on) = pos - 2 * c
  <2>1. t \in Int
    BY <1>3
  <2>2. T = mid + 2 * t /\ pos = T - 2 * W /\ (t = 0 \/ t = Circle)
    BY <1>2, <1>4
  <2> HIDE DEF pos
  <2>3. /\ -t \in Int /\ Circle - t \in Int
        /\ -t \in {-Circle, 0, Circle} /\ -t \in {-Circle, 0}
        /\ Circle - t \in {-Circle, 0, Circle}
    BY <1>3, <2>1, <2>2
  <2>4. mid - 2 * (W + (-t)) = pos /\ mid - 2 * (W + (Circle - t)) = pos - 2 * Circle
    <3>1. \A m, u, v, d, e \in Int :
              e = (m + 2 * u) - 2 * v =>
                  m - 2 * (v + (-u)) = e /\ m - 2 * (v + (d - u)) = e - 2 * d
      OBVIOUS
    <3>2. pos = (mid + 2 * t) - 2 * W /\ W \in Int /\ Circle \in Int
      BY <1>2, <1>3, <2>2
    <3> QED
      BY <1>5, <2>1, <3>1, <3>2
  <2> QED
    BY <1>3, <2>3, <2>4
<1> HIDE DEF x, pos
<1>11. CASE x < w
  <2>1. x % w = x
    <3>1. x \in 0 .. w - 1 /\ x = w * 0 + x /\ 0 \in Int
      BY <1>7, <1>8, <1>11
    <3> QED
      BY <3>1, Quotient
  <2>2. CASE i \in {x, x + 1} /\ i < w
    <3>1. x \in Nat
      BY <1>7, <1>8
    <3>2. pos <= p * (x + 1) /\ (2 * r) * x <= pos /\ (2 * r) * (x + 1) = p * (x + 1)
      <4>1. p * (x + 1) \in Int
        BY <1>7
      <4> QED
        BY <1>5, <1>6, <1>7, <4>1
    <3> HIDE DEF NearLon
    <3> QED
      BY <1>2, <1>10, <2>2, <3>1, <3>2, BesideLon
  <2>3. CASE ~(i \in {x, x + 1} /\ i < w)
    <3>1. i = 0 /\ S > GlobalWidth /\ x = w - 1 /\ 2 <= w
      <4>1. GlobalWidth \in Int
        BY PlacesAssumption
      <4>2. \/ RightOf(g, x) = 0 /\ S > GlobalWidth /\ x + 1 >= w
            \/ RightOf(g, x) = Smaller(x + 1, w - 1)
        BY <1>2, <1>7, <4>1 DEF RightOf
      <4>3. Smaller(x + 1, w - 1) \in {x, x + 1} /\ Smaller(x + 1, w - 1) < w
        <5>1. x \in Int /\ w \in Int /\ x < w
          BY <1>7, <1>11
        <5> QED
          BY <5>1 DEF Smaller
      <4>4. i = 0 /\ S > GlobalWidth /\ x + 1 >= w
        BY <1>7, <1>9, <1>11, <2>1, <2>3, <4>2, <4>3
      <4> QED
        BY <1>7, <1>8, <1>11, <2>3, <4>4
    <3>2. pos <= 2 * Circle /\ 2 * (S - r) <= pos
      <4>1. S <= Circle
        BY <1>2, <3>1, GridsAssumption
      <4>2. p * x = 2 * (S - r) /\ p * (x + 1) = 2 * S
        <5>1. (2 * r) * (w - 1) = 2 * (w * r - r) /\ (2 * r) * w = 2 * (w * r)
          OBVIOUS
        <5>2. x + 1 = w
          BY <3>1
        <5> QED
          BY <1>2, <1>6, <3>1, <5>1, <5>2
      <4> QED
        BY <1>2, <1>3, <1>5, <1>7, <4>1, <4>2
    <3>3. n[1] \in i * 2^0 .. i * 2^0 + 2^0 - 1
      BY <1>1, <3>1
    <3>4. NearLon(g, n, mid, 2, (5 * 2^0) \div 2)
      <4>1. 2 \in Nat \ {0} /\ i \in {0, Shape(g, 0)[1] - 1}
        BY <3>1
      <4>2. LET q == mid - 2 * (g.box.minLon + back)
            IN  /\ q <= 2 * Circle
                /\ \/ 2 * Span(g.box)[1] <= q
                   \/ /\ i = 0 /\ 2 <= Shape(g, 0)[1]
                      /\ 2 * (Span(g.box)[1] - Resolution(g, 0)[1]) <= q
        BY <1>2, <1>10, <3>1, <3>2
      <4>3. Span(g.box)[1] > GlobalWidth
        BY <1>2, <3>1
      <4> HIDE DEF NearLon
      <4> QED
        BY <1>1, <1>10, <3>3, <4>1, <4>2, <4>3, GapNearLon
    <3> QED
      BY <1>1, <3>4
  <2> QED
    BY <2>2, <2>3
<1>12. CASE x >= w
  <2>1. S > GlobalWidth
    BY <1>2, <1>3, <1>7, <1>8, <1>12, PlacesAssumption
  <2>2. S <= Circle /\ (w - 1) * (Circle - S) <= S
    BY <1>2, <2>1, GridsAssumption
  <2>3. i \in {0, (pos \div (2 * r)) % w}
    <3>1. RightOf(g, x) = 0
      BY <1>2, <1>7, <1>12, <2>1 DEF RightOf
    <3> QED
      BY <1>6, <1>7, <1>9, <3>1
  <2>4. 2 * S <= pos
    <3>1. p * w <= p * x
      BY <1>6, <1>7, <1>12, TimesMonotone
    <3>2. p * w = 2 * (w * r)
      BY <1>6
    <3>3. p * x \in Int
      BY <1>7
    <3> QED
      BY <1>2, <1>5, <1>7, <3>1, <3>2, <3>3
  <2>5. /\ i \in 0 .. w - 1
        /\ 2 * (i * (w * r)) - (w - 1) * (pos - 2 * Circle)
               \in -(2 * (2 * (w * r))) .. 2 * (2 * (w * r))
    <3>1. w * r <= Circle /\ (w - 1) * (Circle - w * r) <= w * r /\ 2 * (w * r) <= pos
      BY <1>2, <2>2, <2>4
    <3> QED
      BY <1>3, <1>5, <2>3, <3>1, BeyondNear
  <2>7. 2 * (n[1] * Span(g.box)[1])
            - (g.shape[1] - 1) * (mid - 2 * (g.box.minLon + on))
            \in -(2 * (2 * Span(g.box)[1])) .. 2 * (2 * Span(g.box)[1])
    BY <1>2, <1>10, <2>5
  <2>8. n[1] \in Int /\ 2 \in Nat /\ 2 <= 2
    BY <2>5
  <2> HIDE DEF NearLon
  <2> QED
    BY <1>10, <2>7, <2>8, LonNearBy
<1> QED
  BY <1>2, <1>7, <1>11, <1>12

LEMMA MeridianRowNear ==
    ASSUME NEW g \in Grids, NEW mid, NEW lat \in Int,
           ~MeridianOut(g, mid, lat),
           NEW j \in MeridianRows(g, lat), NEW n, n[2] = j
    PROVE  NearLat(g, n, lat, 2, 2)
<1> DEFINE y == RowAt(g, 0, lat, 2)
           pos == 2 * g.box.maxLat - lat
<1>1. 0 \in Levels(g)
  BY Native
<1>2. PICK h \in Nat \ {0}, r \in Nat \ {0}, N \in Int :
          h = Shape(g, 0)[2] /\ r = Resolution(g, 0)[2] /\ N = g.box.maxLat
  <2>1. /\ Shape(g, 0)[2] \in Nat \ {0} /\ Resolution(g, 0)[2] \in Nat \ {0}
        /\ g.box.maxLat \in Int
    BY <1>1, LevelNumbers
  <2> QED
    BY <2>1, Zenon
<1>3. y \in 0 .. h - 1
  BY <1>2 DEF MeridianOut
<1>4. j \in {y, y + 1} /\ j < h
  BY <1>2, <1>3 DEF MeridianRows, Smaller
<1>5. PICK p \in Nat \ {0} : p = 2 * r
  BY <1>2
<1>6. pos \in Int /\ y = pos \div p
  BY <1>2, <1>5 DEF RowAt
<1> HIDE DEF y, pos
<1>7. p * y <= pos /\ pos < p * (y + 1)
  BY <1>5, <1>6, InCell
<1>8. (2 * r) * y <= pos /\ pos <= (2 * r) * (y + 1)
  <2>1. p * (y + 1) \in Int
    BY <1>3
  <2> QED
    BY <1>5, <1>6, <1>7, <2>1
<1> HIDE DEF NearLat
<1> QED
  <2>1. /\ y \in Nat /\ j \in {y, y + 1} /\ j < Shape(g, 0)[2]
        /\ (2 * Resolution(g, 0)[2]) * y <= 2 * g.box.maxLat - lat
        /\ 2 * g.box.maxLat - lat <= (2 * Resolution(g, 0)[2]) * (y + 1)
    BY <1>2, <1>3, <1>4, <1>8 DEF pos
  <2> QED
    BY <2>1, BesideLat

-----------------------------------------------------------------------------
(* Area queries: what the answer is made of *)

\* A value of a region in the grid's own rows and columns.
LEMMA RegionPlace ==
    ASSUME NEW g \in Grids, ~g.projected, NEW l \in Levels(g), NEW q \in BoxType,
           NEW reg, RegionOf(g, l, q, reg), NEW o \in DOMAIN reg.data
    PROVE  LET c == Cells(g, l, EffectiveBox(g, l, q))
               r == Resolution(g, l)
           IN  \E col \in 0 .. Shape(g, l)[1] - 1, row \in 0 .. Shape(g, l)[2] - 1 :
                   /\ c.from[1] <= col /\ col < c.to[1]
                   /\ c.from[2] <= row /\ row < c.to[2]
                   /\ reg.data[o] = Stored(g, l, col, row)
                   /\ MiddleLon(reg, o) = 2 * g.box.minLon + (2 * col + 1) * r[1]
                   /\ MiddleLat(reg, o) = 2 * g.box.maxLat - (2 * row + 1) * r[2]
<1> DEFINE c == Cells(g, l, EffectiveBox(g, l, q))
           r == Resolution(g, l)
<1>1. /\ reg.width = c.to[1] - c.from[1] /\ reg.width \in Nat \ {0}
      /\ reg.height = c.to[2] - c.from[2] /\ reg.height \in Nat \ {0}
      /\ o \in 0 .. reg.width * reg.height - 1
      /\ reg.res = r
      /\ reg.data[o] = Stored(g, l, c.from[1] + (o % reg.width),
                                    c.from[2] + (o \div reg.width))
  BY DEF RegionOf
<1>2. /\ c.from[1] \in Nat /\ c.to[1] \in 0 .. Shape(g, l)[1] /\ c.from[1] < c.to[1]
      /\ c.from[2] \in Nat /\ c.to[2] \in 0 .. Shape(g, l)[2] /\ c.from[2] < c.to[2]
      /\ reg.box.minLon = g.box.minLon + c.from[1] * r[1]
      /\ reg.box.maxLat = g.box.maxLat - c.from[2] * r[2]
  BY RegionSides
<1> HIDE DEF c, r
<1>3. PICK f1 \in Nat, t1 \in Nat, f2 \in Nat, t2 \in Nat, w \in Nat \ {0}, h \in Nat \ {0} :
          /\ f1 = c.from[1] /\ t1 = c.to[1] /\ f2 = c.from[2] /\ t2 = c.to[2]
          /\ w = reg.width /\ h = reg.height /\ w = t1 - f1 /\ h = t2 - f2
          /\ t1 <= Shape(g, l)[1] /\ t2 <= Shape(g, l)[2]
  <2>1. \A u : \A t \in 0 .. u : u \in Nat => t \in Nat /\ t <= u
    OBVIOUS
  <2>2. Shape(g, l)[1] \in Nat /\ Shape(g, l)[2] \in Nat
    BY LevelNumbers
  <2> QED
    BY <1>1, <1>2, <2>1, <2>2
<1>4. PICK x \in 0 .. w - 1, y \in 0 .. h - 1 : x = o % w /\ y = o \div w
  BY <1>1, <1>3, InTable
<1>5. PICK r1 \in Nat, r2 \in Nat, W \in Int, N \in Int :
          r1 = r[1] /\ r2 = r[2] /\ W = g.box.minLon /\ N = g.box.maxLat
  BY LevelNumbers DEF r
<1>6. PICK col \in Nat, row \in Nat : /\ col = f1 + x /\ row = f2 + y
                                      /\ f1 <= col /\ col < t1 /\ f2 <= row /\ row < t2
  <2>1. f1 + x \in Nat /\ f2 + y \in Nat /\ f1 <= f1 + x /\ f1 + x < t1
        /\ f2 <= f2 + y /\ f2 + y < t2
    BY <1>3
  <2> QED
    BY <2>1
<1>7. col \in 0 .. Shape(g, l)[1] - 1 /\ row \in 0 .. Shape(g, l)[2] - 1
  <2>1. Shape(g, l)[1] \in Nat /\ Shape(g, l)[2] \in Nat
    BY LevelNumbers
  <2> QED
    BY <1>3, <1>6, <2>1
<1>8. \A a, u, v, s \in Int :
          /\ 2 * (a + u * s) + (2 * v + 1) * s = 2 * a + (2 * (u + v) + 1) * s
          /\ 2 * (a - u * s) - (2 * v + 1) * s = 2 * a - (2 * (u + v) + 1) * s
  OBVIOUS
<1>9. MiddleLon(reg, o) = 2 * W + (2 * col + 1) * r1
  <2>1. MiddleLon(reg, o) = 2 * (W + f1 * r1) + (2 * x + 1) * r1
    BY <1>1, <1>2, <1>3, <1>4, <1>5 DEF MiddleLon
  <2>2. x \in Int /\ f1 \in Int /\ r1 \in Int
    OBVIOUS
  <2> QED
    BY <1>6, <1>8, <2>1, <2>2
<1>10. MiddleLat(reg, o) = 2 * N - (2 * row + 1) * r2
  <2>1. MiddleLat(reg, o) = 2 * (N - f2 * r2) - (2 * y + 1) * r2
    BY <1>1, <1>2, <1>3, <1>4, <1>5 DEF MiddleLat
  <2>2. y \in Int /\ f2 \in Int /\ r2 \in Int
    OBVIOUS
  <2> QED
    BY <1>6, <1>8, <2>1, <2>2
<1>11. reg.data[o] = Stored(g, l, col, row)
  BY <1>1, <1>3, <1>4, <1>6
<1> QED
  BY <1>3, <1>5, <1>6, <1>7, <1>9, <1>10, <1>11 DEF c, r

\* What the area query makes of a region it keeps.
AreaAnswer(reg, b) == ExtractDateline(ExtractPrimeMeridian(reg, b), b)

\* Its data and its places are those of the region.
LEMMA KeptIs ==
    ASSUME NEW g \in Grids, NEW b \in BoxType,
           NEW reg \in ReadRegion(g, 0, b), reg.kind = "region", Kept(reg, b)
    PROVE  LET out == AreaAnswer(reg, b)
           IN  /\ out.data = reg.data
               /\ \A o : MiddleLon(out, o) = MiddleLon(reg, o) /\ MiddleLat(out, o) = MiddleLat(reg, o)
               /\ out.res = reg.res /\ out.kind = "region"
<1> DEFINE out == AreaAnswer(reg, b)
<1>1. reg = Region(reg.data, reg.width, reg.height, reg.box, reg.res) /\ IsRecord(reg.box)
  BY Native, RegionIsRecord
<1>2. ExtractPrimeMeridian(reg, b) = reg
  BY Zenon DEF Kept, ExtractPrimeMeridian
<1>3. out = reg \/ out = [reg EXCEPT !.box.maxLon = @ - Circle]
  BY <1>2 DEF AreaAnswer, ExtractDateline
<1> HIDE DEF out
<1>4. /\ out.data = reg.data /\ out.width = reg.width /\ out.res = reg.res
      /\ out.kind = "region"
      /\ out.box.minLon = reg.box.minLon /\ out.box.maxLat = reg.box.maxLat
  <2>1. CASE out = reg
    BY <2>1
  <2>2. CASE out = [reg EXCEPT !.box.maxLon = @ - Circle]
    BY <1>1, <2>2 DEF Region, IsRecord
  <2> QED
    BY <1>3, <2>1, <2>2
<1>5. \A o : MiddleLon(out, o) = MiddleLon(reg, o) /\ MiddleLat(out, o) = MiddleLat(reg, o)
  BY <1>4, Zenon DEF MiddleLon, MiddleLat
<1> QED
  BY <1>4, <1>5 DEF out

\* And of the others: cells of its own.
Side(b, r, i) == Larger(CeilDiv(Span(b)[i], r[i]), 1)

LEMMA MadeIs ==
    ASSUME NEW reg, NEW b \in BoxType, reg.kind = "region", ~Kept(reg, b)
    PROVE  LET out == AreaAnswer(reg, b)
               w == Side(b, reg.res, 1)
               h == Side(b, reg.res, 2)
           IN  /\ DOMAIN out.data = 0 .. w * h - 1
               /\ \A o \in 0 .. w * h - 1 :
                      out.data[o] = PrimeMeridianCell(reg, b, o % w, o \div w)
               /\ \A o : /\ MiddleLon(out, o) = 2 * b.minLon + (2 * (o % w) + 1) * reg.res[1]
                         /\ MiddleLat(out, o) = 2 * b.maxLat - (2 * (o \div w) + 1) * reg.res[2]
               /\ out.res = reg.res
<1> DEFINE pm == ExtractPrimeMeridian(reg, b)
           out == AreaAnswer(reg, b)
           w == Side(b, reg.res, 1)
           h == Side(b, reg.res, 2)
           data == [o \in 0 .. w * h - 1 |-> PrimeMeridianCell(reg, b, o % w, o \div w)]
<1>1. b.minLon \in Int /\ ~(b.minLon >= 0)
  BY DEF BoxType, Kept
<1>2. pm = Region(data, w, h, b, reg.res)
  <2>1. ~(\/ ~Uses360(reg.box) \/ b.minLon >= 0 \/ b.maxLon <= 0)
    BY Zenon DEF Kept
  <2> DEFINE size == [i \in 1 .. 2 |-> Side(b, reg.res, i)]
  <2>3. pm = Region([o \in 0 .. size[1] * size[2] - 1 |->
                        PrimeMeridianCell(reg, b, o % size[1], o \div size[1])],
                    size[1], size[2], b, reg.res)
    BY <2>1, Zenon DEF ExtractPrimeMeridian, Side
  <2>4. size[1] = w /\ size[2] = h
    <3> HIDE DEF w, h
    <3> QED
      BY DEF w, h
  <2> HIDE DEF size
  <2> QED
    BY <2>3, <2>4
<1>3. out = pm
  BY <1>1, Zenon DEF AreaAnswer, ExtractDateline
<1> HIDE DEF out, pm, w, h, data
<1>4. out.data = data /\ out.width = w /\ out.box = b /\ out.res = reg.res
  BY <1>2, <1>3 DEF Region
<1>5. \A o : /\ MiddleLon(out, o) = 2 * b.minLon + (2 * (o % w) + 1) * reg.res[1]
             /\ MiddleLat(out, o) = 2 * b.maxLat - (2 * (o \div w) + 1) * reg.res[2]
  BY <1>4, Zenon DEF MiddleLon, MiddleLat
<1>6. /\ DOMAIN data = 0 .. w * h - 1
      /\ \A o \in 0 .. w * h - 1 : data[o] = PrimeMeridianCell(reg, b, o % w, o \div w)
  BY DEF data
<1> QED
  BY <1>4, <1>5, <1>6 DEF out, w, h

\* The cells that are read for lo to hi begin and end no farther from them than
\* the buffer and half a cell more.
LEMMA AxisClipped ==
    ASSUME NEW r \in Nat \ {0}, NEW s \in Nat \ {0}, NEW buffer \in Nat,
           NEW lo \in Int, NEW hi \in Int, NEW col \in Nat,
           From(Larger(lo - buffer * r, 0), r) <= col,
           col < Until(Smaller(hi + buffer * r, s * r), r, s)
    PROVE  /\ (2 * col + 1) * r \in Int /\ (2 * buffer + 1) * r \in Nat
           /\ 2 * lo - (2 * buffer + 1) * r <= (2 * col + 1) * r
           /\ (2 * col + 1) * r <= 2 * hi + (2 * buffer + 1) * r
<1>1. PICK br \in Nat, cr \in Nat : br = buffer * r /\ cr = col * r
  OBVIOUS
<1>2. (2 * buffer + 1) * r = 2 * br + r /\ (2 * col + 1) * r = 2 * cr + r
  <2>1. (2 * buffer + 1) * r = 2 * (buffer * r) + r /\ (2 * col + 1) * r = 2 * (col * r) + r
    OBVIOUS
  <2> QED
    BY <1>1, <2>1
<1>3. PICK first \in Nat : first = Larger(lo - br, 0) /\ lo - br <= first
  BY <1>1 DEF Larger
<1>4. PICK q \in Nat : q = first \div r /\ first < r * (q + 1)
  <2>1. first \div r \in Nat /\ first < r * (first \div r + 1)
    BY InCell
  <2> QED
    BY <2>1
<1>5. q <= col
  BY <1>1, <1>3, <1>4 DEF From, Larger
<1>6. first < cr + r
  <2>1. r * q <= r * col
    BY <1>5, TimesMonotone
  <2>2. r * (q + 1) = r * q + r /\ r * col = col * r
    OBVIOUS
  <2>3. r * q \in Int
    OBVIOUS
  <2> QED
    BY <1>1, <1>4, <2>1, <2>2, <2>3
<1>7. PICK end \in Int : end = Smaller(hi + br, s * r) /\ end <= hi + br
  <2>1. s * r \in Int
    OBVIOUS
  <2> QED
    BY <1>1, <2>1 DEF Smaller
<1>8. PICK n \in Int : n = CeilDiv(end, r) /\ r * (n - 1) < end
  <2>1. CeilDiv(end, r) \in Int /\ r * (CeilDiv(end, r) - 1) < end
    BY CeilDivLeast
  <2> QED
    BY <2>1
<1>9. col <= n - 1
  BY <1>1, <1>7, <1>8 DEF Until, Larger, Smaller
<1>10. cr < end
  <2>1. r * col <= r * (n - 1)
    <3>1. n - 1 \in Int
      OBVIOUS
    <3> QED
      BY <1>9, <3>1, TimesMonotone
  <2>2. r * col = col * r /\ r * (n - 1) \in Int
    OBVIOUS
  <2> QED
    BY <1>1, <1>8, <2>1, <2>2
<1>11. 2 * br + r \in Nat /\ 2 * cr + r \in Int
  BY <1>1
<1> QED
  BY <1>1, <1>2, <1>3, <1>6, <1>7, <1>10, <1>11

\* What is a pixel away is two away.
LEMMA NearMore ==
    ASSUME NEW g \in Grids, NEW n, NEW lon, NEW lat,
           NearLon(g, n, lon, 2, (3 * 2^0) \div 2), NearLat(g, n, lat, 2, (3 * 2^0) \div 2),
           n[1] \in Int, n[2] \in Int, lon \in Int, lat \in Int
    PROVE  NearLon(g, n, lon, 2, 2) /\ NearLat(g, n, lat, 2, 2)
<1>1. (3 * 2^0) \div 2 = 1 /\ 2 \in Nat
  OBVIOUS
<1>2. PICK w \in Int, h \in Int, S1 \in Nat, S2 \in Nat :
          w = g.shape[1] /\ h = g.shape[2] /\ S1 = Span(g.box)[1] /\ S2 = Span(g.box)[2]
  BY Native, GridNumbers
<1>3. PICK W \in Int, N \in Int : W = g.box.minLon /\ N = g.box.maxLat
  BY Native, LevelNumbers
<1>4. \A a, b \in Int : Distance(a, b) \in Int
  BY DEF Distance
<1>5. 2 * 1 * S1 <= 2 * 2 * S1 /\ 2 * 1 * S2 <= 2 * 2 * S2
  OBVIOUS
<1>6. \A t \in {-Circle, 0, Circle} :
          /\ 2 * ((w - 1) * (W + t) + n[1] * S1) \in Int /\ (w - 1) * lon \in Int
  <2>1. \A t \in {-Circle, 0, Circle} : t \in Int
    BY PlacesAssumption
  <2> QED
    BY <2>1
<1>7. 2 * ((h - 1) * N - n[2] * S2) \in Int /\ (h - 1) * lat \in Int
  OBVIOUS
<1>8. NearLon(g, n, lon, 2, 2)
  <2>1. PICK t \in {-Circle, 0, Circle} :
            Distance(2 * ((w - 1) * (W + t) + n[1] * S1), (w - 1) * lon) <= 2 * 1 * S1
    BY <1>1, <1>2, <1>3 DEF NearLon, Gaps
  <2>2. PICK d \in Int : d = Distance(2 * ((w - 1) * (W + t) + n[1] * S1), (w - 1) * lon)
    BY <1>4, <1>6
  <2>3. d <= 2 * 2 * S1
    BY <2>1, <2>2
  <2> QED
    BY <1>2, <1>3, <2>2, <2>3, Zenon DEF NearLon, Gaps
<1>9. NearLat(g, n, lat, 2, 2)
  <2>1. PICK d \in Int : d = Distance(2 * ((h - 1) * N - n[2] * S2), (h - 1) * lat)
    BY <1>4, <1>7
  <2>2. d <= 2 * 1 * S2
    BY <1>1, <1>2, <1>3, <2>1 DEF NearLat, Gaps
  <2>3. d <= 2 * 2 * S2
    BY <2>2
  <2> QED
    BY <1>2, <1>3, <2>1, <2>3, Zenon DEF NearLat, Gaps
<1> QED
  BY <1>8, <1>9

\* A region's values that are kept are near their places, and in the rectangle.
LEMMA KeptNear ==
    ASSUME NEW g \in Grids, ~g.projected, NEW b \in Boxes,
           NEW reg, RegionOf(g, 0, b, reg), NEW o \in DOMAIN reg.data,
           NEW n \in reg.data[o]
    PROVE  NearValue(g, reg, o, n)
<1>1. 0 \in Levels(g) /\ b \in BoxType
  BY Native, ReadBoxIsBox
<1>2. PICK col \in 0 .. Shape(g, 0)[1] - 1, row \in 0 .. Shape(g, 0)[2] - 1 :
          /\ reg.data[o] = Stored(g, 0, col, row)
          /\ MiddleLon(reg, o) = 2 * g.box.minLon + (2 * col + 1) * Resolution(g, 0)[1]
          /\ MiddleLat(reg, o) = 2 * g.box.maxLat - (2 * row + 1) * Resolution(g, 0)[2]
  BY <1>1, RegionPlace
<1>3. /\ n[1] \in col * 2^0 .. col * 2^0 + 2^0 - 1
      /\ n[2] \in row * 2^0 .. row * 2^0 + 2^0 - 1
  BY <1>2 DEF Stored
<1>4. /\ NearLon(g, n, MiddleLon(reg, o), 2, (3 * 2^0) \div 2)
      /\ NearLat(g, n, MiddleLat(reg, o), 2, (3 * 2^0) \div 2)
  BY <1>1, <1>2, <1>3, LonPlaced, LatPlaced
<1>5. n[1] \in Int /\ n[2] \in Int
  <2>1. col \in Int /\ row \in Int
    BY <1>2
  <2> QED
    BY <1>3, <2>1
<1>6. MiddleLon(reg, o) \in Int /\ MiddleLat(reg, o) \in Int
  <2>1. /\ Resolution(g, 0)[1] \in Int /\ Resolution(g, 0)[2] \in Int
        /\ g.box.minLon \in Int /\ g.box.maxLat \in Int
    BY <1>1, LevelNumbers
  <2>2. \A a, c, r \in Int : 2 * a + (2 * c + 1) * r \in Int /\ 2 * a - (2 * c + 1) * r \in Int
    OBVIOUS
  <2> QED
    BY <1>2, <2>1, <2>2
<1> HIDE DEF NearLon, NearLat
<1> QED
  BY <1>4, <1>5, <1>6, NearMore DEF NearValue

LEMMA KeptClipped ==
    ASSUME NEW g \in Grids, ~g.projected, NEW b \in Boxes, InCircle(b),
           ~CrossesOn360(b, g.box),
           NEW reg, RegionOf(g, 0, b, reg), NEW o \in DOMAIN reg.data
    PROVE  InRectangle(b, reg, o)
<1> DEFINE c == Cells(g, 0, EffectiveBox(g, 0, b))
<1>1. 0 \in Levels(g) /\ b \in BoxType /\ b.minLon < b.maxLon
  BY Native, ReadBoxIsBox, BoxesAssumption DEF IsBox
<1>2. PICK r1 \in Nat \ {0}, r2 \in Nat \ {0}, s1 \in Nat \ {0}, s2 \in Nat \ {0},
           W \in Int, N \in Int :
          /\ r1 = Resolution(g, 0)[1] /\ r2 = Resolution(g, 0)[2]
          /\ s1 = Shape(g, 0)[1] /\ s2 = Shape(g, 0)[2]
          /\ W = g.box.minLon /\ N = g.box.maxLat
  <2>1. /\ Shape(g, 0)[1] \in Nat \ {0} /\ Shape(g, 0)[2] \in Nat \ {0}
        /\ Resolution(g, 0)[1] \in Nat \ {0} /\ Resolution(g, 0)[2] \in Nat \ {0}
        /\ g.box.minLon \in Int /\ g.box.maxLat \in Int
    BY <1>1, LevelNumbers
  <2> QED
    BY <2>1, Zenon
<1>3. PICK lo \in Int, hi \in Int, south \in Int, north \in Int, C \in Nat :
          /\ lo = b.minLon /\ hi = b.maxLon /\ south = b.minLat /\ north = b.maxLat
          /\ C = Circle /\ lo < hi /\ -C <= lo /\ hi <= C
  BY <1>1, PlacesAssumption DEF BoxType, InCircle
<1>4. PICK turn \in {0, C} : /\ Turned(b.minLon, g.box) = lo + turn
                             /\ Turned(b.maxLon, g.box) = hi + turn
                             /\ Uses360(g.box) => hi + turn >= 0
  <2>1. CASE Uses360(g.box)
    <3>1. lo >= 0 \/ hi < 0
      BY <1>3, <2>1 DEF CrossesOn360
    <3> QED
      BY <1>3, <2>1, <3>1 DEF Turned
  <2>2. CASE ~Uses360(g.box)
    BY <1>3, <2>2 DEF Turned
  <2> QED
    BY <2>1, <2>2
<1>5. PICK col \in Nat, row \in Nat :
          /\ c.from[1] <= col /\ col < c.to[1] /\ c.from[2] <= row /\ row < c.to[2]
          /\ MiddleLon(reg, o) = 2 * W + (2 * col + 1) * r1
          /\ MiddleLat(reg, o) = 2 * N - (2 * row + 1) * r2
  <2>1. \A s : 0 .. s - 1 \subseteq Nat
    OBVIOUS
  <2> QED
    BY <1>1, <1>2, <2>1, RegionPlace
<1>6. /\ c.from[1] = From(Larger((lo + turn - W) - Buffer * r1, 0), r1)
      /\ c.to[1] = Until(Smaller((hi + turn - W) + Buffer * r1, s1 * r1), r1, s1)
  <2>1. Uses360(g.box) => Turned(b.maxLon, g.box) >= 0
    BY <1>4
  <2>2. /\ c.from[1] = From(Larger((Turned(b.minLon, g.box) - W) - Buffer * r1, 0), r1)
        /\ c.to[1] = Until(Smaller((Turned(b.maxLon, g.box) - W) + Buffer * r1, s1 * r1), r1, s1)
    BY <1>1, <1>2, <2>1, EffectiveColumns
  <2> QED
    BY <1>4, <2>2
<1>7. /\ c.from[2] = From(Larger((N - north) - Buffer * r2, 0), r2)
      /\ c.to[2] = Until(Smaller((N - south) + Buffer * r2, s2 * r2), r2, s2)
  BY <1>1, <1>2, <1>3, EffectiveRows
<1> HIDE DEF c
<1>8. Buffer \in Nat /\ turn \in Int
  BY PlacesAssumption
<1>9. PICK m1 \in Nat, a1 \in Int :
          /\ m1 = (2 * Buffer + 1) * r1 /\ a1 = (2 * col + 1) * r1
          /\ 2 * (lo + turn - W) - m1 <= a1 /\ a1 <= 2 * (hi + turn - W) + m1
  <2>1. lo + turn - W \in Int /\ hi + turn - W \in Int
    BY <1>8
  <2>2. /\ From(Larger((lo + turn - W) - Buffer * r1, 0), r1) <= col
        /\ col < Until(Smaller((hi + turn - W) + Buffer * r1, s1 * r1), r1, s1)
    BY <1>5, <1>6
  <2>3. /\ (2 * col + 1) * r1 \in Int /\ (2 * Buffer + 1) * r1 \in Nat
        /\ 2 * (lo + turn - W) - (2 * Buffer + 1) * r1 <= (2 * col + 1) * r1
        /\ (2 * col + 1) * r1 <= 2 * (hi + turn - W) + (2 * Buffer + 1) * r1
    BY <1>8, <2>1, <2>2, AxisClipped
  <2> QED
    BY <2>3
<1>10. PICK m2 \in Nat, a2 \in Int :
          /\ m2 = (2 * Buffer + 1) * r2 /\ a2 = (2 * row + 1) * r2
          /\ 2 * (N - north) - m2 <= a2 /\ a2 <= 2 * (N - south) + m2
  <2>1. N - north \in Int /\ N - south \in Int
    OBVIOUS
  <2>2. /\ From(Larger((N - north) - Buffer * r2, 0), r2) <= row
        /\ row < Until(Smaller((N - south) + Buffer * r2, s2 * r2), r2, s2)
    BY <1>5, <1>7
  <2>3. /\ (2 * row + 1) * r2 \in Int /\ (2 * Buffer + 1) * r2 \in Nat
        /\ 2 * (N - north) - (2 * Buffer + 1) * r2 <= (2 * row + 1) * r2
        /\ (2 * row + 1) * r2 <= 2 * (N - south) + (2 * Buffer + 1) * r2
    BY <1>8, <2>1, <2>2, AxisClipped
  <2> QED
    BY <2>3
<1>11. reg.res[1] = r1 /\ reg.res[2] = r2
  BY <1>2 DEF RegionOf
<1>12. /\ -turn \in {-Circle, 0, Circle}
       /\ MiddleLon(reg, o) + 2 * (-turn) \in 2 * lo - m1 .. 2 * hi + m1
       /\ MiddleLat(reg, o) \in 2 * south - m2 .. 2 * north + m2
  <2>1. MiddleLon(reg, o) = 2 * W + a1 /\ MiddleLat(reg, o) = 2 * N - a2
    BY <1>5, <1>9, <1>10
  <2>2. -turn \in {-Circle, 0, Circle}
    BY <1>3
  <2> QED
    BY <1>8, <1>9, <1>10, <2>1, <2>2
<1> QED
  BY <1>3, <1>9, <1>10, <1>11, <1>12 DEF InRectangle

\* The value of a cell between those of the grid's points around it.
Between(g, lon, lat) ==
    LET blocks == Blocks(g, 0, MeridianColumns(g, lon), MeridianRows(g, lat))
    IN  IF MeridianOut(g, lon, lat) \/ {} \in blocks THEN {} ELSE UNION blocks

\* A cell that is made for an answer begins in its box, and is made of the grid
\* points that it lies between.
LEMMA MadePlace ==
    ASSUME NEW g \in Grids, ~g.projected, NEW b \in Boxes,
           NEW reg \in ReadRegion(g, 0, b), reg.kind = "region", ~Kept(reg, b),
           NEW o \in DOMAIN AreaAnswer(reg, b).data
    PROVE  LET out == AreaAnswer(reg, b)
               lon == MiddleLon(out, o)
               lat == MiddleLat(out, o)
           IN  /\ lon \in Int /\ lat \in Int
               /\ 2 * b.minLon < lon /\ lon < 2 * b.maxLon + Resolution(g, 0)[1]
               /\ 2 * b.minLat - Resolution(g, 0)[2] < lat /\ lat < 2 * b.maxLat
               /\ out.data[o] = Between(g, lon, lat)
<1> DEFINE out == AreaAnswer(reg, b)
           w == Side(b, reg.res, 1)
           h == Side(b, reg.res, 2)
           lon == MiddleLon(out, o)
           lat == MiddleLat(out, o)
           x == o % w
           y == o \div w
<1>1. 0 \in Levels(g) /\ b \in BoxType /\ b.minLon < b.maxLon /\ b.minLat < b.maxLat
  BY Native, ReadBoxIsBox, BoxesAssumption DEF IsBox
<1>2. IsWhole(g, reg)
  BY NotKept, CrossingRead
<1>3. /\ DOMAIN out.data = 0 .. w * h - 1
      /\ \A u \in 0 .. w * h - 1 : out.data[u] = PrimeMeridianCell(reg, b, u % w, u \div w)
      /\ lon = 2 * b.minLon + (2 * x + 1) * reg.res[1]
      /\ lat = 2 * b.maxLat - (2 * y + 1) * reg.res[2]
  BY <1>1, MadeIs
<1> HIDE DEF out, lon, lat
<1>4. PICK r1 \in Nat \ {0}, r2 \in Nat \ {0} :
          /\ r1 = Resolution(g, 0)[1] /\ r2 = Resolution(g, 0)[2]
          /\ r1 = reg.res[1] /\ r2 = reg.res[2]
  <2>1. Resolution(g, 0)[1] \in Nat \ {0} /\ Resolution(g, 0)[2] \in Nat \ {0}
    BY <1>1, LevelNumbers
  <2>2. reg.res = Resolution(g, 0)
    BY <1>2 DEF IsWhole
  <2> QED
    BY <2>1, <2>2
<1>5. PICK west \in Int, east \in Int, south \in Int, north \in Int :
          /\ west = b.minLon /\ east = b.maxLon /\ south = b.minLat /\ north = b.maxLat
          /\ west < east /\ south < north
  BY <1>1 DEF BoxType
<1>6. /\ w = Larger(CeilDiv(east - west, r1), 1) /\ h = Larger(CeilDiv(north - south, r2), 1)
  BY <1>4, <1>5 DEF Side, Span
<1> HIDE DEF w, h
<1>7. /\ w \in Nat \ {0}
      /\ \A u \in 0 .. w - 1 : /\ 2 * west + (2 * u + 1) * r1 \in Int
                               /\ 2 * west < 2 * west + (2 * u + 1) * r1
                               /\ 2 * west + (2 * u + 1) * r1 < 2 * east + r1
  BY <1>5, <1>6, AnswerMiddle
<1>8. /\ h \in Nat \ {0}
      /\ \A u \in 0 .. h - 1 : /\ 2 * north - (2 * u + 1) * r2 \in Int
                               /\ 2 * south - r2 < 2 * north - (2 * u + 1) * r2
                               /\ 2 * north - (2 * u + 1) * r2 < 2 * north
  BY <1>5, <1>6, AnswerMiddle
<1>9. o \in 0 .. w * h - 1
  BY <1>3 DEF out
<1>10. x \in 0 .. w - 1 /\ y \in 0 .. h - 1
  BY <1>7, <1>8, <1>9, InTable
<1>11. x \in Int /\ y \in Int
  BY <1>10
<1> HIDE DEF x, y
<1>12. /\ lon \in Int /\ lat \in Int
       /\ 2 * b.minLon < lon /\ lon < 2 * b.maxLon + Resolution(g, 0)[1]
       /\ 2 * b.minLat - Resolution(g, 0)[2] < lat /\ lat < 2 * b.maxLat
  <2>1. lon = 2 * west + (2 * x + 1) * r1 /\ lat = 2 * north - (2 * y + 1) * r2
    BY <1>3, <1>4, <1>5
  <2>2. /\ lon \in Int /\ 2 * west < lon /\ lon < 2 * east + r1
    BY <1>7, <1>10, <2>1
  <2>3. /\ lat \in Int /\ 2 * south - r2 < lat /\ lat < 2 * north
    BY <1>8, <1>10, <2>1
  <2> QED
    BY <1>4, <1>5, <2>2, <2>3
<1>13. out.data[o] = PrimeMeridianCell(reg, b, x, y)
  BY <1>3, <1>9 DEF x, y
<1>14. lon = 2 * b.minLon + (2 * x + 1) * Resolution(g, 0)[1]
       /\ lat = 2 * b.maxLat - (2 * y + 1) * Resolution(g, 0)[2]
  BY <1>3, <1>4
<1> DEFINE blocks == Blocks(g, 0, MeridianColumns(g, lon), MeridianRows(g, lat))
<1>15. PrimeMeridianCell(reg, b, x, y) =
           IF MeridianOut(g, lon, lat) \/ {} \in blocks THEN {} ELSE UNION blocks
  <2> DEFINE u == 2 * b.minLon + (2 * x + 1) * Resolution(g, 0)[1]
             v == 2 * b.maxLat - (2 * y + 1) * Resolution(g, 0)[2]
             made == Blocks(g, 0, MeridianColumns(g, u), MeridianRows(g, v))
  <2>1. PrimeMeridianCell(reg, b, x, y) =
            IF MeridianOut(g, u, v) \/ {} \in made THEN {} ELSE UNION made
    BY <1>1, <1>2, <1>11, MeridianCellIs
  <2>2. u = lon /\ v = lat
    BY <1>14
  <2> HIDE DEF u, v
  <2> QED
    BY <2>1, <2>2, Zenon
<1> HIDE DEF blocks
<1>16. out.data[o] = IF MeridianOut(g, lon, lat) \/ {} \in blocks THEN {} ELSE UNION blocks
  BY <1>13, <1>15
<1> QED
  BY <1>12, <1>16, Zenon DEF out, lon, lat, blocks, Between

\* A member of a block, at the native level.
LEMMA InBlocks ==
    ASSUME NEW g \in Grids, NEW columns \in SUBSET Int, NEW rows \in SUBSET Int,
           NEW n \in UNION Blocks(g, 0, columns, rows)
    PROVE  n[1] \in columns /\ n[2] \in rows
<1>1. PICK i \in columns, j \in rows : n \in Stored(g, 0, i, j)
  BY DEF Blocks
<1>2. i \in Int /\ j \in Int /\ 2^0 = 1
  OBVIOUS
<1>3. n[1] \in i * 1 .. i * 1 + 1 - 1 /\ n[2] \in j * 1 .. j * 1 + 1 - 1
  BY <1>1, <1>2 DEF Stored
<1>4. n[1] = i /\ n[2] = j
  BY <1>2, <1>3
<1> QED
  BY <1>4

\* Where the cells of a place in the grid are.
LEMMA MeridianInts ==
    ASSUME NEW g \in Grids, NEW lon \in Int, NEW lat \in Int, ~MeridianOut(g, lon, lat)
    PROVE  /\ MeridianColumns(g, lon) \in SUBSET (0 .. Shape(g, 0)[1] - 1)
           /\ MeridianRows(g, lat) \in SUBSET (0 .. Shape(g, 0)[2] - 1)
           /\ MeridianColumns(g, lon) # {} /\ MeridianRows(g, lat) # {}
<1> DEFINE x == ColumnAt(g, 0, MeridianLon(lon), 2)
           y == RowAt(g, 0, lat, 2)
<1>1. PICK w \in Nat \ {0}, h \in Nat \ {0}, r \in Nat \ {0}, W \in Int :
          /\ w = Shape(g, 0)[1] /\ h = Shape(g, 0)[2] /\ w = g.shape[1]
          /\ r = Resolution(g, 0)[1] /\ W = g.box.minLon
  <2>1. /\ Shape(g, 0)[1] \in Nat \ {0} /\ Shape(g, 0)[2] \in Nat \ {0}
        /\ Shape(g, 0)[1] = g.shape[1] /\ Resolution(g, 0)[1] \in Nat \ {0}
        /\ g.box.minLon \in Int
    BY Native, LevelNumbers
  <2> QED
    BY <2>1, Zenon
<1>2. x \in Int
  <2>1. PICK p \in Nat \ {0}, pos \in Int : p = 2 * r /\ pos = MeridianLon(lon) - 2 * W
    BY <1>1, PlacesAssumption DEF MeridianLon
  <2>2. x = pos \div p
    BY <1>1, <2>1 DEF ColumnAt
  <2> HIDE DEF x
  <2> QED
    BY <2>1, <2>2, DivMod
<1>3. y \in 0 .. h - 1 /\ ~(x < 0)
  BY <1>1, Zenon DEF MeridianOut
<1>4. MeridianColumns(g, lon) = {x % w, RightOf(g, x)}
      /\ MeridianRows(g, lat) = {y, Smaller(y + 1, h - 1)}
  BY <1>1 DEF MeridianColumns, MeridianRows
<1> HIDE DEF x, y
<1>5. x % w \in 0 .. w - 1
  BY <1>2, DivMod
<1>6. RightOf(g, x) \in 0 .. w - 1
  <2>1. x \in Nat
    BY <1>2, <1>3
  <2>2. Smaller(x + 1, w - 1) \in 0 .. w - 1
    BY <2>1 DEF Smaller
  <2>3. RightOf(g, x) = 0 \/ RightOf(g, x) = Smaller(x + 1, w - 1)
    BY <1>1 DEF RightOf
  <2> QED
    BY <2>2, <2>3
<1>7. Smaller(y + 1, h - 1) \in 0 .. h - 1
  BY <1>3 DEF Smaller
<1> QED
  BY <1>1, <1>3, <1>4, <1>5, <1>6, <1>7

\* Across the prime meridian, values are near their places and in the rectangle.
LEMMA MadeRight ==
    ASSUME NEW g \in Grids, ~g.projected, NEW b \in Boxes, InCircle(b),
           NEW reg \in ReadRegion(g, 0, b), reg.kind = "region", ~Kept(reg, b),
           NEW o \in DOMAIN AreaAnswer(reg, b).data
    PROVE  /\ InRectangle(b, AreaAnswer(reg, b), o)
           /\ \A n \in AreaAnswer(reg, b).data[o] : NearValue(g, AreaAnswer(reg, b), o, n)
<1> DEFINE out == AreaAnswer(reg, b)
           lon == MiddleLon(out, o)
           lat == MiddleLat(out, o)
           blocks == Blocks(g, 0, MeridianColumns(g, lon), MeridianRows(g, lat))
<1>1. /\ lon \in Int /\ lat \in Int
      /\ 2 * b.minLon < lon /\ lon < 2 * b.maxLon + Resolution(g, 0)[1]
      /\ 2 * b.minLat - Resolution(g, 0)[2] < lat /\ lat < 2 * b.maxLat
      /\ out.data[o] = IF MeridianOut(g, lon, lat) \/ {} \in blocks THEN {} ELSE UNION blocks
  <2>1. /\ lon \in Int /\ lat \in Int
        /\ 2 * b.minLon < lon /\ lon < 2 * b.maxLon + Resolution(g, 0)[1]
        /\ 2 * b.minLat - Resolution(g, 0)[2] < lat /\ lat < 2 * b.maxLat
        /\ out.data[o] = Between(g, lon, lat)
    BY MadePlace
  <2> HIDE DEF out, lon, lat
  <2> QED
    BY <2>1, Zenon DEF Between, blocks
<1>2. IsWhole(g, reg) /\ Uses360(g.box)
  BY NotKept, CrossingRead DEF CrossesOn360
<1>3. out.res = Resolution(g, 0)
  <2>1. b \in BoxType
    BY ReadBoxIsBox
  <2>2. out.res = reg.res
    BY <2>1, MadeIs
  <2> QED
    BY <1>2, <2>2 DEF IsWhole
<1> HIDE DEF out, lon, lat, blocks
<1>4. PICK r1 \in Nat \ {0}, r2 \in Nat \ {0}, C \in Nat :
          r1 = Resolution(g, 0)[1] /\ r2 = Resolution(g, 0)[2] /\ C = Circle
  <2>1. Resolution(g, 0)[1] \in Nat \ {0} /\ Resolution(g, 0)[2] \in Nat \ {0}
    BY Native, LevelNumbers
  <2> QED
    BY <2>1, PlacesAssumption
<1>5. PICK west \in Int, east \in Int, south \in Int, north \in Int :
          /\ west = b.minLon /\ east = b.maxLon /\ south = b.minLat /\ north = b.maxLat
          /\ -C <= west /\ east <= C
  BY <1>4, ReadBoxIsBox DEF BoxType, InCircle
<1>6. InRectangle(b, out, o)
  <2>1. PICK m1 \in Nat, m2 \in Nat :
            /\ m1 = (2 * Buffer + 1) * r1 /\ m2 = (2 * Buffer + 1) * r2
            /\ r1 <= m1 /\ r2 <= m2
    <3>1. PICK k \in Nat : k = 2 * Buffer
      BY PlacesAssumption
    <3>2. \A r \in Nat : (k + 1) * r = k * r + r /\ k * r \in Nat
      OBVIOUS
    <3>3. /\ (k + 1) * r1 \in Nat /\ r1 <= (k + 1) * r1
          /\ (k + 1) * r2 \in Nat /\ r2 <= (k + 1) * r2
      BY <3>2
    <3> QED
      BY <3>1, <3>3
  <2>2. lon + 2 * 0 \in 2 * west - m1 .. 2 * east + m1 /\ lat \in 2 * south - m2 .. 2 * north + m2
    BY <1>1, <1>4, <1>5, <2>1
  <2>3. 0 \in {-Circle, 0, Circle}
    OBVIOUS
  <2> QED
    BY <1>3, <1>4, <1>5, <2>1, <2>2, <2>3 DEF InRectangle, lon, lat
<1>7. ASSUME NEW n \in out.data[o]
      PROVE  NearLon(g, n, lon, 2, 2) /\ NearLat(g, n, lat, 2, 2)
  <2>1. ~MeridianOut(g, lon, lat) /\ n \in UNION blocks
    BY <1>1, <1>7
  <2>2. n[1] \in MeridianColumns(g, lon) /\ n[2] \in MeridianRows(g, lat)
    <3>1. MeridianColumns(g, lon) \in SUBSET Int /\ MeridianRows(g, lat) \in SUBSET Int
      <4>1. \A k : 0 .. k \subseteq Int
        OBVIOUS
      <4> QED
        BY <1>1, <2>1, <4>1, MeridianInts
    <3> QED
      BY <2>1, <3>1, InBlocks DEF blocks
  <2>3. -(2 * Circle) < lon /\ lon < 2 * Circle + Resolution(g, 0)[1]
    BY <1>1, <1>4, <1>5
  <2>4. NearLon(g, n, lon, 2, 2)
    BY <1>1, <1>2, <2>1, <2>2, <2>3, MeridianColumnNear
  <2>5. NearLat(g, n, lat, 2, 2)
    BY <1>1, <2>1, <2>2, MeridianRowNear
  <2> QED
    BY <2>4, <2>5
<1>8. \A n \in out.data[o] : NearValue(g, out, o, n)
  BY <1>7, Zenon DEF NearValue, lon, lat
<1> QED
  BY <1>6, <1>8 DEF out

-----------------------------------------------------------------------------
(* Area queries: nothing is left out *)

\* A grid point inside a rectangle: in which turn, and which cell of an answer
\* with places of its own begins with it.
PointIn(g, b, n, turn, x, y) ==
    LET r == Resolution(g, 0)
        west == b.minLon - g.box.minLon - turn
        north == g.box.maxLat - b.maxLat
    IN  /\ n[1] * r[1] < west + Span(b)[1] /\ (n[1] + 1) * r[1] > west
        /\ n[2] * r[2] < north + Span(b)[2] /\ (n[2] + 1) * r[2] > north
        /\ (2 * r[1]) * n[1] <= 2 * west + (2 * x + 1) * r[1]
        /\ 2 * west + (2 * x + 1) * r[1] < (2 * r[1]) * (n[1] + 1)
        /\ (2 * r[2]) * n[2] <= 2 * north + (2 * y + 1) * r[2]
        /\ 2 * north + (2 * y + 1) * r[2] < (2 * r[2]) * (n[2] + 1)

LEMMA InsideAnswered ==
    ASSUME NEW g \in Grids, NEW b \in Boxes,
           NEW n \in (0 .. Gaps(g, 1)) \X (0 .. Gaps(g, 2)), IsInside(g, b, n)
    PROVE  /\ n[1] \in 0 .. Shape(g, 0)[1] - 1 /\ n[2] \in 0 .. Shape(g, 0)[2] - 1
           /\ InCircle(b)
           /\ \E turn \in Turns(g), x \in 0 .. Side(b, Resolution(g, 0), 1) - 1,
                 y \in 0 .. Side(b, Resolution(g, 0), 2) - 1 : PointIn(g, b, n, turn, x, y)
<1>1. PICK w \in Nat \ {0}, h \in Nat \ {0}, r1 \in Nat \ {0}, r2 \in Nat \ {0},
           W \in Int, N \in Int :
          /\ w = Shape(g, 0)[1] /\ h = Shape(g, 0)[2] /\ w = g.shape[1] /\ h = g.shape[2]
          /\ r1 = Resolution(g, 0)[1] /\ r2 = Resolution(g, 0)[2]
          /\ W = g.box.minLon /\ N = g.box.maxLat
          /\ Span(g.box)[1] = w * r1 /\ Span(g.box)[2] = h * r2
  <2>1. /\ Shape(g, 0)[1] \in Nat \ {0} /\ Shape(g, 0)[2] \in Nat \ {0}
        /\ Resolution(g, 0)[1] \in Nat \ {0} /\ Resolution(g, 0)[2] \in Nat \ {0}
        /\ Shape(g, 0)[1] = g.shape[1] /\ Shape(g, 0)[2] = g.shape[2]
        /\ Span(g.box)[1] = Shape(g, 0)[1] * Resolution(g, 0)[1]
        /\ Span(g.box)[2] = Shape(g, 0)[2] * Resolution(g, 0)[2]
        /\ g.box.minLon \in Int /\ g.box.maxLat \in Int
    BY Native, LevelNumbers
  <2> QED
    BY <2>1, Zenon
<1>2. PICK west \in Int, north \in Int, s1 \in Nat \ {0}, s2 \in Nat \ {0} :
          /\ west = b.minLon /\ north = b.maxLat /\ s1 = Span(b)[1] /\ s2 = Span(b)[2]
  <2>1. b \in BoxType /\ b.minLon < b.maxLon /\ b.minLat < b.maxLat
    BY BoxesAssumption DEF IsBox
  <2>2. /\ b.minLon \in Int /\ b.maxLat \in Int
        /\ b.maxLon - b.minLon \in Nat \ {0} /\ b.maxLat - b.minLat \in Nat \ {0}
    BY <2>1 DEF BoxType
  <2> QED
    BY <2>2 DEF Span
<1>3. PICK n1 \in 0 .. w - 1, n2 \in 0 .. h - 1 : n1 = n[1] /\ n2 = n[2]
  BY <1>1 DEF Gaps
<1>4. PICK turn \in Turns(g) :
          /\ (w - 1) * (W + turn - west) + n1 * (w * r1) >= w * r1
          /\ (w - 1) * s1 - ((w - 1) * (W + turn - west) + n1 * (w * r1)) >= w * r1
  BY <1>1, <1>2, <1>3 DEF IsInside, Gaps
<1>5. /\ (h - 1) * (north - N) + n2 * (h * r2) >= h * r2
      /\ (h - 1) * s2 - ((h - 1) * (north - N) + n2 * (h * r2)) >= h * r2
  BY <1>1, <1>2, <1>3 DEF IsInside, Gaps
<1>6. turn \in Int
  BY PlacesAssumption DEF Turns
<1>7. PICK d1 \in Int, d2 \in Int : d1 = west - W - turn /\ d2 = N - north
  BY <1>6
<1>8. /\ n1 * (w * r1) - (w - 1) * d1 >= w * r1
      /\ (w - 1) * s1 - (n1 * (w * r1) - (w - 1) * d1) >= w * r1
  <2>1. W + turn - west = -d1
    BY <1>6, <1>7
  <2>2. (w - 1) * (-d1) = -((w - 1) * d1) /\ (w - 1) * d1 \in Int
    OBVIOUS
  <2>3. PICK q \in Int, S \in Int, nS \in Int, es \in Int :
            q = (w - 1) * d1 /\ S = w * r1 /\ nS = n1 * (w * r1) /\ es = (w - 1) * s1
    <3>1. w * r1 \in Int /\ n1 * (w * r1) \in Int /\ (w - 1) * s1 \in Int
      OBVIOUS
    <3> QED
      BY <2>2, <3>1
  <2>4. -q + nS >= S /\ es - (-q + nS) >= S
    BY <1>4, <2>1, <2>2, <2>3
  <2>5. nS - q >= S /\ es - (nS - q) >= S
    BY <2>3, <2>4
  <2> QED
    BY <2>3, <2>5
<1>9. /\ n2 * (h * r2) - (h - 1) * d2 >= h * r2
      /\ (h - 1) * s2 - (n2 * (h * r2) - (h - 1) * d2) >= h * r2
  <2>1. north - N = -d2
    BY <1>7
  <2>2. (h - 1) * (-d2) = -((h - 1) * d2) /\ (h - 1) * d2 \in Int
    OBVIOUS
  <2>3. PICK q \in Int, S \in Int, nS \in Int, es \in Int :
            q = (h - 1) * d2 /\ S = h * r2 /\ nS = n2 * (h * r2) /\ es = (h - 1) * s2
    <3>1. h * r2 \in Int /\ n2 * (h * r2) \in Int /\ (h - 1) * s2 \in Int
      OBVIOUS
    <3> QED
      BY <2>2, <3>1
  <2>4. -q + nS >= S /\ es - (-q + nS) >= S
    BY <1>5, <2>1, <2>2, <2>3
  <2>5. nS - q >= S /\ es - (nS - q) >= S
    BY <2>3, <2>4
  <2> QED
    BY <2>3, <2>5
<1>10. /\ n1 * r1 < d1 + s1 /\ (n1 + 1) * r1 > d1
       /\ \E x \in 0 .. Larger(CeilDiv(s1, r1), 1) - 1 :
              /\ (2 * r1) * n1 <= 2 * d1 + (2 * x + 1) * r1
              /\ 2 * d1 + (2 * x + 1) * r1 < (2 * r1) * (n1 + 1)
  BY <1>8, PointAnswered
<1>11. /\ n2 * r2 < d2 + s2 /\ (n2 + 1) * r2 > d2
       /\ \E y \in 0 .. Larger(CeilDiv(s2, r2), 1) - 1 :
              /\ (2 * r2) * n2 <= 2 * d2 + (2 * y + 1) * r2
              /\ 2 * d2 + (2 * y + 1) * r2 < (2 * r2) * (n2 + 1)
  BY <1>9, PointAnswered
<1>12. PICK x \in 0 .. Side(b, Resolution(g, 0), 1) - 1, y \in 0 .. Side(b, Resolution(g, 0), 2) - 1 :
           /\ (2 * r1) * n1 <= 2 * d1 + (2 * x + 1) * r1
           /\ 2 * d1 + (2 * x + 1) * r1 < (2 * r1) * (n1 + 1)
           /\ (2 * r2) * n2 <= 2 * d2 + (2 * y + 1) * r2
           /\ 2 * d2 + (2 * y + 1) * r2 < (2 * r2) * (n2 + 1)
  <2>1. /\ Side(b, Resolution(g, 0), 1) = Larger(CeilDiv(s1, r1), 1)
        /\ Side(b, Resolution(g, 0), 2) = Larger(CeilDiv(s2, r2), 1)
    BY <1>1, <1>2, Zenon DEF Side
  <2> QED
    BY <1>10, <1>11, <2>1, Zenon
<1>13. PointIn(g, b, n, turn, x, y)
  BY <1>1, <1>2, <1>3, <1>7, <1>10, <1>11, <1>12, Zenon DEF PointIn
<1>14. n[1] \in 0 .. Shape(g, 0)[1] - 1 /\ n[2] \in 0 .. Shape(g, 0)[2] - 1 /\ InCircle(b)
  BY <1>1, <1>3 DEF IsInside
<1> QED
  BY <1>13, <1>14, Zenon

\* Its cell is touched by the rectangle.
LEMMA InsideIsTouched ==
    ASSUME NEW g \in Grids, ~g.projected, NEW b \in Boxes,
           NEW n, n[1] \in 0 .. Shape(g, 0)[1] - 1, n[2] \in 0 .. Shape(g, 0)[2] - 1,
           NEW turn \in Turns(g), NEW x, NEW y, PointIn(g, b, n, turn, x, y)
    PROVE  n[1] \in TouchedColumns(g, 0, b) /\ n[2] \in TouchedRows(g, 0, b)
<1>1. PICK r1 \in Nat \ {0}, r2 \in Nat \ {0}, W \in Int, N \in Int :
          /\ r1 = Resolution(g, 0)[1] /\ r2 = Resolution(g, 0)[2]
          /\ W = g.box.minLon /\ N = g.box.maxLat
  BY Native, LevelNumbers
<1>2. PICK west \in Int, east \in Int, south \in Int, north \in Int :
          /\ west = b.minLon /\ east = b.maxLon /\ south = b.minLat /\ north = b.maxLat
          /\ Span(b)[1] = east - west /\ Span(b)[2] = north - south
  BY ReadBoxIsBox DEF BoxType, Span
<1>3. PICK n1 \in Nat, n2 \in Nat : n1 = n[1] /\ n2 = n[2]
  <2>1. \A k : 0 .. k \subseteq Nat
    OBVIOUS
  <2> QED
    BY <2>1
<1>4. PICK u1 \in Int, v1 \in Int, u2 \in Int, v2 \in Int, t \in Int :
          u1 = n1 * r1 /\ v1 = (n1 + 1) * r1 /\ u2 = n2 * r2 /\ v2 = (n2 + 1) * r2
          /\ t = turn /\ v2 = u2 + r2
  <2>1. n1 * r1 \in Int /\ (n1 + 1) * r1 \in Int /\ n2 * r2 \in Int /\ (n2 + 1) * r2 \in Int
        /\ (n2 + 1) * r2 = n2 * r2 + r2
    OBVIOUS
  <2>2. turn \in Int
    BY PlacesAssumption DEF Turns
  <2> QED
    BY <2>1, <2>2
<1>5. /\ u1 < west - W - t + (east - west) /\ v1 > west - W - t
      /\ u2 < N - north + (north - south) /\ v2 > N - north
  BY <1>1, <1>2, <1>3, <1>4 DEF PointIn
<1>6. W + u1 + t < east /\ W + v1 + t > west
  BY <1>4, <1>5
<1>7. N - v2 < north /\ N - v2 + r2 > south
  BY <1>4, <1>5
<1>8. n[1] \in TouchedColumns(g, 0, b)
  <2>1. /\ g.box.minLon + n[1] * Resolution(g, 0)[1] + turn < b.maxLon
        /\ g.box.minLon + (n[1] + 1) * Resolution(g, 0)[1] + turn > b.minLon
    BY <1>1, <1>2, <1>3, <1>4, <1>6
  <2> QED
    BY <2>1, Zenon DEF TouchedColumns
<1>9. n[2] \in TouchedRows(g, 0, b)
  <2>1. g.origin = "north"
    BY GridsAssumption
  <2>2. /\ g.box.maxLat - (n[2] + 1) * Resolution(g, 0)[2] < b.maxLat
        /\ g.box.maxLat - (n[2] + 1) * Resolution(g, 0)[2] + Resolution(g, 0)[2] > b.minLat
    BY <1>1, <1>2, <1>3, <1>4, <1>7
  <2> QED
    BY <2>1, <2>2 DEF TouchedRows
<1> QED
  BY <1>8, <1>9

\* So it is in what was read, if that is kept.
LEMMA KeptHas ==
    ASSUME NEW g \in Grids, ~g.projected, NEW b \in Boxes,
           NEW reg \in ReadRegion(g, 0, b), reg.kind = "region",
           NEW n \in (0 .. Gaps(g, 1)) \X (0 .. Gaps(g, 2)), n \notin g.missing,
           IsInside(g, b, n)
    PROVE  \E o \in DOMAIN reg.data : n \in reg.data[o]
<1> DEFINE c == Cells(g, 0, EffectiveBox(g, 0, b))
<1>1. PICK n1 \in Nat, n2 \in Nat : /\ n = <<n1, n2>>
                                    /\ n1 \in 0 .. Shape(g, 0)[1] - 1
                                    /\ n2 \in 0 .. Shape(g, 0)[2] - 1
  <2>1. n[1] \in 0 .. Shape(g, 0)[1] - 1 /\ n[2] \in 0 .. Shape(g, 0)[2] - 1
    BY InsideAnswered
  <2>2. \A k : 0 .. k \subseteq Nat
    OBVIOUS
  <2>3. n = <<n[1], n[2]>>
    OBVIOUS
  <2> QED
    BY <2>1, <2>2, <2>3
<1>2. 0 \in Levels(g) /\ b \in BoxType /\ IsBox(b)
  BY Native, ReadBoxIsBox, BoxesAssumption
<1>3. c.from[1] <= n1 /\ n1 < c.to[1] /\ c.from[2] <= n2 /\ n2 < c.to[2]
  <2>1. CASE CrossesOn360(b, g.box)
    <3>1. EffectiveBox(g, 0, b) = g.box
      BY <1>2, <2>1, EffectiveWhole
    <3>2. /\ c.from[1] = 0 /\ c.to[1] = Shape(g, 0)[1]
          /\ c.from[2] = 0 /\ c.to[2] = Shape(g, 0)[2]
      BY <1>2, <3>1, WholeCells
    <3>3. Shape(g, 0)[1] \in Nat /\ Shape(g, 0)[2] \in Nat
      BY <1>2, LevelNumbers
    <3> HIDE DEF c
    <3> QED
      BY <1>1, <3>2, <3>3
  <2>2. CASE ~CrossesOn360(b, g.box)
    <3>1. n[1] \in 0 .. Shape(g, 0)[1] - 1 /\ n[2] \in 0 .. Shape(g, 0)[2] - 1 /\ InCircle(b)
          /\ \E turn \in Turns(g) : \E x, y : PointIn(g, b, n, turn, x, y)
      BY InsideAnswered
    <3>2. n1 \in TouchedColumns(g, 0, b) /\ n2 \in TouchedRows(g, 0, b)
      BY <1>1, <3>1, InsideIsTouched
    <3>3. Distance(n1, n1) <= Buffer /\ Distance(n2, n2) <= Buffer
      BY PlacesAssumption DEF Distance
    <3>4. -Circle <= b.minLon /\ b.maxLon <= Circle
      BY <3>1 DEF InCircle
    <3>5. c.from[1] <= n1 /\ n1 < c.to[1]
      BY <1>1, <1>2, <2>2, <3>2, <3>3, <3>4, ColumnsCovered
    <3>6. c.from[2] <= n2 /\ n2 < c.to[2]
      BY <1>1, <1>2, <2>2, <3>2, <3>3, RowsCovered
    <3> QED
      BY <3>5, <3>6
  <2> QED
    BY <2>1, <2>2
<1>4. n1 >= c.from[1] /\ n2 >= c.from[2] /\ n1 \in Int /\ n2 \in Int
  <2>1. c.from[1] \in Nat /\ c.from[2] \in Nat
    BY <1>2, EffectiveIsBox, CellsInGrid
  <2> HIDE DEF c
  <2> QED
    BY <1>3, <2>1
<1>5. RegionOf(g, 0, b, reg)
  BY <1>2, <1>3, <1>4, SomethingRead
<1>6. PICK o \in DOMAIN reg.data : Claimed(g, reg, o) = <<n1, n2>>
  BY <1>2, <1>3, <1>4, <1>5, RegionHas
<1>7. reg.data[o] = Stored(g, 0, n1, n2)
  <2>1. Right(g, 0, reg)
    BY <1>2, RegionValues
  <2>2. reg.data[o] = Stored(g, 0, Claimed(g, reg, o)[1], Claimed(g, reg, o)[2])
    BY <2>1, Zenon DEF Right
  <2> QED
    BY <1>6, <2>2
<1>8. Stored(g, 0, n1, n2) = {<<n1, n2>>} \ g.missing
  BY <1>4, Native
<1> QED
  BY <1>1, <1>6, <1>7, <1>8

\* A place is in the cell that a grid point begins, so many turns to the east.
CellHas(g, n1, n2, turn, lon, lat) ==
    LET pos == lon - 2 * turn - 2 * g.box.minLon
        down == 2 * g.box.maxLat - lat
    IN  /\ -(2 * Circle) < lon /\ turn # Circle
        /\ (2 * Resolution(g, 0)[1]) * n1 <= pos
        /\ pos < (2 * Resolution(g, 0)[1]) * (n1 + 1)
        /\ (2 * Resolution(g, 0)[2]) * n2 <= down
        /\ down < (2 * Resolution(g, 0)[2]) * (n2 + 1)

\* Where a cell that is made looks for its values, if a grid point's cell has its
\* place.
LEMMA MeridianAt ==
    ASSUME NEW g \in Grids, Uses360(g.box), NEW lon \in Int, NEW lat \in Int,
           NEW turn \in Turns(g),
           NEW n1 \in 0 .. Shape(g, 0)[1] - 1, NEW n2 \in 0 .. Shape(g, 0)[2] - 1,
           CellHas(g, n1, n2, turn, lon, lat)
    PROVE  /\ ~MeridianOut(g, lon, lat)
           /\ MeridianColumns(g, lon) = {n1, RightOf(g, n1)}
           /\ MeridianRows(g, lat) = {n2, Smaller(n2 + 1, Shape(g, 0)[2] - 1)}
<1> USE DEF CellHas
<1>1. PICK w \in Nat \ {0}, h \in Nat \ {0}, r1 \in Nat \ {0}, r2 \in Nat \ {0},
           W \in Nat, N \in Int, C \in Nat :
          /\ w = Shape(g, 0)[1] /\ h = Shape(g, 0)[2] /\ w = g.shape[1]
          /\ r1 = Resolution(g, 0)[1] /\ r2 = Resolution(g, 0)[2]
          /\ W = g.box.minLon /\ N = g.box.maxLat /\ C = Circle
          /\ W + w * r1 <= C
  <2>1. /\ Shape(g, 0)[1] \in Nat \ {0} /\ Shape(g, 0)[2] \in Nat \ {0}
        /\ Resolution(g, 0)[1] \in Nat \ {0} /\ Resolution(g, 0)[2] \in Nat \ {0}
        /\ Shape(g, 0)[1] = g.shape[1]
        /\ g.box.minLon \in Nat /\ g.box.maxLat \in Int /\ Circle \in Nat
    BY Native, LevelNumbers DEF Uses360
  <2>2. g.box.minLon + Shape(g, 0)[1] * Resolution(g, 0)[1] <= Circle
    <3>1. /\ Span(g.box)[1] = Shape(g, 0)[1] * Resolution(g, 0)[1]
          /\ g.box.maxLon = g.box.minLon + Span(g.box)[1]
      BY Native, LevelNumbers
    <3>2. g.box.maxLon <= Circle
      BY GridsAssumption DEF Uses360
    <3> QED
      BY <3>1, <3>2
  <2> QED
    BY <2>1, <2>2, Zenon
<1>2. PICK p1 \in Nat \ {0}, p2 \in Nat \ {0} : p1 = 2 * r1 /\ p2 = 2 * r2
  BY <1>1
<1>3. PICK t \in Int : t = turn /\ (t = -C \/ t = 0 \/ t = C)
  BY <1>1 DEF Turns
<1>4. PICK pos \in Int, low \in Int, high \in Int :
          /\ pos = lon - 2 * t - 2 * W /\ low = p1 * n1 /\ high = p1 * (n1 + 1)
          /\ low <= pos /\ pos < high /\ low >= 0 /\ high <= 2 * (w * r1)
  <2>1. p1 * n1 \in Nat /\ p1 * (n1 + 1) \in Int /\ lon - 2 * t - 2 * W \in Int
    OBVIOUS
  <2>2. p1 * n1 <= lon - 2 * t - 2 * W /\ lon - 2 * t - 2 * W < p1 * (n1 + 1)
    BY <1>1, <1>2, <1>3
  <2>3. p1 * (n1 + 1) <= p1 * w
    <3>1. n1 + 1 \in Int /\ n1 + 1 <= w
      BY <1>1
    <3> QED
      BY <3>1, TimesMonotone
  <2>4. p1 * w = 2 * (w * r1)
    BY <1>2
  <2> QED
    BY <2>1, <2>2, <2>3, <2>4
<1>5. MeridianLon(lon) = lon - 2 * t
  <2>1. w * r1 \in Int
    OBVIOUS
  <2>2. lon - 2 * t >= 0 /\ lon - 2 * t < 2 * C
    BY <1>1, <1>4, <2>1
  <2>3. t = 0 \/ t = -C
    BY <1>1, <1>3
  <2>4. (t = 0 /\ lon >= 0) \/ (t = -C /\ lon < 0)
    <3>1. t = 0 => lon >= 0
      BY <2>2
    <3>2. t = -C => lon < 0
      BY <2>2
    <3> QED
      BY <2>3, <3>1, <3>2
  <2>5. MeridianLon(lon) = IF lon < 0 THEN lon + 2 * C ELSE lon
    BY <1>1 DEF MeridianLon
  <2> QED
    BY <2>4, <2>5
<1>6. ColumnAt(g, 0, MeridianLon(lon), 2) = n1
  <2>1. ColumnAt(g, 0, MeridianLon(lon), 2) = pos \div p1
    BY <1>1, <1>2, <1>4, <1>5 DEF ColumnAt
  <2>2. pos - low \in 0 .. p1 - 1
    <3>1. p1 * (n1 + 1) = p1 * n1 + p1
      OBVIOUS
    <3> QED
      BY <1>4, <3>1
  <2>3. pos = p1 * n1 + (pos - low)
    BY <1>4
  <2>4. (p1 * n1 + (pos - low)) \div p1 = n1
    <3>1. n1 \in Int
      OBVIOUS
    <3> QED
      BY <2>2, <3>1, Quotient
  <2> QED
    BY <2>1, <2>3, <2>4
<1>7. RowAt(g, 0, lat, 2) = n2
  <2>1. PICK q \in Int, top \in Int : q = 2 * N - lat /\ top = p2 * n2
    <3>1. 2 * N - lat \in Int /\ p2 * n2 \in Int
      OBVIOUS
    <3> QED
      BY <3>1
  <2>2. RowAt(g, 0, lat, 2) = q \div p2
    BY <1>1, <1>2, <2>1 DEF RowAt
  <2>3. p2 * n2 <= q /\ q < p2 * (n2 + 1)
    BY <1>1, <1>2, <2>1
  <2>4. q - top \in 0 .. p2 - 1
    <3>1. p2 * (n2 + 1) = p2 * n2 + p2
      OBVIOUS
    <3> QED
      BY <2>1, <2>3, <3>1
  <2>5. q = p2 * n2 + (q - top)
    BY <2>1
  <2>6. (p2 * n2 + (q - top)) \div p2 = n2
    <3>1. n2 \in Int
      OBVIOUS
    <3> QED
      BY <2>4, <3>1, Quotient
  <2> QED
    BY <2>2, <2>5, <2>6
<1>8. n1 % w = n1
  <2>1. n1 \in 0 .. w - 1 /\ n1 = w * 0 + n1 /\ 0 \in Int
    BY <1>1
  <2>2. (w * 0 + n1) % w = n1
    BY <2>1, Quotient
  <2> QED
    BY <2>1, <2>2
<1>9. n1 \in 0 .. w - 1 /\ n2 \in 0 .. h - 1 /\ ~(n1 < 0) /\ ~(n1 >= w)
  BY <1>1
<1>10. ~MeridianOut(g, lon, lat)
  BY <1>1, <1>6, <1>7, <1>9, Zenon DEF MeridianOut
<1> QED
  BY <1>1, <1>6, <1>7, <1>8, <1>10 DEF MeridianColumns, MeridianRows

\* A grid point inside a rectangle across the prime meridian goes into a value, or
\* one beside it is missing.
LEMMA MadeHas ==
    ASSUME NEW g \in Grids, ~g.projected, NEW b \in Boxes,
           NEW reg \in ReadRegion(g, 0, b), reg.kind = "region", ~Kept(reg, b),
           NEW n \in (0 .. Gaps(g, 1)) \X (0 .. Gaps(g, 2)), n \notin g.missing,
           IsInside(g, b, n)
    PROVE  \/ \E o \in DOMAIN AreaAnswer(reg, b).data : n \in AreaAnswer(reg, b).data[o]
           \/ \E m \in g.missing : /\ m[1] \in {n[1], RightOf(g, n[1])}
                                   /\ m[2] \in {n[2], n[2] + 1}
<1> DEFINE out == AreaAnswer(reg, b)
<1>1. /\ CrossesOn360(b, g.box) /\ b.maxLon > 0 /\ IsWhole(g, reg) /\ Uses360(g.box)
      /\ b \in BoxType
  BY NotKept, CrossingRead, ReadBoxIsBox DEF CrossesOn360
<1>2. PICK turn \in Turns(g), x \in 0 .. Side(b, Resolution(g, 0), 1) - 1,
           y \in 0 .. Side(b, Resolution(g, 0), 2) - 1 : PointIn(g, b, n, turn, x, y)
  BY InsideAnswered
<1>3. PICK n1 \in Nat, n2 \in Nat : /\ n = <<n1, n2>>
                                    /\ n1 \in 0 .. Shape(g, 0)[1] - 1
                                    /\ n2 \in 0 .. Shape(g, 0)[2] - 1
  <2>1. n[1] \in 0 .. Shape(g, 0)[1] - 1 /\ n[2] \in 0 .. Shape(g, 0)[2] - 1
    BY InsideAnswered
  <2>2. \A k : 0 .. k \subseteq Nat
    OBVIOUS
  <2>3. n = <<n[1], n[2]>>
    OBVIOUS
  <2> QED
    BY <2>1, <2>2, <2>3
<1>4. PICK w \in Nat \ {0}, h \in Nat \ {0} :
          /\ w = Side(b, reg.res, 1) /\ h = Side(b, reg.res, 2) /\ reg.res = Resolution(g, 0)
  <2>1. PICK r1 \in Nat \ {0}, r2 \in Nat \ {0} : r1 = Resolution(g, 0)[1] /\ r2 = Resolution(g, 0)[2]
    BY Native, LevelNumbers
  <2>2. PICK west \in Int, east \in Int, south \in Int, north \in Int :
            /\ west = b.minLon /\ east = b.maxLon /\ south = b.minLat /\ north = b.maxLat
            /\ west < east /\ south < north
    BY <1>1, BoxesAssumption DEF IsBox, BoxType
  <2>3. /\ Side(b, Resolution(g, 0), 1) = Larger(CeilDiv(east - west, r1), 1)
        /\ Side(b, Resolution(g, 0), 2) = Larger(CeilDiv(north - south, r2), 1)
    BY <2>1, <2>2 DEF Side, Span
  <2>4. /\ Larger(CeilDiv(east - west, r1), 1) \in Nat \ {0}
        /\ Larger(CeilDiv(north - south, r2), 1) \in Nat \ {0}
    BY <2>2, AnswerMiddle
  <2>5. reg.res = Resolution(g, 0)
    BY <1>1 DEF IsWhole
  <2> QED
    BY <2>3, <2>4, <2>5
<1>5. PICK o \in 0 .. w * h - 1 : o % w = x /\ o \div w = y
  <2>1. x \in 0 .. w - 1 /\ y \in 0 .. h - 1
    BY <1>2, <1>4
  <2>2. w * y + x \in 0 .. w * h - 1
    BY <2>1, InTableBack
  <2>3. (w * y + x) \div w = y /\ (w * y + x) % w = x
    <3>1. y \in Int
      BY <2>1
    <3> QED
      BY <2>1, <3>1, Quotient
  <2> QED
    BY <2>2, <2>3
<1> DEFINE lon == MiddleLon(out, o)
           lat == MiddleLat(out, o)
           columns == MeridianColumns(g, lon)
           rows == MeridianRows(g, lat)
           blocks == Blocks(g, 0, columns, rows)
<1>6. /\ DOMAIN out.data = 0 .. w * h - 1
      /\ lon = 2 * b.minLon + (2 * x + 1) * Resolution(g, 0)[1]
      /\ lat = 2 * b.maxLat - (2 * y + 1) * Resolution(g, 0)[2]
  <2>1. /\ DOMAIN out.data = 0 .. Side(b, reg.res, 1) * Side(b, reg.res, 2) - 1
        /\ \A u : LET v == Side(b, reg.res, 1)
                 IN  /\ MiddleLon(out, u) = 2 * b.minLon + (2 * (u % v) + 1) * reg.res[1]
                     /\ MiddleLat(out, u) = 2 * b.maxLat - (2 * (u \div v) + 1) * reg.res[2]
    BY <1>1, MadeIs
  <2> HIDE DEF out
  <2> QED
    BY <1>4, <1>5, <2>1, Zenon
<1>7. /\ lon \in Int /\ lat \in Int /\ 2 * b.minLon < lon
      /\ out.data[o] = IF MeridianOut(g, lon, lat) \/ {} \in blocks THEN {} ELSE UNION blocks
  <2>1. o \in DOMAIN AreaAnswer(reg, b).data
    BY <1>6
  <2>2. /\ lon \in Int /\ lat \in Int /\ 2 * b.minLon < lon
        /\ out.data[o] = Between(g, lon, lat)
    BY <2>1, MadePlace
  <2> HIDE DEF out, lon, lat
  <2> QED
    BY <2>2, Zenon DEF Between, blocks, columns, rows
<1> HIDE DEF out, lon, lat, columns, rows
<1>8. /\ ~MeridianOut(g, lon, lat) /\ columns = {n1, RightOf(g, n1)}
      /\ rows = {n2, Smaller(n2 + 1, Shape(g, 0)[2] - 1)}
  <2>1. PICK r1 \in Nat \ {0}, r2 \in Nat \ {0}, W \in Nat, N \in Int, C \in Nat, t \in Int :
            /\ r1 = Resolution(g, 0)[1] /\ r2 = Resolution(g, 0)[2]
            /\ W = g.box.minLon /\ N = g.box.maxLat /\ C = Circle /\ t = turn
    <3>1. /\ Resolution(g, 0)[1] \in Nat \ {0} /\ Resolution(g, 0)[2] \in Nat \ {0}
          /\ g.box.minLon \in Nat /\ g.box.maxLat \in Int /\ Circle \in Nat
      BY <1>1, Native, LevelNumbers DEF Uses360
    <3>2. turn \in Int
      BY <3>1 DEF Turns
    <3> QED
      BY <3>1, <3>2
  <2>2. PICK west \in Int, east \in Int, north \in Int :
            /\ west = b.minLon /\ east = b.maxLon /\ north = b.maxLat
            /\ -C <= west /\ east <= C /\ Span(b)[1] = east - west
    BY <1>1, <2>1, InsideAnswered DEF BoxType, InCircle, Span
  <2>3. PICK v1 \in Int, v2 \in Int : v1 = (2 * x + 1) * r1 /\ v2 = (2 * y + 1) * r2
    <3>1. (2 * x + 1) * r1 \in Int /\ (2 * y + 1) * r2 \in Int
      OBVIOUS
    <3> QED
      BY <3>1
  <2>4. /\ n1 * r1 < west - W - t + (east - west)
        /\ (2 * r1) * n1 <= 2 * (west - W - t) + v1
        /\ 2 * (west - W - t) + v1 < (2 * r1) * (n1 + 1)
        /\ (2 * r2) * n2 <= 2 * (N - north) + v2
        /\ 2 * (N - north) + v2 < (2 * r2) * (n2 + 1)
    <3>1. n[1] = n1 /\ n[2] = n2
      BY <1>3
    <3>2. /\ n1 * r1 < west - W - t + Span(b)[1]
          /\ (2 * r1) * n1 <= 2 * (west - W - t) + (2 * x + 1) * r1
          /\ 2 * (west - W - t) + (2 * x + 1) * r1 < (2 * r1) * (n1 + 1)
          /\ (2 * r2) * n2 <= 2 * (N - north) + (2 * y + 1) * r2
          /\ 2 * (N - north) + (2 * y + 1) * r2 < (2 * r2) * (n2 + 1)
      BY <1>2, <2>1, <2>2, <3>1, Zenon DEF PointIn
    <3> QED
      BY <2>2, <2>3, <3>2
  <2>5. lon = 2 * west + v1 /\ lat = 2 * north - v2
    BY <1>6, <2>1, <2>2, <2>3
  <2>6. turn # Circle
    <3>1. n1 * r1 \in Nat
      OBVIOUS
    <3> QED
      BY <2>1, <2>2, <2>4, <3>1
  <2>7. /\ lon - 2 * turn - 2 * g.box.minLon = 2 * (west - W - t) + v1
        /\ 2 * g.box.maxLat - lat = 2 * (N - north) + v2
    <3>1. \A a, c, d, v \in Int : /\ (2 * a + v) - 2 * c - 2 * d = 2 * (a - d - c) + v
                                   /\ 2 * d - (2 * a - v) = 2 * (d - a) + v
      OBVIOUS
    <3>2. lon - 2 * turn - 2 * g.box.minLon = (2 * west + v1) - 2 * t - 2 * W
      BY <2>1, <2>5
    <3>3. 2 * g.box.maxLat - lat = 2 * N - (2 * north - v2)
      BY <2>1, <2>5
    <3> QED
      BY <3>1, <3>2, <3>3
  <2>8. -(2 * Circle) < lon
    BY <1>7, <2>1, <2>2
  <2>9. /\ (2 * Resolution(g, 0)[1]) * n1 <= lon - 2 * turn - 2 * g.box.minLon
        /\ lon - 2 * turn - 2 * g.box.minLon < (2 * Resolution(g, 0)[1]) * (n1 + 1)
        /\ (2 * Resolution(g, 0)[2]) * n2 <= 2 * g.box.maxLat - lat
        /\ 2 * g.box.maxLat - lat < (2 * Resolution(g, 0)[2]) * (n2 + 1)
    BY <2>1, <2>4, <2>7
  <2>10. CellHas(g, n1, n2, turn, lon, lat)
    BY <2>6, <2>8, <2>9, Zenon DEF CellHas
  <2>11. /\ ~MeridianOut(g, lon, lat)
         /\ MeridianColumns(g, lon) = {n1, RightOf(g, n1)}
         /\ MeridianRows(g, lat) = {n2, Smaller(n2 + 1, Shape(g, 0)[2] - 1)}
    BY <1>1, <1>3, <1>7, <2>10, MeridianAt
  <2> QED
    BY <2>11, Zenon DEF columns, rows
<1>9. columns \in SUBSET Int /\ rows \in SUBSET Int
  <2>1. \A k : 0 .. k \subseteq Int
    OBVIOUS
  <2> QED
    BY <1>7, <1>8, <2>1, MeridianInts DEF columns, rows
<1>10. n1 \in columns /\ n2 \in rows
  BY <1>8
<1>11. CASE {} \notin blocks
  <2>1. Stored(g, 0, n1, n2) = {<<n1, n2>>}
    BY <1>3, Native
  <2>2. Stored(g, 0, n1, n2) \in blocks
    BY <1>10 DEF Blocks
  <2>3. out.data[o] = UNION blocks
    BY <1>7, <1>8, <1>11
  <2>4. n \in out.data[o]
    BY <1>3, <2>1, <2>2, <2>3
  <2> QED
    BY <1>6, <2>4 DEF out
<1>12. CASE {} \in blocks
  <2>1. PICK i \in columns, j \in rows : Stored(g, 0, i, j) = {}
    BY <1>12 DEF Blocks
  <2>2. i \in Int /\ j \in Int
    BY <1>9
  <2>3. <<i, j>> \in g.missing
    BY <2>1, <2>2, Native
  <2>4. i \in {n1, RightOf(g, n1)} /\ j \in {n2, n2 + 1}
    <3>1. n2 <= Shape(g, 0)[2] - 1 /\ Shape(g, 0)[2] \in Int
      BY <1>3, Native, LevelNumbers
    <3>2. Smaller(n2 + 1, Shape(g, 0)[2] - 1) \in {n2, n2 + 1}
      BY <3>1 DEF Smaller
    <3> QED
      BY <1>8, <3>2
  <2> QED
    BY <1>3, <2>3, <2>4
<1> QED
  BY <1>11, <1>12

\* A place in the grid has a column and a row there.
LEMMA MeridianInGrid ==
    ASSUME NEW g \in Grids, Uses360(g.box), NEW lon \in Int, NEW lat \in Int,
           -(2 * Circle) < lon, lon < 2 * Circle,
           NEW turn \in Turns(g), 2 * g.box.minLon <= lon + 2 * turn,
           lon + 2 * turn < 2 * (IF Span(g.box)[1] > GlobalWidth THEN Circle ELSE g.box.maxLon),
           2 * g.box.minLat < lat, lat <= 2 * g.box.maxLat
    PROVE  ~MeridianOut(g, lon, lat)
<1>1. PICK w \in Nat \ {0}, h \in Nat \ {0}, r1 \in Nat \ {0}, r2 \in Nat \ {0},
           W \in Nat, E \in Int, S \in Int, N \in Int :
          /\ w = Shape(g, 0)[1] /\ h = Shape(g, 0)[2]
          /\ r1 = Resolution(g, 0)[1] /\ r2 = Resolution(g, 0)[2]
          /\ W = g.box.minLon /\ E = g.box.maxLon /\ S = g.box.minLat /\ N = g.box.maxLat
          /\ Span(g.box)[1] = w * r1 /\ Span(g.box)[2] = h * r2
          /\ E = W + Span(g.box)[1] /\ S = N - Span(g.box)[2]
  <2>1. /\ Shape(g, 0)[1] \in Nat \ {0} /\ Shape(g, 0)[2] \in Nat \ {0}
        /\ Resolution(g, 0)[1] \in Nat \ {0} /\ Resolution(g, 0)[2] \in Nat \ {0}
        /\ g.box.minLon \in Nat /\ g.box.maxLon \in Int
        /\ g.box.minLat \in Int /\ g.box.maxLat \in Int
        /\ Span(g.box)[1] = Shape(g, 0)[1] * Resolution(g, 0)[1]
        /\ Span(g.box)[2] = Shape(g, 0)[2] * Resolution(g, 0)[2]
        /\ g.box.maxLon = g.box.minLon + Span(g.box)[1]
        /\ g.box.minLat = g.box.maxLat - Span(g.box)[2]
    BY Native, LevelNumbers DEF Uses360
  <2> QED
    BY <2>1, Zenon
<1>2. PICK C \in Nat, GW \in Int, t \in Int :
          C = Circle /\ GW = GlobalWidth /\ t = turn /\ (t = -C \/ t = 0 \/ t = C)
  BY PlacesAssumption DEF Turns
<1>3. PICK a \in Nat, z \in Nat : a = w * r1 /\ z = h * r2
  <2>1. w * r1 \in Nat /\ h * r2 \in Nat
    OBVIOUS
  <2> QED
    BY <2>1
<1>4. E <= C
  BY <1>1, <1>2, GridsAssumption DEF Uses360
<1>5. lon + 2 * t >= 2 * W /\ lon + 2 * t < 2 * C /\ (a <= GW => lon + 2 * t < 2 * (W + a))
  BY <1>1, <1>2, <1>3, <1>4
<1>6. MeridianLon(lon) = lon + 2 * t
  <2>1. (t = 0 /\ lon >= 0) \/ (t = C /\ lon < 0)
    <3>1. t # -C \/ C = 0
      BY <1>2, <1>5
    <3>2. t = 0 => lon >= 0
      BY <1>5
    <3>3. t = C => lon < 0 \/ C = 0
      BY <1>2, <1>5
    <3>4. C # 0
      BY <1>2
    <3> QED
      BY <1>2, <3>1, <3>2, <3>3, <3>4
  <2>2. MeridianLon(lon) = IF lon < 0 THEN lon + 2 * C ELSE lon
    BY <1>2 DEF MeridianLon
  <2> QED
    BY <2>1, <2>2
<1>7. PICK p1 \in Nat \ {0}, p2 \in Nat \ {0} : p1 = 2 * r1 /\ p2 = 2 * r2
  OBVIOUS
<1>8. PICK pos \in Nat, q \in Nat :
          /\ pos = MeridianLon(lon) - 2 * W /\ q = 2 * N - lat
          /\ (a <= GW => pos < 2 * a) /\ q < 2 * z
  <2>1. MeridianLon(lon) - 2 * W \in Nat /\ (a <= GW => MeridianLon(lon) - 2 * W < 2 * a)
    BY <1>5, <1>6
  <2>2. 2 * N - lat \in Nat /\ 2 * N - lat < 2 * z
    BY <1>1, <1>3
  <2> QED
    BY <2>1, <2>2
<1>9. PICK x \in Nat, y \in Nat : /\ x = pos \div p1 /\ y = q \div p2
                                  /\ (a <= GW => x < w) /\ y < h
  <2>1. /\ pos \div p1 \in Nat /\ \A u \in Int : pos < p1 * u => pos \div p1 < u
    BY InCell
  <2>2. /\ q \div p2 \in Nat /\ \A u \in Int : q < p2 * u => q \div p2 < u
    BY InCell
  <2>3. p1 * w = 2 * a /\ p2 * h = 2 * z
    BY <1>3, <1>7
  <2>4. w \in Int /\ h \in Int
    OBVIOUS
  <2> QED
    BY <1>8, <2>1, <2>2, <2>3, <2>4
<1>10. ColumnAt(g, 0, MeridianLon(lon), 2) = x /\ RowAt(g, 0, lat, 2) = y
  BY <1>1, <1>7, <1>8, <1>9 DEF ColumnAt, RowAt
<1>11. y \in 0 .. h - 1 /\ ~(x < 0) /\ ~(Span(g.box)[1] <= GlobalWidth /\ x >= w)
  BY <1>1, <1>2, <1>3, <1>9
<1> QED
  BY <1>1, <1>10, <1>11, Zenon DEF MeridianOut

\* A value that is kept is missing only where a grid point near it is.
LEMMA KeptFilled ==
    ASSUME NEW g \in Grids, ~g.projected, NEW b \in Boxes,
           NEW reg, RegionOf(g, 0, b, reg), NEW o \in DOMAIN reg.data
    PROVE  reg.data[o] = {} => \E n \in g.missing : NearValue(g, reg, o, n)
<1> SUFFICES ASSUME reg.data[o] = {}
             PROVE  \E n \in g.missing : NearValue(g, reg, o, n)
  OBVIOUS
<1>1. 0 \in Levels(g) /\ b \in BoxType
  BY Native, ReadBoxIsBox
<1>2. PICK col \in 0 .. Shape(g, 0)[1] - 1, row \in 0 .. Shape(g, 0)[2] - 1 :
          /\ reg.data[o] = Stored(g, 0, col, row)
          /\ MiddleLon(reg, o) = 2 * g.box.minLon + (2 * col + 1) * Resolution(g, 0)[1]
          /\ MiddleLat(reg, o) = 2 * g.box.maxLat - (2 * row + 1) * Resolution(g, 0)[2]
  BY <1>1, RegionPlace
<1>3. col \in Int /\ row \in Int /\ Stored(g, 0, col, row) = {}
  BY <1>2
<1>4. PICK n \in g.missing : /\ n[1] \in col * 2^0 .. col * 2^0 + 2^0 - 1
                             /\ n[2] \in row * 2^0 .. row * 2^0 + 2^0 - 1
  BY <1>1, <1>3, NothingStored
<1>5. /\ NearLon(g, n, MiddleLon(reg, o), 2, (3 * 2^0) \div 2)
      /\ NearLat(g, n, MiddleLat(reg, o), 2, (3 * 2^0) \div 2)
  BY <1>1, <1>2, <1>4, LonPlaced, LatPlaced
<1>6. n[1] \in Int /\ n[2] \in Int
  BY <1>3, <1>4
<1>7. MiddleLon(reg, o) \in Int /\ MiddleLat(reg, o) \in Int
  <2>1. /\ Resolution(g, 0)[1] \in Int /\ Resolution(g, 0)[2] \in Int
        /\ g.box.minLon \in Int /\ g.box.maxLat \in Int
    BY <1>1, LevelNumbers
  <2>2. \A a, c, r \in Int : 2 * a + (2 * c + 1) * r \in Int /\ 2 * a - (2 * c + 1) * r \in Int
    OBVIOUS
  <2> QED
    BY <1>2, <1>3, <2>1, <2>2
<1> HIDE DEF NearLon, NearLat
<1> QED
  BY <1>5, <1>6, <1>7, NearMore DEF NearValue

\* Nor is one that is made.
LEMMA MadeFilled ==
    ASSUME NEW g \in Grids, ~g.projected, NEW b \in Boxes, InCircle(b),
           NEW reg \in ReadRegion(g, 0, b), reg.kind = "region", ~Kept(reg, b),
           NEW o \in DOMAIN AreaAnswer(reg, b).data,
           ValueInGrid(g, b, AreaAnswer(reg, b), o)
    PROVE  AreaAnswer(reg, b).data[o] = {} =>
               \E n \in g.missing : NearValue(g, AreaAnswer(reg, b), o, n)
<1> DEFINE out == AreaAnswer(reg, b)
           lon == MiddleLon(out, o)
           lat == MiddleLat(out, o)
           columns == MeridianColumns(g, lon)
           rows == MeridianRows(g, lat)
<1>1. /\ lon \in Int /\ lat \in Int
      /\ 2 * b.minLon < lon /\ lon < 2 * b.maxLon + Resolution(g, 0)[1]
      /\ out.data[o] = Between(g, lon, lat)
  BY MadePlace
<1>2. CrossesOn360(b, g.box) /\ Uses360(g.box)
  BY NotKept DEF CrossesOn360
<1>3. /\ lon < 2 * b.maxLon
      /\ \E turn \in Turns(g) :
            lon + 2 * turn \in 2 * g.box.minLon ..
                2 * (IF Span(g.box)[1] > GlobalWidth THEN Circle ELSE g.box.maxLon) - 1
      /\ lat \in 2 * g.box.minLat + 1 .. 2 * g.box.maxLat
  BY <1>2, Zenon DEF ValueInGrid
<1> HIDE DEF out, lon, lat, columns, rows
<1>4. PICK C \in Nat, r1 \in Nat \ {0} : C = Circle /\ r1 = Resolution(g, 0)[1]
  BY PlacesAssumption, Native, LevelNumbers
<1>5. -(2 * Circle) < lon /\ lon < 2 * Circle /\ lon < 2 * Circle + Resolution(g, 0)[1]
  <2>1. PICK west \in Int, east \in Int : west = b.minLon /\ east = b.maxLon /\ -C <= west /\ east <= C
    BY <1>4, ReadBoxIsBox DEF BoxType, InCircle
  <2> QED
    BY <1>1, <1>3, <1>4, <2>1
<1>6. ~MeridianOut(g, lon, lat)
  <2>1. PICK turn \in Turns(g) :
            lon + 2 * turn \in 2 * g.box.minLon ..
                2 * (IF Span(g.box)[1] > GlobalWidth THEN Circle ELSE g.box.maxLon) - 1
    BY <1>3
  <2>2. PICK t \in Int : t = turn
    BY <1>4 DEF Turns
  <2>3. PICK W \in Int, e \in Int, S \in Int, N \in Int :
            /\ W = g.box.minLon /\ S = g.box.minLat /\ N = g.box.maxLat
            /\ e = IF Span(g.box)[1] > GlobalWidth THEN Circle ELSE g.box.maxLon
    <3>1. /\ g.box.minLon \in Int /\ g.box.maxLon \in Int
          /\ g.box.minLat \in Int /\ g.box.maxLat \in Int
      BY Native, LevelNumbers
    <3> QED
      BY <1>4, <3>1
  <2>4. 2 * W <= lon + 2 * t /\ lon + 2 * t < 2 * e
    BY <1>1, <2>1, <2>2, <2>3
  <2>5. 2 * S < lat /\ lat <= 2 * N
    BY <1>1, <1>3, <2>3
  <2>6. /\ 2 * g.box.minLon <= lon + 2 * turn
        /\ lon + 2 * turn < 2 * (IF Span(g.box)[1] > GlobalWidth THEN Circle ELSE g.box.maxLon)
        /\ 2 * g.box.minLat < lat /\ lat <= 2 * g.box.maxLat
    BY <2>2, <2>3, <2>4, <2>5
  <2> QED
    BY <1>1, <1>2, <1>5, <2>6, MeridianInGrid
<1>7. columns \in SUBSET Int /\ rows \in SUBSET Int /\ columns # {} /\ rows # {}
  <2>1. \A k : 0 .. k \subseteq Int
    OBVIOUS
  <2> QED
    BY <1>1, <1>6, <2>1, MeridianInts DEF columns, rows
<1>8. ASSUME \A i \in columns, j \in rows : Stored(g, 0, i, j) # {}
      PROVE  out.data[o] # {}
  <2>1. {} \notin Blocks(g, 0, columns, rows)
    BY <1>8 DEF Blocks
  <2>2. PICK i \in columns, j \in rows : Stored(g, 0, i, j) \in Blocks(g, 0, columns, rows)
    BY <1>7 DEF Blocks
  <2>3. out.data[o] = UNION Blocks(g, 0, columns, rows)
    BY <1>1, <1>6, <2>1, Zenon DEF Between, columns, rows
  <2> QED
    BY <1>8, <2>2, <2>3
<1>9. ASSUME NEW i \in columns, NEW j \in rows, Stored(g, 0, i, j) = {}
      PROVE  \E n \in g.missing : NearValue(g, out, o, n)
  <2>1. i \in Int /\ j \in Int
    BY <1>7
  <2>2. PICK n \in g.missing : n = <<i, j>>
    <3>1. <<i, j>> \in g.missing
      BY <1>9, <2>1, Native
    <3> QED
      BY <3>1
  <2>3. n[1] = i /\ n[2] = j
    BY <2>2
  <2>4. NearLon(g, n, lon, 2, 2)
    BY <1>1, <1>2, <1>5, <1>6, <2>3, MeridianColumnNear DEF columns
  <2>5. NearLat(g, n, lat, 2, 2)
    BY <1>1, <1>6, <2>3, MeridianRowNear DEF rows
  <2> QED
    BY <2>4, <2>5, Zenon DEF NearValue, lon, lat
<1>10. out.data[o] = {} => \E n \in g.missing : NearValue(g, out, o, n)
  BY <1>8, <1>9, Zenon
<1> QED
  BY <1>10 DEF out

-----------------------------------------------------------------------------
(* Area queries and images answer right *)

\* What an area query answers.
LEMMA AreaAnswered ==
    ASSUME NEW g \in Grids, NEW b \in Boxes, ReadArea(g, b), Answered'
    PROVE  /\ ~g.projected /\ IsArea' /\ request'.grid = g /\ request'.box = b
           /\ \E reg \in ReadRegion(g, 0, b) :
                  /\ reg.kind = "region"
                  /\ reply' = AreaAnswer(reg, b)
                  /\ Kept(reg, b) => /\ reply'.data = reg.data
                                     /\ reply'.res = reg.res
                                     /\ \A o : /\ MiddleLon(reply', o) = MiddleLon(reg, o)
                                               /\ MiddleLat(reply', o) = MiddleLat(reg, o)
                                     /\ DOMAIN reg.data # {} => RegionOf(g, 0, b, reg)
<1>1. /\ ~g.projected /\ request' = [kind |-> "area", grid |-> g, box |-> b, level |-> 0]
      /\ \E reg \in ReadRegion(g, 0, b) :
             reply' = IF reg.kind = "region"
                      THEN ExtractDateline(ExtractPrimeMeridian(reg, b), b) ELSE reg
  BY Zenon DEF ReadArea
<1>2. PICK reg \in ReadRegion(g, 0, b) :
          reply' = IF reg.kind = "region" THEN AreaAnswer(reg, b) ELSE reg
  BY <1>1, Zenon DEF AreaAnswer
<1>3. reply'.kind = "region"
  BY DEF Answered
<1>4. reg.kind = "region" /\ reply' = AreaAnswer(reg, b)
  BY <1>2, <1>3, Zenon
<1>5. b \in BoxType /\ 0 \in Levels(g)
  BY ReadBoxIsBox, Native
<1>6. ASSUME Kept(reg, b)
      PROVE  /\ reply'.data = reg.data /\ reply'.res = reg.res
             /\ \A o : /\ MiddleLon(reply', o) = MiddleLon(reg, o)
                       /\ MiddleLat(reply', o) = MiddleLat(reg, o)
  <2> DEFINE out == AreaAnswer(reg, b)
  <2>1. /\ out.data = reg.data /\ out.res = reg.res
        /\ \A o : /\ MiddleLon(out, o) = MiddleLon(reg, o)
                  /\ MiddleLat(out, o) = MiddleLat(reg, o)
    BY <1>4, <1>5, <1>6, KeptIs
  <2> QED
    BY <1>4, <2>1
<1>7. DOMAIN reg.data # {} => RegionOf(g, 0, b, reg)
  <2>1. CASE reg = Region(<<>>, 0, 0, EffectiveBox(g, 0, b), Resolution(g, 0))
    <3>1. reg.data = <<>>
      BY <2>1 DEF Region
    <3> QED
      BY <3>1
  <2> QED
    BY <1>4, <1>5, <2>1, ReadRegionIs
<1>8. IsArea' /\ request'.grid = g /\ request'.box = b
  BY <1>1 DEF IsArea
<1> QED
  BY <1>1, <1>4, <1>6, <1>7, <1>8, Zenon

\* A value is in the rectangle, near its place, and there where it can be.
LEMMA AreaValues ==
    ASSUME NEW g \in Grids, NEW b \in Boxes, ReadArea(g, b), Answered', InCircle(b),
           NEW o, o \in (DOMAIN reply.data)'
    PROVE  /\ (CrossesOn360(b, g.box) /\ b.maxLon = 0) \/ InRectangle(b, reply', o)
           /\ \A n \in reply'.data[o] : NearValue(g, reply', o, n)
           /\ reply'.data[o] = {} /\ ValueInGrid(g, b, reply', o) =>
                  \E n \in g.missing : NearValue(g, reply', o, n)
<1>1. ~g.projected
  BY AreaAnswered
<1>2. PICK reg \in ReadRegion(g, 0, b) :
          /\ reg.kind = "region"
          /\ reply' = AreaAnswer(reg, b)
          /\ Kept(reg, b) => /\ reply'.data = reg.data
                             /\ reply'.res = reg.res
                             /\ \A u : /\ MiddleLon(reply', u) = MiddleLon(reg, u)
                                       /\ MiddleLat(reply', u) = MiddleLat(reg, u)
                             /\ DOMAIN reg.data # {} => RegionOf(g, 0, b, reg)
  BY AreaAnswered
<1>3. CASE Kept(reg, b)
  <2>1. /\ o \in DOMAIN reg.data /\ reply'.data[o] = reg.data[o] /\ RegionOf(g, 0, b, reg)
    BY <1>2, <1>3
  <2>2. \A n : NearValue(g, reply', o, n) <=> NearValue(g, reg, o, n)
    BY <1>2, <1>3, Zenon DEF NearValue
  <2>3. \A n \in reply'.data[o] : NearValue(g, reply', o, n)
    BY <1>1, <2>1, <2>2, KeptNear
  <2>4. reply'.data[o] = {} => \E n \in g.missing : NearValue(g, reply', o, n)
    <3>1. reg.data[o] = {} => \E n \in g.missing : NearValue(g, reg, o, n)
      BY <1>1, <2>1, KeptFilled
    <3> QED
      BY <2>1, <2>2, <3>1, Zenon
  <2>5. CASE CrossesOn360(b, g.box)
    <3>1. b \in BoxType /\ Uses360(reg.box)
      BY <1>1, <1>2, <2>5, ReadBoxIsBox, CrossingRead
    <3>2. b.maxLon = 0
      BY <1>3, <2>5, <3>1 DEF BoxType, Kept, CrossesOn360
    <3> QED
      BY <2>3, <2>4, <2>5, <3>2, Zenon
  <2>6. CASE ~CrossesOn360(b, g.box)
    <3>1. InRectangle(b, reg, o)
      BY <1>1, <2>1, <2>6, KeptClipped
    <3>2. InRectangle(b, reply', o)
      BY <1>2, <1>3, <3>1, Zenon DEF InRectangle
    <3> QED
      BY <2>3, <2>4, <3>2, Zenon
  <2> QED
    BY <2>5, <2>6
<1>4. CASE ~Kept(reg, b)
  <2>1. o \in DOMAIN AreaAnswer(reg, b).data
    BY <1>2
  <2>2. /\ InRectangle(b, reply', o)
        /\ \A n \in reply'.data[o] : NearValue(g, reply', o, n)
    BY <1>1, <1>2, <1>4, <2>1, MadeRight
  <2>3. reply'.data[o] = {} /\ ValueInGrid(g, b, reply', o) =>
            \E n \in g.missing : NearValue(g, reply', o, n)
    BY <1>1, <1>2, <1>4, <2>1, MadeFilled
  <2> QED
    BY <2>2, <2>3, Zenon
<1> QED
  BY <1>3, <1>4

\* And every grid point inside the rectangle is in one.
LEMMA AreaPoints ==
    ASSUME NEW g \in Grids, NEW b \in Boxes, ReadArea(g, b), Answered',
           NEW n \in (0 .. Gaps(g, 1)) \X (0 .. Gaps(g, 2)), n \notin g.missing,
           IsInside(g, b, n)
    PROVE  \/ \E o \in (DOMAIN reply.data)' : n \in reply'.data[o]
           \/ /\ CrossesOn360(b, g.box)
              /\ \E m \in g.missing : /\ m[1] \in {n[1], RightOf(g, n[1])}
                                      /\ m[2] \in {n[2], n[2] + 1}
<1>1. ~g.projected
  BY AreaAnswered
<1>2. PICK reg \in ReadRegion(g, 0, b) :
          /\ reg.kind = "region"
          /\ reply' = AreaAnswer(reg, b)
          /\ Kept(reg, b) => reply'.data = reg.data
  BY AreaAnswered
<1>3. CASE Kept(reg, b)
  BY <1>1, <1>2, <1>3, KeptHas
<1>4. CASE ~Kept(reg, b)
  <2>1. CrossesOn360(b, g.box)
    BY <1>1, <1>2, <1>4, NotKept
  <2> QED
    BY <1>1, <1>2, <1>4, <2>1, MadeHas
<1> QED
  BY <1>3, <1>4

\* The answer to an area query has the three properties.
LEMMA AreaAnswersStep ==
    ASSUME NEW g \in Grids, NEW b \in Boxes, ReadArea(g, b)
    PROVE  AreaClipped' /\ AreaWhole' /\ AreaFilled'
<1>1. CASE ~Answered'
  BY <1>1 DEF AreaClipped, AreaWhole, AreaFilled
<1>2. CASE Answered'
  <2>1. request'.grid = g /\ request'.box = b
    BY <1>2, AreaAnswered
  <2>2. AreaClipped'
    <3>1. ASSUME InCircle(b), NEW o \in (DOMAIN reply.data)'
          PROVE  /\ (CrossesOn360(b, g.box) /\ b.maxLon = 0) \/ InRectangle(b, reply', o)
                 /\ \A n \in reply'.data[o] : NearValue(g, reply', o, n)
      BY <1>2, <3>1, AreaValues
    <3> QED
      BY <2>1, <3>1, Zenon DEF AreaClipped
  <2>3. AreaFilled'
    <3>1. ASSUME InCircle(b), NEW o \in (DOMAIN reply.data)'
          PROVE  reply'.data[o] = {} /\ ValueInGrid(g, b, reply', o) =>
                     \E n \in g.missing : NearValue(g, reply', o, n)
      BY <1>2, <3>1, AreaValues
    <3> QED
      BY <2>1, <3>1, Zenon DEF AreaFilled
  <2>4. AreaWhole'
    <3>1. ASSUME NEW n \in ((0 .. Gaps(g, 1)) \X (0 .. Gaps(g, 2))) \ g.missing,
                 IsInside(g, b, n)
          PROVE  \/ \E o \in (DOMAIN reply.data)' : n \in reply'.data[o]
                 \/ /\ CrossesOn360(b, g.box)
                    /\ \E m \in g.missing : /\ m[1] \in {n[1], RightOf(g, n[1])}
                                            /\ m[2] \in {n[2], n[2] + 1}
      <4>1. n \in (0 .. Gaps(g, 1)) \X (0 .. Gaps(g, 2)) /\ n \notin g.missing
        OBVIOUS
      <4> HIDE DEF IsInside
      <4> QED
        BY <1>2, <3>1, <4>1, AreaPoints
    <3> QED
      BY <2>1, <3>1, Zenon DEF AreaWhole
  <2> QED
    BY <2>2, <2>3, <2>4
<1> QED
  BY <1>1, <1>2

\* What is said of the answers to area queries.
Areas == AreaClipped /\ AreaWhole /\ AreaFilled

\* Every step keeps them.
LEMMA AreasNext ==
    ASSUME [ReadsNext]_readsVars, Areas
    PROVE  Areas'
<1>1. ASSUME ~Answered' \/ ~IsArea'
      PROVE  Areas'
  BY <1>1, Zenon DEF Areas, AreaClipped, AreaWhole, AreaFilled
<1>2. CASE UNCHANGED readsVars
  BY <1>2 DEF readsVars, Areas, AreaClipped, AreaWhole, AreaFilled, IsArea, Answered
<1>3. ASSUME NEW g \in Grids, NEW b \in Boxes, NEW size \in Sizes, ReadTile(g, b, size)
      PROVE  ~IsArea'
  BY <1>3 DEF ReadTile, IsArea
<1>4. ASSUME NEW g \in Grids, NEW b \in Boxes, ReadArea(g, b)
      PROVE  Areas'
  BY <1>4, AreaAnswersStep DEF Areas
<1>5. CASE \E g \in Grids, p \in Points : ReadPoint(g, p)
  <2>1. ~Answered'
    BY <1>5 DEF ReadPoint, Answered
  <2> QED
    BY <1>1, <2>1
<1>6. CASE Draw
  <2>1. ~Answered'
    BY <1>6 DEF Draw, Answered
  <2> QED
    BY <1>1, <2>1
<1>7. CASE Sent
  <2>1. ~Answered'
    BY <1>7 DEF Sent, None, Answered
  <2> QED
    BY <1>1, <2>1
<1> QED
  BY <1>1, <1>2, <1>3, <1>4, <1>5, <1>6, <1>7 DEF ReadsNext

\* Images and area queries answer right, for any grid, rectangle, size and missing
\* cells: a pixel is drawn of what is near it, and is drawn wherever it is in the
\* grid and nothing near it is missing; the answer to an area query lies in its
\* rectangle, is made of grid points near the places it is given for, leaves out
\* no point of the rectangle and no place of the grid, also across the prime
\* meridian and the date line.  (resample_from_geographic,
\* extract_prime_meridian_region, extract_dateline_region)
THEOREM AnswersAreRight == ReadsSpec => []AnswersRight
<1>1. ReadsInit => TileRead /\ Drawn /\ Areas
  BY DEF ReadsInit, Idle, None, TileRead, Drawn, Areas, AreaClipped, AreaWhole, AreaFilled,
         IsTile, IsArea, Answered
<1>2. TileRead /\ Drawn /\ Areas /\ [ReadsNext]_readsVars => (TileRead /\ Drawn /\ Areas)'
  BY TileReadNext, DrawnNext, AreasNext
<1>3. TileRead /\ Drawn /\ Areas => AnswersRight
  BY DEF Areas, AnswersRight
<1> QED
  BY <1>1, <1>2, <1>3, PTL DEF ReadsSpec

=============================================================================

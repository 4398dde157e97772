------------------------- MODULE UnscramblerProofs -------------------------
(* Theorems of Unscrambler, for sections of any size and any number of         *)
(* amplifiers: no pixel is lost or doubled and each is where it belongs.       *)
EXTENDS Unscrambler, FiniteSetTheorems, TLAPS

\* A position is a line and a column.
LEMMA LineAndColumn ==
    ASSUME NEW n \in Nat \ {0}, NEW m \in Nat, NEW k \in 0 .. n * m - 1
    PROVE  /\ k \div n \in 0 .. m - 1
           /\ k % n \in 0 .. n - 1
           /\ k = n * (k \div n) + (k % n)
<1>1. k \in Nat /\ k < n * m
  OBVIOUS
<1>2. /\ k \div n \in Int /\ k % n \in 0 .. n - 1 /\ k = n * (k \div n) + (k % n)
  <2>1. k \div n \in Int
    BY <1>1
  <2>2. k % n \in 0 .. n - 1
    BY <1>1
  <2>3. k = n * (k \div n) + (k % n)
    BY <1>1
  <2> QED
    BY <2>1, <2>2, <2>3
<1>3. k \div n >= 0
  BY <1>1, <1>2
<1>4. k \div n < m
  BY <1>1, <1>2
<1> QED
  BY <1>2, <1>3, <1>4

\* The end of the line of a pixel, as the routines count it.
EndLine(k) == ((k \div NCols) + 1) * NCols - 1 + (k \div NCols) * NCols

LEMMA Geometry ==
    /\ NCols \in Nat \ {0}
    /\ NRows \in Nat \ {0}
    /\ Size \in Nat
BY GeometryAssumption DEF NCols, NRows, Size

\* The two moves the routines are made of: a pixel counted from the other end of its
\* line, and from the other end of the section.
Mirror(k) == EndLine(k) - k
Reverse(k) == Size - k - 1

LEMMA SameLine ==
    ASSUME NEW n \in Nat \ {0},
           NEW y1 \in Nat, NEW x1 \in 0 .. n - 1,
           NEW y2 \in Nat, NEW x2 \in 0 .. n - 1,
           n * y1 + x1 = n * y2 + x2
    PROVE  y1 = y2 /\ x1 = x2
<1>1. ASSUME NEW a \in Nat, NEW b \in Nat, a < b
      PROVE  n * a + n <= n * b
  <2>1. PICK d \in Nat : b = a + 1 + d
    <3>1. b - a - 1 \in Nat /\ b = a + 1 + (b - a - 1)
      BY <1>1
    <3> QED
      BY <3>1
  <2>2. n * b = n * a + n + n * d /\ n * d >= 0
    BY <2>1
  <2> QED
    BY <2>2
<1>2. ~(y1 < y2)
  <2>1. SUFFICES ASSUME y1 < y2 PROVE FALSE
    OBVIOUS
  <2>2. n * y1 + n <= n * y2
    BY <1>1, <2>1
  <2> QED
    BY <2>2
<1>3. ~(y2 < y1)
  <2>1. SUFFICES ASSUME y2 < y1 PROVE FALSE
    OBVIOUS
  <2>2. n * y2 + n <= n * y1
    BY <1>1, <2>1
  <2> QED
    BY <2>2
<1>4. y1 = y2
  BY <1>2, <1>3
<1> QED
  BY <1>4

\* A position of a grid of m lines of n columns, by its line and its column.
LEMMA GridAt ==
    ASSUME NEW n \in Nat \ {0}, NEW m \in Nat \ {0},
           NEW y \in 0 .. m - 1, NEW x \in 0 .. n - 1
    PROVE  /\ n * y + x \in 0 .. n * m - 1
           /\ (n * y + x) \div n = y
           /\ (n * y + x) % n = x
<1> DEFINE p == n * y + x
<1>1. p \in Nat
  OBVIOUS
<1>2. p < n * m
  <2>1. PICK d \in Nat : m = y + 1 + d
    <3>1. m - y - 1 \in Nat /\ m = y + 1 + (m - y - 1)
      OBVIOUS
    <3> QED
      BY <3>1
  <2>2. n * m = n * y + n + n * d /\ n * d >= 0
    BY <2>1
  <2> QED
    BY <2>2
<1>3. p \in 0 .. n * m - 1
  BY <1>1, <1>2
<1>4. /\ p \div n \in Nat
      /\ p % n \in 0 .. n - 1
      /\ p = n * (p \div n) + (p % n)
  <2> HIDE DEF p
  <2>1. p \div n \in 0 .. m - 1 /\ p % n \in 0 .. n - 1 /\ p = n * (p \div n) + (p % n)
    BY <1>3, LineAndColumn
  <2> QED
    BY <2>1
<1>5. p \div n = y /\ p % n = x
  <2> HIDE DEF p
  <2>1. p = n * y + x
    BY DEF p
  <2> QED
    BY <1>4, <2>1, SameLine
<1> QED
  BY <1>3, <1>5

\* A position by its line and its column.
LEMMA At ==
    ASSUME NEW y \in 0 .. NRows - 1, NEW x \in 0 .. NCols - 1
    PROVE  /\ NCols * y + x \in Positions
           /\ (NCols * y + x) \div NCols = y
           /\ (NCols * y + x) % NCols = x
  BY Geometry, GridAt DEF Positions, Size

LEMMA OfPosition ==
    ASSUME NEW k \in Positions
    PROVE  \E y \in 0 .. NRows - 1, x \in 0 .. NCols - 1 : k = NCols * y + x
<1>1. /\ k \div NCols \in 0 .. NRows - 1
      /\ k % NCols \in 0 .. NCols - 1
      /\ k = NCols * (k \div NCols) + (k % NCols)
  BY Geometry, LineAndColumn DEF Positions, Size
<1> QED
  BY <1>1

LEMMA MirrorAt ==
    ASSUME NEW y \in 0 .. NRows - 1, NEW x \in 0 .. NCols - 1
    PROVE  Mirror(NCols * y + x) = NCols * y + (NCols - 1 - x)
<1>1. EndLine(NCols * y + x) = (y + 1) * NCols - 1 + y * NCols
  BY At DEF EndLine
<1>2. \A n \in Nat, b \in Nat, a \in Nat :
        ((b + 1) * n - 1 + b * n) - (n * b + a) = n * b + (n - 1 - a)
  OBVIOUS
<1> QED
  BY <1>1, <1>2, Geometry DEF Mirror

LEMMA ReverseAt ==
    ASSUME NEW y \in 0 .. NRows - 1, NEW x \in 0 .. NCols - 1
    PROVE  Reverse(NCols * y + x) = NCols * (NRows - 1 - y) + (NCols - 1 - x)
<1>1. \A n \in Nat, m \in Nat, b \in Nat, a \in Nat :
        n * m - (n * b + a) - 1 = n * (m - 1 - b) + (n - 1 - a)
  OBVIOUS
<1> QED
  BY <1>1, Geometry DEF Reverse, Size

\* The place of a pixel by its line and column: a type mirrors the lines, reverses the
\* section, or both.
LEMMA PlaceAt ==
    ASSUME NEW y \in 0 .. NRows - 1, NEW x \in 0 .. NCols - 1
    PROVE  /\ Place("LL", NCols * y + x) = NCols * y + x
           /\ Place("LR", NCols * y + x) = NCols * y + (NCols - 1 - x)
           /\ Place("UR", NCols * y + x) = NCols * (NRows - 1 - y) + (NCols - 1 - x)
           /\ Place("UL", NCols * y + x) = NCols * (NRows - 1 - y) + x
<1> DEFINE k == NCols * y + x
<1>1. k \in Int /\ Size \in Int /\ EndLine(k) \in Int
  BY Geometry, At DEF EndLine
<1>2. /\ Place("LL", k) = k
      /\ Place("LR", k) = Mirror(k)
      /\ Place("UR", k) = Reverse(k)
  BY DEF Place, EndLine, Mirror, Reverse
<1>3. Place("UL", k) = Size - EndLine(k) + k - 1
  BY DEF Place, EndLine
<1>4. Place("UL", k) = Reverse(Mirror(k))
  BY <1>1, <1>3 DEF Reverse, Mirror
<1>5. NCols - 1 - x \in 0 .. NCols - 1 /\ NCols - 1 - (NCols - 1 - x) = x
  BY Geometry
<1>6. Reverse(Mirror(k)) = NCols * (NRows - 1 - y) + x
  BY <1>5, MirrorAt, ReverseAt
<1> QED
  BY <1>2, <1>4, <1>6, MirrorAt, ReverseAt

\* GU_SHORT(), GU_LONG() and GU_FLOAT(): whatever the size of an amplifier, its pixels
\* are placed inside its own buffer, and the pixel that belongs at a place is found by
\* placing the place: no two share one and none is left empty.
THEOREM PlacesArePermutation ==
    ASSUME NEW type \in Types, NEW k \in Positions
    PROVE  Place(type, k) \in Positions /\ Place(type, Place(type, k)) = k
<1>1. PICK y \in 0 .. NRows - 1, x \in 0 .. NCols - 1 : k = NCols * y + x
  BY OfPosition
<1>2. /\ NCols - 1 - x \in 0 .. NCols - 1 /\ NCols - 1 - (NCols - 1 - x) = x
      /\ NRows - 1 - y \in 0 .. NRows - 1 /\ NRows - 1 - (NRows - 1 - y) = y
  BY Geometry
<1>3. CASE type = "LL"
  BY <1>1, <1>3, PlaceAt
<1>4. CASE type = "LR"
  BY <1>1, <1>2, <1>4, PlaceAt, At
<1>5. CASE type = "UR"
  BY <1>1, <1>2, <1>5, PlaceAt, At
<1>6. CASE type = "UL"
  BY <1>1, <1>2, <1>6, PlaceAt, At
<1> QED
  BY <1>3, <1>4, <1>5, <1>6 DEF Types, Lower, Upper

-----------------------------------------------------------------------------
(* Unscrambling loses no pixel. *)

\* The sides of an amplifier have even lengths, and an order asked for names each
\* section once.
Even == NCols % 2 = 0 /\ NRows % 2 = 0
EachSectionOnce == \A o \in Orders : \A m, n \in 1 .. 3 : o[m] = o[n] => m = n

\* A buffer has the pixels of the i-th amplifier of the stream, each once.
Filled(buffer, i) ==
    /\ buffer \in [Positions -> {i} \X Positions]
    /\ \A p, q \in Positions : buffer[p] = buffer[q] => p = q
    /\ \A k \in Positions : \E p \in Positions : buffer[p] = <<i, k>>

\* A rearrangement of the positions.
Shuffle(f) ==
    /\ f \in [Positions -> Positions]
    /\ \A p, q \in Positions : f[p] = f[q] => p = q
    /\ \A p \in Positions : \E q \in Positions : f[q] = p

LEMMA InjectionShuffles ==
    ASSUME NEW f \in [Positions -> Positions], \A p, q \in Positions : f[p] = f[q] => p = q
    PROVE  Shuffle(f)
<1>1. IsFiniteSet(Positions)
  BY Geometry, FS_Interval DEF Positions
<1>2. f \in Injection(Positions, Positions)
  BY DEF Injection, IsInjective
<1>3. f \in Surjection(Positions, Positions)
  BY <1>1, <1>2, FS_Injection
<1> QED
  BY <1>3 DEF Surjection, Shuffle

\* Of a set with one element.
LEMMA MaxOfOne ==
    ASSUME NEW x \in Int
    PROVE  Max({x}) = x
  BY DEF Max

LEMMA ScatterFills ==
    ASSUME NEW i, NEW source, Filled(source, i), NEW place, Shuffle(place)
    PROVE  /\ \A q \in Positions : Scatter(source, place)[place[q]] = source[q]
           /\ Filled(Scatter(source, place), i)
<1> DEFINE result == Scatter(source, place)
<1>1. ASSUME NEW q \in Positions PROVE result[place[q]] = source[q]
  <2>1. place[q] \in Positions /\ q \in Int
    BY Geometry DEF Shuffle, Positions
  <2>2. {r \in Positions : place[r] = place[q]} = {q}
    BY DEF Shuffle
  <2>3. Max({q}) = q
    BY <2>1, MaxOfOne
  <2> QED
    BY <2>1, <2>2, <2>3 DEF Scatter
<1>2. ASSUME NEW p \in Positions PROVE \E q \in Positions : p = place[q] /\ result[p] = source[q]
  BY <1>1 DEF Shuffle
<1>3. result \in [Positions -> {i} \X Positions]
  <2>1. result = [p \in Positions |-> result[p]]
    BY DEF Scatter
  <2>2. ASSUME NEW p \in Positions PROVE result[p] \in {i} \X Positions
    <3>1. PICK q \in Positions : result[p] = source[q]
      BY <1>2
    <3> QED
      BY <3>1 DEF Filled
  <2> HIDE DEF result
  <2> QED
    BY <2>1, <2>2
<1> HIDE DEF result
<1>4. ASSUME NEW p \in Positions, NEW q \in Positions, result[p] = result[q] PROVE p = q
  <2>1. PICK r \in Positions : p = place[r] /\ result[p] = source[r]
    BY <1>2
  <2>2. PICK s \in Positions : q = place[s] /\ result[q] = source[s]
    BY <1>2
  <2>3. r = s
    BY <1>4, <2>1, <2>2 DEF Filled
  <2> QED
    BY <2>1, <2>2, <2>3
<1>5. ASSUME NEW k \in Positions PROVE \E p \in Positions : result[p] = <<i, k>>
  <2>1. PICK q \in Positions : source[q] = <<i, k>>
    BY DEF Filled
  <2>2. place[q] \in Positions
    BY DEF Shuffle
  <2> QED
    BY <1>1, <2>1, <2>2
<1>6. Filled(result, i)
  BY <1>3, <1>4, <1>5 DEF Filled
<1> QED
  BY <1>1, <1>6 DEF result

LEMMA StreamFills ==
    ASSUME Even, ~FloatsCut, NEW i
    PROVE  Filled(Stream(i), i)
<1> DEFINE swap == [k \in Positions |->
               IF Swaps THEN IF k % 2 = 0 THEN k + 1 ELSE k - 1 ELSE k]
<1>1. Size % 2 = 0
  <2>1. NCols \in Nat /\ NRows \in Nat
    BY Geometry
  <2>2. PICK h \in Nat : NCols = 2 * h
    <3>1. NCols = 2 * (NCols \div 2) /\ NCols \div 2 \in Nat
      BY <2>1 DEF Even
    <3> QED
      BY <3>1
  <2>3. Size = 2 * (h * NRows) /\ h * NRows \in Nat
    BY <2>1, <2>2 DEF Size
  <2> HIDE DEF Even
  <2>4. \A z \in Nat : (2 * z) % 2 = 0
    OBVIOUS
  <2> QED
    BY <2>3, <2>4
<1>2. swap \in [Positions -> Positions]
  <2>1. ASSUME NEW k \in Positions, k % 2 = 0 PROVE k + 1 \in Positions
    <3>1. k \in Nat /\ k < Size /\ Size \in Nat
      BY Geometry DEF Positions
    <3>2. k + 1 # Size
      BY <1>1, <2>1, <3>1
    <3> QED
      BY <3>1, <3>2 DEF Positions
  <2>2. ASSUME NEW k \in Positions, k % 2 # 0 PROVE k - 1 \in Positions
    <3>1. k \in Nat /\ k < Size /\ Size \in Nat
      BY Geometry DEF Positions
    <3>2. k # 0
      BY <2>2
    <3> QED
      BY <3>1, <3>2 DEF Positions
  <2> QED
    BY <2>1, <2>2
<1>3. ASSUME NEW p \in Positions, NEW q \in Positions, swap[p] = swap[q] PROVE p = q
  <2>1. p \in Nat /\ q \in Nat
    BY Geometry DEF Positions
  <2>2. CASE Swaps
    <3>1. swap[p] = (IF p % 2 = 0 THEN p + 1 ELSE p - 1) /\ swap[q] = (IF q % 2 = 0 THEN q + 1 ELSE q - 1)
      BY <2>2
    <3>2. (IF p % 2 = 0 THEN p + 1 ELSE p - 1) = (IF q % 2 = 0 THEN q + 1 ELSE q - 1)
      BY <1>3, <3>1
    <3> QED
      BY <2>1, <3>2
  <2>3. CASE ~Swaps
    BY <1>3, <2>3
  <2> QED
    BY <2>2, <2>3
<1> HIDE DEF swap
<1>4. Shuffle(swap)
  BY <1>2, <1>3, InjectionShuffles
<1>5. Stream(i) = [k \in Positions |-> <<i, swap[k]>>]
  BY DEF Stream, swap
<1> QED
  BY <1>4, <1>5 DEF Filled, Shuffle

LEMMA PlaceShuffles ==
    ASSUME NEW type \in Types
    PROVE  Shuffle([k \in Positions |-> Place(type, k)])
<1>1. \A k \in Positions : Place(type, k) \in Positions /\ Place(type, Place(type, k)) = k
  BY PlacesArePermutation
<1> QED
  BY <1>1 DEF Shuffle

\* Where RI_SHORT(), RI_LONG() and RI_FLOAT() put a pixel, when no side is odd: lines
\* become columns.
LEMMA RotatedAt ==
    ASSUME Even, NEW y \in 0 .. NRows - 1, NEW x \in 0 .. NCols - 1
    PROVE  /\ Rotated(90, NCols * y + x) = NRows * x + (NRows - 1 - y)
           /\ Rotated(270, NCols * y + x) = NRows * (NCols - 1 - x) + y
           /\ Rotated(-90, NCols * y + x) = NRows * (NCols - 1 - x) + y
<1> DEFINE p == NCols * y + x
<1>1. p % NCols = x /\ p \div NCols = y
  BY At
<1>2. 2 * (NRows \div 2) = NRows /\ 2 * (NCols \div 2) = NCols
  BY Geometry DEF Even
<1>3. \A n \in Nat : HalfTruncated(2 * n) = n
  BY DEF HalfTruncated
<1>4. /\ NRows - 2 * y + NRows - 2 = 2 * (NRows - 1 - y) /\ NRows - 1 - y \in Nat
      /\ -(NRows - 2 * y) + NRows - 0 = 2 * y
      /\ 2 * x - NCols + NCols - 0 = 2 * x
      /\ -(2 * x - NCols) + NCols - 2 = 2 * (NCols - 1 - x) /\ NCols - 1 - x \in Nat
      /\ x \in Nat /\ y \in Nat
  BY Geometry
<1> HIDE DEF p
<1>5. Rotated(90, p) = x * NRows + (NRows - 1 - y)
  <2>1. Rotated(90, p) = HalfTruncated(2 * x - NCols + NCols - 0) * NRows
                         + HalfTruncated(NRows - 2 * y + NRows - 2)
    BY <1>1, <1>2 DEF Rotated
  <2> QED
    BY <1>3, <1>4, <2>1
<1>6. Rotated(270, p) = (NCols - 1 - x) * NRows + y
  <2>1. Rotated(270, p) = HalfTruncated(-(2 * x - NCols) + NCols - 2) * NRows
                          + HalfTruncated(-(NRows - 2 * y) + NRows - 0)
    BY <1>1, <1>2 DEF Rotated
  <2> QED
    BY <1>3, <1>4, <2>1
<1>7. Rotated(-90, p) = (NCols - 1 - x) * NRows + y
  <2>1. Rotated(-90, p) = HalfTruncated(-(2 * x - NCols) + NCols - 2) * NRows
                          + HalfTruncated(-(NRows - 2 * y) + NRows - 0)
    BY <1>1, <1>2 DEF Rotated
  <2> QED
    BY <1>3, <1>4, <2>1
<1>8. x * NRows = NRows * x /\ (NCols - 1 - x) * NRows = NRows * (NCols - 1 - x)
  BY <1>4, Geometry
<1> QED
  BY <1>5, <1>6, <1>7, <1>8 DEF p

\* Of -270 degrees the sine is that of 90 and the correction is not: the second pixel of
\* the first column is put before the buffer.
LEMMA TurnedOutside ==
    ASSUME Even
    PROVE  \E p \in Positions : Rotated(-270, p) \notin Positions
<1>1. 1 \in 0 .. NRows - 1 /\ 0 \in 0 .. NCols - 1 /\ NRows \in Nat /\ NCols \in Nat
  BY Geometry DEF Even
<1>2. NCols * 1 + 0 \in Positions /\ (NCols * 1 + 0) % NCols = 0 /\ (NCols * 1 + 0) \div NCols = 1
  BY <1>1, At
<1> DEFINE p == NCols * 1 + 0
<1>3. 2 * (NRows \div 2) = NRows /\ 2 * (NCols \div 2) = NCols
  BY <1>1 DEF Even
<1>4. HalfTruncated(-2) = -1
  BY DEF HalfTruncated
<1>5. HalfTruncated(2 * (NRows - 1)) = NRows - 1
  BY <1>1 DEF HalfTruncated
<1> HIDE DEF p
<1>6. /\ NRows - 2 * 1 + NRows - 0 = 2 * (NRows - 1)
      /\ 2 * 0 - NCols + NCols - 2 = -2
  BY <1>1
<1>7. Rotated(-270, p) = (-1) * NRows + (NRows - 1)
  <2>1. Rotated(-270, p) = HalfTruncated(2 * 0 - NCols + NCols - 2) * NRows
                           + HalfTruncated(NRows - 2 * 1 + NRows - 0)
    BY <1>2, <1>3 DEF Rotated, p
  <2>2. HalfTruncated(2 * 0 - NCols + NCols - 2) = -1
    BY <1>4, <1>6
  <2>3. HalfTruncated(NRows - 2 * 1 + NRows - 0) = NRows - 1
    BY <1>5, <1>6
  <2> QED
    BY <2>1, <2>2, <2>3
<1>8. Rotated(-270, p) = -1
  BY <1>1, <1>7
<1> QED
  BY <1>2, <1>8 DEF Positions, p

LEMMA RotationShuffles ==
    ASSUME Even, NEW rotate \in {90, 270, -90}
    PROVE  Shuffle([p \in Positions |-> Rotated(rotate, p)])
<1> DEFINE f == [p \in Positions |-> Rotated(rotate, p)]
           lx(x) == IF rotate = 90 THEN x ELSE NCols - 1 - x
           ly(y) == IF rotate = 90 THEN NRows - 1 - y ELSE y
<1>1. Size = NRows * NCols
  BY Geometry DEF Size
<1>2. ASSUME NEW y \in 0 .. NRows - 1, NEW x \in 0 .. NCols - 1
      PROVE  /\ Rotated(rotate, NCols * y + x) = NRows * lx(x) + ly(y)
             /\ lx(x) \in 0 .. NCols - 1 /\ ly(y) \in 0 .. NRows - 1
  BY RotatedAt, Geometry
<1>3. ASSUME NEW p \in Positions PROVE Rotated(rotate, p) \in Positions
  <2>1. PICK y \in 0 .. NRows - 1, x \in 0 .. NCols - 1 : p = NCols * y + x
    BY OfPosition
  <2>2. NRows * lx(x) + ly(y) \in 0 .. NRows * NCols - 1
    BY <1>2, GridAt, Geometry
  <2> QED
    BY <1>1, <1>2, <2>1, <2>2 DEF Positions
<1>4. ASSUME NEW p \in Positions, NEW q \in Positions, Rotated(rotate, p) = Rotated(rotate, q)
      PROVE  p = q
  <2>1. PICK y \in 0 .. NRows - 1, x \in 0 .. NCols - 1 : p = NCols * y + x
    BY OfPosition
  <2>2. PICK b \in 0 .. NRows - 1, a \in 0 .. NCols - 1 : q = NCols * b + a
    BY OfPosition
  <2>3. NRows * lx(x) + ly(y) = NRows * lx(a) + ly(b)
    BY <1>2, <1>4, <2>1, <2>2
  <2>4. /\ lx(x) \in Nat /\ lx(a) \in Nat
        /\ ly(y) \in 0 .. NRows - 1 /\ ly(b) \in 0 .. NRows - 1
    BY <1>2
  <2> HIDE DEF lx, ly
  <2>5. lx(x) = lx(a) /\ ly(y) = ly(b)
    BY <2>3, <2>4, SameLine, Geometry
  <2> USE DEF lx, ly
  <2>6. x = a /\ y = b
    BY <2>5, Geometry
  <2> QED
    BY <2>1, <2>2, <2>6
<1>5. f \in [Positions -> Positions] /\ \A p, q \in Positions : f[p] = f[q] => p = q
  BY <1>3, <1>4
<1> HIDE DEF f
<1>6. Shuffle(f)
  BY <1>5, InjectionShuffles
<1> QED
  BY <1>6 DEF f

LEMMA PlacedFills ==
    ASSUME Even, ~FloatsCut, NEW a \in 1 .. namps, NEW i \in 1 .. namps,
           {s \in 1 .. namps : physmap[s] = a} = {i},
           amps[a].type \in Types, amps[a].rotate \in {0, 90, 270, -90}
    PROVE  Filled(Placed(a), i)
<1> DEFINE places == [k \in Positions |-> Place(amps[a].type, k)]
           placed == Scatter(Stream(i), places)
           turns == [p \in Positions |-> Rotated(amps[a].rotate, p)]
<1>1. Max({i}) = i
  BY MaxOfOne
<1>2. Filled(placed, i)
  BY StreamFills, PlaceShuffles, ScatterFills
<1>3. amps[a].rotate # 0 => Filled(Scatter(placed, turns), i)
  BY <1>2, RotationShuffles, ScatterFills
<1>4. Placed(a) = IF amps[a].rotate = 0 THEN placed ELSE Scatter(placed, turns)
  BY <1>1 DEF Placed
<1> QED
  BY <1>2, <1>3, <1>4

-----------------------------------------------------------------------------
(* What the configuration calls leave. *)

ampRecords == [type : Types, rotate : Quarters, as : Types \X Int \X Flips]

\* Of any angle a multiple of a quarter is left, with the sign of the angle, and it means
\* the same.
LEMMA AngleOf ==
    ASSUME NEW rotate \in Int
    PROVE  /\ Angle(rotate) \in {0, 90, 180, 270, -90, -180, -270}
           /\ Meant(rotate) \in {0, 90, 180, 270}
           /\ Angle(rotate) = 0 <=> Meant(rotate) = 0
           /\ Angle(rotate) \in {180, -180} <=> Meant(rotate) = 180
           /\ Angle(rotate) \in {90, -270} <=> Meant(rotate) = 90
           /\ Angle(rotate) \in {270, -90} <=> Meant(rotate) = 270
<1>1. CASE rotate >= 0
  BY <1>1 DEF Angle, Meant
<1>2. CASE rotate < 0
  BY <1>2 DEF Angle, Meant
<1> QED
  BY <1>1, <1>2

LEMMA OtherCorner ==
    ASSUME NEW t \in Types
    PROVE  /\ Other("LL", Lower) = "LR" /\ Other("LR", Lower) = "LL"
           /\ Other("UL", Upper) = "UR" /\ Other("UR", Upper) = "UL"
           /\ Other("LL", Left) = "UL" /\ Other("UL", Left) = "LL"
           /\ Other("LR", Right) = "UR" /\ Other("UR", Right) = "LR"
           /\ Other("LL", DiagR) = "UR" /\ Other("UR", DiagR) = "LL"
           /\ Other("LR", DiagL) = "UL" /\ Other("UL", DiagL) = "LR"
BY DEF Other, Lower, Upper, Left, Right, DiagR, DiagL

LEMMA DefinedAmps ==
    ASSUME NEW type \in Types, NEW rotate \in Int, NEW flip \in Flips
    PROVE  [type |-> Corner(type, Angle(rotate), flip),
            rotate |-> RotationKept(Angle(rotate)),
            as |-> <<type, rotate, flip>>] \in ampRecords
<1>1. ASSUME NEW t \in Types PROVE Turned(t) \in Types /\ Flipped(t, flip) \in Types
  <2>1. t \in {"LL", "LR", "UL", "UR"}
    BY DEF Types, Lower, Upper
  <2>2. Turned(t) \in {"LL", "LR", "UL", "UR"}
    BY <2>1, OtherCorner DEF Turned, DiagR
  <2>3. Flipped(t, flip) \in {"LL", "LR", "UL", "UR"}
    BY <2>1, OtherCorner DEF Flipped, Lower, Left, Flips
  <2> QED
    BY <2>2, <2>3 DEF Types, Lower, Upper
<1>2. RotationKept(Angle(rotate)) \in Quarters
  BY AngleOf DEF RotationKept, Quarters
<1>3. Corner(type, Angle(rotate), flip) \in Types
  BY <1>1 DEF Corner
<1> QED
  BY <1>2, <1>3 DEF ampRecords

\* What every configuration call keeps of the tables.
LEMMA ConfigurationTypes ==
    ASSUME TypeOK, [Next]_vars
    PROVE  TypeOK'
<1> USE GeometryAssumption
<1>1. amps \in Seq(ampRecords) /\ namps \in Nat
  BY DEF TypeOK, ampRecords, namps
<1>2. CASE AddDet
  BY <1>2 DEF TypeOK, AddDet, modes, namps
<1>3. CASE ClearAmps
  <2>1. amps' \in Seq([type : Types, rotate : Quarters, as : Types \X Int \X Flips]) /\ namps' = 0
    BY <1>3 DEF ClearAmps, namps
  <2>2. namps' <= MaxAmps
    BY <2>1
  <2>3. physmap' \in [1 .. MaxAmps -> 0 .. MaxAmps] /\ detector' \in BOOLEAN /\ detbuf' \in {0, 2, 4}
    <3>1. \A i \in 1 .. MaxAmps : i \in 0 .. MaxAmps
      OBVIOUS
    <3>2. physmap' = [i \in 1 .. MaxAmps |-> i]
      BY <1>3 DEF ClearAmps
    <3>3. physmap' \in [1 .. MaxAmps -> 0 .. MaxAmps]
      BY <3>1, <3>2
    <3> QED
      BY <1>3, <3>3 DEF ClearAmps
  <2> QED
    BY <1>3, <2>1, <2>2, <2>3 DEF TypeOK, ClearAmps, modes
<1>4. CASE Unscramble
  BY <1>4 DEF TypeOK, Unscramble, config, modes, namps
<1>5. ASSUME NEW d \in Definitions, NEW ext \in 0 .. MaxAmps, AddAmp(d[1], d[2], d[3], ext)
      PROVE  TypeOK'
  <2>1. d[1] \in Types /\ d[2] \in Int /\ d[3] \in Flips
    OBVIOUS
  <2> DEFINE new == [type |-> Corner(d[1], Angle(d[2]), d[3]),
                     rotate |-> RotationKept(Angle(d[2])),
                     as |-> <<d[1], d[2], d[3]>>]
  <2>2. new \in ampRecords
    BY <2>1, DefinedAmps
  <2>3. amps' = Append(amps, new)
    BY <1>5 DEF AddAmp
  <2> HIDE DEF new
  <2>4. amps' \in Seq(ampRecords) /\ namps' = namps + 1
    BY <1>1, <2>2, <2>3 DEF namps
  <2>5. namps' <= MaxAmps
    BY <1>1, <1>5, <2>4 DEF AddAmp
  <2>6. physmap' \in [1 .. MaxAmps -> 0 .. MaxAmps]
    BY <1>1, <1>5 DEF AddAmp, TypeOK
  <2>7. calls' \in 0 .. MaxCalls
    BY <1>5 DEF AddAmp, Configure, TypeOK
  <2> QED
    BY <1>5, <2>4, <2>5, <2>6, <2>7 DEF AddAmp, Configure, TypeOK, modes, ampRecords
<1>6. ASSUME NEW map \in [1 .. MaxAmps -> 0 .. MaxAmps], NEW n \in 0 .. MaxAmps,
             NEW g \in 0 .. MaxAmps, SetPhysMap(map, n, g)
      PROVE  TypeOK'
  <2>1. physmap' \in [1 .. MaxAmps -> 0 .. MaxAmps]
    BY <1>6 DEF SetPhysMap, TypeOK
  <2>2. calls' \in 0 .. MaxCalls
    BY <1>6 DEF SetPhysMap, Configure, TypeOK
  <2> QED
    BY <1>6, <2>1, <2>2 DEF SetPhysMap, Configure, TypeOK, modes, namps
<1>7. ASSUME NEW side \in Sides, SetOrderFails(side)
      PROVE  TypeOK'
  <2>1. order' \in [Sides -> Orders \cup {None, Broken}]
    BY <1>7 DEF SetOrderFails, TypeOK
  <2>2. calls' \in 0 .. MaxCalls
    BY <1>7 DEF SetOrderFails, Configure, TypeOK
  <2> QED
    BY <1>7, <2>1, <2>2 DEF SetOrderFails, Configure, TypeOK, modes, namps
<1>8. ASSUME NEW side \in Sides, NEW o \in Orders \cup {None}, SetOrder(side, o)
      PROVE  TypeOK'
  <2>1. order' \in [Sides -> Orders \cup {None, Broken}]
    BY <1>8 DEF SetOrder, TypeOK
  <2>2. calls' \in 0 .. MaxCalls
    BY <1>8 DEF SetOrder, Configure, TypeOK
  <2>3. arranged' \in BOOLEAN
    BY <1>8 DEF SetOrder, ArrangeFlag
  <2> QED
    BY <1>8, <2>1, <2>2, <2>3 DEF SetOrder, Configure, TypeOK, modes, namps
<1>9. ASSUME NEW flag \in BOOLEAN, DetExt(flag)
      PROVE  TypeOK'
  <2>1. calls' \in 0 .. MaxCalls
    BY <1>9 DEF DetExt, Configure, TypeOK
  <2>2. detbuf' \in {0, 2, 4}
    BY <1>9 DEF DetExt, TypeOK, Bytes
  <2> QED
    BY <1>9, <2>1, <2>2 DEF DetExt, Configure, TypeOK, modes, namps
<1>10. ASSUME \/ \E flag \in BOOLEAN : PixSwap(flag) \/ Enable(flag)
              \/ \E routine \in Routines : Compute(routine)
       PROVE  TypeOK'
  <2>1. calls' \in 0 .. MaxCalls
    BY <1>10 DEF PixSwap, Enable, Compute, Configure, TypeOK
  <2>2. pix_swap' \in BOOLEAN /\ enabled' \in BOOLEAN /\ dtype' \in Routines
    BY <1>10 DEF PixSwap, Enable, Compute, TypeOK
  <2>3. UNCHANGED <<detector, amps, physmap, order, arranged, detext, detbuf>>
    BY <1>10 DEF PixSwap, Enable, Compute, Configure, KeepTables
  <2> QED
    BY <2>1, <2>2, <2>3 DEF TypeOK, namps
<1>11. CASE UNCHANGED vars
  BY <1>11 DEF TypeOK, vars, config, modes, namps
<1> QED
  BY <1>2, <1>3, <1>4, <1>5, <1>6, <1>7, <1>8, <1>9, <1>10, <1>11 DEF Next

\* GU_add_amp(), GU_SetPhysMap(), GU_set_arrange_sections_left() and the others: after any
\* calls, with whatever angles, every amplifier has one of the four types and no rotation
\* but by a quarter, forwards or backwards, and a side has an order that was asked for,
\* none, or the remains of one.  Nothing is said of what the stream is mapped to.
THEOREM ConfigurationIsSound == Spec => []TypeOK
<1>1. Init => TypeOK
  <2> SUFFICES ASSUME Init PROVE TypeOK
    OBVIOUS
  <2>1. /\ amps \in Seq([type : Types, rotate : Quarters, as : Types \X Int \X Flips])
        /\ namps = 0
    BY DEF Init, namps
  <2>2. physmap \in [1 .. MaxAmps -> 0 .. MaxAmps] /\ calls \in 0 .. MaxCalls /\ 0 <= MaxAmps
    BY GeometryAssumption DEF Init
  <2>3. order \in [Sides -> Orders \cup {None, Broken}]
    BY DEF Init
  <2> QED
    BY <2>1, <2>2, <2>3 DEF Init, TypeOK, Routines
<1>2. TypeOK /\ [Next]_vars => TypeOK'
  BY ConfigurationTypes
<1> QED
  BY <1>1, <1>2, PTL DEF Spec

-----------------------------------------------------------------------------
(* The order of the stream and the order of the sections. *)

\* The place in the stream of the pixels of an amplifier.
Source(a) == CHOOSE i \in 1 .. namps : physmap[i] = a

LEMMA OneSource ==
    ASSUME TypeOK, StreamIsMapped
    PROVE  /\ \A a \in 1 .. namps :
                 Source(a) \in 1 .. namps /\ {s \in 1 .. namps : physmap[s] = a} = {Source(a)}
           /\ \A i \in 1 .. namps : physmap[i] \in 1 .. namps /\ Source(physmap[i]) = i
<1> DEFINE map == [i \in 1 .. namps |-> physmap[i]]
<1>1. namps \in Nat
  BY DEF TypeOK, namps
<1>2. map \in Surjection(1 .. namps, 1 .. namps)
  BY DEF Surjection, StreamIsMapped, Mapped
<1>3. IsFiniteSet(1 .. namps)
  BY <1>1, FS_Interval
<1>4. map \in Injection(1 .. namps, 1 .. namps)
  BY <1>2, <1>3, FS_SurjSameCardinalityImpliesInj
<1>5. \A i, j \in 1 .. namps : physmap[i] = physmap[j] => i = j
  BY <1>4 DEF Injection, IsInjective
<1>6. \A a \in 1 .. namps : \E i \in 1 .. namps : physmap[i] = a
  BY DEF StreamIsMapped, Mapped
<1>7. \A i \in 1 .. namps : physmap[i] \in 1 .. namps
  BY DEF StreamIsMapped, Mapped
<1>8. \A a \in 1 .. namps : Source(a) \in 1 .. namps /\ physmap[Source(a)] = a
  BY <1>6 DEF Source
<1> QED
  BY <1>5, <1>7, <1>8

\* The sections of a row or a column do not overlap.
LEMMA SectionsApart ==
    ASSUME NEW l \in Nat \X Nat \X Nat, NEW far \in BOOLEAN
    PROVE  /\ \A m \in Names :
                 /\ SectionLength(m, l) \in Nat
                 /\ SectionStart(m, l, far) \in Nat
                 /\ SectionStart(m, l, far) + SectionLength(m, l) <= l[1] + l[2] + l[3]
           /\ \A m, n \in Names : m # n =>
                 \/ SectionStart(m, l, far) + SectionLength(m, l) <= SectionStart(n, l, far)
                 \/ SectionStart(n, l, far) + SectionLength(n, l) <= SectionStart(m, l, far)
<1>1. l[1] \in Nat /\ l[2] \in Nat /\ l[3] \in Nat
  OBVIOUS
<1>2. /\ SectionLength("pre", l) = l[1] /\ SectionLength("dat", l) = l[2]
      /\ SectionLength("pos", l) = l[3]
  BY DEF SectionLength
<1>3. CASE far
  <2>1. /\ SectionStart("pre", l, far) = l[3] + l[2] /\ SectionStart("dat", l, far) = l[3]
        /\ SectionStart("pos", l, far) = 0
    BY <1>3 DEF SectionStart
  <2> QED
    BY <1>1, <1>2, <2>1 DEF Names
<1>4. CASE ~far
  <2>1. /\ SectionStart("pre", l, far) = 0 /\ SectionStart("dat", l, far) = l[1]
        /\ SectionStart("pos", l, far) = l[1] + l[2]
    BY <1>4 DEF SectionStart
  <2> QED
    BY <1>1, <1>2, <2>1 DEF Names
<1> QED
  BY <1>3, <1>4

LEMMA SectionsTile ==
    ASSUME NEW l \in Nat \X Nat \X Nat, NEW o \in [1 .. 3 -> Names],
           \A m, n \in 1 .. 3 : o[m] = o[n] => m = n
    PROVE  SectionLength(o[1], l) + SectionLength(o[2], l) + SectionLength(o[3], l)
             = l[1] + l[2] + l[3]
<1>1. l[1] \in Nat /\ l[2] \in Nat /\ l[3] \in Nat
  OBVIOUS
<1>2. /\ SectionLength("pre", l) = l[1] /\ SectionLength("dat", l) = l[2]
      /\ SectionLength("pos", l) = l[3]
  BY DEF SectionLength
<1>3. /\ o[1] \in {"pre", "dat", "pos"} /\ o[2] \in {"pre", "dat", "pos"}
      /\ o[3] \in {"pre", "dat", "pos"}
      /\ o[1] # o[2] /\ o[1] # o[3] /\ o[2] # o[3]
  BY DEF Names
<1> QED
  BY <1>1, <1>2, <1>3

\* RearrangeSections: the elements of a row keep their section, and each has one place.
LEMMA ArrangedOnce ==
    ASSUME NEW l \in Nat \X Nat \X Nat, NEW far \in BOOLEAN, NEW o \in [1 .. 3 -> Names],
           \A m, n \in 1 .. 3 : o[m] = o[n] => m = n,
           NEW N, N = l[1] + l[2] + l[3]
    PROVE  /\ \A z \in 0 .. N - 1 : Arranged(o, l, far, z) \in 0 .. N - 1
           /\ \A y, z \in 0 .. N - 1 : Arranged(o, l, far, y) = Arranged(o, l, far, z) => y = z
<1> DEFINE len(n) == SectionLength(o[n], l)
           start(n) == SectionStart(o[n], l, far)
           nth(z) == IF z < len(1) THEN 1 ELSE IF z < len(1) + len(2) THEN 2 ELSE 3
           before(n) == IF n = 1 THEN 0 ELSE IF n = 2 THEN len(1) ELSE len(1) + len(2)
<1>1. /\ len(1) \in Nat /\ len(2) \in Nat /\ len(3) \in Nat
      /\ start(1) \in Nat /\ start(2) \in Nat /\ start(3) \in Nat
      /\ start(1) + len(1) <= N /\ start(2) + len(2) <= N /\ start(3) + len(3) <= N
  BY SectionsApart
<1>2. /\ start(1) + len(1) <= start(2) \/ start(2) + len(2) <= start(1)
      /\ start(1) + len(1) <= start(3) \/ start(3) + len(3) <= start(1)
      /\ start(2) + len(2) <= start(3) \/ start(3) + len(3) <= start(2)
  <2>1. /\ o[1] \in Names /\ o[2] \in Names /\ o[3] \in Names
        /\ o[1] # o[2] /\ o[1] # o[3] /\ o[2] # o[3]
    OBVIOUS
  <2> QED
    BY <2>1, SectionsApart
<1>3. len(1) + len(2) + len(3) = N
  BY SectionsTile
<1>4. \A z : Arranged(o, l, far, z) = start(nth(z)) + z - before(nth(z))
  BY DEF Arranged
<1> HIDE DEF len, start
<1>5. ASSUME NEW z \in 0 .. N - 1
      PROVE  \/ z < len(1) /\ Arranged(o, l, far, z) = start(1) + z
             \/ z >= len(1) /\ z < len(1) + len(2) /\ Arranged(o, l, far, z) = start(2) + z - len(1)
             \/ /\ z >= len(1) + len(2) /\ z < len(1) + len(2) + len(3)
                /\ Arranged(o, l, far, z) = start(3) + z - (len(1) + len(2))
  <2>1. z \in Nat /\ z < N /\ N \in Int
    BY <1>1, <1>3
  <2>2. CASE z < len(1)
    <3>1. nth(z) = 1 /\ before(1) = 0
      BY <2>2
    <3>2. Arranged(o, l, far, z) = start(1) + z - 0
      BY <1>4, <3>1
    <3> QED
      BY <1>1, <2>1, <2>2, <3>2
  <2>3. CASE z >= len(1) /\ z < len(1) + len(2)
    <3>1. nth(z) = 2 /\ before(2) = len(1)
      BY <1>1, <2>1, <2>3
    <3>2. Arranged(o, l, far, z) = start(2) + z - len(1)
      BY <1>4, <3>1
    <3> QED
      BY <2>3, <3>2
  <2>4. CASE z >= len(1) /\ z >= len(1) + len(2)
    <3>1. nth(z) = 3 /\ before(3) = len(1) + len(2)
      BY <1>1, <2>1, <2>4
    <3>2. Arranged(o, l, far, z) = start(3) + z - (len(1) + len(2))
      BY <1>4, <3>1
    <3> QED
      BY <1>3, <2>1, <2>4, <3>2
  <2> QED
    BY <1>1, <2>1, <2>2, <2>3, <2>4
<1>6. ASSUME NEW z \in 0 .. N - 1 PROVE Arranged(o, l, far, z) \in 0 .. N - 1
  BY <1>1, <1>3, <1>5
<1>7. ASSUME NEW y \in 0 .. N - 1, NEW z \in 0 .. N - 1,
             Arranged(o, l, far, y) = Arranged(o, l, far, z)
      PROVE  y = z
  BY <1>1, <1>2, <1>3, <1>5, <1>7
<1> QED
  BY <1>6, <1>7

\* Lines and columns that are rearranged on their own rearrange the positions.
LEMMA GridShuffles ==
    ASSUME NEW col \in [0 .. NCols - 1 -> 0 .. NCols - 1],
           \A x, z \in 0 .. NCols - 1 : col[x] = col[z] => x = z,
           NEW row \in [0 .. NRows - 1 -> 0 .. NRows - 1],
           \A y, z \in 0 .. NRows - 1 : row[y] = row[z] => y = z
    PROVE  Shuffle([p \in Positions |-> (row[p \div NCols] * NCols) + col[p % NCols]])
<1> DEFINE f == [p \in Positions |-> (row[p \div NCols] * NCols) + col[p % NCols]]
<1>1. ASSUME NEW y \in 0 .. NRows - 1, NEW x \in 0 .. NCols - 1
      PROVE  f[NCols * y + x] = NCols * row[y] + col[x] /\ f[NCols * y + x] \in Positions
  <2>1. f[NCols * y + x] = row[y] * NCols + col[x]
    BY At
  <2>2. row[y] \in 0 .. NRows - 1 /\ col[x] \in 0 .. NCols - 1
    OBVIOUS
  <2> HIDE DEF f
  <2>3. row[y] * NCols = NCols * row[y]
    BY <2>2, Geometry
  <2> QED
    BY <2>1, <2>2, <2>3, At
<1>2. ASSUME NEW p \in Positions PROVE f[p] \in Positions
  <2>1. PICK y \in 0 .. NRows - 1, x \in 0 .. NCols - 1 : p = NCols * y + x
    BY OfPosition
  <2> QED
    BY <1>1, <2>1
<1>3. ASSUME NEW p \in Positions, NEW q \in Positions, f[p] = f[q] PROVE p = q
  <2>1. PICK y \in 0 .. NRows - 1, x \in 0 .. NCols - 1 : p = NCols * y + x
    BY OfPosition
  <2>2. PICK b \in 0 .. NRows - 1, a \in 0 .. NCols - 1 : q = NCols * b + a
    BY OfPosition
  <2> HIDE DEF f
  <2>3. NCols * row[y] + col[x] = NCols * row[b] + col[a]
    BY <1>1, <1>3, <2>1, <2>2
  <2> DEFINE u == NCols * row[y] + col[x]
             v == NCols * row[b] + col[a]
  <2>4. /\ u \div NCols = row[y] /\ u % NCols = col[x]
        /\ v \div NCols = row[b] /\ v % NCols = col[a]
    <3>1. row[y] \in 0 .. NRows - 1 /\ row[b] \in 0 .. NRows - 1
      OBVIOUS
    <3>2. col[x] \in 0 .. NCols - 1 /\ col[a] \in 0 .. NCols - 1
      OBVIOUS
    <3> QED
      BY <3>1, <3>2, At
  <2>5. u = v
    BY <2>3
  <2> HIDE DEF u, v
  <2>6. row[y] = row[b] /\ col[x] = col[a]
    BY <2>4, <2>5
  <2>7. y = b /\ x = a
    BY <2>6
  <2> QED
    BY <2>1, <2>2, <2>7
<1>4. f \in [Positions -> Positions]
  BY <1>2
<1> HIDE DEF f
<1>5. Shuffle(f)
  BY <1>3, <1>4, InjectionShuffles
<1> QED
  BY <1>5 DEF f

\* One side: the elements stay where they are or are arranged.
Total(l) == l[1] + l[2] + l[3]
SideMap(o, l, far) ==
    [z \in 0 .. Total(l) - 1 |-> IF o = None THEN z ELSE Arranged(o, l, far, z)]

LEMMA SideArranged ==
    ASSUME EachSectionOnce, NEW o \in Orders \cup {None}, NEW far \in BOOLEAN,
           NEW l \in Nat \X Nat \X Nat
    PROVE  /\ SideMap(o, l, far) \in [0 .. Total(l) - 1 -> 0 .. Total(l) - 1]
           /\ \A y, z \in 0 .. Total(l) - 1 :
                 SideMap(o, l, far)[y] = SideMap(o, l, far)[z] => y = z
<1> DEFINE N == Total(l)
<1>1. CASE o = None
  BY <1>1 DEF SideMap
<1>2. CASE o # None
  <2>1. o \in [1 .. 3 -> Names] /\ \A m, n \in 1 .. 3 : o[m] = o[n] => m = n
    BY <1>2, GeometryAssumption DEF EachSectionOnce
  <2>2. N = l[1] + l[2] + l[3]
    BY DEF Total
  <2> HIDE DEF N
  <2>3. /\ \A z \in 0 .. N - 1 : Arranged(o, l, far, z) \in 0 .. N - 1
        /\ \A y, z \in 0 .. N - 1 : Arranged(o, l, far, y) = Arranged(o, l, far, z) => y = z
    BY <2>1, <2>2, ArrangedOnce
  <2>4. SideMap(o, l, far) = [z \in 0 .. N - 1 |-> Arranged(o, l, far, z)]
    BY <1>2 DEF SideMap, N
  <2>5. /\ SideMap(o, l, far) \in [0 .. N - 1 -> 0 .. N - 1]
        /\ \A y, z \in 0 .. N - 1 : SideMap(o, l, far)[y] = SideMap(o, l, far)[z] => y = z
    BY <2>3, <2>4
  <2> QED
    BY <2>5 DEF N
<1> QED
  BY <1>1, <1>2

LEMMA ShuffledFills ==
    ASSUME NEW i, NEW buffer, Filled(buffer, i), NEW f, Shuffle(f)
    PROVE  Filled([p \in Positions |-> buffer[f[p]]], i)
<1> DEFINE result == [p \in Positions |-> buffer[f[p]]]
<1>1. \A p \in Positions : f[p] \in Positions
  BY DEF Shuffle
<1>2. ASSUME NEW p \in Positions, NEW q \in Positions, result[p] = result[q] PROVE p = q
  <2>1. f[p] = f[q]
    BY <1>1, <1>2 DEF Filled
  <2> QED
    BY <2>1 DEF Shuffle
<1>3. ASSUME NEW k \in Positions PROVE \E p \in Positions : result[p] = <<i, k>>
  <2>1. PICK q \in Positions : buffer[q] = <<i, k>>
    BY DEF Filled
  <2>2. PICK p \in Positions : f[p] = q
    BY DEF Shuffle
  <2> QED
    BY <2>1, <2>2
<1>4. result \in [Positions -> {i} \X Positions]
  BY <1>1 DEF Filled
<1> QED
  BY <1>2, <1>3, <1>4 DEF Filled

LEMMA RearrangedFills ==
    ASSUME EachSectionOnce, TypeOK, NEW a \in 1 .. namps, NEW i, NEW buffer, Filled(buffer, i),
           order[SideOf(amps[a].type, Left, "left", "right")] # Broken,
           order[SideOf(amps[a].type, Lower, "lower", "upper")] # Broken
    PROVE  Filled(Rearranged(a, buffer), i)
<1> DEFINE xside == SideOf(amps[a].type, Left, "left", "right")
           yside == SideOf(amps[a].type, Lower, "lower", "upper")
           xfar == xside = "right"
           yfar == yside = "upper"
           col == SideMap(order[xside], ColLengths, xfar)
           row == SideMap(order[yside], RowLengths, yfar)
           f == [p \in Positions |-> (row[p \div NCols] * NCols) + col[p % NCols]]
<1>1. xside \in Sides /\ yside \in Sides
  BY DEF SideOf, Sides
<1>2. order[xside] \in Orders \cup {None} /\ order[yside] \in Orders \cup {None}
  BY <1>1 DEF TypeOK
<1>3. /\ ColLengths \in Nat \X Nat \X Nat /\ Total(ColLengths) = NCols
      /\ RowLengths \in Nat \X Nat \X Nat /\ Total(RowLengths) = NRows
  BY GeometryAssumption DEF ColLengths, RowLengths, NCols, NRows, Total
<1>4. xfar \in BOOLEAN /\ yfar \in BOOLEAN
  OBVIOUS
<1> HIDE DEF xside, yside, xfar, yfar
<1>5. /\ col \in [0 .. NCols - 1 -> 0 .. NCols - 1]
      /\ \A x, z \in 0 .. NCols - 1 : col[x] = col[z] => x = z
  <2>1. /\ col \in [0 .. Total(ColLengths) - 1 -> 0 .. Total(ColLengths) - 1]
        /\ \A x, z \in 0 .. Total(ColLengths) - 1 : col[x] = col[z] => x = z
    BY <1>2, <1>3, <1>4, SideArranged
  <2> QED
    BY <1>3, <2>1
<1>6. /\ row \in [0 .. NRows - 1 -> 0 .. NRows - 1]
      /\ \A y, z \in 0 .. NRows - 1 : row[y] = row[z] => y = z
  <2>1. /\ row \in [0 .. Total(RowLengths) - 1 -> 0 .. Total(RowLengths) - 1]
        /\ \A y, z \in 0 .. Total(RowLengths) - 1 : row[y] = row[z] => y = z
    BY <1>2, <1>3, <1>4, SideArranged
  <2> QED
    BY <1>3, <2>1
<1>7. ASSUME NEW p \in Positions
      PROVE  p \div NCols \in 0 .. NRows - 1 /\ p % NCols \in 0 .. NCols - 1
  BY Geometry, LineAndColumn DEF Positions, Size
<1>8. Rearranged(a, buffer) = [p \in Positions |-> buffer[f[p]]]
  <2> DEFINE c(x) == IF order[xside] = None THEN x ELSE Arranged(order[xside], ColLengths, xside = "right", x)
             r(y) == IF order[yside] = None THEN y ELSE Arranged(order[yside], RowLengths, yside = "upper", y)
  <2>1. \A x \in 0 .. NCols - 1 : col[x] = c(x)
    BY <1>3 DEF SideMap, xfar
  <2>2. \A y \in 0 .. NRows - 1 : row[y] = r(y)
    BY <1>3 DEF SideMap, yfar
  <2>3. Rearranged(a, buffer) = [p \in Positions |-> buffer[(r(p \div NCols) * NCols) + c(p % NCols)]]
    BY DEF Rearranged, xside, yside
  <2> HIDE DEF c, r, col, row
  <2>4. \A p \in Positions : f[p] = (r(p \div NCols) * NCols) + c(p % NCols)
    BY <1>7, <2>1, <2>2
  <2> HIDE DEF f
  <2> QED
    BY <2>3, <2>4
<1> HIDE DEF col, row
<1>9. Shuffle(f)
  BY <1>5, <1>6, GridShuffles
<1> HIDE DEF f
<1> QED
  BY <1>8, <1>9, ShuffledFills

-----------------------------------------------------------------------------
(* The image. *)

\* Every pixel of the controller is in the image, and none twice in a piece of it.
PixelsOf(im, A, P) == {im[a][p] : a \in A, p \in P}

WholeImage(im) ==
    /\ PixelsOf(im, DOMAIN im, DOMAIN im[1]) = AllPixels
    /\ \A a \in DOMAIN im : \A p, q \in DOMAIN im[a] : im[a][p] = im[a][q] => p = q

\* Each amplifier has its buffer.
AllFilled(buffers) ==
    /\ DOMAIN buffers = 1 .. namps
    /\ \A a \in 1 .. namps : Filled(buffers[a], Source(a))

LEMMA AllCovered ==
    ASSUME NEW im, NEW A, NEW P,
           \A a \in A, p \in P : im[a][p] \in AllPixels,
           \A i \in 1 .. namps, k \in Positions : \E a \in A, p \in P : im[a][p] = <<i, k>>
    PROVE  PixelsOf(im, A, P) = AllPixels
<1>1. ASSUME NEW e \in AllPixels PROVE \E a \in A, p \in P : im[a][p] = e
  <2>1. PICK i \in 1 .. namps, k \in Positions : e = <<i, k>>
    BY DEF AllPixels
  <2> QED
    BY <2>1
<1> QED
  BY <1>1 DEF PixelsOf

LEMMA OfGrid ==
    ASSUME NEW n \in Nat \ {0}, NEW m \in Nat, NEW p \in 0 .. n * m - 1
    PROVE  \E y \in 0 .. m - 1, x \in 0 .. n - 1 : p = n * y + x
<1>1. p \div n \in 0 .. m - 1 /\ p % n \in 0 .. n - 1 /\ p = n * (p \div n) + (p % n)
  BY LineAndColumn
<1> QED
  BY <1>1

LEMMA SeparateImage ==
    ASSUME TypeOK, namps > 0, StreamIsMapped, ~detext, NEW buffers, AllFilled(buffers)
    PROVE  WholeImage(Compose(buffers))
<1> DEFINE im == Compose(buffers)
<1>1. im = [a \in 1 .. namps |-> buffers[a]]
  BY DEF Compose
<1>2. 1 \in 1 .. namps
  BY DEF TypeOK, namps
<1>3. DOMAIN im = 1 .. namps /\ \A a \in 1 .. namps : im[a] = buffers[a] /\ DOMAIN im[a] = Positions
  BY <1>1 DEF AllFilled, Filled
<1> HIDE DEF im
<1>4. ASSUME NEW a \in 1 .. namps, NEW p \in Positions PROVE im[a][p] \in AllPixels
  <2>1. Source(a) \in 1 .. namps
    BY OneSource
  <2>2. im[a][p] \in {Source(a)} \X Positions
    BY <1>3 DEF AllFilled, Filled
  <2> QED
    BY <2>1, <2>2 DEF AllPixels
<1>5. ASSUME NEW i \in 1 .. namps, NEW k \in Positions
      PROVE  \E a \in 1 .. namps, p \in Positions : im[a][p] = <<i, k>>
  <2>1. physmap[i] \in 1 .. namps /\ Source(physmap[i]) = i
    BY OneSource
  <2>2. PICK p \in Positions : buffers[physmap[i]][p] = <<i, k>>
    BY <2>1 DEF AllFilled, Filled
  <2> QED
    BY <1>3, <2>1, <2>2
<1>6. PixelsOf(im, 1 .. namps, Positions) = AllPixels
  BY <1>4, <1>5, AllCovered
<1>7. \A a \in 1 .. namps : \A p, q \in Positions : im[a][p] = im[a][q] => p = q
  BY <1>3 DEF AllFilled, Filled
<1>8. WholeImage(im)
  BY <1>2, <1>3, <1>6, <1>7 DEF WholeImage
<1> QED
  BY <1>8 DEF im

\* A column of the detector is an amplifier and a column of it.
LEMMA DetectorCell ==
    ASSUME namps \in Nat \ {0}
    PROVE  /\ \A b \in 0 .. namps - 1, x \in 0 .. NCols - 1, y \in 0 .. NRows - 1 :
                LET p == (namps * NCols) * y + (NCols * b + x)
                IN  /\ p \in 0 .. namps * Size - 1
                    /\ p \div (namps * NCols) = y
                    /\ (p % (namps * NCols)) \div NCols = b
                    /\ (p % (namps * NCols)) % NCols = x
           /\ \A p \in 0 .. namps * Size - 1 :
                \E b \in 0 .. namps - 1, x \in 0 .. NCols - 1, y \in 0 .. NRows - 1 :
                    p = (namps * NCols) * y + (NCols * b + x)
<1> DEFINE n == namps
           M == n * NCols
<1> HIDE DEF n
<1>1. M \in Nat \ {0} /\ M = NCols * n /\ n * Size = M * NRows /\ n \in Nat \ {0}
  <2>1. n \in Nat \ {0}
    BY DEF n
  <2>2. NCols \in Nat \ {0} /\ NRows \in Nat \ {0} /\ Size = NCols * NRows
    BY Geometry DEF Size
  <2> QED
    BY <2>1, <2>2
<1> HIDE DEF M
<1>2. ASSUME NEW b \in 0 .. n - 1, NEW x \in 0 .. NCols - 1, NEW y \in 0 .. NRows - 1
      PROVE  /\ M * y + (NCols * b + x) \in 0 .. n * Size - 1
             /\ (M * y + (NCols * b + x)) \div M = y
             /\ ((M * y + (NCols * b + x)) % M) \div NCols = b
             /\ ((M * y + (NCols * b + x)) % M) % NCols = x
  <2> DEFINE c == NCols * b + x
  <2>1. c \in 0 .. M - 1 /\ c \div NCols = b /\ c % NCols = x
    BY <1>1, Geometry, GridAt
  <2> HIDE DEF c
  <2>2. M * y + c \in 0 .. M * NRows - 1 /\ (M * y + c) \div M = y /\ (M * y + c) % M = c
    BY <1>1, <2>1, Geometry, GridAt
  <2>3. /\ M * y + c \in 0 .. n * Size - 1
        /\ (M * y + c) \div M = y
        /\ ((M * y + c) % M) \div NCols = b
        /\ ((M * y + c) % M) % NCols = x
    BY <1>1, <2>1, <2>2
  <2> QED
    BY <2>3 DEF c
<1>3. ASSUME NEW p \in 0 .. n * Size - 1
      PROVE  \E b \in 0 .. n - 1, x \in 0 .. NCols - 1, y \in 0 .. NRows - 1 :
                 p = M * y + (NCols * b + x)
  <2>1. p \in 0 .. M * NRows - 1
    BY <1>1
  <2>2. PICK y \in 0 .. NRows - 1, c \in 0 .. M - 1 : p = M * y + c
    <3>1. M \in Nat \ {0} /\ NRows \in Nat
      BY <1>1, Geometry
    <3> QED
      BY <2>1, <3>1, OfGrid
  <2>3. c \in 0 .. NCols * n - 1
    BY <1>1
  <2>4. PICK b \in 0 .. n - 1, x \in 0 .. NCols - 1 : c = NCols * b + x
    <3>1. NCols \in Nat \ {0} /\ n \in Nat
      BY <1>1, Geometry
    <3> QED
      BY <2>3, <3>1, OfGrid
  <2> QED
    BY <2>2, <2>4
<1> QED
  BY <1>2, <1>3 DEF n, M

LEMMA DetectorImage ==
    ASSUME TypeOK, namps > 0, StreamIsMapped, detext, NEW buffers, AllFilled(buffers)
    PROVE  WholeImage(Compose(buffers))
<1> DEFINE n == namps
           M == n * NCols
           im == Compose(buffers)
           All == 0 .. n * Size - 1
           cell(b, x, y) == M * y + (NCols * b + x)
<1>1. n \in Nat \ {0}
  BY DEF TypeOK, namps
<1>2. /\ DOMAIN im = {1} /\ DOMAIN im[1] = All
      /\ \A p \in All :
            im[1][p] = buffers[((p % M) \div NCols) + 1][(p \div M) * NCols + ((p % M) % NCols)]
  BY DEF Compose
<1> HIDE DEF im
<1>3. ASSUME NEW b \in 0 .. n - 1, NEW x \in 0 .. NCols - 1, NEW y \in 0 .. NRows - 1
      PROVE  cell(b, x, y) \in All /\ im[1][cell(b, x, y)] = buffers[b + 1][NCols * y + x]
  <2>1. /\ cell(b, x, y) \in All
        /\ cell(b, x, y) \div M = y
        /\ (cell(b, x, y) % M) \div NCols = b
        /\ (cell(b, x, y) % M) % NCols = x
    BY <1>1, DetectorCell
  <2>2. y * NCols = NCols * y
    BY Geometry
  <2> HIDE DEF cell, M
  <2> QED
    BY <1>2, <2>1, <2>2
<1>4. \A p \in All : \E b \in 0 .. n - 1, x \in 0 .. NCols - 1, y \in 0 .. NRows - 1 : p = cell(b, x, y)
  BY <1>1, DetectorCell
<1> HIDE DEF cell, M, All
<1>5. ASSUME NEW b \in 0 .. n - 1 PROVE Filled(buffers[b + 1], Source(b + 1)) /\ b + 1 \in 1 .. n
  BY <1>1 DEF AllFilled
<1> HIDE DEF n
<1>6. ASSUME NEW p \in All PROVE im[1][p] \in AllPixels
  <2>1. PICK b \in 0 .. n - 1, x \in 0 .. NCols - 1, y \in 0 .. NRows - 1 : p = cell(b, x, y)
    BY <1>4
  <2>2. im[1][p] = buffers[b + 1][NCols * y + x] /\ NCols * y + x \in Positions
    BY <1>3, <2>1, At
  <2>3. im[1][p] \in {Source(b + 1)} \X Positions
    BY <1>5, <2>2 DEF Filled
  <2>4. Source(b + 1) \in 1 .. namps
    BY <1>5, OneSource DEF n
  <2> QED
    BY <2>3, <2>4 DEF AllPixels
<1>7. ASSUME NEW i \in 1 .. namps, NEW k \in Positions PROVE \E p \in All : im[1][p] = <<i, k>>
  <2>1. physmap[i] \in 1 .. n /\ Source(physmap[i]) = i
    BY OneSource DEF n
  <2>2. PICK b \in 0 .. n - 1 : physmap[i] = b + 1
    <3>1. physmap[i] - 1 \in 0 .. n - 1 /\ physmap[i] = (physmap[i] - 1) + 1
      BY <1>1, <2>1
    <3> QED
      BY <3>1
  <2>3. Source(b + 1) = i
    BY <2>1, <2>2
  <2>4. PICK q \in Positions : buffers[b + 1][q] = <<i, k>>
    BY <1>5, <2>3 DEF Filled
  <2>5. PICK y \in 0 .. NRows - 1, x \in 0 .. NCols - 1 : q = NCols * y + x
    BY OfPosition
  <2> QED
    BY <1>3, <2>4, <2>5
<1>8. ASSUME NEW p \in All, NEW q \in All, im[1][p] = im[1][q] PROVE p = q
  <2>1. PICK b \in 0 .. n - 1, x \in 0 .. NCols - 1, y \in 0 .. NRows - 1 : p = cell(b, x, y)
    BY <1>4
  <2>2. PICK c \in 0 .. n - 1, u \in 0 .. NCols - 1, v \in 0 .. NRows - 1 : q = cell(c, u, v)
    BY <1>4
  <2> DEFINE f == buffers[b + 1]
             g == buffers[c + 1]
             s == NCols * y + x
             t == NCols * v + u
  <2>3. f[s] = g[t] /\ s \in Positions /\ t \in Positions
    BY <1>3, <1>8, <2>1, <2>2, At
  <2>4. s \div NCols = y /\ s % NCols = x /\ t \div NCols = v /\ t % NCols = u
    BY At
  <2>5. f[s] \in {Source(b + 1)} \X Positions /\ g[t] \in {Source(c + 1)} \X Positions
    BY <1>5, <2>3 DEF Filled
  <2>6. Source(b + 1) = Source(c + 1)
    BY <2>3, <2>5
  <2>7. b + 1 \in 1 .. namps /\ c + 1 \in 1 .. namps
    BY <1>5 DEF n
  <2>8. b + 1 = c + 1
    BY <2>6, <2>7, OneSource
  <2>9. b = c
    BY <1>1, <2>8
  <2> HIDE DEF s, t
  <2>10. s = t
    BY <1>5, <2>3, <2>9 DEF Filled
  <2>11. y = v /\ x = u
    BY <2>4, <2>10
  <2> QED
    BY <2>1, <2>2, <2>9, <2>11
<1>9. PixelsOf(im, {1}, All) = AllPixels
  <2> DEFINE One == {1}
  <2>1. \A a \in One, p \in All : im[a][p] \in AllPixels
    BY <1>6
  <2>2. \A i \in 1 .. namps, k \in Positions : \E a \in One, p \in All : im[a][p] = <<i, k>>
    BY <1>7
  <2> HIDE DEF One
  <2>3. PixelsOf(im, One, All) = AllPixels
    BY <2>1, <2>2, AllCovered
  <2> QED
    BY <2>3 DEF One
<1>10. WholeImage(im)
  BY <1>2, <1>8, <1>9 DEF WholeImage
<1> QED
  BY <1>10 DEF im

\* GU_NONE(): the pixels of the stream are those of the amplifiers in turn.
StreamPixel(r) == <<(r % namps) + 1, r \div namps>>

LEMMA StreamPixels ==
    ASSUME namps \in Nat \ {0}
    PROVE  /\ \A r \in 0 .. namps * Size - 1 : StreamPixel(r) \in AllPixels
           /\ \A r, s \in 0 .. namps * Size - 1 : StreamPixel(r) = StreamPixel(s) => r = s
           /\ \A i \in 1 .. namps, k \in Positions :
                 \E r \in 0 .. namps * Size - 1 : StreamPixel(r) = <<i, k>>
<1> DEFINE n == namps
<1> HIDE DEF n
<1>1. n \in Nat \ {0} /\ Size \in Nat
  BY Geometry DEF n
<1>2. ASSUME NEW r \in 0 .. n * Size - 1
      PROVE  /\ r \div n \in 0 .. Size - 1 /\ r % n \in 0 .. n - 1
             /\ r = n * (r \div n) + (r % n)
  BY <1>1, LineAndColumn
<1>3. ASSUME NEW r \in 0 .. n * Size - 1 PROVE StreamPixel(r) \in AllPixels
  <2>1. (r % n) + 1 \in 1 .. n
    BY <1>1, <1>2
  <2> QED
    BY <1>2, <2>1 DEF StreamPixel, AllPixels, Positions, n
<1>4. ASSUME NEW r \in 0 .. n * Size - 1, NEW s \in 0 .. n * Size - 1, StreamPixel(r) = StreamPixel(s)
      PROVE  r = s
  <2>1. (r % n) + 1 = (s % n) + 1 /\ r \div n = s \div n
    BY <1>4 DEF StreamPixel, n
  <2>2. r % n \in Int /\ s % n \in Int
    BY <1>1, <1>2
  <2>3. r % n = s % n
    BY <2>1, <2>2
  <2> QED
    BY <1>2, <2>1, <2>3
<1>5. ASSUME NEW i \in 1 .. n, NEW k \in Positions
      PROVE  \E r \in 0 .. n * Size - 1 : StreamPixel(r) = <<i, k>>
  <2>1. i - 1 \in 0 .. n - 1 /\ k \in 0 .. Size - 1 /\ Size \in Nat \ {0} /\ (i - 1) + 1 = i
    BY <1>1 DEF Positions
  <2> DEFINE r == n * k + (i - 1)
  <2>2. r \in 0 .. n * Size - 1 /\ r \div n = k /\ r % n = i - 1
    BY <1>1, <2>1, GridAt
  <2> HIDE DEF r
  <2>3. StreamPixel(r) = <<i, k>>
    BY <2>1, <2>2 DEF StreamPixel, n
  <2> QED
    BY <2>2, <2>3
<1> QED
  BY <1>3, <1>4, <1>5 DEF n

LEMMA RawImage ==
    ASSUME TypeOK, namps > 0
    PROVE  WholeImage(Raw)
<1> DEFINE n == namps
           All == 0 .. n * Size - 1
<1>1. n \in Nat \ {0} /\ Size \in Nat /\ n = namps
  BY Geometry DEF TypeOK, namps
<1> HIDE DEF n
<1>2. CASE detext
  <2>1. /\ DOMAIN Raw = {1} /\ DOMAIN Raw[1] = All
        /\ \A p \in All : Raw[1][p] = StreamPixel(p)
    <3>1. DOMAIN Raw = {1}
      BY <1>2 DEF Raw
    <3>2. DOMAIN Raw[1] = All
      BY <1>2, <1>1 DEF Raw
    <3>3. ASSUME NEW p \in All PROVE Raw[1][p] = StreamPixel(p)
      <4>1. (1 - 1) * Size + p = p
        BY <1>1
      <4>2. Raw[1][p] = StreamPixel((1 - 1) * Size + p)
        BY <1>1, <1>2 DEF Raw, StreamPixel
      <4> QED
        BY <4>1, <4>2
    <3> QED
      BY <3>1, <3>2, <3>3
  <2>2. \A p \in All : Raw[1][p] \in AllPixels
    BY <1>1, <2>1, StreamPixels
  <2>3. \A p, q \in All : Raw[1][p] = Raw[1][q] => p = q
    BY <1>1, <2>1, StreamPixels
  <2>4. ASSUME NEW i \in 1 .. namps, NEW k \in Positions PROVE \E p \in All : Raw[1][p] = <<i, k>>
    <3>1. PICK r \in 0 .. namps * Size - 1 : StreamPixel(r) = <<i, k>>
      BY <1>1, StreamPixels
    <3>2. r \in All
      BY <1>1
    <3> QED
      BY <2>1, <3>1, <3>2
  <2>5. PixelsOf(Raw, {1}, All) = AllPixels
    <3> DEFINE One == {1}
    <3>1. \A a \in One, p \in All : Raw[a][p] \in AllPixels
      BY <2>2
    <3>2. \A i \in 1 .. namps, k \in Positions : \E a \in One, p \in All : Raw[a][p] = <<i, k>>
      BY <2>4
    <3> HIDE DEF One, All
    <3>3. PixelsOf(Raw, One, All) = AllPixels
      BY <3>1, <3>2, AllCovered
    <3> QED
      BY <3>3 DEF One
  <2> QED
    BY <2>1, <2>3, <2>5 DEF WholeImage
<1>3. CASE ~detext
  <2>1. /\ DOMAIN Raw = 1 .. n
        /\ \A a \in 1 .. n : /\ DOMAIN Raw[a] = Positions
                             /\ \A p \in Positions : Raw[a][p] = StreamPixel((a - 1) * Size + p)
    BY <1>1, <1>3 DEF Raw, StreamPixel, Positions
  <2>2. ASSUME NEW a \in 1 .. n, NEW p \in Positions
        PROVE  /\ (a - 1) * Size + p \in All
               /\ ((a - 1) * Size + p) % Size = p
    <3>1. a - 1 \in 0 .. n - 1 /\ p \in 0 .. Size - 1 /\ Size \in Nat \ {0}
      BY <1>1 DEF Positions
    <3>2. (a - 1) * Size = Size * (a - 1) /\ n * Size = Size * n
      BY <1>1, <3>1
    <3>3. Size * (a - 1) + p \in 0 .. Size * n - 1 /\ (Size * (a - 1) + p) % Size = p
      BY <1>1, <3>1, GridAt
    <3> QED
      BY <3>2, <3>3
  <2>3. ASSUME NEW r \in All PROVE \E a \in 1 .. n, p \in Positions : r = (a - 1) * Size + p
    <3>1. Size \in Nat \ {0}
      BY <1>1
    <3>2. r \in 0 .. Size * n - 1
      BY <1>1
    <3>3. PICK b \in 0 .. n - 1, p \in 0 .. Size - 1 : r = Size * b + p
      <4>1. n \in Nat
        BY <1>1
      <4> QED
        BY <3>1, <3>2, <4>1, OfGrid
    <3>4. b + 1 \in 1 .. n /\ ((b + 1) - 1) * Size = Size * b
      BY <1>1, <3>1
    <3> QED
      BY <3>3, <3>4 DEF Positions
  <2> DEFINE at(a, p) == (a - 1) * Size + p
  <2> HIDE DEF at
  <2>4. \A a \in 1 .. n, p \in Positions : Raw[a][p] = StreamPixel(at(a, p)) /\ at(a, p) \in All /\ at(a, p) % Size = p
    BY <2>1, <2>2 DEF at
  <2>5. \A r \in All : \E a \in 1 .. n, p \in Positions : r = at(a, p)
    BY <2>3 DEF at
  <2>6. PixelsOf(Raw, 1 .. n, Positions) = AllPixels
    <3>1. ASSUME NEW a \in 1 .. n, NEW p \in Positions PROVE Raw[a][p] \in AllPixels
      BY <1>1, <2>4, StreamPixels
    <3>2. ASSUME NEW i \in 1 .. n, NEW k \in Positions
          PROVE  \E a \in 1 .. n, p \in Positions : Raw[a][p] = <<i, k>>
      <4>1. PICK r \in All : StreamPixel(r) = <<i, k>>
        BY <1>1, StreamPixels
      <4>2. PICK a \in 1 .. n, p \in Positions : r = at(a, p)
        BY <2>5
      <4> QED
        BY <2>4, <4>1, <4>2
    <3> QED
      BY <1>1, <3>1, <3>2, AllCovered
  <2>7. ASSUME NEW a \in 1 .. n, NEW p \in Positions, NEW q \in Positions, Raw[a][p] = Raw[a][q]
        PROVE  p = q
    <3>1. at(a, p) = at(a, q)
      BY <1>1, <2>4, <2>7, StreamPixels
    <3> QED
      BY <2>4, <3>1
  <2>8. 1 \in 1 .. n
    BY <1>1
  <2> QED
    BY <2>1, <2>6, <2>7, <2>8 DEF WholeImage
<1> QED
  BY <1>2, <1>3

LEMMA AmpTypes ==
    ASSUME TypeOK, NEW a \in 1 .. namps
    PROVE  /\ amps[a].type \in Types
           /\ amps[a].rotate \in Quarters
           /\ amps[a].as \in Types \X Int \X Flips
<1>1. amps \in Seq(ampRecords)
  BY DEF TypeOK, ampRecords
<1>2. amps[a] \in ampRecords
  BY <1>1 DEF namps
<1> QED
  BY <1>2 DEF ampRecords

LEMMA ImageComplete ==
    ASSUME Even, EachSectionOnce, TypeOK, StreamIsMapped, ~FloatsCut, Unscramble, image' # Undefined
    PROVE  WholeImage(image')
<1>1. namps > 0 /\ namps \in Nat
  BY DEF Unscramble, TypeOK, namps
<1>2. ~Fails
  BY DEF Unscramble
<1>3. ASSUME enabled, NEW a \in 1 .. namps PROVE Filled(Placed(a), Source(a))
  <2>1. amps[a].type \in Types /\ amps[a].rotate \in Quarters
    BY AmpTypes
  <2>2. Source(a) \in 1 .. namps /\ {s \in 1 .. namps : physmap[s] = a} = {Source(a)}
    BY OneSource
  <2>3. amps[a].rotate # -270
    <3>1. a \in Mapped \cap (1 .. namps)
      BY <2>2 DEF Mapped
    <3>2. ~PutsOutside
      BY <1>2, <1>3 DEF Fails
    <3>3. amps[a].rotate # 0 => \A p \in Positions : Rotated(amps[a].rotate, p) \in Positions
      BY <3>1, <3>2 DEF PutsOutside
    <3> QED
      BY <3>3, TurnedOutside
  <2>4. amps[a].rotate \in {0, 90, 270, -90}
    BY <2>1, <2>3 DEF Quarters
  <2> QED
    BY <2>1, <2>2, <2>4, PlacedFills
<1>4. CASE ~enabled
  <2>1. image' = Raw
    BY <1>2, <1>4 DEF Unscramble
  <2> QED
    BY <1>1, <2>1, RawImage
<1>5. CASE enabled
  <2> DEFINE buffers == [a \in 1 .. namps |-> IF arranged THEN Rearranged(a, Placed(a)) ELSE Placed(a)]
  <2>1. image' = Compose(buffers)
    BY <1>2, <1>5 DEF Unscramble
  <2>2. ASSUME arranged, NEW a \in 1 .. namps PROVE Filled(Rearranged(a, Placed(a)), Source(a))
    <3>1. \A s \in UsedSides : order[s] # Broken
      BY <1>2, <1>5, <2>2 DEF Fails
    <3>2. /\ order[SideOf(amps[a].type, Left, "left", "right")] # Broken
          /\ order[SideOf(amps[a].type, Lower, "lower", "upper")] # Broken
      BY <3>1 DEF UsedSides
    <3> QED
      BY <1>3, <1>5, <3>2, RearrangedFills
  <2>3. ASSUME NEW a \in 1 .. namps
        PROVE  Filled(IF arranged THEN Rearranged(a, Placed(a)) ELSE Placed(a), Source(a))
    <3>1. CASE arranged
      BY <2>2, <3>1
    <3>2. CASE ~arranged
      BY <1>3, <1>5, <3>2
    <3> QED
      BY <3>1, <3>2
  <2>4. AllFilled(buffers)
    BY <2>3 DEF AllFilled
  <2> HIDE DEF buffers
  <2>5. WholeImage(Compose(buffers))
    BY <1>1, <2>4, SeparateImage, DetectorImage
  <2> QED
    BY <2>1, <2>5
<1> QED
  BY <1>4, <1>5

\* GU_call_unscrambling(): whatever the number and the size of the amplifiers, their
\* types and angles, the order of the stream and of the sections, every pixel of the
\* controller is in the image once, where the outcome is defined, each amplifier gets a
\* piece of the stream and GU_FLOAT() does not swap.  The sides of an amplifier are even
\* and an order names each section once; RI_SHORT() loses pixels of an odd side.
THEOREM NoPixelIsLost ==
    ASSUME Even, EachSectionOnce
    PROVE  Spec => []EveryPixelOnce
<1>1. Init => EveryPixelOnce
  BY DEF Init, EveryPixelOnce, Unscrambled
<1>2. ASSUME TypeOK, EveryPixelOnce, [Next]_vars PROVE EveryPixelOnce'
  <2>1. CASE UNCHANGED <<amps, physmap, modes, image>>
    BY <1>2, <2>1
      DEF EveryPixelOnce, Unscrambled, StreamIsMapped, Mapped, FloatsCut, Swaps, modes, AllPixels, namps
  <2>2. CASE image' = <<>>
    BY <2>2 DEF EveryPixelOnce, Unscrambled
  <2>3. CASE Unscramble
    <3> SUFFICES ASSUME image' # Undefined, StreamIsMapped', ~FloatsCut'
                 PROVE  WholeImage(image)'
      BY DEF EveryPixelOnce, Unscrambled, WholeImage, PixelsOf
    <3>1. amps' = amps /\ physmap' = physmap /\ modes' = modes
      BY <2>3 DEF Unscramble, config, modes
    <3>2. StreamIsMapped /\ ~FloatsCut
      BY <3>1 DEF StreamIsMapped, Mapped, FloatsCut, Swaps, modes, namps
    <3>3. WholeImage(image')
      BY <1>2, <2>3, <3>2, ImageComplete
    <3> QED
      BY <3>1, <3>3 DEF WholeImage, PixelsOf, AllPixels, namps
  <2>4. CASE Next
    <3>1. CASE AddDet
      BY <2>2, <3>1 DEF AddDet
    <3>2. CASE ~AddDet
      BY <2>2, <2>3, <2>4, <3>2
        DEF Next, ClearAmps, AddAmp, SetPhysMap, SetOrder, SetOrderFails, DetExt,
            PixSwap, Enable, Compute, Configure
    <3> QED
      BY <3>1, <3>2
  <2> QED
    BY <1>2, <2>1, <2>4 DEF vars, config
<1>3. TypeOK /\ EveryPixelOnce /\ [Next]_vars => EveryPixelOnce'
  BY <1>2
<1> QED
  BY <1>1, <1>3, ConfigurationIsSound, PTL DEF Spec

-----------------------------------------------------------------------------
(* The orientation of the image. *)

\* What mirrors an amplifier of type t, turned by r and flipped by f, on the way to its
\* corner.
MirrorsX(t, r, f) ==
    Cardinality({t} \cap Right) + Cardinality({r} \cap {180}) + Cardinality({f} \cap {"vertical"})
MirrorsY(t, r, f) ==
    Cardinality({t} \cap Upper) + Cardinality({r} \cap {180}) + Cardinality({f} \cap {"horizontal"})

\* The type and the rotation of an amplifier are those of its definition.
AsDefined ==
    \A a \in 1 .. namps :
        /\ amps[a].type = Corner(amps[a].as[1], Angle(amps[a].as[2]), amps[a].as[3])
        /\ amps[a].rotate = RotationKept(Angle(amps[a].as[2]))

LEMMA AmpsAsDefined ==
    ASSUME TypeOK, AsDefined, [Next]_vars
    PROVE  AsDefined'
<1>1. CASE UNCHANGED amps
  BY <1>1 DEF AsDefined, namps
<1>2. CASE ClearAmps
  BY <1>2 DEF ClearAmps, AsDefined, namps
<1>3. ASSUME NEW d \in Definitions, NEW ext \in 0 .. MaxAmps, AddAmp(d[1], d[2], d[3], ext)
      PROVE  AsDefined'
  <2> DEFINE new == [type |-> Corner(d[1], Angle(d[2]), d[3]),
                     rotate |-> RotationKept(Angle(d[2])),
                     as |-> <<d[1], d[2], d[3]>>]
  <2>1. amps' = Append(amps, new)
    BY <1>3 DEF AddAmp
  <2>2. /\ new.type = Corner(new.as[1], Angle(new.as[2]), new.as[3])
        /\ new.rotate = RotationKept(Angle(new.as[2]))
    OBVIOUS
  <2> HIDE DEF new
  <2>3. amps \in Seq(ampRecords) /\ namps \in Nat
    BY DEF TypeOK, ampRecords, namps
  <2>4. /\ namps' = namps + 1 /\ amps'[namps + 1] = new
        /\ \A a \in 1 .. namps : amps'[a] = amps[a]
    BY <2>1, <2>3 DEF namps
  <2>5. ASSUME NEW a \in 1 .. namps'
        PROVE  /\ amps'[a].type = Corner(amps'[a].as[1], Angle(amps'[a].as[2]), amps'[a].as[3])
               /\ amps'[a].rotate = RotationKept(Angle(amps'[a].as[2]))
    <3>1. CASE a = namps + 1
      BY <2>2, <2>4, <3>1
    <3>2. CASE a # namps + 1
      <4>1. a \in 1 .. namps
        BY <2>3, <2>4, <3>2
      <4> QED
        BY <2>4, <4>1 DEF AsDefined
    <3> QED
      BY <3>1, <3>2
  <2> QED
    BY <2>5 DEF AsDefined
<1>4. CASE Next
  BY <1>1, <1>2, <1>3, <1>4
    DEF Next, AddDet, Unscramble, SetPhysMap, SetOrder, SetOrderFails, DetExt, PixSwap, Enable,
        Compute, KeepTables, config
<1> QED
  BY <1>1, <1>4 DEF vars, config

LEMMA Bit ==
    ASSUME NEW x, NEW S
    PROVE  Cardinality({x} \cap S) = IF x \in S THEN 1 ELSE 0
<1>1. CASE x \in S
  <2>1. {x} \cap S = {x}
    BY <1>1
  <2> QED
    BY <1>1, <2>1, FS_Singleton
<1>2. CASE x \notin S
  <2>1. {x} \cap S = {}
    BY <1>2
  <2> QED
    BY <1>2, <2>1, FS_EmptySet
<1> QED
  BY <1>1, <1>2

\* Counting what mirrors an amplifier tells the corner it ends up at.
LEMMA CornerOfDefinition ==
    ASSUME NEW t \in Types, NEW angle \in Int, NEW f \in Flips
    PROVE  /\ Corner(t, Angle(angle), f) \in Types
           /\ MirrorsX(t, Meant(angle), f) % 2 = 1 <=> Corner(t, Angle(angle), f) \in Right
           /\ MirrorsY(t, Meant(angle), f) % 2 = 1 <=> Corner(t, Angle(angle), f) \in Upper
<1> DEFINE r == Meant(angle)
           v == IF r = 180 THEN Turned(t) ELSE t
           u == Flipped(v, f)
<1>0. u = Corner(t, Angle(angle), f)
  <2>1. Angle(angle) \in {180, -180} <=> r = 180
    BY AngleOf
  <2> QED
    BY <2>1 DEF Corner
<1> HIDE DEF r
<1>1. t \in {"LL", "LR", "UL", "UR"} /\ f \in {"none", "vertical", "horizontal"}
  BY DEF Types, Lower, Upper, Flips
<1>2. /\ v \in {"LL", "LR", "UL", "UR"}
      /\ v \in Right <=> ((t \in Right) # (r = 180))
      /\ v \in Upper <=> ((t \in Upper) # (r = 180))
  <2>1. /\ Turned("LL") = "UR" /\ Turned("UR") = "LL"
        /\ Turned("LR") = "UL" /\ Turned("UL") = "LR"
    BY OtherCorner DEF Turned, DiagR
  <2> QED
    BY <1>1, <2>1 DEF Right, Upper
<1> HIDE DEF v
<1>3. /\ u \in {"LL", "LR", "UL", "UR"}
      /\ u \in Right <=> ((v \in Right) # (f = "vertical"))
      /\ u \in Upper <=> ((v \in Upper) # (f = "horizontal"))
  <2>1. /\ Flipped("LL", "vertical") = "LR" /\ Flipped("LR", "vertical") = "LL"
        /\ Flipped("UL", "vertical") = "UR" /\ Flipped("UR", "vertical") = "UL"
        /\ Flipped("LL", "horizontal") = "UL" /\ Flipped("UL", "horizontal") = "LL"
        /\ Flipped("LR", "horizontal") = "UR" /\ Flipped("UR", "horizontal") = "LR"
        /\ Flipped(v, "none") = v
    BY OtherCorner DEF Flipped, Lower, Left
  <2> QED
    BY <1>1, <1>2, <2>1 DEF Right, Upper
<1> HIDE DEF u
<1>4. Cardinality({t} \cap Right) = IF t \in Right THEN 1 ELSE 0
  BY Bit
<1>5. Cardinality({t} \cap Upper) = IF t \in Upper THEN 1 ELSE 0
  BY Bit
<1>6. Cardinality({r} \cap {180}) = IF r \in {180} THEN 1 ELSE 0
  BY Bit, Zenon
<1>7. Cardinality({f} \cap {"vertical"}) = IF f \in {"vertical"} THEN 1 ELSE 0
  BY Bit, Zenon
<1>8. Cardinality({f} \cap {"horizontal"}) = IF f \in {"horizontal"} THEN 1 ELSE 0
  BY Bit, Zenon
<1>9. MirrorsX(t, r, f) % 2 = 1 <=> u \in Right
  <2>1. MirrorsX(t, r, f) = (IF t \in Right THEN 1 ELSE 0) + (IF r = 180 THEN 1 ELSE 0)
                            + (IF f = "vertical" THEN 1 ELSE 0)
    BY <1>4, <1>6, <1>7 DEF MirrorsX
  <2> QED
    BY <1>2, <1>3, <2>1
<1>10. MirrorsY(t, r, f) % 2 = 1 <=> u \in Upper
  <2>1. MirrorsY(t, r, f) = (IF t \in Upper THEN 1 ELSE 0) + (IF r = 180 THEN 1 ELSE 0)
                            + (IF f = "horizontal" THEN 1 ELSE 0)
    BY <1>5, <1>6, <1>8 DEF MirrorsY
  <2> QED
    BY <1>2, <1>3, <2>1
<1>11. u \in Types
  BY <1>3 DEF Types, Lower, Upper
<1> QED
  BY <1>0, <1>9, <1>10, <1>11 DEF r

\* Where the k-th pixel of an amplifier is put is where its definition sees it.
LEMMA PlaceSeen ==
    ASSUME NEW as \in Types \X Int \X Flips, NEW k \in Positions
    PROVE  LET type == Corner(as[1], Angle(as[2]), as[3])
           IN  /\ Seen(as, k)[1] \in 0 .. NCols - 1 /\ Seen(as, k)[2] \in 0 .. NRows - 1
               /\ Place(type, k) = NCols * Seen(as, k)[2] + Seen(as, k)[1]
<1> DEFINE type == Corner(as[1], Angle(as[2]), as[3])
           mx == MirrorsX(as[1], Meant(as[2]), as[3])
           my == MirrorsY(as[1], Meant(as[2]), as[3])
<1>1. /\ type \in Types
      /\ mx % 2 = 1 <=> type \in Right
      /\ my % 2 = 1 <=> type \in Upper
  <2>1. as[1] \in Types /\ as[2] \in Int /\ as[3] \in Flips
    OBVIOUS
  <2> QED
    BY <2>1, CornerOfDefinition
<1>2. PICK y \in 0 .. NRows - 1, x \in 0 .. NCols - 1 : k = NCols * y + x
  BY OfPosition
<1>3. k \div NCols = y /\ k % NCols = x
  BY <1>2, At
<1>4. Seen(as, k) = <<IF mx % 2 = 1 THEN NCols - 1 - x ELSE x,
                      IF my % 2 = 1 THEN NRows - 1 - y ELSE y>>
  BY <1>3 DEF Seen, MirrorsX, MirrorsY
<1> HIDE DEF type, mx, my
<1> DEFINE X == IF type \in Right THEN NCols - 1 - x ELSE x
           Y == IF type \in Upper THEN NRows - 1 - y ELSE y
<1>5. Seen(as, k) = <<X, Y>>
  BY <1>1, <1>4
<1>6. /\ NCols - 1 - x \in 0 .. NCols - 1
      /\ NRows - 1 - y \in 0 .. NRows - 1
  BY Geometry
<1>7. X \in 0 .. NCols - 1 /\ Y \in 0 .. NRows - 1
  BY <1>6
<1>8. Place(type, k) = NCols * Y + X
  <2>1. CASE type = "LL"
    BY <1>2, <2>1, PlaceAt DEF Upper, Right
  <2>2. CASE type = "LR"
    BY <1>2, <2>2, PlaceAt DEF Upper, Right
  <2>3. CASE type = "UL"
    BY <1>2, <2>3, PlaceAt DEF Upper, Right
  <2>4. CASE type = "UR"
    BY <1>2, <2>4, PlaceAt DEF Upper, Right
  <2> QED
    BY <1>1, <2>1, <2>2, <2>3, <2>4 DEF Types, Lower, Upper
<1> HIDE DEF X, Y
<1>9. /\ Seen(as, k)[1] \in 0 .. NCols - 1 /\ Seen(as, k)[2] \in 0 .. NRows - 1
      /\ Place(type, k) = NCols * Seen(as, k)[2] + Seen(as, k)[1]
  BY <1>5, <1>7, <1>8
<1> QED
  BY <1>9 DEF type

\* Where that is in the buffer of an amplifier.
SkyAt(amp, k) ==
    LET at == Seen(amp.as, k)
    IN  CASE Meant(amp.as[2]) \in {0, 180} -> at[2] * NCols + at[1]
          [] Meant(amp.as[2]) = 90 -> at[1] * NRows + NRows - 1 - at[2]
          [] OTHER -> (NCols - 1 - at[1]) * NRows + at[2]

LEMMA PlacedAsSeen ==
    ASSUME Even, TypeOK, AsDefined, StreamIsMapped, ~PutsOutside, ~pix_swap,
           NEW i \in 1 .. namps, NEW k \in Positions, NEW a, a = physmap[i]
    PROVE  Placed(a)[SkyAt(amps[a], k)] = <<i, k>>
<1> DEFINE at == Seen(amps[a].as, k)
           X == at[1]
           Y == at[2]
           places == [q \in Positions |-> Place(amps[a].type, q)]
           placed == Scatter(Stream(i), places)
           turns == [p \in Positions |-> Rotated(amps[a].rotate, p)]
<1>1. a \in 1 .. namps /\ {s \in 1 .. namps : physmap[s] = a} = {i}
  BY OneSource
<1>2. /\ amps[a].type \in Types /\ amps[a].rotate \in {0, 90, 270, -90}
      /\ amps[a].as \in Types \X Int \X Flips
      /\ amps[a].rotate = 0 <=> Meant(amps[a].as[2]) \in {0, 180}
      /\ amps[a].rotate = 90 <=> Meant(amps[a].as[2]) = 90
  <2>1. /\ amps[a].type \in Types /\ amps[a].rotate \in Quarters
        /\ amps[a].as \in Types \X Int \X Flips
    BY <1>1, AmpTypes
  <2>2. amps[a].rotate # -270
    <3>1. a \in Mapped \cap (1 .. namps)
      BY <1>1 DEF Mapped
    <3>2. amps[a].rotate # 0 => \A p \in Positions : Rotated(amps[a].rotate, p) \in Positions
      BY <3>1 DEF PutsOutside
    <3> QED
      BY <3>2, TurnedOutside
  <2>3. amps[a].rotate = RotationKept(Angle(amps[a].as[2])) /\ amps[a].as[2] \in Int
    BY <1>1, <2>1 DEF AsDefined
  <2> DEFINE angle == amps[a].as[2]
  <2>4. /\ Angle(angle) \in {0, 90, 180, 270, -90, -180, -270}
        /\ Meant(angle) \in {0, 90, 180, 270}
        /\ Angle(angle) = 0 <=> Meant(angle) = 0
        /\ Angle(angle) \in {180, -180} <=> Meant(angle) = 180
        /\ Angle(angle) \in {90, -270} <=> Meant(angle) = 90
    BY <2>3, AngleOf
  <2> HIDE DEF angle
  <2>5. amps[a].rotate = IF Angle(angle) \in {180, -180} THEN 0 ELSE Angle(angle)
    BY <2>3 DEF RotationKept, angle
  <2>6. /\ amps[a].rotate = 0 <=> Meant(angle) \in {0, 180}
        /\ amps[a].rotate = 90 <=> Meant(angle) = 90
    BY <2>2, <2>4, <2>5
  <2> QED
    BY <2>1, <2>2, <2>6 DEF Quarters, angle
<1>3. /\ X \in 0 .. NCols - 1 /\ Y \in 0 .. NRows - 1
      /\ Place(amps[a].type, k) = NCols * Y + X
  <2> DEFINE as == amps[a].as
  <2>1. amps[a].type = Corner(as[1], Angle(as[2]), as[3])
    BY <1>1 DEF AsDefined
  <2>2. as \in Types \X Int \X Flips
    BY <1>2
  <2> HIDE DEF as
  <2>3. /\ Seen(as, k)[1] \in 0 .. NCols - 1 /\ Seen(as, k)[2] \in 0 .. NRows - 1
        /\ Place(Corner(as[1], Angle(as[2]), as[3]), k) = NCols * Seen(as, k)[2] + Seen(as, k)[1]
    BY <2>2, PlaceSeen
  <2> QED
    BY <2>1, <2>3 DEF as
<1>4. Filled(Stream(i), i) /\ Shuffle(places)
  <2>1. ~FloatsCut
    BY DEF FloatsCut, Swaps
  <2> QED
    BY <1>2, <2>1, StreamFills, PlaceShuffles
<1>5. Stream(i)[k] = <<i, k>>
  BY DEF Stream, Swaps
<1>6. placed[NCols * Y + X] = <<i, k>> /\ Filled(placed, i)
  <2>1. placed[places[k]] = Stream(i)[k] /\ Filled(placed, i)
    BY <1>4, ScatterFills
  <2>2. places[k] = NCols * Y + X
    BY <1>3
  <2> QED
    BY <1>5, <2>1, <2>2
<1>7. Placed(a) = IF amps[a].rotate = 0 THEN placed ELSE Scatter(placed, turns)
  <2>1. Max({i}) = i
    BY MaxOfOne
  <2> QED
    BY <1>1, <2>1 DEF Placed
<1>8. ASSUME amps[a].rotate # 0
      PROVE  Scatter(placed, turns)[Rotated(amps[a].rotate, NCols * Y + X)] = <<i, k>>
  <2>1. Shuffle(turns)
    BY <1>2, <1>8, RotationShuffles
  <2> DEFINE p == NCols * Y + X
  <2>2. p \in Positions
    BY <1>3, At
  <2>3. turns[p] = Rotated(amps[a].rotate, p)
    BY <2>2
  <2>4. placed[p] = <<i, k>> /\ Filled(placed, i)
    BY <1>6
  <2> HIDE DEF placed, turns, p
  <2>5. Scatter(placed, turns)[turns[p]] = placed[p]
    BY <2>1, <2>2, <2>4, ScatterFills
  <2>6. Scatter(placed, turns)[Rotated(amps[a].rotate, p)] = <<i, k>>
    BY <2>3, <2>4, <2>5
  <2> QED
    BY <2>6 DEF p
<1>9. /\ Rotated(90, NCols * Y + X) = NRows * X + (NRows - 1 - Y)
      /\ Rotated(270, NCols * Y + X) = NRows * (NCols - 1 - X) + Y
      /\ Rotated(-90, NCols * Y + X) = NRows * (NCols - 1 - X) + Y
  BY <1>3, RotatedAt
<1> HIDE DEF placed, turns
<1>10. /\ Y * NCols + X = NCols * Y + X
       /\ X * NRows + NRows - 1 - Y = NRows * X + (NRows - 1 - Y)
       /\ (NCols - 1 - X) * NRows + Y = NRows * (NCols - 1 - X) + Y
  <2>1. X \in Int /\ Y \in Int /\ NCols \in Int /\ NRows \in Int
    BY <1>3, Geometry
  <2>2. \A x, y, n, m \in Int :
          /\ y * n + x = n * y + x
          /\ x * m + m - 1 - y = m * x + (m - 1 - y)
          /\ (n - 1 - x) * m + y = m * (n - 1 - x) + y
    OBVIOUS
  <2> HIDE DEF X, Y
  <2> QED
    BY <2>1, <2>2
<1>11. CASE amps[a].rotate = 0
  <2>1. SkyAt(amps[a], k) = NCols * Y + X
    BY <1>2, <1>10, <1>11 DEF SkyAt
  <2> QED
    BY <1>6, <1>7, <1>11, <2>1
<1>12. CASE amps[a].rotate = 90
  <2>1. SkyAt(amps[a], k) = Rotated(90, NCols * Y + X)
    BY <1>2, <1>9, <1>10, <1>12 DEF SkyAt
  <2> HIDE DEF X, Y
  <2> QED
    BY <1>7, <1>8, <1>12, <2>1
<1>13. CASE amps[a].rotate \in {270, -90}
  <2>1. SkyAt(amps[a], k) = Rotated(amps[a].rotate, NCols * Y + X)
    BY <1>2, <1>9, <1>10, <1>13 DEF SkyAt
  <2> HIDE DEF X, Y
  <2> QED
    BY <1>7, <1>8, <1>13, <2>1
<1> QED
  BY <1>2, <1>11, <1>12, <1>13

\* Oriented, said of the places.
SkyShown ==
    Unscrambled /\ enabled /\ ~arranged /\ ~detext /\ ~pix_swap /\ StreamIsMapped =>
        \A i \in 1 .. namps, k \in Positions :
            image[physmap[i]][SkyAt(amps[physmap[i]], k)] = <<i, k>>

\* GU_add_amp() and GU_call_unscrambling(): whatever the corner, the angle and the flip
\* an amplifier is defined with, and whatever its size, if the outcome is defined the pixel read k-th is where its
\* definition sees it.
THEOREM ImageShowsTheSky ==
    ASSUME Even
    PROVE  Spec => []Oriented
<1>1. Init => SkyShown /\ AsDefined
  BY DEF Init, SkyShown, Unscrambled, AsDefined, namps
<1>2. ASSUME TypeOK, AsDefined, SkyShown, [Next]_vars PROVE SkyShown'
  <2>1. CASE UNCHANGED vars
    BY <1>2, <2>1 DEF vars, config, modes, SkyShown, Unscrambled, StreamIsMapped, Mapped, namps
  <2>2. CASE image' = <<>>
    BY <2>2 DEF SkyShown, Unscrambled
  <2>3. CASE Unscramble
    <3>1. /\ amps' = amps /\ physmap' = physmap /\ enabled' = enabled /\ arranged' = arranged
          /\ detext' = detext /\ pix_swap' = pix_swap
      BY <2>3 DEF Unscramble, config, modes
    <3>2. ASSUME image' # Undefined, enabled, ~arranged, ~detext, ~pix_swap, StreamIsMapped,
                 NEW i \in 1 .. namps, NEW k \in Positions
          PROVE  image'[physmap[i]][SkyAt(amps[physmap[i]], k)] = <<i, k>>
      <4>0. ~Fails
        BY <2>3, <3>2 DEF Unscramble
      <4>1. image' = Compose([a \in 1 .. namps |-> Placed(a)])
        BY <2>3, <3>2, <4>0 DEF Unscramble
      <4>5. ~PutsOutside
        BY <3>2, <4>0 DEF Fails
      <4>2. image' = [a \in 1 .. namps |-> Placed(a)]
        BY <3>2, <4>1 DEF Compose
      <4>3. physmap[i] \in 1 .. namps
        BY <1>2, <3>2, OneSource
      <4>4. image'[physmap[i]] = Placed(physmap[i])
        BY <4>2, <4>3
      <4> QED
        BY <1>2, <3>2, <4>4, <4>5, PlacedAsSeen
    <3> QED
      BY <3>1, <3>2 DEF SkyShown, Unscrambled, StreamIsMapped, Mapped, namps
  <2>4. CASE Next
    BY <2>2, <2>3, <2>4
      DEF Next, AddDet, ClearAmps, AddAmp, SetPhysMap, SetOrder, SetOrderFails, DetExt,
          PixSwap, Enable, Compute, Configure
  <2> QED
    BY <1>2, <2>1, <2>4
<1>3. TypeOK /\ AsDefined /\ SkyShown /\ [Next]_vars => AsDefined' /\ SkyShown'
  BY <1>2, AmpsAsDefined
<1>4. SkyShown => Oriented
  BY DEF SkyShown, SkyAt, Oriented
<1> QED
  BY <1>1, <1>3, <1>4, ConfigurationIsSound, PTL DEF Spec

-----------------------------------------------------------------------------
(* The order of the sections. *)

\* The section of an element, by where it begins and how long it is.
LEMMA SectionOf ==
    ASSUME NEW l \in Nat \X Nat \X Nat, NEW far \in BOOLEAN, NEW z \in 0 .. Total(l) - 1
    PROVE  /\ SectionAt(z, l, far) \in Names
           /\ \A m \in Names : SectionAt(z, l, far) = m <=>
                 /\ SectionStart(m, l, far) <= z
                 /\ z < SectionStart(m, l, far) + SectionLength(m, l)
<1>1. l[1] \in Nat /\ l[2] \in Nat /\ l[3] \in Nat /\ z \in Nat /\ z < l[1] + l[2] + l[3]
  BY DEF Total
<1>2. /\ SectionLength("pre", l) = l[1] /\ SectionLength("dat", l) = l[2]
      /\ SectionLength("pos", l) = l[3]
  BY DEF SectionLength
<1>3. CASE far
  <2>1. /\ SectionStart("pre", l, far) = l[3] + l[2] /\ SectionStart("dat", l, far) = l[3]
        /\ SectionStart("pos", l, far) = 0
    BY <1>3 DEF SectionStart
  <2>2. SectionAt(z, l, far) = IF l[1] + l[2] + l[3] - 1 - z < l[1] THEN "pre"
                               ELSE IF l[1] + l[2] + l[3] - 1 - z < l[1] + l[2] THEN "dat" ELSE "pos"
    BY <1>3 DEF SectionAt
  <2> QED
    BY <1>1, <1>2, <2>1, <2>2 DEF Names
<1>4. CASE ~far
  <2>1. /\ SectionStart("pre", l, far) = 0 /\ SectionStart("dat", l, far) = l[1]
        /\ SectionStart("pos", l, far) = l[1] + l[2]
    BY <1>4 DEF SectionStart
  <2>2. SectionAt(z, l, far) = IF z < l[1] THEN "pre" ELSE IF z < l[1] + l[2] THEN "dat" ELSE "pos"
    BY <1>4 DEF SectionAt
  <2> QED
    BY <1>1, <1>2, <2>1, <2>2 DEF Names
<1> QED
  BY <1>3, <1>4

LEMMA CountInterval ==
    ASSUME NEW a \in Nat, NEW n \in Nat
    PROVE  IsFiniteSet(a .. a + n - 1) /\ Cardinality(a .. a + n - 1) = n
<1>1. a + n - 1 \in Int
  OBVIOUS
<1>2. /\ IsFiniteSet(a .. a + n - 1)
      /\ Cardinality(a .. a + n - 1) = IF a > a + n - 1 THEN 0 ELSE (a + n - 1) - a + 1
  BY <1>1, FS_Interval
<1> QED
  BY <1>2

LEMMA CountApart ==
    ASSUME NEW S, NEW T, IsFiniteSet(S), IsFiniteSet(T), S \cap T = {}
    PROVE  IsFiniteSet(S \cup T) /\ Cardinality(S \cup T) = Cardinality(S) + Cardinality(T)
<1>1. Cardinality(S) \in Nat /\ Cardinality(T) \in Nat
  BY FS_CardinalityType
<1>2. Cardinality(S \cap T) = 0
  BY FS_EmptySet
<1>3. /\ IsFiniteSet(S \cup T)
      /\ Cardinality(S \cup T) = Cardinality(S) + Cardinality(T) - Cardinality(S \cap T)
  BY FS_Union
<1> QED
  BY <1>1, <1>2, <1>3

\* An element is asked for after the sections before its own and what its section has before it.
LEMMA AheadIs ==
    ASSUME NEW l \in Nat \X Nat \X Nat, NEW far \in BOOLEAN, NEW o \in [1 .. 3 -> Names],
           \A m, n \in 1 .. 3 : o[m] = o[n] => m = n,
           NEW z \in 0 .. Total(l) - 1, NEW k \in 1 .. 3, o[k] = SectionAt(z, l, far)
    PROVE  LET start(n) == SectionStart(o[n], l, far)
               len(n) == SectionLength(o[n], l)
           IN  \A x : x \in Ahead(o, l, far, z) <=>
                   \/ x \in start(k) .. start(k) + (z - start(k)) - 1
                   \/ \E n \in 1 .. k - 1 : x \in start(n) .. start(n) + len(n) - 1
<1> DEFINE start(n) == SectionStart(o[n], l, far)
           len(n) == SectionLength(o[n], l)
           N == Total(l)
<1>1. N \in Nat /\ z \in Nat /\ N = l[1] + l[2] + l[3]
  BY DEF Total
<1>2. \A n \in 1 .. 3 : start(n) \in Nat /\ len(n) \in Nat /\ start(n) + len(n) <= N
  BY SectionsApart DEF Total
<1>3. \A x \in 0 .. N - 1, n \in 1 .. 3 :
          o[n] = SectionAt(x, l, far) <=> start(n) <= x /\ x < start(n) + len(n)
  BY SectionOf
<1>4. ASSUME NEW x
      PROVE  x \in Ahead(o, l, far, z) <=>
                 /\ x \in 0 .. N - 1
                 /\ \E m \in 1 .. 3 : /\ o[m] = SectionAt(x, l, far)
                                      /\ m < k \/ (m = k /\ x < z)
  <2>1. \A n \in 1 .. 3 : o[n] = SectionAt(z, l, far) <=> n = k
    OBVIOUS
  <2> QED
    BY <1>1, <2>1 DEF Ahead
<1>5. start(k) <= z /\ z < start(k) + len(k)
  BY <1>3
<1> HIDE DEF start, len, N
<1>6. ASSUME NEW x
      PROVE  x \in Ahead(o, l, far, z) <=>
                 \/ x \in start(k) .. start(k) + (z - start(k)) - 1
                 \/ \E n \in 1 .. k - 1 : x \in start(n) .. start(n) + len(n) - 1
  <2>1. ASSUME x \in Ahead(o, l, far, z)
        PROVE  \/ x \in start(k) .. start(k) + (z - start(k)) - 1
               \/ \E n \in 1 .. k - 1 : x \in start(n) .. start(n) + len(n) - 1
    <3>1. PICK m \in 1 .. 3 : o[m] = SectionAt(x, l, far) /\ (m < k \/ (m = k /\ x < z))
      BY <1>4, <2>1
    <3>2. x \in 0 .. N - 1
      BY <1>4, <2>1
    <3>3. start(m) <= x /\ x < start(m) + len(m)
      BY <1>3, <3>1, <3>2
    <3> QED
      BY <1>1, <1>2, <3>1, <3>2, <3>3
  <2>2. ASSUME x \in start(k) .. start(k) + (z - start(k)) - 1 PROVE x \in Ahead(o, l, far, z)
    <3>1. x \in 0 .. N - 1 /\ start(k) <= x /\ x < start(k) + len(k) /\ x < z
      BY <1>1, <1>2, <1>5, <2>2
    <3> QED
      BY <1>3, <1>4, <3>1
  <2>3. ASSUME NEW n \in 1 .. k - 1, x \in start(n) .. start(n) + len(n) - 1 PROVE x \in Ahead(o, l, far, z)
    <3>1. n \in 1 .. 3 /\ n < k
      OBVIOUS
    <3>2. x \in 0 .. N - 1 /\ start(n) <= x /\ x < start(n) + len(n)
      BY <1>1, <1>2, <2>3, <3>1
    <3> QED
      BY <1>3, <1>4, <3>1, <3>2
  <2> QED
    BY <2>1, <2>2, <2>3
<1> QED
  BY <1>6 DEF start, len

LEMMA AheadCount ==
    ASSUME NEW l \in Nat \X Nat \X Nat, NEW far \in BOOLEAN, NEW o \in [1 .. 3 -> Names],
           \A m, n \in 1 .. 3 : o[m] = o[n] => m = n,
           NEW z \in 0 .. Total(l) - 1, NEW k \in 1 .. 3, o[k] = SectionAt(z, l, far)
    PROVE  LET len(n) == SectionLength(o[n], l)
               before == IF k = 1 THEN 0 ELSE IF k = 2 THEN len(1) ELSE len(1) + len(2)
           IN  Cardinality(Ahead(o, l, far, z)) = before + (z - SectionStart(o[k], l, far))
<1> DEFINE start(n) == SectionStart(o[n], l, far)
           len(n) == SectionLength(o[n], l)
           d == z - start(k)
           own == start(k) .. start(k) + d - 1
           all(n) == start(n) .. start(n) + len(n) - 1
<1>1. \A n \in 1 .. 3 : start(n) \in Nat /\ len(n) \in Nat
  BY SectionsApart
<1>2. \A m, n \in 1 .. 3 : m # n => start(m) + len(m) <= start(n) \/ start(n) + len(n) <= start(m)
  BY SectionsApart
<1>3. start(k) <= z /\ z < start(k) + len(k) /\ z \in Nat
  BY SectionOf DEF Total
<1>4. \A x : x \in Ahead(o, l, far, z) <=> x \in own \/ \E n \in 1 .. k - 1 : x \in all(n)
  BY AheadIs
<1> HIDE DEF start, len
<1>5. d \in Nat /\ start(k) + d = z /\ d < len(k)
  BY <1>1, <1>3
<1> HIDE DEF d
<1>6. IsFiniteSet(own) /\ Cardinality(own) = d
  BY <1>1, <1>5, CountInterval
<1>7. \A n \in 1 .. 3 : IsFiniteSet(all(n)) /\ Cardinality(all(n)) = len(n)
  BY <1>1, CountInterval
<1>8. \A n \in 1 .. 3 : n # k => own \cap all(n) = {}
  BY <1>1, <1>2, <1>5
<1>9. /\ IsFiniteSet(all(1)) /\ Cardinality(all(1)) = len(1) /\ len(1) \in Nat
       /\ IsFiniteSet(all(2)) /\ Cardinality(all(2)) = len(2) /\ len(2) \in Nat
  <2>1. 1 \in 1 .. 3 /\ 2 \in 1 .. 3
    OBVIOUS
  <2> QED
    BY <1>1, <1>7, <2>1
<1>10. all(1) \cap all(2) = {}
  BY <1>1, <1>2
<1> HIDE DEF own, all
<1>11. CASE k = 1
  <2>1. 1 .. k - 1 = {}
    BY <1>11
  <2>2. Ahead(o, l, far, z) = own
    BY <1>4, <2>1
  <2>3. Cardinality(Ahead(o, l, far, z)) = 0 + d
    BY <1>5, <1>6, <2>2
  <2> QED
    BY <1>11, <2>3 DEF d, start
<1>12. CASE k = 2
  <2>1. 1 .. k - 1 = {1}
    BY <1>12
  <2>2. Ahead(o, l, far, z) = own \cup all(1)
    BY <1>4, <2>1
  <2>3. own \cap all(1) = {}
    BY <1>8, <1>12
  <2>4. Cardinality(own \cup all(1)) = Cardinality(own) + Cardinality(all(1))
    BY <1>6, <1>9, <2>3, CountApart
  <2>5. Cardinality(Ahead(o, l, far, z)) = len(1) + d
    BY <1>5, <1>6, <1>9, <2>2, <2>4
  <2> QED
    BY <1>12, <2>5 DEF d, start, len
<1>13. CASE k = 3
  <2>1. 1 .. k - 1 = {1, 2}
    BY <1>13
  <2>2. Ahead(o, l, far, z) = own \cup (all(1) \cup all(2))
    BY <1>4, <2>1
  <2>3. own \cap (all(1) \cup all(2)) = {}
    BY <1>8, <1>13
  <2>4. IsFiniteSet(all(1) \cup all(2)) /\ Cardinality(all(1) \cup all(2)) = Cardinality(all(1)) + Cardinality(all(2))
    BY <1>10, <1>9, CountApart
  <2>5. Cardinality(own \cup (all(1) \cup all(2))) = Cardinality(own) + Cardinality(all(1) \cup all(2))
    BY <1>6, <2>3, <2>4, CountApart
  <2>6. Cardinality(Ahead(o, l, far, z)) = len(1) + len(2) + d
    BY <1>5, <1>6, <1>9, <2>2, <2>4, <2>5
  <2> QED
    BY <1>13, <2>6 DEF d, start, len
<1> QED
  BY <1>11, <1>12, <1>13

\* The elements are arranged in the order asked for.
LEMMA ArrangedAsAsked ==
    ASSUME NEW l \in Nat \X Nat \X Nat, NEW far \in BOOLEAN, NEW o \in [1 .. 3 -> Names],
           \A m, n \in 1 .. 3 : o[m] = o[n] => m = n, o # None,
           NEW z \in 0 .. Total(l) - 1
    PROVE  /\ PlaceAsked(o, l, far, z) \in 0 .. Total(l) - 1
           /\ Arranged(o, l, far, PlaceAsked(o, l, far, z)) = z
<1> DEFINE start(n) == SectionStart(o[n], l, far)
           len(n) == SectionLength(o[n], l)
           N == Total(l)
           p == PlaceAsked(o, l, far, z)
           nth == IF p < len(1) THEN 1 ELSE IF p < len(1) + len(2) THEN 2 ELSE 3
           before(n) == IF n = 1 THEN 0 ELSE IF n = 2 THEN len(1) ELSE len(1) + len(2)
<1>1. \A n \in 1 .. 3 : start(n) \in Nat /\ len(n) \in Nat
  BY SectionsApart
<1>2. PICK k \in 1 .. 3 : o[k] = SectionAt(z, l, far)
  <2>1. SectionAt(z, l, far) \in {"pre", "dat", "pos"}
    BY SectionOf DEF Names
  <2>2. /\ o[1] \in {"pre", "dat", "pos"} /\ o[2] \in {"pre", "dat", "pos"}
        /\ o[3] \in {"pre", "dat", "pos"}
        /\ o[1] # o[2] /\ o[1] # o[3] /\ o[2] # o[3]
    BY DEF Names
  <2>3. 1 \in 1 .. 3 /\ 2 \in 1 .. 3 /\ 3 \in 1 .. 3
    OBVIOUS
  <2> QED
    BY <2>1, <2>2, <2>3
<1>3. start(k) <= z /\ z < start(k) + len(k) /\ z \in Nat
  BY <1>2, SectionOf DEF Total
<1>4. p = before(k) + (z - start(k))
  BY <1>2, AheadCount DEF PlaceAsked
<1>5. len(1) + len(2) + len(3) = N
  BY SectionsTile DEF Total
<1>6. Arranged(o, l, far, p) = start(nth) + p - before(nth)
  BY DEF Arranged
<1> HIDE DEF start, len, N, p
<1>7. nth = k /\ p \in 0 .. N - 1
  <2>1. len(1) \in Nat /\ len(2) \in Nat /\ len(3) \in Nat /\ start(k) \in Nat
    BY <1>1
  <2>2. CASE k = 1
    BY <1>3, <1>4, <1>5, <2>1, <2>2
  <2>3. CASE k = 2
    BY <1>3, <1>4, <1>5, <2>1, <2>3
  <2>4. CASE k = 3
    BY <1>3, <1>4, <1>5, <2>1, <2>4
  <2> QED
    BY <2>2, <2>3, <2>4
<1>8. Arranged(o, l, far, p) = start(k) + p - before(k)
  BY <1>6, <1>7
<1>9. before(k) \in Nat
  BY <1>1
<1> HIDE DEF before, nth
<1>10. Arranged(o, l, far, p) = z
  BY <1>1, <1>3, <1>4, <1>8, <1>9
<1> QED
  BY <1>7, <1>10 DEF p, N

ColumnAsked(type, x) ==
    LET side == IF type \in Left THEN "left" ELSE "right"
    IN  PlaceAsked(order[side], ColLengths, side = "right", x)

LineAsked(type, y) ==
    LET side == IF type \in Lower THEN "lower" ELSE "upper"
    IN  PlaceAsked(order[side], RowLengths, side = "upper", y)

LEMMA SideAsAsked ==
    ASSUME EachSectionOnce, NEW o \in Orders, NEW far \in BOOLEAN, NEW l \in Nat \X Nat \X Nat,
           NEW N, N = Total(l), NEW z \in 0 .. N - 1
    PROVE  /\ PlaceAsked(o, l, far, z) \in 0 .. N - 1
           /\ Arranged(o, l, far, PlaceAsked(o, l, far, z)) = z
<1>1. o \in [1 .. 3 -> Names] /\ \A m, n \in 1 .. 3 : o[m] = o[n] => m = n
  BY GeometryAssumption DEF EachSectionOnce
<1>2. o # None
  <2>1. 1 \in DOMAIN o /\ 1 \notin DOMAIN None
    BY <1>1 DEF None
  <2> QED
    BY <2>1
<1> QED
  BY <1>1, <1>2, ArrangedAsAsked

\* GU_rearrange_sections() takes each pixel to where the orders of its sides ask for it.
LEMMA RearrangedAsAsked ==
    ASSUME EachSectionOnce, TypeOK, \A s \in Sides : order[s] # None, NEW a \in 1 .. namps, NEW buffer,
           order[SideOf(amps[a].type, Left, "left", "right")] # Broken,
           order[SideOf(amps[a].type, Lower, "lower", "upper")] # Broken,
           NEW x \in 0 .. NCols - 1, NEW y \in 0 .. NRows - 1
    PROVE  Rearranged(a, buffer)[LineAsked(amps[a].type, y) * NCols + ColumnAsked(amps[a].type, x)]
             = buffer[y * NCols + x]
<1> DEFINE type == amps[a].type
           xside == IF type \in Left THEN "left" ELSE "right"
           yside == IF type \in Lower THEN "lower" ELSE "upper"
           xfar == xside = "right"
           yfar == yside = "upper"
           c == PlaceAsked(order[xside], ColLengths, xfar, x)
           r == PlaceAsked(order[yside], RowLengths, yfar, y)
           col(u) == IF order[xside] = None THEN u ELSE Arranged(order[xside], ColLengths, xfar, u)
           row(u) == IF order[yside] = None THEN u ELSE Arranged(order[yside], RowLengths, yfar, u)
<1>1. /\ SideOf(type, Left, "left", "right") = xside
      /\ SideOf(type, Lower, "lower", "upper") = yside
      /\ xside \in Sides /\ yside \in Sides
  BY DEF SideOf, Sides
<1>2. order[xside] \in Orders /\ order[yside] \in Orders /\ order[xside] # None /\ order[yside] # None
  BY <1>1 DEF TypeOK
<1>3. /\ ColLengths \in Nat \X Nat \X Nat /\ NCols = Total(ColLengths)
      /\ RowLengths \in Nat \X Nat \X Nat /\ NRows = Total(RowLengths)
  BY GeometryAssumption DEF ColLengths, RowLengths, NCols, NRows, Total
<1>4. xfar \in BOOLEAN /\ yfar \in BOOLEAN
  OBVIOUS
<1>5. Rearranged(a, buffer) = [p \in Positions |-> buffer[(row(p \div NCols) * NCols) + col(p % NCols)]]
  BY <1>1 DEF Rearranged
<1>6. c = ColumnAsked(type, x) /\ r = LineAsked(type, y)
  BY DEF ColumnAsked, LineAsked
<1> HIDE DEF xside, yside, xfar, yfar, type
<1>7. c \in 0 .. NCols - 1 /\ col(c) = x
  BY <1>2, <1>3, <1>4, SideAsAsked
<1>8. r \in 0 .. NRows - 1 /\ row(r) = y
  BY <1>2, <1>3, <1>4, SideAsAsked
<1> HIDE DEF c, r, col, row
<1>9. NCols * r + c \in Positions /\ (NCols * r + c) \div NCols = r /\ (NCols * r + c) % NCols = c
  BY <1>7, <1>8, At
<1>10. NCols * r = r * NCols
  BY <1>8, Geometry
<1>11. Rearranged(a, buffer)[r * NCols + c] = buffer[(row(r) * NCols) + col(c)]
  BY <1>5, <1>9, <1>10
<1> QED
  BY <1>6, <1>7, <1>8, <1>11 DEF type

SectionsShown ==
    Unscrambled /\ enabled /\ arranged /\ ~detext /\ (\A s \in Sides : order[s] # None) =>
        \A a \in 1 .. namps, x \in 0 .. NCols - 1, y \in 0 .. NRows - 1 :
            image[a][LineAsked(amps[a].type, y) * NCols + ColumnAsked(amps[a].type, x)]
              = Placed(a)[y * NCols + x]

\* GU_rearrange_sections(): whatever the sizes of the sections and the type of an amplifier,
\* once the order of all four sides is asked for, every pixel is where the order last asked
\* for of its own sides puts it.  An order names each section once.
THEOREM SectionsAreWhereAsked ==
    ASSUME EachSectionOnce
    PROVE  Spec => []SectionsOfAllSides
<1>1. Init => SectionsShown
  BY DEF Init, SectionsShown, Unscrambled
<1>2. ASSUME TypeOK, SectionsShown, [Next]_vars PROVE SectionsShown'
  <2>1. CASE UNCHANGED vars
    <3>1. UNCHANGED <<amps, physmap, order, arranged, detext, modes, image>>
      BY <2>1 DEF vars, config
    <3>2. namps' = namps /\ \A a : Placed(a)' = Placed(a)
      BY <3>1 DEF Placed, Stream, FloatsCut, Swaps, modes, namps
    <3>3. \A type, z : LineAsked(type, z)' = LineAsked(type, z) /\ ColumnAsked(type, z)' = ColumnAsked(type, z)
      BY <3>1 DEF LineAsked, ColumnAsked
    <3> QED
      BY <1>2, <3>1, <3>2, <3>3 DEF SectionsShown, Unscrambled, modes
  <2>2. CASE image' = <<>>
    BY <2>2 DEF SectionsShown, Unscrambled
  <2>3. CASE Unscramble
    <3>1. UNCHANGED <<amps, physmap, order, arranged, detext, modes>>
      BY <2>3 DEF Unscramble, config
    <3>2. namps' = namps /\ \A a : Placed(a)' = Placed(a)
      BY <3>1 DEF Placed, Stream, FloatsCut, Swaps, modes, namps
    <3>3. \A type, z : LineAsked(type, z)' = LineAsked(type, z) /\ ColumnAsked(type, z)' = ColumnAsked(type, z)
      BY <3>1 DEF LineAsked, ColumnAsked
    <3>4. ASSUME image' # Undefined, enabled, arranged, ~detext, \A s \in Sides : order[s] # None,
                 NEW a \in 1 .. namps, NEW x \in 0 .. NCols - 1, NEW y \in 0 .. NRows - 1
          PROVE  image'[a][LineAsked(amps[a].type, y) * NCols + ColumnAsked(amps[a].type, x)]
                   = Placed(a)[y * NCols + x]
      <4>1. /\ \A s \in UsedSides : order[s] # Broken
            /\ image' = Compose([b \in 1 .. namps |-> Rearranged(b, Placed(b))])
        <5>1. ~Fails
          BY <2>3, <3>4 DEF Unscramble
        <5>2. \A s \in UsedSides : order[s] # Broken
          BY <3>4, <5>1 DEF Fails
        <5>3. image' = Compose([b \in 1 .. namps |-> Rearranged(b, Placed(b))])
          BY <2>3, <3>4, <5>1 DEF Unscramble
        <5> QED
          BY <5>2, <5>3
      <4>2. image'[a] = Rearranged(a, Placed(a))
        BY <3>4, <4>1 DEF Compose
      <4>3. /\ order[SideOf(amps[a].type, Left, "left", "right")] # Broken
            /\ order[SideOf(amps[a].type, Lower, "lower", "upper")] # Broken
        BY <4>1 DEF UsedSides
      <4> QED
        BY <1>2, <3>4, <4>2, <4>3, RearrangedAsAsked
    <3> QED
      BY <3>1, <3>2, <3>3, <3>4 DEF SectionsShown, Unscrambled, modes
  <2>4. CASE Next
    BY <2>2, <2>3, <2>4
      DEF Next, AddDet, ClearAmps, AddAmp, SetPhysMap, SetOrder, SetOrderFails, DetExt,
          PixSwap, Enable, Compute, Configure
  <2> QED
    BY <1>2, <2>1, <2>4
<1>3. TypeOK /\ SectionsShown /\ [Next]_vars => SectionsShown'
  BY <1>2
<1>4. SectionsShown => SectionsOfAllSides
  BY DEF SectionsShown, LineAsked, ColumnAsked, SectionsOfAllSides, SectionsAsAsked
<1> QED
  BY <1>1, <1>3, <1>4, ConfigurationIsSound, PTL DEF Spec
=============================================================================

---------------------------- MODULE Unscrambler ----------------------------
(***************************************************************************)
(* GUNSC: the pixels of the controller come interleaved, one of each       *)
(* amplifier in turn.  A configuration (amplifiers, order of the stream,   *)
(* order of the sections, detector extensions) is built call by call; then *)
(* every buffer is unscrambled with it.  A pixel is <<i, k>>, the k-th of  *)
(* the i-th of the stream; one that a conversion truncated is              *)
(* <<i, k, "cut">>.                                                        *)
(***************************************************************************)
EXTENDS Integers, Sequences, FiniteSetsExt

CONSTANTS
    MaxAmps,                        \* amplifiers
    PreCols, DataCols, PostCols,    \* sections of a row of an amplifier
    PreRows, DataRows, PostRows,    \* sections of its columns
    Orders,                         \* orders of the sections that are asked for
    Definitions,                    \* type, angle and flip of the amplifiers
    MaxCalls                        \* bound: configuration calls

Names == {"pre", "dat", "pos"}

VARIABLES
    amps,       \* amp[0 .. namps - 1]: type, rotate, and the definition they come from
    detector,   \* a detector was added
    physmap,    \* PhysMap: the amplifier of each pixel of the stream, 0 any that is none
    order,      \* GUget_left1, ...: the order of the sections of each side
    arranged,   \* arrange_sections
    detext, pix_swap, enabled,
    dtype,      \* the routine of the datatype, and with it bytes_pp
    detbuf,     \* detbufsize: the bytes of a pixel there is room for, 0 without a buffer
    calls,      \* configuration calls made (bounded by MaxCalls)
    image       \* what GU_call_unscrambling() left, <<>> before it

modes == <<pix_swap, enabled, dtype>>
config == <<amps, detector, physmap, order, arranged, detext, detbuf, modes, calls>>
vars == <<config, image>>

NCols == PreCols + DataCols + PostCols
NRows == PreRows + DataRows + PostRows
Size == NCols * NRows
namps == Len(amps)

Lower == {"LL", "LR"}
Upper == {"UL", "UR"}
Left == {"LL", "UL"}
Right == {"LR", "UR"}
DiagR == {"LL", "UR"}
DiagL == {"LR", "UL"}
Types == Lower \cup Upper
Quarters == {0, 90, 270, -90, -270}
Routines == {"GU_SHORT", "GU_FLOAT"}    \* GU_LONG() is GU_SHORT() with the bytes of GU_FLOAT()
Bytes(routine) == IF routine = "GU_SHORT" THEN 2 ELSE 4
Flips == {"none", "vertical", "horizontal"}
Sides == {"left", "right", "lower", "upper"}
ASSUME GeometryAssumption ==
    /\ MaxAmps \in Nat \ {0}
    /\ PreCols \in Nat /\ DataCols \in Nat \ {0} /\ PostCols \in Nat
    /\ PreRows \in Nat /\ DataRows \in Nat \ {0} /\ PostRows \in Nat
    /\ Orders \subseteq [1 .. 3 -> Names]
    /\ Definitions \subseteq Types \X Int \X Flips
    /\ MaxCalls \in Nat

None == <<>>                        \* the sections of this side are not arranged
Broken == [i \in 1 .. 3 |-> "null"] \* a routine that was not found

TypeOK ==
    /\ amps \in Seq([type : Types, rotate : Quarters, as : Types \X Int \X Flips])
    /\ namps <= MaxAmps
    /\ detector \in BOOLEAN /\ calls \in 0 .. MaxCalls
    /\ physmap \in [1 .. MaxAmps -> 0 .. MaxAmps]
    /\ order \in [Sides -> Orders \cup {None, Broken}]
    /\ arranged \in BOOLEAN /\ detext \in BOOLEAN
    /\ pix_swap \in BOOLEAN /\ enabled \in BOOLEAN
    /\ dtype \in Routines /\ detbuf \in {0, 2, 4}

\* After GU_open() and a first GU_compute().
Init ==
    /\ amps = <<>> /\ detector = FALSE /\ calls = 0
    /\ physmap = [i \in 1 .. MaxAmps |-> i]
    /\ order = [s \in Sides |-> None] /\ arranged = FALSE
    /\ detext = FALSE /\ pix_swap = FALSE /\ enabled = TRUE
    /\ dtype = "GU_SHORT" /\ detbuf = 0
    /\ image = <<>>

-----------------------------------------------------------------------------
(* The configuration. *)

\* (~type) & pair
Other(t, pair) == CHOOSE u \in pair : u # t

\* Half a turn makes of an amplifier the one of the opposite corner.
Turned(t) == Other(t, IF t \in DiagR THEN DiagR ELSE DiagL)

\* Mutant of Flipped: the flips are confused.
FlippedCrosswise(t, flip) ==
    CASE flip = "vertical" -> Other(t, IF t \in Left THEN Left ELSE Right)
      [] flip = "horizontal" -> Other(t, IF t \in Lower THEN Lower ELSE Upper)
      [] OTHER -> t

Flipped(t, flip) ==
    CASE flip = "vertical" -> Other(t, IF t \in Lower THEN Lower ELSE Upper)
      [] flip = "horizontal" -> Other(t, IF t \in Left THEN Left ELSE Right)
      [] OTHER -> t

\* The remainder of a whole turn, which has the sign of the angle; what is no multiple
\* of a quarter is discarded.
Angle(rotate) ==
    LET rem == IF rotate >= 0 THEN rotate % 360 ELSE -((-rotate) % 360)
    IN  IF rem % 90 = 0 THEN rem ELSE 0

\* Mutant of RotationKept: half a turn is rotated as well.
HalfTurnKept(angle) == angle

RotationKept(angle) == IF angle \in {180, -180} THEN 0 ELSE angle

Corner(type, angle, flip) ==
    Flipped(IF angle \in {180, -180} THEN Turned(type) ELSE type, flip)

\* GU_add_det(); the caller adds the detector before its amplifiers.
AddDet ==
    /\ image = <<>> /\ ~detector /\ amps = <<>>
    /\ detector' = TRUE
    /\ UNCHANGED <<amps, physmap, order, arranged, detext, detbuf, modes, calls, image>>

\* A configuration call.  An image depends on the configuration alone: none is needed
\* before a later call.
Configure ==
    /\ image = <<>> /\ calls < MaxCalls
    /\ calls' = calls + 1
    /\ UNCHANGED <<detector, image>>

\* The angle may be any; the extension it is given need not be one of an amplifier.
AddAmp(type, rotate, flip, extension) ==
    /\ Configure
    /\ namps < MaxAmps
    /\ amps' = Append(amps,
          [type |-> Corner(type, Angle(rotate), flip),
           rotate |-> RotationKept(Angle(rotate)),
           as |-> <<type, rotate, flip>>])
    /\ physmap' = [physmap EXCEPT ![namps + 1] = extension]
    /\ UNCHANGED <<order, arranged, detext, detbuf, modes>>

ClearAmps ==
    /\ amps # <<>>
    /\ amps' = <<>> /\ detector' = FALSE
    /\ physmap' = [i \in 1 .. MaxAmps |-> i]
    /\ detbuf' = 0
    /\ image' = <<>>
    /\ UNCHANGED <<order, arranged, detext, modes, calls>>

\* GU_SetPhysMap(map, n): the test i <= num_elements reads one element too many,
\* which may be anything.  The values are not looked at.
SetPhysMap(map, n, garbage) ==
    /\ Configure
    /\ namps > 0
    /\ physmap' = [i \in 1 .. MaxAmps |->
          IF i > namps THEN physmap[i]
          ELSE IF i <= n THEN map[i]
          ELSE IF i = n + 1 THEN garbage
          ELSE i]
    /\ UNCHANGED <<amps, order, arranged, detext, detbuf, modes>>

\* The flag is computed from the sides: from two of them if one of those is set.
ArrangeFlag(side, o) ==
    \E s \in IF side \in {"left", "right"} THEN {"left", "right"} ELSE Sides : o[s] # None

\* GU_set_arrange_sections_left() and the three others.
SetOrder(side, new) ==
    /\ Configure
    /\ order' = [order EXCEPT ![side] = new]
    /\ arranged' = ArrangeFlag(side, order')
    /\ UNCHANGED <<amps, physmap, detext, detbuf, modes>>

\* A name of which there is no routine: the pointers are lost, and a side that was
\* arranged still is.
SetOrderFails(side) ==
    /\ Configure
    /\ order' = [order EXCEPT ![side] = IF @ = None THEN None ELSE Broken]
    /\ UNCHANGED <<amps, physmap, arranged, detext, detbuf, modes>>

\* GU_det_ext(flag): the buffer of the detector is made for the pixels of now, if there
\* is a detector, or let go.
DetExt(flag) ==
    /\ Configure
    /\ detext' = flag
    /\ detbuf' = IF ~flag THEN 0
                 ELSE IF detector /\ detbuf < Bytes(dtype) THEN Bytes(dtype) ELSE detbuf
    /\ UNCHANGED <<amps, physmap, order, arranged, modes>>

KeepTables == UNCHANGED <<amps, physmap, order, arranged, detext, detbuf>>

PixSwap(flag) ==
    /\ Configure
    /\ pix_swap' = flag
    /\ UNCHANGED <<enabled, dtype>> /\ KeepTables

Enable(flag) ==
    /\ Configure
    /\ enabled' = flag
    /\ UNCHANGED <<pix_swap, dtype>> /\ KeepTables

Compute(routine) ==
    /\ Configure
    /\ dtype' = routine
    /\ UNCHANGED <<pix_swap, enabled>> /\ KeepTables

-----------------------------------------------------------------------------
(* Unscrambling.  A buffer is a function from positions to pixels. *)

Positions == 0 .. Size - 1
Hole == <<0, 0>>            \* memory nothing was written to
Undefined == << <<>> >>    \* the program divided by zero, called a routine that is missing
                           \* or wrote outside of its buffers

\* Pixels are written to their places in the order they come.
Scatter(source, place) ==
    [p \in Positions |->
        LET writers == {q \in Positions : place[q] = p}
        IN  IF writers = {} THEN Hole ELSE source[Max(writers)]]

\* With one amplifier neighbours may be swapped first, in GU_FLOAT() through an integer.
Swaps == pix_swap /\ namps = 1
FloatsCut == enabled /\ Swaps /\ dtype = "GU_FLOAT"

\* The pixels of the i-th amplifier of the stream.
Stream(i) ==
    [k \in Positions |->
        IF ~Swaps THEN <<i, k>>
        ELSE IF k % 2 = 0 THEN <<i, k + 1>>
        ELSE IF FloatsCut THEN <<i, k - 1, "cut">> ELSE <<i, k - 1>>]

\* Mutant of Place: the last column of an UL amplifier is written a pixel early.
PlaceShifted(type, k) ==
    LET lines == k \div NCols
        endline == (lines + 1) * NCols - 1 + lines * NCols
    IN  CASE type = "LL" -> k
          [] type = "UR" -> Size - k - 1
          [] type = "LR" -> endline - k
          [] type = "UL" -> Size - endline + k

\* Where GU_SHORT(), GU_LONG() and GU_FLOAT() put the k-th pixel of an amplifier.
Place(type, k) ==
    LET lines == k \div NCols
        endline == (lines + 1) * NCols - 1 + lines * NCols
    IN  CASE type = "LL" -> k
          [] type = "UR" -> Size - k - 1
          [] type = "LR" -> endline - k
          [] type = "UL" -> Size - endline + k - 1

\* (i32) of half of a number
HalfTruncated(n) == IF n >= 0 THEN n \div 2 ELSE -((-n) \div 2)

\* RI_SHORT(), RI_LONG() and RI_FLOAT(): the sine is 1 or -1 and the cosine 0; the
\* sides are halved once as numbers and once as integers.  The correction is by the
\* angle and not by its sine.
Rotated(rotate, p) ==
    LET x == p % NCols
        y == p \div NCols
        half(n) == 2 * (n \div 2)
        sine(n) == IF rotate \in {90, -270} THEN n ELSE -n
        i == sine(NRows - 2 * y) + half(NRows) - (IF rotate = 90 THEN 2 ELSE 0)
        j == sine(2 * x - NCols) + half(NCols) - (IF rotate = 90 THEN 0 ELSE 2)
    IN  HalfTruncated(j) * NRows + HalfTruncated(i)

\* The buffer of amplifier a once its pixels are placed and rotated.
Placed(a) ==
    LET sources == {i \in 1 .. namps : physmap[i] = a}
        placed == Scatter(Stream(Max(sources)), [k \in Positions |-> Place(amps[a].type, k)])
    IN  IF sources = {} THEN [p \in Positions |-> Hole]
        ELSE IF amps[a].rotate = 0 THEN placed
        ELSE Scatter(placed, [p \in Positions |-> Rotated(amps[a].rotate, p)])

\* Where a section begins, counted along a row or a column, and how long it is.
SectionLength(name, lengths) ==
    CASE name = "pre" -> lengths[1] [] name = "dat" -> lengths[2] [] name = "pos" -> lengths[3]

SectionStart(name, lengths, far) ==
    CASE name = "pre" -> IF far THEN lengths[3] + lengths[2] ELSE 0
      [] name = "dat" -> IF far THEN lengths[3] ELSE lengths[1]
      [] name = "pos" -> IF far THEN 0 ELSE lengths[1] + lengths[2]

\* The element a row (or column) arranged in order o has at place z.
Arranged(o, lengths, far, z) ==
    LET length(n) == SectionLength(o[n], lengths)
        n == IF z < length(1) THEN 1 ELSE IF z < length(1) + length(2) THEN 2 ELSE 3
        before == IF n = 1 THEN 0 ELSE IF n = 2 THEN length(1) ELSE length(1) + length(2)
    IN  SectionStart(o[n], lengths, far) + z - before

\* Mutant of SideOf: upper amplifiers are arranged as lower ones.
SideOfLower(type, near, nearside, farside) ==
    IF order[nearside] # None THEN nearside ELSE farside

\* The side whose order an amplifier gets: its own if it is near and that is
\* arranged, else the far one.
SideOf(type, near, nearside, farside) ==
    IF type \in near /\ order[nearside] # None THEN nearside ELSE farside

ColLengths == <<PreCols, DataCols, PostCols>>
RowLengths == <<PreRows, DataRows, PostRows>>

\* GU_rearrange_sections() for one amplifier: each row, then the rows.
Rearranged(a, buffer) ==
    LET xside == SideOf(amps[a].type, Left, "left", "right")
        yside == SideOf(amps[a].type, Lower, "lower", "upper")
        col(x) == IF order[xside] = None THEN x
                  ELSE Arranged(order[xside], ColLengths, xside = "right", x)
        row(y) == IF order[yside] = None THEN y
                  ELSE Arranged(order[yside], RowLengths, yside = "upper", y)
    IN  [p \in Positions |-> buffer[(row(p \div NCols) * NCols) + col(p % NCols)]]

\* The image is one buffer per amplifier, or one for the detector, on which the
\* amplifiers are side by side.
Compose(buffers) ==
    IF ~detext THEN [a \in 1 .. namps |-> buffers[a]]
    ELSE [a \in {1} |-> [p \in 0 .. namps * Size - 1 |->
            LET x == p % (namps * NCols)
            IN  buffers[(x \div NCols) + 1][(p \div (namps * NCols)) * NCols + (x % NCols)]]]

\* GU_NONE(): the raw stream is cut into as many pieces.
Raw == [a \in 1 .. IF detext THEN 1 ELSE namps |->
          [p \in 0 .. (IF detext THEN namps * Size ELSE Size) - 1 |->
             LET r == (a - 1) * Size + p IN <<(r % namps) + 1, r \div namps>>]]

UsedSides == {SideOf(amps[a].type, Left, "left", "right") : a \in 1 .. namps}
        \cup {SideOf(amps[a].type, Lower, "lower", "upper") : a \in 1 .. namps}

Mapped == {physmap[i] : i \in 1 .. namps}

\* A piece of the stream goes to an amplifier that is none, or a pixel is turned out of
\* its amplifier.
PutsOutside ==
    \/ ~(Mapped \subseteq 1 .. namps)
    \/ \E a \in Mapped \cap (1 .. namps), p \in Positions :
          amps[a].rotate # 0 /\ Rotated(amps[a].rotate, p) \notin Positions

\* What makes the outcome undefined: the pixels are divided by the number of detectors;
\* amplifiers nothing was put in have no data to be arranged or copied; the buffer of
\* the detector is not made again for larger pixels.
Fails ==
    \/ detext /\ ~detector
    \/ /\ enabled
       /\ \/ PutsOutside
          \/ (arranged \/ detext) /\ Mapped # 1 .. namps
          \/ arranged /\ \E s \in UsedSides : order[s] = Broken
          \/ detext /\ detbuf # 0 /\ detbuf < Bytes(dtype)

\* GU_call_unscrambling()
Unscramble ==
    /\ image = <<>> /\ namps > 0
    /\ image' =
          IF Fails THEN Undefined
          ELSE IF ~enabled THEN Raw
          ELSE Compose([a \in 1 .. namps |->
                           IF arranged THEN Rearranged(a, Placed(a)) ELSE Placed(a)])
    /\ UNCHANGED config

Next ==
    \/ AddDet \/ ClearAmps \/ Unscramble
    \/ \E d \in Definitions, ext \in 0 .. MaxAmps : AddAmp(d[1], d[2], d[3], ext)
    \/ \E map \in [1 .. MaxAmps -> 0 .. MaxAmps], n \in 0 .. MaxAmps, g \in 0 .. MaxAmps :
          SetPhysMap(map, n, g)
    \/ \E side \in Sides : SetOrderFails(side) \/ \E o \in Orders \cup {None} : SetOrder(side, o)
    \/ \E flag \in BOOLEAN : DetExt(flag) \/ PixSwap(flag) \/ Enable(flag)
    \/ \E routine \in Routines : Compute(routine)

Spec == Init /\ [][Next]_vars

-----------------------------------------------------------------------------
Unscrambled == image # <<>> /\ image # Undefined
StreamIsMapped == Mapped = 1 .. namps
AllPixels == (1 .. namps) \X Positions

\* Whatever the types, angles, flips, orders of sections and the order of the stream,
\* where the outcome is defined every pixel of the controller is in the image once: if
\* each amplifier gets a piece of the stream, and GU_FLOAT() does not swap pixels, half
\* of which it cuts.  For sides of even length; RI_SHORT() loses pixels of others.
EveryPixelOnce ==
    Unscrambled /\ StreamIsMapped /\ ~FloatsCut =>
        /\ {image[a][p] : a \in DOMAIN image, p \in DOMAIN image[1]} = AllPixels
        /\ \A a \in DOMAIN image : \A p, q \in DOMAIN image[a] :
              image[a][p] = image[a][q] => p = q

\* The angle a definition means: of whole turns, what is left, counted forwards.
Meant(rotate) == IF rotate % 90 = 0 THEN rotate % 360 ELSE 0

\* The k-th pixel read of an amplifier, seen from its corner, then turned and
\* mirrored as its definition says: column and row.
Seen(as, k) ==
    LET x == k % NCols
        y == k \div NCols
        mirrorx == Cardinality({as[1]} \cap Right) + Cardinality({Meant(as[2])} \cap {180})
                 + Cardinality({as[3]} \cap {"vertical"})
        mirrory == Cardinality({as[1]} \cap Upper) + Cardinality({Meant(as[2])} \cap {180})
                 + Cardinality({as[3]} \cap {"horizontal"})
    IN  <<IF mirrorx % 2 = 1 THEN NCols - 1 - x ELSE x,
          IF mirrory % 2 = 1 THEN NRows - 1 - y ELSE y>>

\* An unscrambled amplifier shows the sky: each pixel is where the corner it was read
\* from, the angle and the flip of its definition put it.
Oriented ==
    Unscrambled /\ enabled /\ ~arranged /\ ~detext /\ ~pix_swap /\ StreamIsMapped =>
        \A i \in 1 .. namps : \A k \in Positions :
            LET a == physmap[i]
                at == Seen(amps[a].as, k)
            IN  image[a][CASE Meant(amps[a].as[2]) \in {0, 180} -> at[2] * NCols + at[1]
                           [] Meant(amps[a].as[2]) = 90 -> at[1] * NRows + NRows - 1 - at[2]
                           [] OTHER -> (NCols - 1 - at[1]) * NRows + at[2]] = <<i, k>>

\* A section of a row (or column) is where it is read, the first from the near end or the
\* far one.
SectionAt(z, lengths, far) ==
    LET read == IF far THEN lengths[1] + lengths[2] + lengths[3] - 1 - z ELSE z
    IN  IF read < lengths[1] THEN "pre"
        ELSE IF read < lengths[1] + lengths[2] THEN "dat" ELSE "pos"

\* The elements that come before z in the order asked for: those of the sections before,
\* and of its own section those that were before it.
Ahead(o, lengths, far, z) ==
    {x \in 0 .. lengths[1] + lengths[2] + lengths[3] - 1 :
        \E m, n \in 1 .. 3 : /\ o[m] = SectionAt(x, lengths, far) /\ o[n] = SectionAt(z, lengths, far)
                             /\ m < n \/ (m = n /\ x < z)}

PlaceAsked(o, lengths, far, z) == IF o = None THEN z ELSE Cardinality(Ahead(o, lengths, far, z))

\* Every amplifier has its sections in the order last asked for of its side, and a
\* side nobody asked anything of is left as it is.
SectionsAsAsked ==
    Unscrambled /\ enabled /\ ~detext /\ StreamIsMapped =>
        \A a \in {b \in 1 .. namps : amps[b].rotate = 0} :
            LET type == amps[a].type
                xside == IF type \in Left THEN "left" ELSE "right"
                yside == IF type \in Lower THEN "lower" ELSE "upper"
                placed == Placed(a)
            IN  {order[xside], order[yside]} \cap {Broken} = {} =>
                    \A x \in 0 .. NCols - 1, y \in 0 .. NRows - 1 :
                        LET column == PlaceAsked(order[xside], ColLengths, xside = "right", x)
                            line == PlaceAsked(order[yside], RowLengths, yside = "upper", y)
                        IN  image[a][line * NCols + column] = placed[y * NCols + x]

\* The same when all four sides are asked for, none of them last as "none".
SectionsOfAllSides ==
    arranged /\ (\A s \in Sides : order[s] # None) => SectionsAsAsked
=============================================================================

----------------------------- MODULE FitsWriter -----------------------------
(***************************************************************************)
(* GFITS: an image is unscrambled and written piece by piece while the     *)
(* controller reads it out.  A piece is a number of whole rows of every    *)
(* amplifier, and the library counts in them what it has written.  A       *)
(* multiple file has an extension for each amplifier; a single one puts    *)
(* the image together in memory and may hold several, one behind the       *)
(* other.  A pixel is named by its image, its amplifier, and its column    *)
(* and row in the order of the readout.                                    *)
(*                                                                         *)
(* Nothing stops a caller from more rows or more images than were asked    *)
(* for, and a write may fail: what then holds no more is told by misused,  *)
(* failed and course.                                                      *)
(***************************************************************************)
EXTENDS Integers, Sequences, FiniteSetsExt

CONSTANTS
    NCols, NRows,   \* size of an amplifier
    MaxAmps,        \* elements of Extension[]
    Layouts,        \* the configurations of amplifiers the unscrambler may have
    Maps,           \* orders of the extensions that are asked for
    Regions,        \* regions of interest that are asked for
    Beyond,         \* what is found past the end of such an order
    Depths,         \* images asked for in a file
    Pieces,         \* rows that are written at once; more than an image are cut to it
    MaxImages       \* bound: images; the writes of a file fail in one call at most

Lower == {"LL", "LR"}
Left == {"LL", "UL"}
Amplifiers == [type : {"LL", "LR", "UL", "UR"}, rotate : {0, 90, 270},
               x : Nat \ {0}, y : Nat \ {0}, discard : BOOLEAN]
NoRegion == <<>>
Identity == [i \in 1 .. MaxAmps |-> i - 1]

ASSUME WriterAssumption ==
    /\ NCols \in Nat \ {0} /\ NRows \in Nat \ {0}
    /\ MaxAmps \in Nat
    /\ \A layout \in Layouts : layout \in Seq(Amplifiers) /\ Len(layout) \in 1 .. MaxAmps
                              /\ \E i \in DOMAIN layout : ~layout[i].discard
    /\ \A map \in Maps : map \in Seq(Nat) /\ Len(map) <= MaxAmps
    /\ Beyond \subseteq Nat
    /\ Regions \subseteq [x : Nat \ {0}, y : Nat \ {0}, cols : Nat \ {0}, rows : Nat \ {0}]
    /\ Depths \subseteq Nat \ {0} /\ Pieces \subseteq 1 .. NRows
    /\ MaxImages \in Nat

VARIABLES
    amp,        \* the amplifiers of the unscrambler, <<>> before GF_init()
    Extension,  \* the extension of each amplifier
    nzim,       \* images in a file
    roi, is_roi,
    mext,       \* a multiple file
    start,      \* fitsamp[i].xstart, ystart: where the next piece goes
    box,        \* minimx, minimy, totcols and totrows of the image in memory
    totEleRead, \* rows written of the image
    nzcnt,      \* images written to the file
    tmpptr,     \* memory: the image, or each amplifier that is rotated
    size,       \* columns, rows and images of each HDU
    file,       \* the pixels of each HDU, <<>> when no file is open
    image,      \* the image that is being read out
    misused,    \* what the library does not support and the caller asked for
    outside,    \* something was put outside of its memory or its HDU
    failed,     \* the HDUs, and images in them, that a write has failed for
    course      \* "on": counters and cursors are in step with the image; "stopped": not
                \* before the next file; "lost": memory is overwritten, not before GF_init()

geometry == <<amp, Extension, nzim, roi>>
vars == <<geometry, is_roi, mext, start, box, totEleRead, nzcnt, tmpptr, size, file,
          image, misused, outside, failed, course>>

namps == Len(amp)
Kept == {i \in 1 .. namps : ~amp[i].discard}

\* amptype IZTODER: a rotated amplifier that grows from the right to the left
IzToDer(a) ==
    \/ a.rotate = 90 /\ a.type \in Lower
    \/ a.rotate = 270 /\ a.type \notin Lower

Init ==
    /\ amp = <<>> /\ Extension = Identity /\ nzim = 1 /\ roi = NoRegion /\ is_roi = FALSE
    /\ mext = FALSE /\ start = <<>> /\ box = [x |-> 1, y |-> 1, cols |-> 0, rows |-> 0]
    /\ totEleRead = 0 /\ nzcnt = 0 /\ tmpptr = <<>>
    /\ size = <<>> /\ file = <<>> /\ image = 1 /\ misused = {} /\ outside = FALSE
    /\ failed = {} /\ course = "on"

-----------------------------------------------------------------------------
(* Where things go.  Places are <<column, row>>, counted from one. *)

\* Mutant of Corner: rotated amplifiers all grow from the left.
CornerLeft(a, at, mult) ==
    LET x == IF mult THEN 1 ELSE at[1]
        y == IF mult THEN 1 ELSE at[2]
    IN  <<x, y + IF ~mult /\ ~a.discard /\ a.type \notin Lower /\ a.rotate = 0
                 THEN NRows ELSE 0>>

\* Where GF_fits_set_values() starts an amplifier whose place is given: an upper one is
\* filled from its last row, a rotated one from its left or from its right.
Corner(a, at, mult) ==
    LET x == IF mult THEN 1 ELSE at[1]
        y == IF mult THEN 1 ELSE at[2]
    IN  <<x + (IF IzToDer(a) THEN NRows ELSE 0),
          y + (IF ~mult /\ ~a.discard /\ a.type \notin Lower /\ a.rotate = 0
               THEN NRows ELSE 0)>>

\* The smallest box around the amplifiers that are kept; rotated ones are not swapped.
BoxAround(amps, at) ==
    LET kept == {i \in DOMAIN amps : ~amps[i].discard}
        xs == {at[i][1] + (IF IzToDer(amps[i]) THEN NRows ELSE 0) : i \in kept}
        ys == {at[i][2] : i \in kept}
    IN  [x |-> Min(xs), y |-> Min(ys),
         cols |-> Max(xs) + NCols - Min(xs), rows |-> Max(ys) + NRows - Min(ys)]

\* The place of the next piece of r rows, and where the one after it goes.
Advanced(a, at, r) ==
    IF a.rotate = 0
    THEN IF a.type \in Lower THEN <<at[1], at[2] + r>> ELSE <<at[1], at[2] - r>>
    ELSE IF IzToDer(a) THEN <<at[1] - r, at[2]>> ELSE <<at[1] + r, at[2]>>

\* Mutant of PieceAt: the piece of an upper amplifier is put down before it moves.
PieceBefore(a, at, r) == at

PieceAt(a, at, r) ==
    IF (a.rotate = 0 /\ a.type \notin Lower) \/ IzToDer(a) THEN Advanced(a, at, r) ELSE at

\* The places of a piece of r rows that is put down at a place.
Area(a, at, r) ==
    IF a.rotate = 0
    THEN (at[1] .. at[1] + NCols - 1) \X (at[2] .. at[2] + r - 1)
    ELSE (at[1] .. at[1] + r - 1) \X (at[2] .. at[2] + NCols - 1)

\* The pixel <<column, row>> of an unscrambled piece at <<x, y>> of it, from zero.
Unscrambled(a, r, x, y) ==
    LET X == CASE a.rotate = 0 -> x [] a.rotate = 90 -> y [] OTHER -> NCols - 1 - y
        Y == CASE a.rotate = 0 -> y [] a.rotate = 90 -> r - 1 - x [] OTHER -> x
    IN  << IF a.type \in Left THEN X ELSE NCols - 1 - X,
           IF a.type \in Lower THEN Y ELSE r - 1 - Y >>

\* What the i-th amplifier puts at place p with a piece of r rows at a place.
PixelOf(i, at, r, p) ==
    LET pixel == Unscrambled(amp[i], r, p[1] - at[1], p[2] - at[2])
    IN  [image |-> image, amp |-> i, col |-> pixel[1], row |-> totEleRead + pixel[2]]

\* What is left of mem when several amplifiers write to it, one after the other.
Overlaid(writes, mem) ==
    [p \in DOMAIN mem \cup UNION {DOMAIN writes[i] : i \in DOMAIN writes} |->
        LET by == {i \in DOMAIN writes : p \in DOMAIN writes[i]}
        IN  IF by = {} THEN mem[p] ELSE writes[Max(by)][p]]

Piece(i, at, r) == [p \in Area(amp[i], at, r) |-> PixelOf(i, at, r, p)]

-----------------------------------------------------------------------------
(* Setting up. *)

\* The buffers are allocated anew, and cleared, when their size may have changed.
SetValues(amps, at, mult, mem, fresh) ==
    LET around == IF mult THEN box ELSE BoxAround(amps, at)
    IN  /\ mext' = mult
        /\ start' = [i \in DOMAIN amps |-> Corner(amps[i], at[i], mult)]
        /\ box' = around
        /\ totEleRead' = 0
        /\ tmpptr' = IF fresh \/ mult # mext \/ around # box
                     THEN [i \in DOMAIN amps |-> <<>>] ELSE mem

PlacesOf(amps) == [i \in DOMAIN amps |-> <<amps[i].x, amps[i].y>>]

\* GF_check_roi(): a region whose buffer has become too small is set again, which forgets
\* it for a multiple file.
CheckRoi(mult, wider) ==
    roi' = IF wider /\ is_roi /\ mult THEN NoRegion ELSE roi

\* The library is set up between files.  While one is open its counters and cursors would
\* not be what it was created with any more; that is left at once, so its beginning will do.
SetUp ==
    /\ IF file = <<>> THEN course # "lost" ELSE course = "on" /\ totEleRead = 0 /\ nzcnt = 0
    /\ misused' = IF file = <<>> THEN misused ELSE misused \cup {"set up while open"}

GFInit(layout, mult, wider) ==
    /\ SetUp \/ (course = "lost" /\ file = <<>> /\ misused' = misused)
    /\ amp' = layout
    /\ SetValues(layout, PlacesOf(layout), mult, <<>>, TRUE)
    /\ CheckRoi(mult, wider) /\ is_roi' = (is_roi /\ roi' # NoRegion)
    /\ course' = IF file = <<>> THEN "on" ELSE "stopped"
    /\ UNCHANGED <<Extension, nzim, nzcnt, size, file, image, outside, failed>>

OffCourse == course' = IF file = <<>> THEN course ELSE "stopped"

\* The extensions after the last that is given stay where they are, but for the first of
\* them: it is read from past the end of the array.
SetExtensions(map, past) ==
    /\ SetUp /\ OffCourse
    /\ Extension' = [i \in 1 .. MaxAmps |->
          IF i > namps THEN Extension[i]
          ELSE IF i <= Len(map) THEN map[i]
          ELSE IF i = Len(map) + 1 THEN past ELSE i - 1]
    /\ UNCHANGED <<amp, nzim, roi, is_roi, mext, start, box, totEleRead, nzcnt, tmpptr, size,
                   file, image, outside, failed>>

InitExtensions ==
    /\ SetUp /\ OffCourse
    /\ Extension' = Identity
    /\ UNCHANGED <<amp, nzim, roi, is_roi, mext, start, box, totEleRead, nzcnt, tmpptr, size,
                   file, image, outside, failed>>

SetZAxis(n) ==
    /\ SetUp /\ OffCourse
    /\ nzim' = n
    /\ UNCHANGED <<amp, Extension, roi, is_roi, mext, start, box, totEleRead, nzcnt, tmpptr,
                   size, file, image, outside, failed>>

\* A region with a zero in it is none.
SetRoi(region) ==
    /\ SetUp /\ OffCourse
    /\ roi' = IF mext THEN NoRegion ELSE region
    /\ is_roi' = (roi' # NoRegion)
    /\ UNCHANGED <<amp, Extension, nzim, mext, start, box, totEleRead, nzcnt, tmpptr, size,
                   file, image, outside, failed>>

-----------------------------------------------------------------------------
(* Files. *)

\* What a file is not written correctly with.
Misuses(mult) ==
    {u \in {"rotated image", "extensions of some", "region half outside", "region of many"} :
        CASE u = "rotated image" -> ~mult /\ \E i \in Kept : amp[i].rotate # 0
          [] u = "extensions of some" ->
                mult /\ \/ {Extension[i] : i \in 1 .. namps} # 0 .. namps - 1
                        \/ /\ \E i \in 1 .. namps : Extension[i] # i - 1
                           /\ \E i, j \in 1 .. namps :
                                amp[i].discard \/ (amp[i].rotate = 0) # (amp[j].rotate = 0)
          [] u = "region half outside" ->
                ~mult /\ is_roi
                /\ (roi.x + roi.cols - 1 <= box'.cols) # (roi.y + roi.rows - 1 <= box'.rows)
          [] u = "region of many" -> ~mult /\ is_roi' /\ nzim > 1}

\* Mutant of HduOf: those that are discarded are counted.
HduOfAll(i) == Extension[i] + 2

\* The HDU of an amplifier: those before it that are discarded have none.
HduOf(i) == Extension[i] + 2 - Cardinality(1 .. i - 1 \ Kept)

\* The columns and the rows of a single file.  That the columns fit the region is forgotten.
ImageSize(around) ==
    LET columns == roi.x + roi.cols - 1 <= around.cols
        lines == roi.y + roi.rows - 1 <= around.rows
    IN  <<IF is_roi /\ columns THEN roi.cols ELSE around.cols,
          IF is_roi /\ lines THEN roi.rows ELSE around.rows, nzim>>

CreateImg(mult, wider) ==
    /\ amp # <<>> /\ file = <<>> /\ course # "lost"
    /\ SetValues(amp, PlacesOf(amp), mult, tmpptr, wider)
    /\ nzcnt' = 0
    /\ CheckRoi(mult, wider)
    /\ is_roi' = IF mult THEN is_roi /\ roi' # NoRegion
                 ELSE is_roi /\ roi.y + roi.rows - 1 <= box'.rows
    /\ size' = IF mult
               THEN <<<<0, 0, 0>>>> \o
                    [k \in 1 .. Cardinality(Kept) |->
                        LET a == amp[CHOOSE i \in Kept : Cardinality(1 .. i \cap Kept) = k]
                        IN  IF a.rotate = 0 THEN <<NCols, NRows, 1>> ELSE <<NRows, NCols, 1>>]
               ELSE <<ImageSize(box')>>
    /\ file' = [h \in DOMAIN size' |-> <<>>]
    /\ misused' = Misuses(mult) /\ failed' = {} /\ course' = "on"
    /\ UNCHANGED <<amp, Extension, nzim, image, outside>>

\* Mutant of Completes: the last row is not waited for.
CompletesEarly(r) == totEleRead + r >= NRows - 1

\* The image in memory goes to the file at the last row of it, no sooner and no later; a
\* rotated amplifier of a multiple file goes whenever that is past.
Completes(r) == IF mext THEN totEleRead + r >= NRows ELSE totEleRead + r = NRows

\* A call is cut to the pixels of an image; the calls for an image are not.
Fits(r) == totEleRead + r <= NRows

ExtensionSpot(i, r) ==
    IF amp[i].type \in Lower THEN <<1, totEleRead + 1>> ELSE <<1, NRows - totEleRead - r + 1>>

\* The pixels of an image in memory, in the z-th image of an HDU.
InPlane(mem, z) == [p \in {<<q[1], q[2], z>> : q \in DOMAIN mem} |-> mem[<<p[1], p[2]>>]]

Inside(places, cols, rows) == \A p \in places : p[1] \in 1 .. cols /\ p[2] \in 1 .. rows

InsideHdu(places, h) ==
    /\ h \in DOMAIN size
    /\ Inside(places, size[h][1], size[h][2]) /\ \A p \in places : p[3] \in 1 .. size[h][3]

Rotated == {i \in Kept : amp[i].rotate # 0}

\* The amplifiers that have something to send to their HDU with a piece.
Due(r) == {i \in Kept : i \notin Rotated \/ Completes(r)}

\* From the first write that fails on, cfitsio does nothing for the rest of the call.  A
\* lower amplifier that meets with this ends it; an upper or a rotated one looks at nothing.
Ends(bad) == {i \in Kept \ Rotated : amp[i].type \in Lower /\ i >= bad}
Reached(bad) == {i \in Kept : \A j \in Ends(bad) : i <= j}

\* GF_writeImage_Multiple(): a rotated amplifier is put together in memory and goes to
\* its HDU with the last piece.  The write of amplifier bad fails, of none if there is no
\* such amplifier.
WriteMultiple(r, bad) ==
    /\ file # <<>> /\ mext /\ image <= MaxImages /\ course = "on"
    /\ (bad \in Due(r) /\ failed = {}) \/ bad = MaxAmps + 1
    /\ totEleRead' = totEleRead + r
    /\ tmpptr' = [i \in 1 .. namps |->
          IF i \in Rotated \cap Reached(bad)
          THEN Overlaid([j \in {i} |-> Piece(j, PieceAt(amp[j], start[j], r), r)], tmpptr[i])
          ELSE tmpptr[i]]
    /\ start' = [i \in 1 .. namps |->
          IF i \in Rotated \cap Reached(bad) THEN Advanced(amp[i], start[i], r) ELSE start[i]]
    /\ LET writes == [i \in Kept |->
              IF i \notin Due(r) \/ i >= bad THEN <<>>
              ELSE IF i \in Rotated THEN tmpptr'[i] ELSE Piece(i, ExtensionSpot(i, r), r)]
       IN  /\ file' = [h \in DOMAIN file |->
                 Overlaid([i \in {j \in Kept : HduOf(j) = h} |-> InPlane(writes[i], 1)], file[h])]
           /\ outside' = (outside \/ \E i \in Kept :
                 \/ ~InsideHdu(DOMAIN InPlane(writes[i], 1), HduOf(i))
                 \/ i \in Rotated \cap Reached(bad)
                    /\ ~Inside(Area(amp[i], PieceAt(amp[i], start[i], r), r), NRows, NCols))
    /\ failed' = failed \cup {<<HduOf(i), 1>> : i \in {j \in Due(r) : j >= bad}}
    /\ misused' = IF Fits(r) THEN misused ELSE misused \cup {"too many rows"}
    /\ course' = IF ~Fits(r) THEN "lost" ELSE IF Ends(bad) # {} THEN "stopped" ELSE "on"
    /\ UNCHANGED <<geometry, is_roi, mext, box, nzcnt, size, image>>

\* The image in memory, or the region of it.
Cut(mem) ==
    [p \in {q \in (1 .. roi.cols) \X (1 .. roi.rows) :
              <<q[1] + roi.x - 1, q[2] + roi.y - 1>> \in DOMAIN mem} |->
        mem[<<p[1] + roi.x - 1, p[2] + roi.y - 1>>]]

\* GF_writeImage_Single(), with the amplifiers of the unscrambler or, from
\* GF_writeImage_from_buf(), with those of the library itself: the next image of the
\* file is set up from them.  An image counts although its write fails.
WriteSingle(r, from_buf, fails) ==
    /\ file # <<>> /\ ~mext /\ image <= MaxImages /\ course = "on"
    /\ fails => Completes(r) /\ failed = {}
    /\ LET spot == [i \in Kept |->
               LET at == PieceAt(amp[i], start[i], r)
               IN  <<at[1] - box.x + 1, at[2] - box.y + 1>>]
           memory == Overlaid([i \in Kept |-> Piece(i, spot[i], r)], tmpptr[1])
           next == [i \in 1 .. namps |->
               IF i \in Kept THEN Advanced(amp[i], start[i], r) ELSE start[i]]
           written == IF is_roi THEN InPlane(Cut(memory), 1) ELSE InPlane(memory, nzcnt + 1)
       IN  /\ outside' = (outside
                 \/ \E i \in Kept : ~Inside(Area(amp[i], spot[i], r), box.cols, box.rows)
                 \/ (Completes(r) /\ ~fails /\ ~InsideHdu(DOMAIN written, 1)))
           /\ IF Completes(r)
              THEN /\ file' = IF fails THEN file
                              ELSE <<Overlaid([i \in {1} |-> written], file[1])>>
                   /\ nzcnt' = nzcnt + 1 /\ image' = image + 1
                   /\ SetValues(amp, IF from_buf THEN next ELSE PlacesOf(amp), mext,
                              [tmpptr EXCEPT ![1] = memory], FALSE)
              ELSE /\ totEleRead' = totEleRead + r
                   /\ tmpptr' = [tmpptr EXCEPT ![1] = memory]
                   /\ start' = next
                   /\ UNCHANGED <<mext, box, nzcnt, file, image>>
    /\ failed' = IF fails THEN failed \cup {<<1, nzcnt + 1>>} ELSE failed
    /\ misused' = misused \cup
          {u \in {"too many rows", "too many images", "many from a buffer"} :
              CASE u = "too many rows" -> ~Fits(r)
                [] u = "too many images" -> nzcnt >= nzim
                [] OTHER -> from_buf /\ Completes(r) /\ nzim > 1 /\
                            \E i, j \in Kept : amp[i].type \in Lower /\ amp[j].type \notin Lower}
    /\ course' = IF Fits(r) THEN "on" ELSE "lost"
    /\ UNCHANGED <<geometry, is_roi, size>>

\* GF_fits_close_file(): at the end of an image or, when it is aborted, before.
CloseFile ==
    /\ file # <<>>
    /\ file' = <<>> /\ size' = <<>> /\ misused' = {} /\ outside' = FALSE /\ failed' = {}
    /\ image' = IF totEleRead > 0 THEN image + 1 ELSE image
    /\ UNCHANGED <<geometry, is_roi, mext, start, box, totEleRead, nzcnt, tmpptr, course>>

-----------------------------------------------------------------------------
Next ==
    \/ \E mult, wider \in BOOLEAN :
          \/ \E layout \in Layouts : GFInit(layout, mult, wider)
          \/ CreateImg(mult, wider)
    \/ \E map \in Maps, past \in Beyond : SetExtensions(map, past)
    \/ InitExtensions
    \/ \E n \in Depths : SetZAxis(n)
    \/ \E region \in Regions \cup {NoRegion} : SetRoi(region)
    \/ \E r \in Pieces :
          \/ \E bad \in 1 .. MaxAmps + 1 : WriteMultiple(r, bad)
          \/ \E from_buf, fails \in BOOLEAN : WriteSingle(r, from_buf, fails)
    \/ CloseFile

Spec == Init /\ [][Next]_vars

-----------------------------------------------------------------------------
(* Where a pixel belongs: as if the amplifier had come in one piece. *)

Seat(a, col, row) ==
    LET x == IF a.type \in Left THEN col ELSE NCols - 1 - col
        y == IF a.type \in Lower THEN row ELSE NRows - 1 - row
    IN  CASE a.rotate = 0 -> <<x, y>>
          [] a.rotate = 90 -> <<NRows - 1 - y, x>>
          [] OTHER -> <<y, NCols - 1 - x>>

\* HDU and place of a pixel of the n-th image of the file; in a single file the amplifiers
\* lie as they do on the detector, from the first that is kept.
Belongs(i, col, row, n) ==
    LET seat == Seat(amp[i], col, row)
        left == IF is_roi THEN roi.x - 1 ELSE 0
        below == IF is_roi THEN roi.y - 1 ELSE 0
    IN  IF mext
        THEN << IF Kept = 1 .. namps THEN Extension[i] + 2 ELSE Cardinality(1 .. i \cap Kept) + 1,
                <<seat[1] + 1, seat[2] + 1, n>> >>
        ELSE << 1, <<seat[1] + amp[i].x - Min({amp[j].x : j \in Kept}) + 1 - left,
                     seat[2] + amp[i].y - Min({amp[j].y : j \in Kept}) + 1 - below, n>> >>

\* Images of the file that count as written: in zcnt, or by a progress of all of it.
Finished == IF ~mext THEN nzcnt ELSE IF totEleRead = NRows /\ course = "on" THEN 1 ELSE 0
First == IF mext THEN image ELSE image - nzcnt

TypeOK ==
    /\ amp \in Layouts \cup {<<>>} /\ Extension \in [1 .. MaxAmps -> Nat]
    /\ nzim \in Depths \cup {1} /\ roi \in Regions \cup {NoRegion} /\ is_roi \in BOOLEAN
    /\ mext \in BOOLEAN /\ start \in Seq(Int \X Int) /\ Len(start) = namps
    /\ totEleRead \in Nat /\ nzcnt \in Nat
    /\ image \in 1 .. MaxImages + 1 /\ outside \in BOOLEAN /\ course \in {"on", "stopped", "lost"}
    /\ course = "on" => totEleRead <= NRows /\ start \in Seq((Nat \ {0}) \X (Nat \ {0}))
    /\ file # <<>> => DOMAIN file = DOMAIN size /\ (misused = {} => nzcnt <= nzim)

\* However an image is cut into pieces, and whatever was aborted or failed before it, every
\* pixel in the file is of the image and of the place it belongs to: the amplifiers are put
\* down by GF_writeImage_Single() and GF_writeImage_Multiple() from the first row or the last.
PixelsInPlace ==
    misused = {} =>
        \A h \in DOMAIN file : \A p \in DOMAIN file[h] :
            LET pixel == file[h][p]
            IN  /\ pixel.image = First + p[3] - 1
                /\ Belongs(pixel.amp, pixel.col, pixel.row, p[3]) = <<h, p>>

\* An image the library counts as written, in zcnt or by its progress, is in the file with
\* every pixel of every amplifier that is kept and, of a region, with all of the region; but
\* for the HDU, or the image in it, that a write has failed for: GF_writeImage_Single()
\* counts it all the same, GF_writeImage_Multiple() may even hide the failure, and neither
\* spoils another HDU or a later image.
ImagesWhole ==
    file # <<>> /\ misused = {} =>
        \A n \in 1 .. Finished, i \in Kept, col \in 0 .. NCols - 1, row \in 0 .. NRows - 1 :
            LET place == Belongs(i, col, row, n)
            IN  \/ <<place[1], n>> \in failed
                \/ place[2] \in DOMAIN file[place[1]]
                \/ (~mext /\ is_roi /\ ~Inside({place[2]}, roi.cols, roi.rows))

\* While a caller keeps to the rows and to the images it has asked for, nothing is put outside
\* of the image in memory, of the image in its HDU or of the images the HDU has: the cursors
\* that GF_add_subimage() and fits_write_img() are given, image after image and whether or
\* not the writes before have failed.
NothingOutside == misused = {} => ~outside
=============================================================================

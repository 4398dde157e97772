----------------------------- MODULE FitsProofs -----------------------------
(***************************************************************************)
(* Proofs about the FITS writer: the counts and cursors it keeps stay in   *)
(* their ranges, nothing is put outside of the image in memory or of its   *)
(* HDU, every pixel is where it belongs, and an image that counts as       *)
(* written is whole.                                                       *)
(***************************************************************************)
EXTENDS FitsWriter, FiniteSetTheorems, WellFoundedInduction, TLAPS

LEMMA Sizes == NCols \in Nat \ {0} /\ NRows \in Nat \ {0} /\ MaxAmps \in Nat /\ MaxImages \in Nat
BY WriterAssumption

-----------------------------------------------------------------------------
(* The least and the greatest of a set. *)

LEMMA LeastOf ==
    ASSUME NEW S \in SUBSET Nat, S # {}
    PROVE  \E m \in S : \A x \in S : m <= x
<1> DEFINE R == OpToRel(<, Nat)
<1>1. R = {ss \in Nat \X Nat : ss[1] < ss[2]}
    BY DEF OpToRel
<1>2. IsWellFoundedOn(R, Nat)
    BY NatLessThanWellFounded
<1> HIDE DEF R
<1>3. PICK m \in S : \A x \in S : ~(<<x, m>> \in R)
    BY <1>2, WFMin
<1>4. ASSUME NEW x \in S PROVE m <= x
    <2>1. ~(x < m)
        BY <1>1, <1>3
    <2>2. x \in Nat /\ m \in Nat
        OBVIOUS
    <2> QED
        BY <2>1, <2>2
<1> QED
    BY <1>4

LEMMA MinOf ==
    ASSUME NEW S \in SUBSET Nat, S # {}
    PROVE  Min(S) \in S /\ \A x \in S : Min(S) <= x
BY LeastOf DEF Min

LEMMA MaxOf ==
    ASSUME NEW S \in SUBSET Nat, S # {}, NEW b \in Nat, \A x \in S : x <= b
    PROVE  Max(S) \in S /\ \A x \in S : x <= Max(S)
<1> DEFINE T == {b - x : x \in S}
<1>1. ASSUME NEW x \in S PROVE b - x \in Nat /\ x \in Nat
    BY SMT
<1>2. T \in SUBSET Nat /\ T # {}
    BY <1>1
<1>3. PICK t \in T : \A y \in T : t <= y
    <2> HIDE DEF T
    <2> QED
        BY <1>2, LeastOf
<1>4. PICK m \in S : t = b - m
    OBVIOUS
<1>5. ASSUME NEW x \in S PROVE x <= m
    <2>1. b - m <= b - x
        BY <1>3, <1>4
    <2> QED
        BY <1>1, <2>1
<1> QED
    BY <1>5 DEF Max

\* The values of a function on 1 .. n have a bound: the least k up to which they had
\* none could not be.
LEMMA Bounded ==
    ASSUME NEW n \in Nat, NEW f \in [1 .. n -> Nat]
    PROVE  \E b \in Nat : \A i \in 1 .. n : f[i] <= b
<1> DEFINE Upto(k, b) == \A i \in 1 .. n : i <= k => f[i] <= b
           T == {k \in Nat : ~\E b \in Nat : Upto(k, b)}
<1>1. \A k \in Nat : k \in T <=> ~\E b \in Nat : Upto(k, b)
    OBVIOUS
<1>2. \A i \in 1 .. n : f[i] \in Nat
    OBVIOUS
<1>3. T \in SUBSET Nat
    OBVIOUS
<1>4. Upto(0, 0)
    OBVIOUS
<1>5. ASSUME NEW k \in Nat, NEW b \in Nat, Upto(k, b) PROVE \E c \in Nat : Upto(k + 1, c)
    <2>1. CASE k + 1 \in 1 .. n
        <3>1. f[k + 1] \in Nat /\ b + f[k + 1] \in Nat
            BY <1>2, <2>1
        <3>2. ASSUME NEW i \in 1 .. n, i <= k + 1 PROVE f[i] <= b + f[k + 1]
            <4>1. CASE i = k + 1
                BY <3>1, <4>1
            <4>2. CASE i <= k
                <5>1. f[i] <= b /\ f[i] \in Nat
                    BY <1>2, <1>5, <4>2
                <5> QED
                    BY <3>1, <5>1
            <4> QED
                BY <3>2, <4>1, <4>2
        <3> QED
            BY <3>1, <3>2
    <2>2. CASE ~(k + 1 \in 1 .. n)
        <3>1. \A i \in 1 .. n : i <= k + 1 => i <= k
            BY <2>2
        <3> QED
            BY <1>5, <3>1
    <2> QED
        BY <2>1, <2>2
<1>6. T = {}
    <2> HIDE DEF Upto, T
    <2> SUFFICES ASSUME T # {} PROVE FALSE
        OBVIOUS
    <2>1. PICK k \in T : \A y \in T : k <= y
        BY <1>3, LeastOf
    <2>2. k \in Nat /\ k # 0
        BY <1>1, <1>3, <1>4
    <2>3. k - 1 \in Nat /\ ~(k <= k - 1)
        BY <2>2
    <2>4. PICK b \in Nat : Upto(k - 1, b)
        BY <1>1, <2>1, <2>3
    <2>5. \E c \in Nat : Upto((k - 1) + 1, c)
        BY <1>5, <2>3, <2>4
    <2>6. (k - 1) + 1 = k
        BY <2>2
    <2> QED
        BY <1>1, <2>2, <2>5, <2>6
<1>7. \E b \in Nat : Upto(n, b)
    BY <1>1, <1>6
<1> QED
    BY <1>7

-----------------------------------------------------------------------------
(* Types. *)

Spots == (Nat \ {0}) \X (Nat \ {0})

LEMMA LayoutTypes ==
    ASSUME NEW layout \in Layouts
    PROVE  /\ Len(layout) \in 1 .. MaxAmps /\ DOMAIN layout = 1 .. Len(layout)
           /\ \A i \in 1 .. Len(layout) : layout[i] \in Amplifiers
           /\ \E i \in 1 .. Len(layout) : ~layout[i].discard
           /\ layout # <<>>
<1>1. layout \in Seq(Amplifiers) /\ Len(layout) \in 1 .. MaxAmps /\ \E i \in DOMAIN layout : ~layout[i].discard
    BY WriterAssumption
<1>2. DOMAIN layout = 1 .. Len(layout) /\ Len(layout) # 0
    BY <1>1
<1> QED
    BY <1>1, <1>2

LEMMA AmpTypes ==
    ASSUME TypeOK
    PROVE  /\ namps \in Nat /\ DOMAIN amp = 1 .. namps /\ Kept \subseteq 1 .. namps
           /\ \A i \in 1 .. namps : amp[i] \in Amplifiers
           /\ amp # <<>> => namps \in 1 .. MaxAmps /\ Kept # {}
           /\ amp = <<>> => namps = 0
<1>1. CASE amp = <<>>
    BY <1>1 DEF Kept, namps
<1>2. CASE amp # <<>>
    <2>1. amp \in Layouts
        BY <1>2 DEF TypeOK
    <2>2. Len(amp) \in 1 .. MaxAmps /\ \E i \in 1 .. Len(amp) : ~amp[i].discard
        BY <2>1, LayoutTypes
    <2>3. Kept # {} /\ Kept \subseteq 1 .. namps
        BY <2>2 DEF Kept, namps
    <2>4. namps \in Nat /\ namps \in 1 .. MaxAmps
        BY <2>2, Sizes DEF namps
    <2> QED
        BY <1>2, <2>1, <2>3, <2>4, LayoutTypes DEF namps
<1> QED
    BY <1>1, <1>2

LEMMA SeqOf ==
    ASSUME NEW n \in Nat, NEW S, NEW f \in [1 .. n -> S]
    PROVE  f \in Seq(S) /\ Len(f) = n
OBVIOUS

\* Where an amplifier that is filled backwards is put down next, there is still room for
\* the rest of it.
Room(a, at) ==
    /\ a.rotate = 0 /\ a.type \notin Lower /\ ~mext => at[2] >= 1 + NRows - totEleRead
    /\ IzToDer(a) => at[1] >= 1 + NRows - totEleRead

Cursors == course = "on" => \A i \in Kept : Room(amp[i], start[i])

\* What the types rest on.
Kinds ==
    /\ is_roi => roi \in Regions
    /\ DOMAIN tmpptr = 1 .. namps
    /\ file # <<>> => /\ amp # <<>>
                      /\ totEleRead > 0 => image <= MaxImages
                      /\ ~mext /\ course = "on" => DOMAIN size = {1}

Typed == TypeOK /\ Cursors /\ Kinds

LEMMA CornerType ==
    ASSUME NEW a \in Amplifiers, NEW at \in Spots, NEW mult \in BOOLEAN
    PROVE  /\ Corner(a, at, mult) \in Spots
           /\ ~a.discard /\ a.rotate = 0 /\ a.type \notin Lower /\ ~mult => Corner(a, at, mult)[2] >= 1 + NRows
           /\ ~a.discard /\ IzToDer(a) => Corner(a, at, mult)[1] >= 1 + NRows
<1>1. at[1] \in Nat \ {0} /\ at[2] \in Nat \ {0} /\ NRows \in Nat \ {0}
    BY Sizes DEF Spots
<1> QED
    BY <1>1 DEF Corner, Spots

LEMMA AdvancedType ==
    ASSUME NEW a \in Amplifiers, NEW at \in Spots, NEW r \in Nat \ {0}, Fits(r), Room(a, at), TypeOK,
           a.rotate = 0 => ~mext
    PROVE  /\ Advanced(a, at, r) \in Spots
           /\ a.rotate = 0 /\ a.type \notin Lower => Advanced(a, at, r)[2] >= 1 + NRows - (totEleRead + r)
           /\ IzToDer(a) => Advanced(a, at, r)[1] >= 1 + NRows - (totEleRead + r)
<1>1. at[1] \in Nat \ {0} /\ at[2] \in Nat \ {0} /\ NRows \in Nat \ {0} /\ totEleRead \in Nat
    BY Sizes DEF Spots, TypeOK
<1>2. totEleRead + r <= NRows
    BY <1>1 DEF Fits
<1>3. IzToDer(a) => a.rotate # 0
    BY DEF IzToDer
<1> QED
    BY <1>1, <1>2, <1>3 DEF Advanced, Spots, Room

\* A cursor that has left the image.
LEMMA AdvancedInt ==
    ASSUME NEW a, NEW at \in Int \X Int, NEW r \in Nat
    PROVE  Advanced(a, at, r) \in Int \X Int
BY DEF Advanced

LEMMA SpotsAreInts ==
    ASSUME NEW n \in Nat, NEW s \in Seq(Spots), Len(s) = n
    PROVE  s \in Seq(Int \X Int)
<1>1. s \in [1 .. n -> Int \X Int]
    <2>1. \A i \in 1 .. n : s[i] \in Spots
        OBVIOUS
    <2> QED
        BY <2>1 DEF Spots
<1> QED
    BY <1>1, SeqOf

\* The cursors and the memory after SetValues().
LEMMA SetTypes ==
    ASSUME NEW amps, amps \in Layouts, NEW at \in [1 .. Len(amps) -> Spots], NEW mult \in BOOLEAN,
           NEW mem, NEW fresh, SetValues(amps, at, mult, mem, fresh), amp' = amps,
           DOMAIN mem = 1 .. Len(amps) \/ fresh
    PROVE  /\ mext' = mult /\ totEleRead' = 0
           /\ start' \in Seq(Spots) /\ Len(start') = Len(amps) /\ start' \in Seq(Int \X Int)
           /\ DOMAIN tmpptr' = 1 .. Len(amps)
           /\ Cursors'
<1>1. /\ DOMAIN amps = 1 .. Len(amps) /\ \A i \in 1 .. Len(amps) : amps[i] \in Amplifiers
      /\ Len(amps) \in Nat
    BY LayoutTypes, Sizes
<1>2. /\ mext' = mult /\ totEleRead' = 0 /\ start' = [i \in DOMAIN amps |-> Corner(amps[i], at[i], mult)]
      /\ tmpptr' = [i \in DOMAIN amps |-> <<>>] \/ (tmpptr' = mem /\ ~fresh)
    BY DEF SetValues
<1>3. \A i \in 1 .. Len(amps) : start'[i] = Corner(amps[i], at[i], mult) /\ at[i] \in Spots
    BY <1>1, <1>2
<1>4. start' \in [1 .. Len(amps) -> Spots]
    BY <1>1, <1>2, <1>3, CornerType
<1>5. Cursors'
    <2>1. Kept' = {i \in 1 .. Len(amps) : ~amps[i].discard}
        BY DEF Kept, namps
    <2>2. ASSUME NEW i \in Kept' PROVE Room(amp[i], start[i])'
        <3>1. i \in 1 .. Len(amps) /\ ~amps[i].discard /\ amp'[i] = amps[i]
            BY <2>1
        <3>2. 1 + NRows - totEleRead' = 1 + NRows
            BY <1>2, Sizes
        <3> QED
            BY <1>1, <1>2, <1>3, <3>1, <3>2, CornerType DEF Room, IzToDer
    <2> QED
        BY <2>2 DEF Cursors
<1>6. start' \in Seq(Spots) /\ Len(start') = Len(amps)
    BY <1>1, <1>4, SeqOf
<1>7. start' \in Seq(Int \X Int)
    BY <1>1, <1>6, SpotsAreInts
<1> QED
    BY <1>1, <1>2, <1>5, <1>6, <1>7

LEMMA InitTyped == Init => Typed
<1> SUFFICES ASSUME Init PROVE Typed
    OBVIOUS
<1>1. Kept = {}
    BY DEF Init, Kept, namps
<1>2. start \in Seq(Spots) /\ start \in Seq(Int \X Int) /\ DOMAIN tmpptr = 1 .. namps
    BY DEF Init, namps
<1>3. Identity \in [1 .. MaxAmps -> Nat]
    BY Sizes DEF Identity
<1> QED
    <2>1. /\ amp = <<>> /\ nzim = 1 /\ roi = NoRegion /\ is_roi = FALSE /\ mext = FALSE /\ start = <<>>
          /\ totEleRead = 0 /\ nzcnt = 0 /\ image = 1 /\ outside = FALSE /\ file = <<>>
          /\ Extension = Identity /\ course = "on"
        BY DEF Init
    <2>2. namps = 0
        BY <2>1 DEF namps
    <2>3. TypeOK
        <3>1. /\ totEleRead \in Nat /\ totEleRead <= NRows /\ nzcnt \in Nat
              /\ image \in 1 .. MaxImages + 1
            BY <2>1, Sizes
        <3>2. start \in Seq((Nat \ {0}) \X (Nat \ {0})) /\ Len(start) = namps
            BY <1>2, <2>1, <2>2 DEF Spots
        <3>3. amp \in Layouts \cup {<<>>} /\ nzim \in Depths \cup {1} /\ roi \in Regions \cup {NoRegion}
            BY <2>1
        <3> QED
            BY <1>2, <1>3, <2>1, <3>1, <3>2, <3>3 DEF TypeOK
    <2>4. Kinds
        BY <1>2, <2>1 DEF Kinds
    <2> QED
        BY <1>1, <2>3, <2>4 DEF Typed, Cursors

\* What setting up does to the course and the record of misuses.
LEMMA SetUpSteps ==
    ASSUME TypeOK, SetUp
    PROVE  /\ file = <<>> => misused' = misused /\ course # "lost"
           /\ file # <<>> => misused' # {} /\ course = "on" /\ totEleRead = 0 /\ nzcnt = 0
           /\ misused \subseteq misused'
           /\ OffCourse => /\ file = <<>> => course' = course
                           /\ file # <<>> => course' = "stopped"
                           /\ course' = "on" => course = "on"
                           /\ course' \in {"on", "stopped", "lost"}
BY DEF SetUp, OffCourse, TypeOK

\* Nothing but Extension[], zcnt, the region of interest, or what is only recorded.
LEMMA SettingTyped ==
    ASSUME Typed, SetUp, OffCourse, UNCHANGED <<amp, mext, start, box, totEleRead, tmpptr, image, size, file>>,
           Extension' \in [1 .. MaxAmps -> Nat], nzim' \in Depths \cup {1}, roi' \in Regions \cup {NoRegion},
           is_roi' \in BOOLEAN, is_roi' => roi' \in Regions, nzcnt' \in Nat, outside' \in BOOLEAN
    PROVE  Typed'
<1>1. namps' = namps /\ Kept' = Kept
    BY DEF namps, Kept
<1>2. /\ file # <<>> => misused' # {}
      /\ course' = "on" => course = "on"
      /\ course' \in {"on", "stopped", "lost"}
    BY SetUpSteps DEF Typed
<1>3. Cursors'
    BY <1>1, <1>2 DEF Typed, Cursors, Room
<1> QED
    BY <1>1, <1>2, <1>3 DEF Typed, TypeOK, Kinds

LEMMA GFInitSteps ==
    ASSUME TypeOK, NEW layout, NEW mult, NEW wider, GFInit(layout, mult, wider)
    PROVE  /\ amp' = layout /\ SetValues(layout, PlacesOf(layout), mult, <<>>, TRUE)
           /\ UNCHANGED <<Extension, nzim, nzcnt, size, file, image, outside, failed>>
           /\ file = <<>> => misused' = misused /\ course' = "on"
           /\ file # <<>> => misused' # {} /\ course' = "stopped"
           /\ roi' \in {roi, NoRegion} /\ is_roi' = (is_roi /\ roi' # NoRegion)
<1>1. file = <<>> => misused' = misused
    BY SetUpSteps DEF GFInit
<1>2. file # <<>> => misused' # {}
    BY SetUpSteps DEF GFInit
<1>3. roi' \in {roi, NoRegion}
    BY DEF GFInit, CheckRoi
<1> QED
    BY <1>1, <1>2, <1>3 DEF GFInit

LEMMA RoiTyped ==
    ASSUME TypeOK, roi' \in {roi, NoRegion}, is_roi' => is_roi /\ roi' # NoRegion
    PROVE  roi' \in Regions \cup {NoRegion} /\ (is_roi' => roi' \in Regions)
BY DEF TypeOK

LEMMA GFInitTyped ==
    ASSUME Typed, NEW layout \in Layouts, NEW mult \in BOOLEAN, NEW wider \in BOOLEAN, GFInit(layout, mult, wider)
    PROVE  Typed'
<1>1. /\ DOMAIN layout = 1 .. Len(layout) /\ \A i \in 1 .. Len(layout) : layout[i] \in Amplifiers
      /\ layout # <<>>
    BY LayoutTypes
<1>2. PlacesOf(layout) \in [1 .. Len(layout) -> Spots]
    BY <1>1 DEF PlacesOf, Spots, Amplifiers
<1>3. SetValues(layout, PlacesOf(layout), mult, <<>>, TRUE) /\ amp' = layout
    BY DEF GFInit
<1>4. /\ mext' = mult /\ totEleRead' = 0 /\ start' \in Seq(Spots) /\ Len(start') = Len(layout)
      /\ start' \in Seq(Int \X Int) /\ DOMAIN tmpptr' = 1 .. Len(layout) /\ Cursors'
    BY <1>2, <1>3, SetTypes
<1>5. namps' = Len(layout)
    BY <1>3 DEF namps
<1>6. /\ UNCHANGED <<Extension, nzim, nzcnt, size, file, image, outside>>
      /\ file = <<>> => course' = "on"
      /\ file # <<>> => misused' # {} /\ course' = "stopped"
      /\ roi' \in {roi, NoRegion} /\ is_roi' = (is_roi /\ roi' # NoRegion)
    BY GFInitSteps DEF Typed
<1>7. roi' \in Regions \cup {NoRegion} /\ (is_roi' => roi' \in Regions) /\ is_roi' \in BOOLEAN
    BY <1>6, RoiTyped DEF Typed, TypeOK
<1>8. TypeOK'
    <2>1. nzim' \in Depths \cup {1} /\ Extension' \in [1 .. MaxAmps -> Nat] /\ nzcnt' \in Nat
          /\ image' \in 1 .. MaxImages + 1 /\ outside' \in BOOLEAN
        BY <1>6 DEF Typed, TypeOK
    <2>2. totEleRead' \in Nat /\ totEleRead' <= NRows
        BY <1>4, Sizes
    <2>3. file' # <<>> => DOMAIN file' = DOMAIN size' /\ misused' # {}
        BY <1>6 DEF Typed, TypeOK
    <2>4. course' \in {"on", "stopped", "lost"}
        BY <1>6
    <2> QED
        BY <1>3, <1>4, <1>5, <1>7, <2>1, <2>2, <2>3, <2>4 DEF TypeOK, Spots
<1>9. Kinds'
    BY <1>1, <1>3, <1>4, <1>5, <1>6, <1>7 DEF Kinds
<1> QED
    BY <1>4, <1>8, <1>9 DEF Typed

LEMMA AmpPlaces ==
    ASSUME TypeOK, amp # <<>>
    PROVE  amp \in Layouts /\ PlacesOf(amp) \in [1 .. Len(amp) -> Spots]
<1>1. amp \in Layouts
    BY DEF TypeOK
<1> QED
    BY <1>1, LayoutTypes DEF PlacesOf, Spots, Amplifiers

LEMMA CreateSteps ==
    ASSUME NEW mult, NEW wider, CreateImg(mult, wider)
    PROVE  /\ amp # <<>> /\ file = <<>> /\ course # "lost" /\ course' = "on"
           /\ SetValues(amp, PlacesOf(amp), mult, tmpptr, wider)
           /\ UNCHANGED <<amp, Extension, nzim, image, outside>>
           /\ nzcnt' = 0 /\ misused' = Misuses(mult) /\ failed' = {}
           /\ roi' \in {roi, NoRegion} /\ (~mult => roi' = roi)
           /\ is_roi' = IF mult THEN is_roi /\ roi' # NoRegion
                        ELSE is_roi /\ roi.y + roi.rows - 1 <= box'.rows
           /\ ~mult => size' = <<ImageSize(box')>>
           /\ file' = [h \in DOMAIN size' |-> <<>>]
BY DEF CreateImg, CheckRoi

LEMMA CreateTyped ==
    ASSUME Typed, NEW mult \in BOOLEAN, NEW wider \in BOOLEAN, CreateImg(mult, wider)
    PROVE  Typed'
<1>1. amp # <<>> /\ SetValues(amp, PlacesOf(amp), mult, tmpptr, wider) /\ amp' = amp
    BY CreateSteps
<1>2. DOMAIN tmpptr = 1 .. Len(amp)
    BY DEF Typed, Kinds, namps
<1>3. /\ mext' = mult /\ totEleRead' = 0 /\ start' \in Seq(Spots) /\ Len(start') = Len(amp)
      /\ start' \in Seq(Int \X Int) /\ DOMAIN tmpptr' = 1 .. Len(amp) /\ Cursors'
    BY <1>1, <1>2, AmpPlaces, SetTypes DEF Typed
<1>4. namps' = namps
    BY <1>1 DEF namps
<1>5. /\ DOMAIN file' = DOMAIN size' /\ nzcnt' = 0 /\ course' = "on"
      /\ UNCHANGED <<amp, Extension, nzim, image, outside>>
      /\ roi' \in {roi, NoRegion} /\ (~mult => roi' = roi)
      /\ is_roi' = IF mult THEN is_roi /\ roi' # NoRegion ELSE is_roi /\ roi.y + roi.rows - 1 <= box'.rows
      /\ ~mult => size' = <<ImageSize(box')>>
    BY CreateSteps
<1>6. nzim \in Nat
    BY WriterAssumption DEF Typed, TypeOK
<1>7. is_roi' \in BOOLEAN /\ (is_roi' => is_roi)
    BY <1>5, Zenon DEF Typed, TypeOK
<1>8. ~mult => DOMAIN size' = {1}
    BY <1>5
<1>9. roi' \in Regions \cup {NoRegion} /\ (is_roi' => roi' \in Regions)
    <2>1. CASE mult
        <3>1. is_roi' => is_roi /\ roi' # NoRegion
            BY <1>5, <2>1, Zenon
        <3> QED
            BY <1>5, <3>1, RoiTyped DEF Typed
    <2>2. CASE ~mult
        BY <1>5, <1>7, <2>2 DEF Typed, TypeOK, Kinds
    <2> QED
        BY <2>1, <2>2
<1>10. TypeOK'
    <2>1. totEleRead' \in Nat /\ totEleRead' <= NRows
        BY <1>3, Sizes
    <2>2. nzim' \in Depths \cup {1} /\ Extension' \in [1 .. MaxAmps -> Nat] /\ nzcnt' \in Nat
          /\ image' \in 1 .. MaxImages + 1 /\ outside' \in BOOLEAN /\ amp' \in Layouts \cup {<<>>}
        BY <1>5 DEF Typed, TypeOK
    <2>3. nzcnt' <= nzim' /\ mext' \in BOOLEAN /\ Len(start') = namps'
        BY <1>3, <1>4, <1>5, <1>6 DEF namps
    <2> QED
        BY <1>3, <1>5, <1>7, <1>9, <2>1, <2>2, <2>3 DEF TypeOK, Spots
<1>11. Kinds'
    BY <1>1, <1>3, <1>4, <1>8, <1>9 DEF Kinds, namps
<1> QED
    BY <1>3, <1>10, <1>11 DEF Typed

LEMMA KeptTyped ==
    ASSUME TypeOK, NEW i \in Kept
    PROVE  i \in 1 .. namps /\ amp[i] \in Amplifiers /\ start[i] \in Int \X Int
           /\ (course = "on" => start[i] \in Spots)
<1>1. i \in 1 .. namps /\ amp[i] \in Amplifiers
    BY AmpTypes
<1>2. /\ course = "on" => start \in Seq(Spots)
      /\ start \in Seq(Int \X Int) /\ Len(start) = namps
    BY DEF TypeOK, Spots
<1>3. start[i] \in Int \X Int /\ (course = "on" => start[i] \in Spots)
    BY <1>1, <1>2
<1> QED
    BY <1>1, <1>3

\* What WriteMultiple() puts down, and what it does without the names of its steps.
PutAt(i, r) == IF i \in Rotated THEN PieceAt(amp[i], start[i], r) ELSE ExtensionSpot(i, r)
Turned(i, r) == Overlaid([j \in {i} |-> Piece(j, PieceAt(amp[j], start[j], r), r)], tmpptr[i])
Writes(r, bad) == [i \in Kept |-> IF i \notin Due(r) \/ i >= bad THEN <<>>
                                 ELSE IF i \in Rotated THEN tmpptr'[i]
                                 ELSE Piece(i, ExtensionSpot(i, r), r)]

LEMMA MultipleSteps ==
    ASSUME NEW r \in Pieces, NEW bad \in 1 .. MaxAmps + 1, WriteMultiple(r, bad)
    PROVE  /\ file # <<>> /\ mext /\ image <= MaxImages /\ course = "on"
           /\ (bad \in Due(r) /\ failed = {}) \/ bad = MaxAmps + 1
           /\ totEleRead' = totEleRead + r
           /\ tmpptr' = [i \in 1 .. namps |-> IF i \in Rotated \cap Reached(bad) THEN Turned(i, r) ELSE tmpptr[i]]
           /\ start' = [i \in 1 .. namps |->
                 IF i \in Rotated \cap Reached(bad) THEN Advanced(amp[i], start[i], r) ELSE start[i]]
           /\ file' = [h \in DOMAIN file |->
                 Overlaid([i \in {j \in Kept : HduOf(j) = h} |-> InPlane(Writes(r, bad)[i], 1)], file[h])]
           /\ outside' = (outside \/ \E i \in Kept :
                 \/ ~InsideHdu(DOMAIN InPlane(Writes(r, bad)[i], 1), HduOf(i))
                 \/ i \in Rotated \cap Reached(bad)
                    /\ ~Inside(Area(amp[i], PieceAt(amp[i], start[i], r), r), NRows, NCols))
           /\ failed' = failed \cup {<<HduOf(i), 1>> : i \in {j \in Due(r) : j >= bad}}
           /\ misused' = IF Fits(r) THEN misused ELSE misused \cup {"too many rows"}
           /\ course' = IF ~Fits(r) THEN "lost" ELSE IF Ends(bad) # {} THEN "stopped" ELSE "on"
           /\ UNCHANGED <<amp, Extension, nzim, roi, is_roi, mext, box, nzcnt, size, image>>
BY DEF WriteMultiple, geometry, Turned, Writes

LEMMA StaysOn ==
    ASSUME NEW r \in Pieces, NEW bad \in 1 .. MaxAmps + 1, WriteMultiple(r, bad)
    PROVE  /\ misused' = {} => misused = {} /\ Fits(r)
           /\ course' # "lost" => Fits(r)
           /\ course' = "on" => Fits(r) /\ Ends(bad) = {} /\ Reached(bad) = Kept
<1>1. /\ misused' = IF Fits(r) THEN misused ELSE misused \cup {"too many rows"}
      /\ course' = IF ~Fits(r) THEN "lost" ELSE IF Ends(bad) # {} THEN "stopped" ELSE "on"
    BY MultipleSteps
<1>2. Ends(bad) = {} => Reached(bad) = Kept
    BY DEF Reached
<1> QED
    BY <1>1, <1>2

LEMMA WriteMultipleTyped ==
    ASSUME Typed, NEW r \in Pieces, NEW bad \in 1 .. MaxAmps + 1, WriteMultiple(r, bad)
    PROVE  Typed'
<1>1. /\ file # <<>> /\ mext /\ image <= MaxImages /\ course = "on" /\ totEleRead' = totEleRead + r
      /\ UNCHANGED <<amp, Extension, nzim, roi, is_roi, mext, box, nzcnt, size, image>>
      /\ DOMAIN tmpptr' = 1 .. namps
      /\ start' = [i \in 1 .. namps |->
            IF i \in Rotated \cap Reached(bad) THEN Advanced(amp[i], start[i], r) ELSE start[i]]
      /\ DOMAIN file' = DOMAIN file
      /\ course' \in {"on", "stopped", "lost"}
    BY MultipleSteps
<1>2. namps' = namps /\ Kept' = Kept /\ r \in Nat \ {0}
    BY <1>1, WriterAssumption DEF namps, Kept
<1>3. TypeOK /\ Cursors
    BY DEF Typed
<1>4. start \in Seq(Spots) /\ Len(start) = namps /\ namps \in Nat
    BY <1>1, <1>3, AmpTypes DEF TypeOK, Spots
<1>5. ASSUME NEW i \in Rotated, Fits(r)
      PROVE  /\ Advanced(amp[i], start[i], r) \in Spots
             /\ IzToDer(amp[i]) => Advanced(amp[i], start[i], r)[1] >= 1 + NRows - (totEleRead + r)
    <2>1. i \in Kept /\ amp[i].rotate # 0
        BY DEF Rotated
    <2> QED
        BY <1>1, <1>2, <1>3, <1>5, <2>1, KeptTyped, AdvancedType DEF Cursors
<1>6. course' = "on" => start' \in Seq(Spots)
    <2> SUFFICES ASSUME course' = "on" PROVE start' \in Seq(Spots)
        OBVIOUS
    <2>1. Fits(r)
        BY StaysOn
    <2>2. start' \in [1 .. namps -> Spots]
        BY <1>1, <1>4, <1>5, <2>1
    <2> QED
        BY <1>4, <2>2, SeqOf
<1>7. start' \in Seq(Int \X Int) /\ Len(start') = namps
    <2>1. \A i \in 1 .. namps : start[i] \in Int \X Int /\ Advanced(amp[i], start[i], r) \in Int \X Int
        <3>1. \A i \in 1 .. namps : start[i] \in Int \X Int
            BY <1>3, <1>4 DEF TypeOK
        <3> QED
            BY <1>2, <3>1, AdvancedInt
    <2>2. start' \in [1 .. namps -> Int \X Int]
        BY <1>1, <2>1
    <2> QED
        BY <1>4, <2>2, SeqOf
<1>8. Cursors'
    <2> SUFFICES ASSUME course' = "on" PROVE \A i \in Kept : Room(amp[i], start[i])'
        BY <1>2 DEF Cursors
    <2>1. Fits(r) /\ Reached(bad) = Kept
        BY StaysOn
    <2>2. ASSUME NEW i \in Kept, IzToDer(amp[i]) PROVE start'[i][1] >= 1 + NRows - totEleRead'
        <3>1. i \in Rotated /\ i \in 1 .. namps
            BY <2>2 DEF IzToDer, Rotated, Kept
        <3> QED
            BY <1>1, <1>5, <2>1, <2>2, <3>1
    <2> QED
        BY <1>1, <1>2, <2>2 DEF Room
<1>9. totEleRead' \in Nat /\ (course' = "on" => totEleRead' <= NRows)
    <2>1. course' = "on" => Fits(r)
        BY StaysOn
    <2> QED
        BY <1>1, <1>2, <1>3, <2>1 DEF Fits, TypeOK
<1>10. outside' \in BOOLEAN
    <2>1. outside \in BOOLEAN
        BY <1>3 DEF TypeOK
    <2> QED
        BY <2>1, MultipleSteps, Zenon
<1>11. misused' = {} => misused = {}
    BY StaysOn
<1>12. TypeOK'
    <2>1. nzim' \in Depths \cup {1} /\ Extension' \in [1 .. MaxAmps -> Nat] /\ nzcnt' \in Nat
          /\ image' \in 1 .. MaxImages + 1 /\ amp' \in Layouts \cup {<<>>} /\ mext' \in BOOLEAN
          /\ roi' \in Regions \cup {NoRegion} /\ is_roi' \in BOOLEAN
        BY <1>1, <1>3 DEF TypeOK
    <2>2. file' # <<>> => DOMAIN file' = DOMAIN size' /\ (misused' = {} => nzcnt' <= nzim')
        BY <1>1, <1>3, <1>11 DEF TypeOK
    <2> QED
        BY <1>1, <1>2, <1>6, <1>7, <1>9, <1>10, <2>1, <2>2 DEF TypeOK, Spots
<1>13. Kinds'
    BY <1>1, <1>2 DEF Typed, Kinds
<1> QED
    BY <1>8, <1>12, <1>13 DEF Typed

LEMMA CloseTyped ==
    ASSUME Typed, CloseFile
    PROVE  Typed'
<1>1. UNCHANGED <<amp, Extension, nzim, roi, is_roi, mext, start, totEleRead, nzcnt, tmpptr, course>>
    BY DEF CloseFile, geometry
<1>2. namps' = namps /\ Kept' = Kept
    BY <1>1 DEF namps, Kept
<1>3. file # <<>> /\ file' = <<>> /\ outside' = FALSE /\ image' = IF totEleRead > 0 THEN image + 1 ELSE image
    BY DEF CloseFile
<1>4. image' \in 1 .. MaxImages + 1
    BY <1>3, Sizes DEF Typed, TypeOK, Kinds
<1>5. Cursors'
    BY <1>1, <1>2 DEF Typed, Cursors, Room
<1> QED
    BY <1>1, <1>2, <1>3, <1>4, <1>5 DEF Typed, TypeOK, Kinds

\* What WriteSingle() does, without the names of its steps.
After(r) == [i \in 1 .. namps |-> IF i \in Kept THEN Advanced(amp[i], start[i], r) ELSE start[i]]
Spot(r) == [i \in Kept |-> LET at == PieceAt(amp[i], start[i], r)
                          IN  <<at[1] - box.x + 1, at[2] - box.y + 1>>]
Memory(r) == Overlaid([i \in Kept |-> Piece(i, Spot(r)[i], r)], tmpptr[1])
Shown(r) == IF is_roi THEN InPlane(Cut(Memory(r)), 1) ELSE InPlane(Memory(r), nzcnt + 1)

LEMMA SingleSteps ==
    ASSUME NEW r \in Pieces, NEW from_buf \in BOOLEAN, NEW fails \in BOOLEAN, WriteSingle(r, from_buf, fails)
    PROVE  /\ file # <<>> /\ ~mext /\ image <= MaxImages /\ course = "on" /\ (fails => Completes(r))
           /\ outside' = (outside
                 \/ \E i \in Kept : ~Inside(Area(amp[i], Spot(r)[i], r), box.cols, box.rows)
                 \/ (Completes(r) /\ ~fails /\ ~InsideHdu(DOMAIN Shown(r), 1)))
           /\ Completes(r) =>
                 /\ file' = IF fails THEN file ELSE <<Overlaid([i \in {1} |-> Shown(r)], file[1])>>
                 /\ nzcnt' = nzcnt + 1 /\ image' = image + 1
                 /\ SetValues(amp, IF from_buf THEN After(r) ELSE PlacesOf(amp), mext,
                              [tmpptr EXCEPT ![1] = Memory(r)], FALSE)
           /\ ~Completes(r) =>
                 /\ totEleRead' = totEleRead + r
                 /\ tmpptr' = [tmpptr EXCEPT ![1] = Memory(r)]
                 /\ start' = After(r)
                 /\ UNCHANGED <<mext, box, nzcnt, file, image>>
           /\ failed' = IF fails THEN failed \cup {<<1, nzcnt + 1>>} ELSE failed
           /\ course' = IF Fits(r) THEN "on" ELSE "lost"
           /\ UNCHANGED <<amp, Extension, nzim, roi, is_roi, size>>
BY DEF WriteSingle, geometry, Spot, After, Memory, Shown

LEMMA SingleMisuses ==
    ASSUME NEW r \in Pieces, NEW from_buf \in BOOLEAN, NEW fails \in BOOLEAN, WriteSingle(r, from_buf, fails)
    PROVE  /\ misused \subseteq misused'
           /\ misused' = {} =>
                 /\ misused = {} /\ Fits(r) /\ ~(nzcnt >= nzim)
                 /\ ~(from_buf /\ Completes(r) /\ nzim > 1
                      /\ \E i, j \in Kept : amp[i].type \in Lower /\ amp[j].type \notin Lower)
<1> DEFINE new == {u \in {"too many rows", "too many images", "many from a buffer"} :
                      CASE u = "too many rows" -> ~Fits(r)
                        [] u = "too many images" -> nzcnt >= nzim
                        [] OTHER -> from_buf /\ Completes(r) /\ nzim > 1 /\
                                    \E i, j \in Kept : amp[i].type \in Lower /\ amp[j].type \notin Lower}
<1>1. misused' = misused \cup new
    BY DEF WriteSingle
<1>2. ~Fits(r) => "too many rows" \in new
    OBVIOUS
<1>3. nzcnt >= nzim => "too many images" \in new
    OBVIOUS
<1>4. from_buf /\ Completes(r) /\ nzim > 1
         /\ (\E i, j \in Kept : amp[i].type \in Lower /\ amp[j].type \notin Lower) => "many from a buffer" \in new
    OBVIOUS
<1> HIDE DEF new
<1> QED
    BY <1>1, <1>2, <1>3, <1>4

LEMMA WriteSingleTyped ==
    ASSUME Typed, NEW r \in Pieces, NEW from_buf \in BOOLEAN, NEW fails \in BOOLEAN, WriteSingle(r, from_buf, fails)
    PROVE  Typed'
<1>1. /\ file # <<>> /\ ~mext /\ image <= MaxImages /\ course = "on"
      /\ course' = IF Fits(r) THEN "on" ELSE "lost"
      /\ UNCHANGED <<amp, Extension, nzim, roi, is_roi, size>>
    BY SingleSteps
<1>2. TypeOK /\ Cursors /\ Kinds /\ amp # <<>> /\ r \in Nat \ {0}
    BY <1>1, WriterAssumption DEF Typed, Kinds
<1>3. namps' = namps /\ Kept' = Kept /\ namps \in Nat
    BY <1>1, <1>2, AmpTypes DEF namps, Kept
<1>4. ASSUME NEW i \in Kept, Fits(r)
      PROVE  /\ i \in 1 .. namps
             /\ Advanced(amp[i], start[i], r) \in Spots
             /\ amp[i].rotate = 0 /\ amp[i].type \notin Lower
                   => Advanced(amp[i], start[i], r)[2] >= 1 + NRows - (totEleRead + r)
             /\ IzToDer(amp[i]) => Advanced(amp[i], start[i], r)[1] >= 1 + NRows - (totEleRead + r)
    BY <1>1, <1>2, <1>4, KeptTyped, AdvancedType DEF Cursors
<1>5. start \in Seq(Spots) /\ Len(start) = namps
    BY <1>1, <1>2 DEF TypeOK, Spots
<1>6. Fits(r) => After(r) \in [1 .. namps -> Spots]
    BY <1>4, <1>5 DEF After
<1>7. outside' \in BOOLEAN
    <2>1. outside \in BOOLEAN
        BY <1>2 DEF TypeOK
    <2> QED
        BY <2>1, SingleSteps, Zenon
<1>8. /\ nzim \in Nat /\ nzcnt \in Nat /\ image' \in 1 .. MaxImages + 1 /\ nzcnt' \in Nat
      /\ misused' = {} => nzcnt' <= nzim
    <2>1. nzim \in Nat /\ nzcnt \in Nat /\ image \in 1 .. MaxImages + 1
        BY <1>2, WriterAssumption DEF TypeOK
    <2>2. nzcnt' \in {nzcnt, nzcnt + 1} /\ image' \in {image, image + 1}
        BY SingleSteps
    <2>3. misused' = {} => nzcnt < nzim
        BY <2>1, SingleMisuses
    <2> QED
        BY <1>1, <2>1, <2>2, <2>3, Sizes
<1>9. /\ start' \in Seq(Int \X Int) /\ Len(start') = namps /\ totEleRead' \in Nat /\ mext' = mext
      /\ course' = "on" => start' \in Seq(Spots) /\ totEleRead' <= NRows
      /\ totEleRead' > 0 => image' <= MaxImages
      /\ DOMAIN tmpptr' = 1 .. namps /\ Cursors' /\ DOMAIN file' = {1} /\ file' # <<>>
    <2>1. DOMAIN [tmpptr EXCEPT ![1] = Memory(r)] = 1 .. namps
        BY <1>2 DEF Kinds
    <2>2. DOMAIN file = {1}
        BY <1>1, <1>2 DEF TypeOK, Kinds
    <2>3. CASE Completes(r)
        <3> DEFINE at == IF from_buf THEN After(r) ELSE PlacesOf(amp)
                   mem == [tmpptr EXCEPT ![1] = Memory(r)]
        <3>1. Fits(r)
            BY <1>1, <1>2, <2>3, Sizes DEF Completes, Fits, TypeOK
        <3>2. at \in [1 .. Len(amp) -> Spots] /\ amp \in Layouts /\ DOMAIN mem = 1 .. Len(amp) /\ mext \in BOOLEAN
            BY <1>2, <1>6, <2>1, <3>1, AmpPlaces DEF namps, TypeOK
        <3>3. SetValues(amp, at, mext, mem, FALSE) /\ amp' = amp
            BY <1>1, <2>3, SingleSteps
        <3> HIDE DEF at, mem
        <3>4. /\ mext' = mext /\ totEleRead' = 0 /\ start' \in Seq(Spots) /\ Len(start') = namps
              /\ start' \in Seq(Int \X Int) /\ DOMAIN tmpptr' = 1 .. namps /\ Cursors'
            BY <3>2, <3>3, SetTypes DEF namps
        <3>5. file' = file \/ \E f : file' = <<f>>
            BY <2>3, SingleSteps
        <3>6. DOMAIN file' = {1} /\ file' # <<>>
            BY <1>1, <2>2, <3>5
        <3> QED
            BY <3>4, <3>6, Sizes
    <2>4. CASE ~Completes(r)
        <3>1. /\ totEleRead' = totEleRead + r /\ tmpptr' = [tmpptr EXCEPT ![1] = Memory(r)] /\ start' = After(r)
              /\ UNCHANGED <<mext, box, nzcnt, file, image>>
            BY <2>4, SingleSteps
        <3>2. Fits(r) => start' \in Seq(Spots)
            BY <1>3, <1>6, <3>1, SeqOf
        <3>3. start' \in Seq(Int \X Int) /\ Len(start') = namps
            <4>1. \A i \in 1 .. namps : start[i] \in Int \X Int /\ Advanced(amp[i], start[i], r) \in Int \X Int
                <5>1. \A i \in 1 .. namps : start[i] \in Int \X Int
                    BY <1>2, <1>5 DEF TypeOK
                <5> QED
                    BY <1>2, <5>1, AdvancedInt
            <4>2. start' \in [1 .. namps -> Int \X Int]
                BY <3>1, <4>1 DEF After
            <4> QED
                BY <1>3, <4>2, SeqOf
        <3>4. totEleRead' \in Nat /\ (course' = "on" => Fits(r) /\ totEleRead' <= NRows)
            BY <1>1, <1>2, <3>1 DEF Fits, TypeOK
        <3>5. Cursors'
            <4> SUFFICES ASSUME course' = "on" PROVE \A i \in Kept : Room(amp[i], start[i])'
                BY <1>3 DEF Cursors
            <4>1. \A i \in Kept : start'[i] = Advanced(amp[i], start[i], r)
                BY <1>4, <3>1, <3>4 DEF After
            <4> QED
                BY <1>1, <1>4, <3>1, <3>4, <4>1 DEF Room
        <3> QED
            BY <1>1, <2>1, <2>2, <3>1, <3>2, <3>3, <3>4, <3>5
    <2> QED
        BY <2>3, <2>4
<1>10. DOMAIN size = {1}
    BY <1>1, <1>2 DEF Kinds
<1>11. TypeOK'
    <2>1. nzim' \in Depths \cup {1} /\ Extension' \in [1 .. MaxAmps -> Nat] /\ amp' \in Layouts \cup {<<>>}
          /\ mext' \in BOOLEAN /\ roi' \in Regions \cup {NoRegion} /\ is_roi' \in BOOLEAN
        BY <1>1, <1>2, <1>9 DEF TypeOK
    <2>2. DOMAIN file' = DOMAIN size' /\ nzim' = nzim /\ course' \in {"on", "stopped", "lost"}
        BY <1>1, <1>9, <1>10
    <2> QED
        BY <1>3, <1>7, <1>8, <1>9, <2>1, <2>2 DEF TypeOK, Spots
<1>12. Kinds'
    BY <1>1, <1>2, <1>3, <1>9, <1>10 DEF Kinds
<1> QED
    BY <1>9, <1>11, <1>12 DEF Typed

LEMMA StepTyped == Typed /\ [Next]_vars => Typed'
<1> SUFFICES ASSUME Typed, [Next]_vars PROVE Typed'
    OBVIOUS
<1>1. CASE \E mult, wider \in BOOLEAN, layout \in Layouts : GFInit(layout, mult, wider)
    BY <1>1, GFInitTyped
<1>2. CASE \E mult, wider \in BOOLEAN : CreateImg(mult, wider)
    BY <1>2, CreateTyped
<1>3. CASE \E map \in Maps, past \in Beyond : SetExtensions(map, past)
    <2>1. PICK map \in Maps, past \in Beyond : SetExtensions(map, past)
        BY <1>3
    <2>2. map \in Seq(Nat) /\ past \in Nat /\ Len(map) \in Nat /\ \A i \in 1 .. Len(map) : map[i] \in Nat
        BY <2>1, WriterAssumption
    <2>3. Extension' \in [1 .. MaxAmps -> Nat]
        <3>1. Extension' = [i \in 1 .. MaxAmps |->
                  IF i > namps THEN Extension[i]
                  ELSE IF i <= Len(map) THEN map[i]
                  ELSE IF i = Len(map) + 1 THEN past ELSE i - 1]
            BY <2>1 DEF SetExtensions
        <3>2. Extension \in [1 .. MaxAmps -> Nat] /\ MaxAmps \in Nat
            BY Sizes DEF Typed, TypeOK
        <3>3. ASSUME NEW i \in 1 .. MaxAmps PROVE Extension'[i] \in Nat
            BY <2>2, <3>1, <3>2
        <3> QED
            BY <3>1, <3>3
    <2>4. /\ SetUp /\ OffCourse
          /\ UNCHANGED <<amp, nzim, roi, is_roi, mext, start, box, totEleRead, nzcnt, tmpptr, size,
                         file, image, outside>>
        BY <2>1 DEF SetExtensions
    <2> QED
        BY <2>3, <2>4, SettingTyped DEF Typed, TypeOK, Kinds
<1>4. CASE InitExtensions
    <2>1. Identity \in [1 .. MaxAmps -> Nat]
        BY Sizes DEF Identity
    <2> QED
        BY <1>4, <2>1, SettingTyped DEF InitExtensions, Typed, TypeOK, Kinds
<1>5. CASE \E n \in Depths : SetZAxis(n)
    BY <1>5, SettingTyped DEF SetZAxis, Typed, TypeOK, Kinds
<1>6. CASE \E region \in Regions \cup {NoRegion} : SetRoi(region)
    <2>1. PICK region \in Regions \cup {NoRegion} : SetRoi(region)
        BY <1>6
    <2>2. roi' \in {NoRegion, region} /\ is_roi' = (roi' # NoRegion)
        BY <2>1 DEF SetRoi
    <2>3. /\ SetUp /\ OffCourse
          /\ UNCHANGED <<amp, Extension, nzim, mext, start, box, totEleRead, nzcnt, tmpptr, size,
                         file, image, outside>>
        BY <2>1 DEF SetRoi
    <2> QED
        BY <2>2, <2>3, SettingTyped DEF Typed, TypeOK
<1>7. CASE \E r \in Pieces, bad \in 1 .. MaxAmps + 1 : WriteMultiple(r, bad)
    BY <1>7, WriteMultipleTyped
<1>8. CASE \E r \in Pieces, from_buf, fails \in BOOLEAN : WriteSingle(r, from_buf, fails)
    BY <1>8, WriteSingleTyped
<1>9. CASE CloseFile
    BY <1>9, CloseTyped
<1>10. CASE UNCHANGED vars
    <2>1. namps' = namps /\ Kept' = Kept
        BY <1>10 DEF namps, Kept, vars, geometry
    <2> QED
        BY <1>10, <2>1 DEF Typed, TypeOK, Kinds, Cursors, Room, vars, geometry
<1> QED
    BY <1>1, <1>2, <1>3, <1>4, <1>5, <1>6, <1>7, <1>8, <1>9, <1>10 DEF Next

\* As long as a caller keeps to the rows it has asked for and no write ends a call, the
\* cursors never leave the image, whatever is set up or aborted in between; and as long as
\* it keeps to the images, none is counted beyond those the file has.
THEOREM WriterTypes == Spec => []TypeOK
<1>1. Init => Typed
    BY InitTyped
<1>2. Typed /\ [Next]_vars => Typed'
    BY StepTyped
<1>3. Typed => TypeOK
    BY DEF Typed
<1> QED
    BY <1>1, <1>2, <1>3, PTL DEF Spec

-----------------------------------------------------------------------------
(* Pieces.  A piece holds the rows from the first that is not written yet; it is put *)
(* down where they have their seats. *)

\* Where the piece after tot rows goes in an image of its amplifier alone.
Home(a, tot, r) ==
    IF a.rotate = 0 THEN <<1, IF a.type \in Lower THEN tot + 1 ELSE NRows - tot - r + 1>>
    ELSE <<IF IzToDer(a) THEN NRows - tot - r + 1 ELSE tot + 1, 1>>

Shifted(at, dx, dy) == <<at[1] + dx, at[2] + dy>>

\* The seat of a pixel, from one, in an image that begins <<dx, dy>> before it.
Seated(a, col, row, dx, dy) == Shifted(Seat(a, col, row), 1 + dx, 1 + dy)

Wide(a) == IF a.rotate = 0 THEN NCols ELSE NRows
High(a) == IF a.rotate = 0 THEN NRows ELSE NCols

LEMMA SeatTypes ==
    ASSUME NEW a \in Amplifiers, NEW col \in 0 .. NCols - 1, NEW row \in 0 .. NRows - 1
    PROVE  Seat(a, col, row) \in (0 .. Wide(a) - 1) \X (0 .. High(a) - 1)
BY Sizes DEF Seat, Wide, High, Amplifiers

\* The pixel at <<u, v>> of a piece has its seat there.
LEMMA PieceSeats ==
    ASSUME NEW a \in Amplifiers, NEW tot \in Nat, NEW r \in Nat \ {0}, tot + r <= NRows,
           NEW u \in Nat, NEW v \in Nat
    PROVE  LET px == Unscrambled(a, r, u, v)
           IN  Seat(a, px[1], tot + px[2]) = <<(Home(a, tot, r)[1] - 1) + u, (Home(a, tot, r)[2] - 1) + v>>
<1>1. CASE a.rotate = 0
    BY <1>1, Sizes DEF Unscrambled, Seat, Home, Lower, Left
<1>2. CASE a.rotate = 90
    <2>1. CASE a.type \in Lower
        BY <1>2, <2>1, Sizes DEF Unscrambled, Seat, Home, IzToDer
    <2>2. CASE a.type \notin Lower
        BY <1>2, <2>2, Sizes DEF Unscrambled, Seat, Home, IzToDer
    <2> QED
        BY <2>1, <2>2
<1>3. CASE a.rotate = 270
    <2>1. CASE a.type \in Lower
        BY <1>3, <2>1, Sizes DEF Unscrambled, Seat, Home, IzToDer
    <2>2. CASE a.type \notin Lower
        BY <1>3, <2>2, Sizes DEF Unscrambled, Seat, Home, IzToDer
    <2> QED
        BY <2>1, <2>2
<1> QED
    BY <1>1, <1>2, <1>3 DEF Amplifiers

LEMMA PieceHolds ==
    ASSUME NEW a \in Amplifiers, NEW tot \in Nat, NEW r \in Nat \ {0}, tot + r <= NRows,
           NEW dx \in Int, NEW dy \in Int, NEW p \in Area(a, Shifted(Home(a, tot, r), dx, dy), r)
    PROVE  \E col \in 0 .. NCols - 1, row \in tot .. tot + r - 1 :
              /\ p = Seated(a, col, row, dx, dy)
              /\ LET at == Shifted(Home(a, tot, r), dx, dy)
                 IN  Unscrambled(a, r, p[1] - at[1], p[2] - at[2]) = <<col, row - tot>>
<1> DEFINE at == Shifted(Home(a, tot, r), dx, dy)
           px == Unscrambled(a, r, p[1] - at[1], p[2] - at[2])
<1>1. at[1] \in Int /\ at[2] \in Int /\ p = <<p[1], p[2]>> /\ p[1] \in Int /\ p[2] \in Int
    BY Sizes DEF Area, Shifted, Home
<1>2. px[1] \in 0 .. NCols - 1 /\ px[2] \in 0 .. r - 1 /\ px = <<px[1], px[2]>>
    BY <1>1, Sizes DEF Area, Unscrambled, Amplifiers
<1>3. Seated(a, px[1], tot + px[2], dx, dy) = p
    <2> DEFINE u == p[1] - at[1]  v == p[2] - at[2]  h == Home(a, tot, r)
    <2>1. u \in Nat /\ v \in Nat
        BY <1>1, Sizes DEF Area
    <2>2. h[1] \in Int /\ h[2] \in Int /\ at[1] = h[1] + dx /\ at[2] = h[2] + dy
        BY Sizes DEF Home, Shifted
    <2> HIDE DEF h, u, v
    <2>3. Seat(a, px[1], tot + px[2]) = <<(h[1] - 1) + u, (h[2] - 1) + v>>
        BY <2>1, PieceSeats DEF h, u, v
    <2> HIDE DEF at, px
    <2>4. Seated(a, px[1], tot + px[2], dx, dy) = <<((h[1] - 1) + u) + (1 + dx), ((h[2] - 1) + v) + (1 + dy)>>
        BY <2>3 DEF Seated, Shifted
    <2>5. ((h[1] - 1) + u) + (1 + dx) = p[1] /\ ((h[2] - 1) + v) + (1 + dy) = p[2]
        BY <1>1, <2>1, <2>2 DEF u, v
    <2> QED
        BY <1>1, <2>4, <2>5
<1>4. tot + px[2] \in tot .. tot + r - 1 /\ (tot + px[2]) - tot = px[2]
    BY <1>2
<1> QED
    BY <1>2, <1>3, <1>4

LEMMA PieceAtSeat ==
    ASSUME NEW a \in Amplifiers, NEW tot \in Nat, NEW r \in Nat \ {0}, tot + r <= NRows,
           NEW dx \in Int, NEW dy \in Int, NEW col \in 0 .. NCols - 1, NEW row \in tot .. tot + r - 1
    PROVE  LET at == Shifted(Home(a, tot, r), dx, dy)
               p == Seated(a, col, row, dx, dy)
           IN  /\ p \in Area(a, at, r)
               /\ Unscrambled(a, r, p[1] - at[1], p[2] - at[2]) = <<col, row - tot>>
BY Sizes DEF Area, Unscrambled, Seated, Seat, Shifted, Home, IzToDer, Lower, Left, Amplifiers

\* Every place of an amplifier is the seat of one of its pixels, and of one only.
LEMMA EverySeat ==
    ASSUME NEW a \in Amplifiers, NEW x \in 0 .. Wide(a) - 1, NEW y \in 0 .. High(a) - 1
    PROVE  \E col \in 0 .. NCols - 1, row \in 0 .. NRows - 1 : Seat(a, col, row) = <<x, y>>
<1> DEFINE c == CASE a.rotate = 0 -> x [] a.rotate = 90 -> y [] OTHER -> NCols - 1 - y
           w == CASE a.rotate = 0 -> y [] a.rotate = 90 -> NRows - 1 - x [] OTHER -> x
           col == IF a.type \in Left THEN c ELSE NCols - 1 - c
           row == IF a.type \in Lower THEN w ELSE NRows - 1 - w
<1>1. col \in 0 .. NCols - 1 /\ row \in 0 .. NRows - 1
    BY Sizes DEF Wide, High, Amplifiers
<1>2. Seat(a, col, row) = <<x, y>>
    BY Sizes DEF Wide, High, Amplifiers, Seat
<1> QED
    BY <1>1, <1>2

LEMMA OwnSeat ==
    ASSUME NEW a \in Amplifiers,
           NEW col \in 0 .. NCols - 1, NEW row \in 0 .. NRows - 1,
           NEW c \in 0 .. NCols - 1, NEW w \in 0 .. NRows - 1,
           Seat(a, col, row) = Seat(a, c, w)
    PROVE  col = c /\ row = w
BY Sizes DEF Amplifiers, Seat

-----------------------------------------------------------------------------
(* Several amplifiers that write to one memory. *)

LEMMA OverlaidDomain ==
    ASSUME NEW writes, NEW mem
    PROVE  DOMAIN Overlaid(writes, mem) = DOMAIN mem \cup UNION {DOMAIN writes[i] : i \in DOMAIN writes}
BY DEF Overlaid

LEMMA OverlaidIs ==
    ASSUME NEW writes, NEW mem, NEW n \in Nat, DOMAIN writes \subseteq 1 .. n,
           NEW p \in DOMAIN Overlaid(writes, mem)
    PROVE  \/ \E i \in DOMAIN writes : p \in DOMAIN writes[i] /\ Overlaid(writes, mem)[p] = writes[i][p]
           \/ /\ p \in DOMAIN mem /\ Overlaid(writes, mem)[p] = mem[p]
              /\ \A i \in DOMAIN writes : p \notin DOMAIN writes[i]
<1> DEFINE by == {i \in DOMAIN writes : p \in DOMAIN writes[i]}
<1>1. p \in DOMAIN mem \cup UNION {DOMAIN writes[i] : i \in DOMAIN writes}
    BY OverlaidDomain
<1>2. Overlaid(writes, mem)[p] = IF by = {} THEN mem[p] ELSE writes[Max(by)][p]
    BY <1>1 DEF Overlaid
<1>3. CASE by = {}
    <2>1. p \in DOMAIN mem
        BY <1>1, <1>3
    <2> QED
        BY <1>2, <1>3, <2>1
<1>4. CASE by # {}
    <2>1. by \in SUBSET Nat /\ \A x \in by : x <= n
        OBVIOUS
    <2>2. Max(by) \in by
        <3> HIDE DEF by
        <3> QED
            BY <1>4, <2>1, MaxOf
    <2> QED
        BY <1>2, <1>4, <2>2
<1> QED
    BY <1>3, <1>4

LEMMA PlaneIs ==
    ASSUME NEW mem, NEW z, NEW S, NEW T, DOMAIN mem \subseteq S \X T
    PROVE  /\ \A q \in DOMAIN mem : /\ <<q[1], q[2], z>> \in DOMAIN InPlane(mem, z)
                                    /\ InPlane(mem, z)[<<q[1], q[2], z>>] = mem[q]
           /\ \A p \in DOMAIN InPlane(mem, z) : /\ p = <<p[1], p[2], z>>
                                                /\ <<p[1], p[2]>> \in DOMAIN mem
                                                /\ InPlane(mem, z)[p] = mem[<<p[1], p[2]>>]
<1>1. DOMAIN InPlane(mem, z) = {<<q[1], q[2], z>> : q \in DOMAIN mem}
    BY DEF InPlane
<1>2. \A q \in DOMAIN mem : q = <<q[1], q[2]>>
    OBVIOUS
<1>3. \A p \in DOMAIN InPlane(mem, z) : p = <<p[1], p[2], z>> /\ <<p[1], p[2]>> \in DOMAIN mem
    BY <1>1, <1>2
<1>4. \A p \in DOMAIN InPlane(mem, z) : InPlane(mem, z)[p] = mem[<<p[1], p[2]>>]
    BY <1>1 DEF InPlane
<1> QED
    BY <1>1, <1>2, <1>3, <1>4

-----------------------------------------------------------------------------
(* The box around the amplifiers. *)

LEMMA SpanIs ==
    ASSUME NEW n \in Nat, NEW K \in SUBSET (1 .. n), K # {}, NEW f \in [1 .. n -> Nat]
    PROVE  LET S == {f[i] : i \in K}
           IN  /\ Min(S) \in Nat /\ Max(S) \in Nat
               /\ \A i \in K : Min(S) <= f[i] /\ f[i] <= Max(S)
               /\ \E i \in K : f[i] = Min(S)
               /\ \E i \in K : f[i] = Max(S)
<1> DEFINE S == {f[i] : i \in K}
<1>1. S \in SUBSET Nat /\ S # {} /\ \A i \in K : f[i] \in S
    OBVIOUS
<1>2. PICK b \in Nat : \A i \in 1 .. n : f[i] <= b
    BY Bounded
<1>3. \A x \in S : x <= b
    BY <1>2
<1>4. \A x \in S : \E i \in K : f[i] = x
    OBVIOUS
<1> HIDE DEF S
<1>5. Min(S) \in S /\ \A x \in S : Min(S) <= x
    BY <1>1, MinOf
<1>6. Max(S) \in S /\ \A x \in S : x <= Max(S)
    BY <1>1, <1>3, MaxOf
<1>7. /\ Min(S) \in Nat /\ Max(S) \in Nat
      /\ \A i \in K : Min(S) <= f[i] /\ f[i] <= Max(S)
      /\ \E i \in K : f[i] = Min(S)
      /\ \E i \in K : f[i] = Max(S)
    BY <1>1, <1>4, <1>5, <1>6
<1> QED
    BY <1>7 DEF S

\* A box around places of amplifiers of which those in K are kept, none of them rotated.
Encloses(b, K, at) ==
    /\ b.x \in Nat /\ b.y \in Nat /\ b.cols \in Nat /\ b.rows \in Nat
    /\ \A i \in K : /\ b.x <= at[i][1] /\ at[i][1] + NCols <= b.x + b.cols
                    /\ b.y <= at[i][2] /\ at[i][2] + NRows <= b.y + b.rows
    /\ \E i \in K : at[i][1] = b.x
    /\ \E i \in K : at[i][2] = b.y
    /\ \E i \in K : at[i][1] + NCols = b.x + b.cols
    /\ \E i \in K : at[i][2] + NRows = b.y + b.rows

LEMMA BoxIs ==
    ASSUME NEW amps \in Layouts, NEW at \in [1 .. Len(amps) -> Spots],
           \A i \in 1 .. Len(amps) : ~amps[i].discard => amps[i].rotate = 0
    PROVE  LET K == {i \in 1 .. Len(amps) : ~amps[i].discard}
           IN  /\ Encloses(BoxAround(amps, at), K, at)
               /\ BoxAround(amps, at).x = Min({at[i][1] : i \in K})
               /\ BoxAround(amps, at).y = Min({at[i][2] : i \in K})
               /\ BoxAround(amps, at).cols = Max({at[i][1] : i \in K}) + NCols - Min({at[i][1] : i \in K})
               /\ BoxAround(amps, at).rows = Max({at[i][2] : i \in K}) + NRows - Min({at[i][2] : i \in K})
<1> DEFINE n == Len(amps)
           K == {i \in 1 .. n : ~amps[i].discard}
           f == [i \in 1 .. n |-> at[i][1]]
           g == [i \in 1 .. n |-> at[i][2]]
           xs == {at[i][1] : i \in K}
           ys == {at[i][2] : i \in K}
           b == BoxAround(amps, at)
<1>1. n \in Nat /\ DOMAIN amps = 1 .. n /\ K \in SUBSET (1 .. n) /\ K # {}
    BY LayoutTypes, Sizes
<1>2. f \in [1 .. n -> Nat] /\ g \in [1 .. n -> Nat]
    BY DEF Spots
<1>3. {f[i] : i \in K} = xs /\ {g[i] : i \in K} = ys
    OBVIOUS
<1>4. \A i \in K : at[i][1] + (IF IzToDer(amps[i]) THEN NRows ELSE 0) = at[i][1]
    BY DEF IzToDer, Spots
<1>5. {at[i][1] + (IF IzToDer(amps[i]) THEN NRows ELSE 0) : i \in K} = xs
    BY <1>4
<1>6. b = [x |-> Min(xs), y |-> Min(ys), cols |-> Max(xs) + NCols - Min(xs), rows |-> Max(ys) + NRows - Min(ys)]
    BY <1>1, <1>5 DEF BoxAround
<1>7. /\ Min(xs) \in Nat /\ Max(xs) \in Nat
      /\ \A i \in K : Min(xs) <= f[i] /\ f[i] <= Max(xs)
      /\ \E i \in K : f[i] = Min(xs)
      /\ \E i \in K : f[i] = Max(xs)
    <2> HIDE DEF f, K, xs, n
    <2>1. /\ Min({f[j] : j \in K}) \in Nat /\ Max({f[j] : j \in K}) \in Nat
          /\ \A i \in K : Min({f[j] : j \in K}) <= f[i] /\ f[i] <= Max({f[j] : j \in K})
          /\ \E i \in K : f[i] = Min({f[j] : j \in K})
          /\ \E i \in K : f[i] = Max({f[j] : j \in K})
        BY <1>1, <1>2, SpanIs
    <2> QED
        BY <1>3, <2>1
<1>8. /\ Min(ys) \in Nat /\ Max(ys) \in Nat
      /\ \A i \in K : Min(ys) <= g[i] /\ g[i] <= Max(ys)
      /\ \E i \in K : g[i] = Min(ys)
      /\ \E i \in K : g[i] = Max(ys)
    <2> HIDE DEF g, K, ys, n
    <2>1. /\ Min({g[j] : j \in K}) \in Nat /\ Max({g[j] : j \in K}) \in Nat
          /\ \A i \in K : Min({g[j] : j \in K}) <= g[i] /\ g[i] <= Max({g[j] : j \in K})
          /\ \E i \in K : g[i] = Min({g[j] : j \in K})
          /\ \E i \in K : g[i] = Max({g[j] : j \in K})
        BY <1>1, <1>2, SpanIs
    <2> QED
        BY <1>3, <2>1
<1>9. \A i \in K : f[i] = at[i][1] /\ g[i] = at[i][2] /\ f[i] \in Nat /\ g[i] \in Nat
    BY <1>1, <1>2
<1> HIDE DEF f, g, K, xs, ys, b, n
<1>10. b.x = Min(xs) /\ b.y = Min(ys) /\ b.cols = Max(xs) + NCols - Min(xs) /\ b.rows = Max(ys) + NRows - Min(ys)
    BY <1>6
<1>11. b.x \in Nat /\ b.y \in Nat /\ b.cols \in Nat /\ b.rows \in Nat
    <2>1. Min(xs) <= Max(xs) /\ Min(ys) <= Max(ys)
        BY <1>7, <1>8, <1>9
    <2> QED
        BY <1>7, <1>8, <1>10, <2>1, Sizes
<1>12. b.x + b.cols = Max(xs) + NCols /\ b.y + b.rows = Max(ys) + NRows
    BY <1>7, <1>8, <1>10, Sizes
<1>13. Encloses(b, K, at)
    <2>1. \A i \in K : /\ b.x <= at[i][1] /\ at[i][1] + NCols <= b.x + b.cols
                       /\ b.y <= at[i][2] /\ at[i][2] + NRows <= b.y + b.rows
        <3> SUFFICES ASSUME NEW i \in K
                     PROVE  /\ b.x <= at[i][1] /\ at[i][1] + NCols <= b.x + b.cols
                            /\ b.y <= at[i][2] /\ at[i][2] + NRows <= b.y + b.rows
            OBVIOUS
        <3>1. /\ Min(xs) <= at[i][1] /\ at[i][1] <= Max(xs) /\ at[i][1] \in Nat
              /\ Min(ys) <= at[i][2] /\ at[i][2] <= Max(ys) /\ at[i][2] \in Nat
            BY <1>7, <1>8, <1>9
        <3>2. Max(xs) \in Nat /\ Max(ys) \in Nat /\ b.x = Min(xs) /\ b.y = Min(ys)
            BY <1>7, <1>8, <1>10
        <3> QED
            BY <1>12, <3>1, <3>2, Sizes
    <2>2. /\ \E i \in K : at[i][1] = b.x
          /\ \E i \in K : at[i][2] = b.y
        BY <1>7, <1>8, <1>9, <1>10
    <2>3. /\ \E i \in K : at[i][1] + NCols = b.x + b.cols
          /\ \E i \in K : at[i][2] + NRows = b.y + b.rows
        <3>1. PICK k \in K : at[k][1] = Max(xs)
            BY <1>7, <1>9
        <3>2. PICK m \in K : at[m][2] = Max(ys)
            BY <1>8, <1>9
        <3> QED
            BY <1>12, <3>1, <3>2
    <2> QED
        BY <1>11, <2>1, <2>2, <2>3 DEF Encloses
<1> QED
    BY <1>10, <1>13 DEF b, K, xs, ys, n

-----------------------------------------------------------------------------
(* Nothing outside.  In a single file of amplifiers that are not rotated the box lies *)
(* around them as they are laid out; from one image to the next of a buffer the lower *)
(* ones move up by the images before it. *)

Flat == \A i \in Kept : amp[i].rotate = 0
Mixed == \E i, j \in Kept : amp[i].type \in Lower /\ amp[j].type \notin Lower

Laid(d) == [i \in 1 .. namps |-> <<amp[i].x, IF amp[i].type \in Lower THEN amp[i].y + d ELSE amp[i].y>>]
Around(d) == BoxAround(amp, Laid(d))

\* Where the next piece of an amplifier goes.
Cursor(i, d) ==
    Shifted(Laid(d)[i], 0, IF amp[i].type \in Lower THEN totEleRead ELSE NRows - totEleRead)

LaidOut(d) == box = Around(d) /\ \A i \in Kept : start[i] = Cursor(i, d)

Lying ==
    file # <<>> /\ ~mext /\ Flat /\ course = "on" =>
        \E d \in Nat : LaidOut(d) /\ (d # 0 /\ Mixed => nzcnt >= nzim \/ misused # {})

Within(cols, rows) == (1 .. cols) \X (1 .. rows)

MemoryInBox ==
    ~mext /\ Flat /\ amp # <<>> /\ course # "lost" => DOMAIN tmpptr[1] \subseteq Within(box.cols, box.rows)

\* The size of a single file.
SingleFile ==
    file # <<>> /\ ~mext /\ misused = {} =>
        /\ Flat
        /\ is_roi => /\ nzim = 1 /\ size[1] = <<roi.cols, roi.rows, nzim>>
                     /\ roi.x + roi.cols - 1 <= Around(0).cols /\ roi.y + roi.rows - 1 <= Around(0).rows
        /\ ~is_roi => size[1] = <<Around(0).cols, Around(0).rows, nzim>>

\* The HDU of an amplifier in a multiple file.
MultipleFile ==
    file # <<>> /\ mext /\ misused = {} =>
        \A i \in Kept :
            /\ HduOf(i) \in DOMAIN size
            /\ size[HduOf(i)] = <<Wide(amp[i]), High(amp[i]), 1>>
            /\ HduOf(i) = IF Kept = 1 .. namps THEN Extension[i] + 2 ELSE Cardinality(1 .. i \cap Kept) + 1

\* A rotated amplifier that is put together for its HDU.
Turning ==
    mext => \A i \in Rotated :
        /\ course = "on" =>
              start[i] = <<IF IzToDer(amp[i]) THEN NRows + 1 - totEleRead ELSE 1 + totEleRead, 1>>
        /\ course # "lost" => DOMAIN tmpptr[i] \subseteq Within(NRows, NCols)

Placed == Lying /\ MemoryInBox /\ SingleFile /\ MultipleFile /\ Turning
          /\ (outside => misused # {} /\ file # <<>>) /\ (file # <<>> => 1 \in DOMAIN size)

LEMMA LaidIs ==
    ASSUME TypeOK, amp # <<>>, Flat, NEW d \in Nat
    PROVE  /\ Laid(d) \in [1 .. Len(amp) -> Spots]
           /\ Encloses(Around(d), Kept, Laid(d))
           /\ Around(d).x = Min({amp[i].x : i \in Kept})
           /\ Around(0).y = Min({amp[i].y : i \in Kept})
<1>1. amp \in Layouts /\ \A i \in 1 .. Len(amp) : amp[i] \in Amplifiers
    BY AmpTypes DEF TypeOK, namps
<1>2. \A e \in Nat : Laid(e) \in [1 .. Len(amp) -> Spots]
    BY <1>1 DEF Laid, namps, Spots, Amplifiers
<1>3. Kept = {i \in 1 .. Len(amp) : ~amp[i].discard}
    BY DEF Kept, namps
<1>4. \A i \in 1 .. Len(amp) : ~amp[i].discard => amp[i].rotate = 0
    BY <1>3 DEF Flat
<1>5. ASSUME NEW e \in Nat
      PROVE  /\ Encloses(Around(e), Kept, Laid(e))
             /\ Around(e).x = Min({Laid(e)[i][1] : i \in Kept}) /\ Around(e).y = Min({Laid(e)[i][2] : i \in Kept})
    BY <1>1, <1>2, <1>3, <1>4, BoxIs DEF Around
<1>6. /\ \A e \in Nat : {Laid(e)[i][1] : i \in Kept} = {amp[i].x : i \in Kept}
      /\ {Laid(0)[i][2] : i \in Kept} = {amp[i].y : i \in Kept}
    <2>1. \A i \in Kept : /\ \A e \in Nat : Laid(e)[i][1] = amp[i].x
                          /\ Laid(0)[i][2] = amp[i].y
        BY <1>1, <1>3 DEF Laid, namps, Amplifiers
    <2> QED
        BY <2>1
<1> QED
    BY <1>2, <1>5, <1>6

\* Amplifiers of one kind, or none that has moved: the box is that of the layout, moved with them.
LEMMA SameShape ==
    ASSUME TypeOK, amp # <<>>, Flat, NEW d \in Nat, Mixed => d = 0
    PROVE  /\ Around(d).cols = Around(0).cols /\ Around(d).rows = Around(0).rows
           /\ \A i \in Kept : /\ Laid(d)[i][1] - Around(d).x = amp[i].x - Around(0).x
                              /\ Laid(d)[i][2] - Around(d).y = amp[i].y - Around(0).y
<1> DEFINE e == IF \A i \in Kept : amp[i].type \in Lower THEN d ELSE 0
           b == Around(d)   c == Around(0)
<1>1. e \in Nat
    OBVIOUS
<1>2. /\ Encloses(b, Kept, Laid(d)) /\ Encloses(c, Kept, Laid(0)) /\ b.x = c.x
    BY LaidIs
<1>3. \A i \in Kept : /\ amp[i].x \in Nat /\ amp[i].y \in Nat
                      /\ Laid(0)[i][1] = amp[i].x /\ Laid(d)[i][1] = amp[i].x
                      /\ Laid(0)[i][2] = amp[i].y /\ Laid(d)[i][2] = amp[i].y + e
    <2> SUFFICES ASSUME NEW i \in Kept
                 PROVE  /\ amp[i].x \in Nat /\ amp[i].y \in Nat
                        /\ Laid(0)[i][1] = amp[i].x /\ Laid(d)[i][1] = amp[i].x
                        /\ Laid(0)[i][2] = amp[i].y /\ Laid(d)[i][2] = amp[i].y + e
        OBVIOUS
    <2>1. i \in 1 .. namps /\ amp[i].x \in Nat /\ amp[i].y \in Nat
        BY AmpTypes DEF Amplifiers
    <2>2. (IF amp[i].type \in Lower THEN amp[i].y + d ELSE amp[i].y) = amp[i].y + e
        BY <2>1 DEF Mixed
    <2> QED
        BY <2>1, <2>2 DEF Laid
<1> HIDE DEF e, b, c
<1>4. b.y = c.y + e
    <2>1. b.y \in Nat /\ c.y \in Nat
        BY <1>2 DEF Encloses
    <2>2. PICK i \in Kept : Laid(d)[i][2] = b.y
        BY <1>2 DEF Encloses
    <2>3. PICK j \in Kept : Laid(0)[j][2] = c.y
        BY <1>2 DEF Encloses
    <2>4. c.y <= amp[i].y /\ b.y <= amp[j].y + e
        BY <1>2, <1>3 DEF Encloses
    <2> QED
        BY <1>1, <1>3, <2>1, <2>2, <2>3, <2>4
<1>5. b.cols = c.cols
    <2>1. b.cols \in Nat /\ c.cols \in Nat /\ c.x \in Nat
        BY <1>2 DEF Encloses
    <2>2. PICK i \in Kept : Laid(d)[i][1] + NCols = b.x + b.cols
        BY <1>2 DEF Encloses
    <2>3. PICK j \in Kept : Laid(0)[j][1] + NCols = c.x + c.cols
        BY <1>2 DEF Encloses
    <2>4. amp[i].x + NCols <= c.x + c.cols /\ amp[j].x + NCols <= b.x + b.cols
        BY <1>2, <1>3 DEF Encloses
    <2> QED
        BY <1>2, <1>3, <2>1, <2>2, <2>3, <2>4
<1>6. b.rows = c.rows
    <2>1. b.rows \in Nat /\ c.rows \in Nat /\ c.y \in Nat
        BY <1>2 DEF Encloses
    <2>2. PICK i \in Kept : Laid(d)[i][2] + NRows = b.y + b.rows
        BY <1>2 DEF Encloses
    <2>3. PICK j \in Kept : Laid(0)[j][2] + NRows = c.y + c.rows
        BY <1>2 DEF Encloses
    <2>4. amp[i].y + NRows <= c.y + c.rows /\ amp[j].y + e + NRows <= b.y + b.rows
        BY <1>2, <1>3 DEF Encloses
    <2> QED
        <3>1. amp[i].y + e + NRows = c.y + e + b.rows /\ amp[j].y + NRows = c.y + c.rows
            BY <1>3, <1>4, <2>2, <2>3
        <3>2. amp[i].y + NRows <= c.y + c.rows /\ amp[j].y + e + NRows <= c.y + e + b.rows
            BY <1>4, <2>4
        <3>3. amp[i].y \in Nat /\ amp[j].y \in Nat
            BY <1>3
        <3>4. amp[i].y + NRows = c.y + b.rows /\ amp[j].y + NRows <= c.y + b.rows
            <4> DEFINE p == amp[i].y  q == amp[j].y  m == b.rows  k == c.y
            <4>1. e \in Nat /\ NRows \in Nat /\ m \in Nat /\ k \in Nat /\ p \in Nat /\ q \in Nat
                BY <1>1, <2>1, <3>3, Sizes
            <4>2. p + e + NRows = k + e + m /\ q + e + NRows <= k + e + m
                BY <3>1, <3>2
            <4> HIDE DEF p, q, m, k
            <4>3. p + NRows = k + m /\ q + NRows <= k + m
                BY <4>1, <4>2
            <4> QED
                BY <4>3 DEF p, q, m, k
        <3>5. c.y + b.rows <= c.y + c.rows /\ c.y + c.rows <= c.y + b.rows
            BY <3>1, <3>2, <3>4
        <3> QED
            BY <2>1, <3>5
<1>7. ASSUME NEW i \in Kept
      PROVE  /\ Laid(d)[i][1] - b.x = amp[i].x - c.x
             /\ Laid(d)[i][2] - b.y = amp[i].y - c.y
    <2>1. c.y \in Nat
        BY <1>2 DEF Encloses
    <2> QED
        BY <1>1, <1>2, <1>3, <1>4, <2>1
<1> QED
    BY <1>5, <1>6, <1>7 DEF b, c

LEMMA AreaWithin ==
    ASSUME NEW a \in Amplifiers, NEW tot \in Nat, NEW r \in Nat \ {0}, tot + r <= NRows,
           NEW dx \in Nat, NEW dy \in Nat, NEW cols \in Nat, NEW rows \in Nat,
           dx + Wide(a) <= cols, dy + High(a) <= rows
    PROVE  /\ Inside(Area(a, Shifted(Home(a, tot, r), dx, dy), r), cols, rows)
           /\ Area(a, Shifted(Home(a, tot, r), dx, dy), r) \subseteq Within(cols, rows)
<1> DEFINE at == Shifted(Home(a, tot, r), dx, dy)
<1>1. /\ at[1] \in Nat \ {0} /\ at[2] \in Nat \ {0}
      /\ a.rotate = 0 => at[1] + NCols - 1 <= cols /\ at[2] + r - 1 <= rows
      /\ a.rotate # 0 => at[1] + r - 1 <= cols /\ at[2] + NCols - 1 <= rows
    BY Sizes DEF Shifted, Home, Wide, High
<1> HIDE DEF at
<1>2. Area(a, at, r) \subseteq Within(cols, rows)
    BY <1>1, Sizes DEF Area, Within
<1>3. Inside(Area(a, at, r), cols, rows)
    BY <1>2 DEF Inside, Within
<1> QED
    BY <1>2, <1>3 DEF at

LEMMA SpotIs ==
    ASSUME TypeOK, amp # <<>>, Flat, NEW d \in Nat, LaidOut(d), NEW r \in Nat \ {0}, Fits(r), NEW i \in Kept
    PROVE  /\ Spot(r)[i] = Shifted(Home(amp[i], totEleRead, r), Laid(d)[i][1] - box.x, Laid(d)[i][2] - box.y)
           /\ Laid(d)[i][1] - box.x \in Nat /\ Laid(d)[i][2] - box.y \in Nat
           /\ Laid(d)[i][1] - box.x + NCols <= box.cols /\ Laid(d)[i][2] - box.y + NRows <= box.rows
           /\ totEleRead \in Nat /\ totEleRead + r <= NRows
           /\ box.cols \in Nat /\ box.rows \in Nat
<1>1. /\ i \in 1 .. namps /\ amp[i] \in Amplifiers /\ amp[i].rotate = 0
      /\ Laid(d)[i] \in Spots
    BY AmpTypes, LaidIs DEF Flat, namps
<1>2. totEleRead \in Nat /\ totEleRead + r <= NRows
    BY Sizes DEF TypeOK, Fits
<1>3. Encloses(box, Kept, Laid(d))
    BY LaidIs DEF LaidOut
<1> DEFINE u == Laid(d)[i][1]  v == Laid(d)[i][2]  x == box.x  y == box.y
           cols == box.cols  rows == box.rows
<1>4. /\ x \in Nat /\ y \in Nat /\ cols \in Nat /\ rows \in Nat
      /\ x <= u /\ u + NCols <= x + cols
      /\ y <= v /\ v + NRows <= y + rows
    BY <1>3 DEF Encloses
<1>5. u \in Nat /\ v \in Nat
    BY <1>1 DEF Spots
<1>6. start[i] = <<u + 0, v + (IF amp[i].type \in Lower THEN totEleRead ELSE NRows - totEleRead)>>
    BY DEF LaidOut, Cursor, Shifted
<1>7. \A s, t : PieceAt(amp[i], start[i], r) = <<s, t>> => Spot(r)[i] = <<s - x + 1, t - y + 1>>
    BY DEF Spot
<1> HIDE DEF u, v, x, y, cols, rows
<1>8. PieceAt(amp[i], start[i], r) =
          <<u, v + (IF amp[i].type \in Lower THEN totEleRead ELSE NRows - totEleRead - r)>>
    BY <1>1, <1>2, <1>5, <1>6, Sizes DEF PieceAt, Advanced, IzToDer
<1>9. Home(amp[i], totEleRead, r)
          = <<1, IF amp[i].type \in Lower THEN totEleRead + 1 ELSE NRows - totEleRead - r + 1>>
    BY <1>1 DEF Home
<1>10. Spot(r)[i] = Shifted(Home(amp[i], totEleRead, r), u - x, v - y)
    <2>1. u - x + 1 = 1 + (u - x)
        BY <1>4, <1>5
    <2>2. CASE amp[i].type \in Lower
        <3>1. (v + totEleRead) - y + 1 = totEleRead + 1 + (v - y)
            BY <1>2, <1>4, <1>5
        <3> QED
            <4>1. Spot(r)[i] = <<u - x + 1, (v + totEleRead) - y + 1>>
                <5>1. PieceAt(amp[i], start[i], r) = <<u, v + totEleRead>>
                    BY <1>8, <2>2
                <5> QED
                    BY <1>7, <5>1
            <4>2. Shifted(Home(amp[i], totEleRead, r), u - x, v - y) = <<1 + (u - x), totEleRead + 1 + (v - y)>>
                BY <1>9, <2>2 DEF Shifted
            <4> QED
                BY <2>1, <3>1, <4>1, <4>2
    <2>3. CASE amp[i].type \notin Lower
        <3>1. (v + (NRows - totEleRead - r)) - y + 1 = NRows - totEleRead - r + 1 + (v - y)
            BY <1>2, <1>4, <1>5, Sizes
        <3> QED
            <4>1. Spot(r)[i] = <<u - x + 1, (v + (NRows - totEleRead - r)) - y + 1>>
                <5>1. PieceAt(amp[i], start[i], r) = <<u, v + (NRows - totEleRead - r)>>
                    BY <1>8, <2>3
                <5> QED
                    BY <1>7, <5>1
            <4>2. Shifted(Home(amp[i], totEleRead, r), u - x, v - y)
                     = <<1 + (u - x), NRows - totEleRead - r + 1 + (v - y)>>
                BY <1>9, <2>3 DEF Shifted
            <4> QED
                BY <2>1, <3>1, <4>1, <4>2
    <2> QED
        BY <2>2, <2>3
<1>11. u - x \in Nat /\ v - y \in Nat /\ u - x + NCols <= cols /\ v - y + NRows <= rows
    BY <1>4, <1>5, Sizes
<1> QED
    BY <1>2, <1>4, <1>10, <1>11 DEF u, v, x, y, cols, rows

\* The pieces of an image in memory, and all that is in memory with them, lie in its box.
LEMMA MemoryWithin ==
    ASSUME Typed, MemoryInBox, ~mext, amp # <<>>, Flat, NEW d \in Nat, LaidOut(d),
           NEW r \in Nat \ {0}, Fits(r), course # "lost"
    PROVE  /\ \A i \in Kept : Inside(Area(amp[i], Spot(r)[i], r), box.cols, box.rows)
           /\ DOMAIN Memory(r) \subseteq Within(box.cols, box.rows)
<1>1. TypeOK
    BY DEF Typed
<1>2. ASSUME NEW i \in Kept
      PROVE  /\ Inside(Area(amp[i], Spot(r)[i], r), box.cols, box.rows)
             /\ DOMAIN Piece(i, Spot(r)[i], r) \subseteq Within(box.cols, box.rows)
    <2>1. amp[i] \in Amplifiers /\ Wide(amp[i]) = NCols /\ High(amp[i]) = NRows
        BY <1>1, AmpTypes DEF Flat, Wide, High
    <2>2. DOMAIN Piece(i, Spot(r)[i], r) = Area(amp[i], Spot(r)[i], r)
        BY DEF Piece
    <2> DEFINE dx == Laid(d)[i][1] - box.x  dy == Laid(d)[i][2] - box.y
    <2>3. /\ Spot(r)[i] = Shifted(Home(amp[i], totEleRead, r), dx, dy)
          /\ dx \in Nat /\ dy \in Nat /\ dx + NCols <= box.cols /\ dy + NRows <= box.rows
          /\ totEleRead \in Nat /\ totEleRead + r <= NRows /\ box.cols \in Nat /\ box.rows \in Nat
        BY <1>1, SpotIs
    <2> HIDE DEF dx, dy
    <2> QED
        BY <2>1, <2>2, <2>3, AreaWithin
<1>3. DOMAIN tmpptr[1] \subseteq Within(box.cols, box.rows)
    BY DEF MemoryInBox
<1>4. namps \in Nat /\ Kept \subseteq 1 .. namps
    BY <1>1, AmpTypes
<1> DEFINE writes == [i \in Kept |-> Piece(i, Spot(r)[i], r)]
<1>5. DOMAIN writes \subseteq 1 .. namps /\ \A i \in DOMAIN writes : DOMAIN writes[i] \subseteq Within(box.cols, box.rows)
    BY <1>2, <1>4
<1> HIDE DEF writes
<1>6. DOMAIN Overlaid(writes, tmpptr[1]) = DOMAIN tmpptr[1] \cup UNION {DOMAIN writes[i] : i \in DOMAIN writes}
    BY OverlaidDomain
<1>7. DOMAIN Overlaid(writes, tmpptr[1]) \subseteq Within(box.cols, box.rows)
    BY <1>3, <1>5, <1>6
<1> QED
    BY <1>2, <1>7 DEF Memory, writes

LEMMA SameKept ==
    ASSUME amp' = amp
    PROVE  /\ namps' = namps /\ Kept' = Kept /\ Flat' = Flat /\ Mixed' = Mixed /\ Rotated' = Rotated
           /\ \A d : Laid(d)' = Laid(d) /\ Around(d)' = Around(d)
BY DEF namps, Kept, Flat, Mixed, Rotated, Laid, Around

LEMMA BoxSame ==
    ASSUME NEW amps, NEW at, NEW bt, \A i \in DOMAIN amps : ~amps[i].discard => at[i] = bt[i]
    PROVE  BoxAround(amps, at) = BoxAround(amps, bt)
<1> DEFINE kept == {i \in DOMAIN amps : ~amps[i].discard}
<1>1. /\ {at[i][1] + (IF IzToDer(amps[i]) THEN NRows ELSE 0) : i \in kept}
           = {bt[i][1] + (IF IzToDer(amps[i]) THEN NRows ELSE 0) : i \in kept}
      /\ {at[i][2] : i \in kept} = {bt[i][2] : i \in kept}
    OBVIOUS
<1> QED
    BY <1>1 DEF BoxAround

\* An image that is set up from places of a layout is laid out there.
LEMMA SetLaidOut ==
    ASSUME TypeOK, amp # <<>>, Flat, amp' = amp, NEW d \in Nat, NEW at \in [1 .. Len(amp) -> Spots],
           \A i \in Kept : at[i] = Laid(d)[i],
           NEW mem, NEW fresh, SetValues(amp, at, FALSE, mem, fresh)
    PROVE  LaidOut(d)'
<1>1. DOMAIN amp = 1 .. namps /\ \A i \in Kept : i \in 1 .. namps /\ amp[i] \in Amplifiers /\ ~amp[i].discard
    BY AmpTypes DEF Kept
<1>2. /\ box' = BoxAround(amp, at) /\ totEleRead' = 0
      /\ start' = [i \in DOMAIN amp |-> Corner(amp[i], at[i], FALSE)]
    BY DEF SetValues
<1>3. box' = Around(d)
    <2>1. \A i \in DOMAIN amp : ~amp[i].discard => at[i] = Laid(d)[i]
        BY <1>1 DEF Kept
    <2> QED
        BY <1>2, <2>1, BoxSame DEF Around
<1>4. ASSUME NEW i \in Kept PROVE start'[i] = Cursor(i, d)'
    <2>1. start'[i] = Corner(amp[i], Laid(d)[i], FALSE) /\ Laid(d)[i] \in Spots
        BY <1>1, <1>2 DEF namps
    <2>2. amp[i].rotate = 0 /\ ~amp[i].discard
        BY <1>1 DEF Flat
    <2>3. Corner(amp[i], Laid(d)[i], FALSE)
             = Shifted(Laid(d)[i], 0, IF amp[i].type \in Lower THEN 0 ELSE NRows - 0)
        BY <2>1, <2>2, Sizes DEF Corner, Shifted, IzToDer, Spots
    <2> QED
        BY <1>2, <2>1, <2>3, SameKept DEF Cursor
<1> QED
    BY <1>3, <1>4, SameKept DEF LaidOut

\* The amplifiers that are kept, counted.
LEMMA KeptCounted ==
    ASSUME TypeOK, NEW i \in Kept
    PROVE  /\ Cardinality(Kept) \in Nat /\ Cardinality(1 .. i \cap Kept) \in 1 .. Cardinality(Kept)
           /\ \A j \in Kept : Cardinality(1 .. j \cap Kept) = Cardinality(1 .. i \cap Kept) => j = i
           /\ Cardinality(1 .. i - 1 \ Kept) = i - Cardinality(1 .. i \cap Kept)
<1>1. namps \in Nat /\ Kept \subseteq 1 .. namps
    BY AmpTypes
<1>2. IsFiniteSet(Kept) /\ Cardinality(Kept) \in Nat
    <2>1. IsFiniteSet(1 .. namps)
        BY <1>1, FS_Interval
    <2>2. IsFiniteSet(Kept)
        BY <1>1, <2>1, FS_Subset
    <2> QED
        BY <2>2, FS_CardinalityType
<1>3. \A j \in Kept : IsFiniteSet(1 .. j \cap Kept) /\ Cardinality(1 .. j \cap Kept) \in Nat
    BY <1>2, FS_Subset, FS_CardinalityType
<1>4. ASSUME NEW j \in Kept, NEW k \in Kept, j < k
      PROVE  Cardinality(1 .. j \cap Kept) # Cardinality(1 .. k \cap Kept)
    <2>1. j \in Nat /\ k \in Nat
        BY <1>1
    <2>2. (1 .. j \cap Kept) \subseteq (1 .. k \cap Kept)
        BY <1>4, <2>1
    <2>3. k \in (1 .. k \cap Kept) /\ k \notin (1 .. j \cap Kept)
        BY <1>1, <1>4, <2>1
    <2> QED
        BY <1>3, <2>2, <2>3, FS_Subset
<1>5. \A j \in Kept : Cardinality(1 .. j \cap Kept) = Cardinality(1 .. i \cap Kept) => j = i
    <2> SUFFICES ASSUME NEW j \in Kept, Cardinality(1 .. j \cap Kept) = Cardinality(1 .. i \cap Kept)
                 PROVE  j = i
        OBVIOUS
    <2>1. j \in Nat /\ i \in Nat
        BY <1>1
    <2>2. ~(j < i) /\ ~(i < j)
        BY <1>4
    <2> QED
        BY <2>1, <2>2
<1>6. Cardinality(1 .. i \cap Kept) \in 1 .. Cardinality(Kept)
    <2>1. Cardinality(1 .. i \cap Kept) <= Cardinality(Kept)
        BY <1>2, FS_Subset
    <2>2. Cardinality(1 .. i \cap Kept) # 0
        <3>1. i \in 1 .. i \cap Kept
            BY <1>1
        <3> QED
            BY <1>3, <3>1, FS_EmptySet
    <2> QED
        BY <1>2, <1>3, <2>1, <2>2
<1>7. Cardinality(1 .. i - 1 \ Kept) = i - Cardinality(1 .. i \cap Kept)
    <2>1. i \in Nat /\ i >= 1
        BY <1>1
    <2>2. IsFiniteSet(1 .. i - 1) /\ Cardinality(1 .. i - 1) = i - 1
        <3>1. Cardinality(1 .. i - 1) = IF 1 > i - 1 THEN 0 ELSE (i - 1) - 1 + 1
            BY <2>1, FS_Interval
        <3>2. IsFiniteSet(1 .. i - 1)
            BY <2>1, FS_Interval
        <3> QED
            BY <2>1, <3>1, <3>2
    <2>3. Cardinality(1 .. i - 1 \ Kept) = (i - 1) - Cardinality(1 .. i - 1 \cap Kept)
        BY <2>2, FS_Difference
    <2>4. IsFiniteSet(1 .. i - 1 \cap Kept) /\ Cardinality(1 .. i - 1 \cap Kept) \in Nat
        BY <1>2, FS_Subset, FS_CardinalityType
    <2>5. 1 .. i \cap Kept = (1 .. i - 1 \cap Kept) \cup {i} /\ i \notin 1 .. i - 1 \cap Kept
        BY <1>1, <2>1
    <2>6. Cardinality(1 .. i \cap Kept) = Cardinality(1 .. i - 1 \cap Kept) + 1
        BY <2>4, <2>5, FS_AddElement
    <2> QED
        BY <2>1, <2>3, <2>4, <2>6
<1> QED
    BY <1>2, <1>5, <1>6, <1>7

LEMMA OneBefore ==
    ASSUME NEW S, NEW e \in S, NEW f \in Seq(S)
    PROVE  /\ DOMAIN (<<e>> \o f) = 1 .. Len(f) + 1
           /\ \A k \in 1 .. Len(f) : (<<e>> \o f)[k + 1] = f[k]
OBVIOUS

\* A multiple file that is created as the library supports it.
LEMMA Housing ==
    ASSUME Typed, NEW wider, CreateImg(TRUE, wider), misused' = {}
    PROVE  MultipleFile'
<1>1. TypeOK /\ amp # <<>> /\ UNCHANGED <<amp, Extension>> /\ misused' = Misuses(TRUE)
    BY CreateSteps DEF Typed
<1>2. /\ {Extension[i] : i \in 1 .. namps} = 0 .. namps - 1
      /\ \/ \A i \in 1 .. namps : Extension[i] = i - 1
         \/ \A i, j \in 1 .. namps : ~amp[i].discard /\ (amp[i].rotate = 0) = (amp[j].rotate = 0)
    <2>1. "extensions of some" \notin Misuses(TRUE)
        BY <1>1
    <2> QED
        BY <2>1 DEF Misuses
<1>3. namps \in 1 .. MaxAmps /\ namps \in Nat /\ Kept \subseteq 1 .. namps /\ Extension \in [1 .. MaxAmps -> Nat]
    BY <1>1, AmpTypes DEF TypeOK
<1> DEFINE N == Cardinality(Kept)
           of(k) == CHOOSE i \in Kept : Cardinality(1 .. i \cap Kept) = k
           dims(a) == IF a.rotate = 0 THEN <<NCols, NRows, 1>> ELSE <<NRows, NCols, 1>>
           f == [k \in 1 .. N |-> dims(amp[of(k)])]
<1>4. size' = <<<<0, 0, 0>>>> \o f
    BY DEF CreateImg
<1>5. N \in Nat
    <2>1. PICK i \in Kept : TRUE
        BY <1>1, AmpTypes
    <2> QED
        BY <1>1, <2>1, KeptCounted
<1> DEFINE D == {<<0, 0, 0>>, <<NCols, NRows, 1>>, <<NRows, NCols, 1>>}
<1>6. f \in [1 .. N -> D] /\ <<0, 0, 0>> \in D
    OBVIOUS
<1>7. \A k \in 1 .. N : f[k] = dims(amp[of(k)])
    OBVIOUS
<1>8. \A a : dims(a) = <<Wide(a), High(a), 1>>
    BY DEF Wide, High
<1>9. \A i \in Kept : of(Cardinality(1 .. i \cap Kept)) = i
    <2> SUFFICES ASSUME NEW i \in Kept PROVE of(Cardinality(1 .. i \cap Kept)) = i
        OBVIOUS
    <2>1. \A j \in Kept : Cardinality(1 .. j \cap Kept) = Cardinality(1 .. i \cap Kept) => j = i
        BY <1>1, KeptCounted
    <2> QED
        BY <2>1
<1> HIDE DEF N, f, D, of, dims
<1>10. DOMAIN size' = 1 .. N + 1 /\ \A k \in 1 .. N : size'[k + 1] = f[k]
    <2>1. f \in Seq(D) /\ Len(f) = N
        BY <1>5, <1>6, SeqOf
    <2> QED
        BY <1>4, <1>6, <2>1, OneBefore
<1>11. HduOf(1)' = HduOf(1) /\ \A i : HduOf(i)' = HduOf(i)
    BY <1>1, SameKept DEF HduOf
<1>12. ASSUME NEW i \in Kept
       PROVE  /\ HduOf(i) \in DOMAIN size'
              /\ size'[HduOf(i)] = <<Wide(amp[i]), High(amp[i]), 1>>
              /\ HduOf(i) = IF Kept = 1 .. namps THEN Extension[i] + 2 ELSE Cardinality(1 .. i \cap Kept) + 1
    <2> DEFINE c == Cardinality(1 .. i \cap Kept)
    <2>1. c \in 1 .. N /\ Cardinality(1 .. i - 1 \ Kept) = i - c /\ i \in 1 .. namps /\ Extension[i] \in Nat
        <3>1. c \in 1 .. N /\ Cardinality(1 .. i - 1 \ Kept) = i - c
            BY <1>1, KeptCounted DEF N
        <3>2. i \in 1 .. namps /\ i \in 1 .. MaxAmps
            BY <1>3, Sizes
        <3> QED
            BY <1>3, <3>1, <3>2
    <2>2. HduOf(i) = (Extension[i] + 2) - (i - c)
        BY <2>1 DEF HduOf
    <2>3. CASE \A j \in 1 .. namps : Extension[j] = j - 1
        <3>1. HduOf(i) = c + 1
            BY <1>5, <2>1, <2>2, <2>3
        <3>2. size'[c + 1] = dims(amp[i])
            BY <1>7, <1>9, <1>10, <2>1
        <3>3. Kept = 1 .. namps => Extension[i] + 2 = c + 1
            <4> SUFFICES ASSUME Kept = 1 .. namps PROVE Extension[i] + 2 = c + 1
                OBVIOUS
            <4>1. 1 .. i - 1 \ Kept = {}
                BY <1>3, <2>1
            <4>2. i - c = 0
                BY <2>1, <4>1, FS_EmptySet
            <4> QED
                BY <1>5, <2>1, <2>2, <3>1, <4>2
        <3>4. c + 1 \in 1 .. N + 1
            BY <1>5, <2>1
        <3> QED
            BY <1>8, <1>10, <3>1, <3>2, <3>3, <3>4
    <2>4. CASE \A k, j \in 1 .. namps : ~amp[k].discard /\ (amp[k].rotate = 0) = (amp[j].rotate = 0)
        <3>1. Kept = 1 .. namps
            BY <2>4 DEF Kept
        <3>2. N = namps
            BY <1>3, <3>1, FS_Interval DEF N
        <3>3. 1 .. i - 1 \ Kept = {}
            BY <1>3, <2>1, <3>1
        <3>4. i - c = 0
            BY <2>1, <3>3, FS_EmptySet
        <3>5. HduOf(i) = Extension[i] + 2
            BY <2>1, <2>2, <3>4
        <3>6. Extension[i] \in 0 .. namps - 1
            BY <1>2, <2>1
        <3> DEFINE k == Extension[i] + 1
        <3>7. k \in 1 .. N /\ k + 1 = Extension[i] + 2 /\ k \in Kept
            BY <1>3, <3>1, <3>2, <3>6
        <3>8. Cardinality(1 .. k \cap Kept) = k
            <4>1. 1 .. k \cap Kept = 1 .. k
                BY <1>3, <3>1, <3>7
            <4>2. k \in Nat /\ k >= 1
                BY <3>6
            <4>3. Cardinality(1 .. k) = IF 1 > k THEN 0 ELSE k - 1 + 1
                BY <4>2, FS_Interval
            <4> HIDE DEF k
            <4>4. Cardinality(1 .. k) = k
                BY <4>2, <4>3
            <4> QED
                BY <4>1, <4>4
        <3> HIDE DEF k
        <3>9. of(k) = k
            BY <1>9, <3>7, <3>8
        <3>10. size'[k + 1] = dims(amp[k]) /\ k + 1 \in DOMAIN size'
            BY <1>5, <1>7, <1>10, <3>7, <3>9
        <3>11. Wide(amp[k]) = Wide(amp[i]) /\ High(amp[k]) = High(amp[i])
            BY <2>1, <2>4, <3>1, <3>7 DEF Wide, High
        <3> QED
            BY <1>8, <3>1, <3>5, <3>7, <3>10, <3>11
    <2> QED
        BY <1>2, <2>3, <2>4
<1> QED
    BY <1>1, <1>11, <1>12, SameKept DEF MultipleFile

LEMMA InitPlaced == Init => Placed
<1> SUFFICES ASSUME Init PROVE Placed
    OBVIOUS
<1>1. file = <<>> /\ mext = FALSE /\ amp = <<>> /\ outside = FALSE
    BY DEF Init
<1> QED
    BY <1>1 DEF Placed, Lying, MemoryInBox, SingleFile, MultipleFile, Turning

LEMMA SettingPlaced ==
    ASSUME Typed, Placed, SetUp, OffCourse, UNCHANGED <<amp, mext, start, box, totEleRead, tmpptr, size, file, outside>>
    PROVE  Placed'
<1>1. /\ file = <<>> => misused' = misused /\ course' = course
      /\ file # <<>> => misused' # {} /\ course = "on" /\ course' = "stopped"
    BY SetUpSteps DEF Typed
<1>2. MemoryInBox' /\ Turning'
    BY <1>1, SameKept DEF Placed, MemoryInBox, Turning
<1>3. Lying' /\ SingleFile' /\ MultipleFile'
    BY <1>1 DEF Lying, SingleFile, MultipleFile
<1> QED
    BY <1>1, <1>2, <1>3 DEF Placed

\* A memory that is cleared holds nothing.
LEMMA Cleared ==
    ASSUME NEW amps \in Layouts, NEW at, NEW mult \in BOOLEAN, NEW mem, NEW fresh \in BOOLEAN,
           SetValues(amps, at, mult, mem, fresh)
    PROVE  \/ \A i \in 1 .. Len(amps) : DOMAIN tmpptr'[i] = {}
           \/ tmpptr' = mem /\ ~fresh /\ mext = mult /\ box' = box
<1>1. DOMAIN amps = 1 .. Len(amps)
    BY LayoutTypes
<1>2. tmpptr' = [i \in DOMAIN amps |-> <<>>] \/ (tmpptr' = mem /\ ~fresh /\ mext = mult /\ box' = box)
    BY DEF SetValues
<1> QED
    BY <1>1, <1>2

\* Where rotated amplifiers of a multiple file begin.
LEMMA SetTurning ==
    ASSUME NEW amps \in Layouts, amp' = amps, NEW at, NEW mem, NEW fresh \in BOOLEAN,
           SetValues(amps, at, TRUE, mem, fresh)
    PROVE  \A i \in Rotated' :
              start'[i] = <<IF IzToDer(amp'[i]) THEN NRows + 1 - totEleRead' ELSE 1 + totEleRead', 1>>
<1> SUFFICES ASSUME NEW i \in Rotated'
             PROVE  start'[i] = <<IF IzToDer(amp'[i]) THEN NRows + 1 - totEleRead' ELSE 1 + totEleRead', 1>>
    OBVIOUS
<1>1. DOMAIN amps = 1 .. Len(amps)
    BY LayoutTypes
<1>2. i \in DOMAIN amps /\ amps[i].rotate # 0
    BY <1>1 DEF Rotated, Kept, namps
<1>3. start' = [k \in DOMAIN amps |-> Corner(amps[k], at[k], TRUE)] /\ totEleRead' = 0
    BY DEF SetValues
<1>4. start'[i] = Corner(amps[i], at[i], TRUE)
    BY <1>2, <1>3
<1>5. Corner(amps[i], at[i], TRUE) = <<1 + (IF IzToDer(amps[i]) THEN NRows ELSE 0), 1 + 0>>
    BY <1>2 DEF Corner
<1> QED
    <2>1. amp'[i] = amps[i] /\ IzToDer(amp'[i]) = IzToDer(amps[i]) /\ totEleRead' = 0
        BY <1>3
    <2>2. 1 + NRows = NRows + 1 - 0 /\ 1 + 0 = 1
        BY Sizes
    <2>3. CASE IzToDer(amps[i])
        BY <1>4, <1>5, <2>1, <2>2, <2>3
    <2>4. CASE ~IzToDer(amps[i])
        BY <1>4, <1>5, <2>1, <2>2, <2>4
    <2> QED
        BY <2>3, <2>4

LEMMA GFInitPlaced ==
    ASSUME Typed, Placed, NEW layout \in Layouts, NEW mult \in BOOLEAN, NEW wider \in BOOLEAN,
           GFInit(layout, mult, wider)
    PROVE  Placed'
<1>1. /\ amp' = layout /\ SetValues(layout, PlacesOf(layout), mult, <<>>, TRUE)
      /\ UNCHANGED <<outside, file, size>>
      /\ file # <<>> => misused' # {} /\ course' = "stopped"
    BY GFInitSteps DEF Typed
<1>2. mext' = mult /\ namps' = Len(layout)
    BY <1>1 DEF SetValues, namps
<1>3. \A i \in 1 .. namps' : DOMAIN tmpptr'[i] = {}
    BY <1>1, <1>2, Cleared
<1>4. MemoryInBox'
    <2>1. 1 \in 1 .. namps'
        BY <1>2, LayoutTypes, Sizes
    <2> QED
        BY <1>3, <2>1 DEF MemoryInBox
<1>5. Turning'
    <2>1. \A i \in Rotated' : i \in 1 .. namps'
        BY DEF Rotated, Kept
    <2>2. mult => \A i \in Rotated' :
              start'[i] = <<IF IzToDer(amp'[i]) THEN NRows + 1 - totEleRead' ELSE 1 + totEleRead', 1>>
        BY <1>1, SetTurning
    <2> QED
        BY <1>2, <1>3, <2>1, <2>2 DEF Turning, IzToDer
<1>6. Lying' /\ SingleFile' /\ MultipleFile'
    BY <1>1 DEF Lying, SingleFile, MultipleFile
<1> QED
    BY <1>1, <1>4, <1>5, <1>6 DEF Placed

LEMMA PlacesLaid ==
    ASSUME TypeOK, amp # <<>>, Flat
    PROVE  PlacesOf(amp) \in [1 .. Len(amp) -> Spots] /\ \A i \in Kept : PlacesOf(amp)[i] = Laid(0)[i]
<1>1. PlacesOf(amp) \in [1 .. Len(amp) -> Spots]
    BY AmpPlaces
<1>2. ASSUME NEW i \in Kept PROVE PlacesOf(amp)[i] = Laid(0)[i]
    <2>1. i \in 1 .. namps /\ i \in DOMAIN amp /\ amp[i].y \in Nat
        BY AmpTypes DEF Amplifiers
    <2> QED
        BY <2>1 DEF PlacesOf, Laid
<1> QED
    BY <1>1, <1>2

LEMMA SizeBegins ==
    ASSUME Typed, NEW mult \in BOOLEAN, NEW wider, CreateImg(mult, wider)
    PROVE  1 \in DOMAIN size'
<1>1. CASE ~mult
    <2>1. size' = <<ImageSize(box')>>
        BY <1>1 DEF CreateImg
    <2> QED
        BY <2>1
<1>2. CASE mult
    <2> DEFINE N == Cardinality(Kept)
               dims(a) == IF a.rotate = 0 THEN <<NCols, NRows, 1>> ELSE <<NRows, NCols, 1>>
               f == [k \in 1 .. N |-> dims(amp[CHOOSE i \in Kept : Cardinality(1 .. i \cap Kept) = k])]
               D == {<<0, 0, 0>>, <<NCols, NRows, 1>>, <<NRows, NCols, 1>>}
    <2>1. size' = <<<<0, 0, 0>>>> \o f
        BY <1>2 DEF CreateImg
    <2>2. N \in Nat
        <3>1. PICK i \in Kept : TRUE
            BY AmpTypes DEF CreateImg, Typed
        <3> QED
            BY <3>1, KeptCounted DEF Typed
    <2>3. f \in [1 .. N -> D] /\ <<0, 0, 0>> \in D
        OBVIOUS
    <2> HIDE DEF N, f, D
    <2>4. f \in Seq(D) /\ Len(f) = N
        BY <2>2, <2>3, SeqOf
    <2>5. DOMAIN size' = 1 .. N + 1
        BY <2>1, <2>3, <2>4, OneBefore
    <2> QED
        BY <2>2, <2>5
<1> QED
    BY <1>1, <1>2

LEMMA CreatePlaced ==
    ASSUME Typed, Placed, NEW mult \in BOOLEAN, NEW wider \in BOOLEAN, CreateImg(mult, wider)
    PROVE  Placed'
<1>1. /\ amp # <<>> /\ file = <<>> /\ SetValues(amp, PlacesOf(amp), mult, tmpptr, wider)
      /\ UNCHANGED <<amp, Extension, nzim, image, outside>> /\ misused' = Misuses(mult)
      /\ ~mult => /\ size' = <<ImageSize(box')>> /\ roi' = roi
                  /\ is_roi' = (is_roi /\ roi.y + roi.rows - 1 <= box'.rows)
      /\ course # "lost"
    BY CreateSteps
<1>2. TypeOK /\ amp \in Layouts /\ mext' = mult /\ 1 \in 1 .. namps
    BY <1>1, AmpPlaces, LayoutTypes, Sizes DEF Typed, SetValues, namps
<1>3. ~outside' /\ 1 \in DOMAIN size'
    BY <1>1, SizeBegins DEF Placed
<1>4. \/ \A i \in 1 .. namps : DOMAIN tmpptr'[i] = {}
      \/ tmpptr' = tmpptr /\ mext = mult /\ box' = box
    BY <1>1, <1>2, Cleared DEF namps
<1>5. MemoryInBox'
    BY <1>1, <1>2, <1>4, SameKept DEF Placed, MemoryInBox
<1>6. Turning'
    <2>1. mult => \A i \in Rotated' :
              start'[i] = <<IF IzToDer(amp'[i]) THEN NRows + 1 - totEleRead' ELSE 1 + totEleRead', 1>>
        BY <1>1, <1>2, SetTurning
    <2>2. mult => \A i \in Rotated' : DOMAIN tmpptr'[i] \subseteq Within(NRows, NCols)
        <3>1. \A i \in Rotated : i \in 1 .. namps
            BY DEF Rotated, Kept
        <3> QED
            BY <1>1, <1>4, <3>1, SameKept DEF Placed, Turning
    <2> QED
        BY <1>2, <2>1, <2>2 DEF Turning, IzToDer
<1>7. ASSUME ~mult, Flat PROVE LaidOut(0)'
    BY <1>1, <1>2, <1>7, PlacesLaid, SetLaidOut
<1>8. Lying'
    BY <1>1, <1>2, <1>7, SameKept DEF Lying
<1>9. SingleFile'
    <2> SUFFICES ASSUME ~mult, Misuses(mult) = {}
                 PROVE  /\ Flat
                        /\ is_roi' => /\ nzim = 1 /\ size'[1] = <<roi.cols, roi.rows, nzim>>
                                      /\ roi.x + roi.cols - 1 <= Around(0).cols
                                      /\ roi.y + roi.rows - 1 <= Around(0).rows
                        /\ ~is_roi' => size'[1] = <<Around(0).cols, Around(0).rows, nzim>>
        BY <1>1, <1>2, SameKept DEF SingleFile
    <2>1. /\ \A i \in Kept : amp[i].rotate = 0
          /\ is_roi => (roi.x + roi.cols - 1 <= box'.cols) = (roi.y + roi.rows - 1 <= box'.rows)
          /\ is_roi' => ~(nzim > 1)
        <3>1. /\ "rotated image" \notin Misuses(mult) /\ "region half outside" \notin Misuses(mult)
              /\ "region of many" \notin Misuses(mult)
            OBVIOUS
        <3>2. \A i \in Kept : amp[i].rotate = 0
            BY <3>1 DEF Misuses
        <3>3. is_roi => (roi.x + roi.cols - 1 <= box'.cols) = (roi.y + roi.rows - 1 <= box'.rows)
            BY <3>1 DEF Misuses
        <3>4. is_roi' => ~(nzim > 1)
            BY <3>1 DEF Misuses
        <3> QED
            BY <3>2, <3>3, <3>4
    <2>2. Flat /\ box' = Around(0)
        <3>1. Flat
            BY <2>1 DEF Flat
        <3> QED
            BY <1>1, <1>7, <3>1, SameKept DEF LaidOut
    <2>3. size'[1] = ImageSize(box')
        BY <1>1
    <2>4. nzim \in Nat \ {0}
        BY <1>2, WriterAssumption DEF TypeOK
    <2>5. CASE is_roi'
        <3>1. is_roi /\ roi.y + roi.rows - 1 <= box'.rows
            <4>1. is_roi' = (is_roi /\ roi.y + roi.rows - 1 <= box'.rows)
                BY <1>1
            <4> QED
                BY <2>5, <4>1, Zenon
        <3>2. roi.x + roi.cols - 1 <= box'.cols
            BY <2>1, <3>1, Zenon
        <3>3. nzim = 1
            BY <2>1, <2>4, <2>5
        <3>4. size'[1] = <<roi.cols, roi.rows, nzim>>
            BY <2>3, <3>1, <3>2 DEF ImageSize
        <3> QED
            BY <2>2, <2>5, <3>1, <3>2, <3>3, <3>4
    <2>6. CASE ~is_roi'
        <3>1. size'[1] = <<box'.cols, box'.rows, nzim>>
            <4>1. CASE ~is_roi
                BY <2>3, <4>1 DEF ImageSize
            <4>2. CASE is_roi
                <5>1. ~(roi.y + roi.rows - 1 <= box'.rows)
                    <6>1. is_roi' = (is_roi /\ roi.y + roi.rows - 1 <= box'.rows)
                        BY <1>1
                    <6> QED
                        BY <2>6, <4>2, <6>1, Zenon
                <5>2. ~(roi.x + roi.cols - 1 <= box'.cols)
                    BY <2>1, <4>2, <5>1, Zenon
                <5> QED
                    BY <2>3, <5>1, <5>2 DEF ImageSize
            <4> QED
                BY <4>1, <4>2
        <3> QED
            BY <2>2, <2>6, <3>1
    <2> QED
        BY <2>5, <2>6
<1>10. MultipleFile'
    <2>1. CASE mult
        BY <2>1, Housing DEF MultipleFile
    <2>2. CASE ~mult
        BY <1>2, <2>2 DEF MultipleFile
    <2> QED
        BY <2>1, <2>2
<1> QED
    BY <1>3, <1>5, <1>6, <1>8, <1>9, <1>10 DEF Placed

LEMMA ClosePlaced ==
    ASSUME Placed, CloseFile
    PROVE  Placed'
<1>1. UNCHANGED <<amp, mext, start, box, totEleRead, tmpptr, course>> /\ file' = <<>> /\ outside' = FALSE
    BY DEF CloseFile, geometry
<1>2. MemoryInBox' /\ Turning'
    BY <1>1, SameKept DEF Placed, MemoryInBox, Turning
<1> QED
    BY <1>1, <1>2 DEF Placed, Lying, SingleFile, MultipleFile

LEMMA PutAtHome ==
    ASSUME Typed, Turning, mext, course = "on", NEW r \in Nat \ {0}, Fits(r), NEW i \in Kept
    PROVE  /\ PutAt(i, r) = Shifted(Home(amp[i], totEleRead, r), 0, 0)
           /\ totEleRead \in Nat /\ totEleRead + r <= NRows
           /\ i \in 1 .. namps /\ amp[i] \in Amplifiers
           /\ i \in Rotated <=> amp[i].rotate # 0
           /\ Wide(amp[i]) \in Nat /\ High(amp[i]) \in Nat
<1>1. i \in 1 .. namps /\ amp[i] \in Amplifiers
    BY AmpTypes DEF Typed
<1>2. totEleRead \in Nat /\ totEleRead + r <= NRows
    BY Sizes DEF Typed, TypeOK, Fits
<1>3. i \in Rotated <=> amp[i].rotate # 0
    BY DEF Rotated
<1>4. CASE amp[i].rotate = 0
    <2>1. PutAt(i, r) = <<1, IF amp[i].type \in Lower THEN totEleRead + 1 ELSE NRows - totEleRead - r + 1>>
        BY <1>3, <1>4 DEF PutAt, ExtensionSpot
    <2> QED
        BY <1>1, <1>2, <1>3, <1>4, <2>1, Sizes DEF Shifted, Home, Wide, High
<1>5. CASE amp[i].rotate # 0
    <2>1. start[i] = <<IF IzToDer(amp[i]) THEN NRows + 1 - totEleRead ELSE 1 + totEleRead, 1>>
        BY <1>3, <1>5 DEF Turning
    <2>2. PutAt(i, r) = <<IF IzToDer(amp[i]) THEN (NRows + 1 - totEleRead) - r ELSE 1 + totEleRead, 1>>
        BY <1>3, <1>5, <2>1 DEF PutAt, PieceAt, Advanced
    <2> QED
        BY <1>1, <1>2, <1>3, <1>5, <2>2, Sizes DEF Shifted, Home, Wide, High
<1> QED
    BY <1>4, <1>5

\* A rotated amplifier in memory, after a piece.
LEMMA TurnedIs ==
    ASSUME Typed, Turning, mext, course = "on", NEW r \in Nat \ {0}, Fits(r), NEW i \in Rotated
    PROVE  /\ DOMAIN Turned(i, r) \subseteq Within(NRows, NCols)
           /\ DOMAIN Turned(i, r) = DOMAIN tmpptr[i] \cup DOMAIN Piece(i, PutAt(i, r), r)
           /\ \A p \in DOMAIN Turned(i, r) :
                 Turned(i, r)[p] = IF p \in DOMAIN Piece(i, PutAt(i, r), r)
                                   THEN Piece(i, PutAt(i, r), r)[p] ELSE tmpptr[i][p]
           /\ Inside(Area(amp[i], PutAt(i, r), r), NRows, NCols)
<1>1. i \in Kept /\ amp[i].rotate # 0 /\ PutAt(i, r) = PieceAt(amp[i], start[i], r)
    BY DEF Rotated, PutAt
<1>2. /\ PutAt(i, r) = Shifted(Home(amp[i], totEleRead, r), 0, 0) /\ amp[i] \in Amplifiers
      /\ totEleRead \in Nat /\ totEleRead + r <= NRows /\ i \in 1 .. namps
    BY <1>1, PutAtHome
<1>3. Wide(amp[i]) = NRows /\ High(amp[i]) = NCols
    BY <1>1 DEF Wide, High
<1>4. /\ Inside(Area(amp[i], PutAt(i, r), r), NRows, NCols)
      /\ Area(amp[i], PutAt(i, r), r) \subseteq Within(NRows, NCols)
    BY <1>2, <1>3, Sizes, AreaWithin
<1> DEFINE writes == [j \in {i} |-> Piece(j, PieceAt(amp[j], start[j], r), r)]
<1>5. DOMAIN writes = {i} /\ writes[i] = Piece(i, PutAt(i, r), r)
    BY <1>1
<1>6. DOMAIN tmpptr[i] \subseteq Within(NRows, NCols) /\ DOMAIN Piece(i, PutAt(i, r), r) = Area(amp[i], PutAt(i, r), r)
    BY DEF Turning, Piece
<1>7. namps \in Nat /\ DOMAIN writes \subseteq 1 .. namps
    BY <1>2, <1>5, AmpTypes DEF Typed
<1> HIDE DEF writes
<1>8. DOMAIN Overlaid(writes, tmpptr[i]) = DOMAIN tmpptr[i] \cup DOMAIN writes[i]
    BY <1>5 DEF Overlaid
<1>9. ASSUME NEW p \in DOMAIN Overlaid(writes, tmpptr[i])
      PROVE  \/ \E k \in DOMAIN writes : p \in DOMAIN writes[k] /\ Overlaid(writes, tmpptr[i])[p] = writes[k][p]
             \/ /\ p \in DOMAIN tmpptr[i] /\ Overlaid(writes, tmpptr[i])[p] = tmpptr[i][p]
                /\ \A k \in DOMAIN writes : p \notin DOMAIN writes[k]
    BY <1>7, OverlaidIs
<1>10. Turned(i, r) = Overlaid(writes, tmpptr[i])
    BY DEF Turned, writes
<1> QED
    BY <1>4, <1>5, <1>6, <1>8, <1>9, <1>10

\* A region of a memory, in its HDU.
LEMMA CutWithin ==
    ASSUME NEW mem
    PROVE  DOMAIN Cut(mem) \subseteq Within(roi.cols, roi.rows)
BY DEF Cut, Within

LEMMA PlaneInside ==
    ASSUME NEW mem, NEW z, NEW cols, NEW rows, DOMAIN mem \subseteq Within(cols, rows)
    PROVE  Inside(DOMAIN InPlane(mem, z), cols, rows) /\ \A p \in DOMAIN InPlane(mem, z) : p[3] = z
<1> SUFFICES ASSUME NEW p \in DOMAIN InPlane(mem, z) PROVE p[1] \in 1 .. cols /\ p[2] \in 1 .. rows /\ p[3] = z
    BY DEF Inside
<1>1. <<p[1], p[2]>> \in DOMAIN mem /\ p = <<p[1], p[2], z>>
    BY PlaneIs DEF Within
<1> QED
    BY <1>1 DEF Within

LEMMA WriteMultiplePlaced ==
    ASSUME Typed, Placed, NEW r \in Pieces, NEW bad \in 1 .. MaxAmps + 1, WriteMultiple(r, bad)
    PROVE  Placed'
<1>1. /\ file # <<>> /\ mext /\ course = "on" /\ totEleRead' = totEleRead + r
      /\ UNCHANGED <<amp, Extension, size, mext>>
      /\ tmpptr' = [i \in 1 .. namps |-> IF i \in Rotated \cap Reached(bad) THEN Turned(i, r) ELSE tmpptr[i]]
      /\ start' = [i \in 1 .. namps |->
            IF i \in Rotated \cap Reached(bad) THEN Advanced(amp[i], start[i], r) ELSE start[i]]
    BY MultipleSteps
<1>2. r \in Nat \ {0} /\ Turning
    BY WriterAssumption DEF Placed
<1>3. \A i \in Rotated : i \in Kept /\ i \in 1 .. namps
    BY DEF Rotated, Kept
<1>4. ASSUME NEW i \in Rotated, Fits(r)
      PROVE  DOMAIN tmpptr'[i] \subseteq Within(NRows, NCols)
    <2>1. DOMAIN Turned(i, r) \subseteq Within(NRows, NCols)
        BY <1>1, <1>2, <1>4, TurnedIs
    <2>2. DOMAIN tmpptr[i] \subseteq Within(NRows, NCols)
        BY <1>1, <1>2, <1>4 DEF Turning
    <2> QED
        BY <1>1, <1>3, <1>4, <2>1, <2>2
<1>5. ASSUME NEW i \in Rotated, course' = "on"
      PROVE  start'[i] = <<IF IzToDer(amp[i]) THEN NRows + 1 - totEleRead' ELSE 1 + totEleRead', 1>>
    <2>1. start'[i] = Advanced(amp[i], start[i], r) /\ amp[i].rotate # 0
        <3>1. i \in Reached(bad)
            BY <1>3, <1>5, StaysOn
        <3> QED
            BY <1>1, <1>3, <1>5, <3>1 DEF Rotated
    <2>2. start[i] = <<IF IzToDer(amp[i]) THEN NRows + 1 - totEleRead ELSE 1 + totEleRead, 1>>
        BY <1>1, <1>2, <1>5 DEF Turning
    <2>3. totEleRead \in Nat /\ totEleRead' = totEleRead + r
        BY <1>1, Sizes DEF Typed, TypeOK
    <2>4. CASE IzToDer(amp[i])
        <3>1. start'[i] = <<(NRows + 1 - totEleRead) - r, 1>>
            BY <2>1, <2>2, <2>4 DEF Advanced
        <3>2. (NRows + 1 - totEleRead) - r = NRows + 1 - (totEleRead + r)
            BY <1>2, <2>3, Sizes
        <3> QED
            BY <2>3, <2>4, <3>1, <3>2
    <2>5. CASE ~IzToDer(amp[i])
        <3>1. start'[i] = <<(1 + totEleRead) + r, 1>>
            BY <2>1, <2>2, <2>5 DEF Advanced
        <3>2. (1 + totEleRead) + r = 1 + (totEleRead + r)
            BY <1>2, <2>3
        <3> QED
            BY <2>3, <2>5, <3>1, <3>2
    <2> QED
        BY <2>4, <2>5
<1>6. Turning'
    <2>1. Rotated' = Rotated /\ amp' = amp
        BY <1>1, SameKept
    <2>2. course' # "lost" => Fits(r)
        BY StaysOn
    <2> QED
        BY <1>4, <1>5, <2>1, <2>2 DEF Turning, IzToDer
<1>7. DOMAIN file' = DOMAIN file /\ file' # <<>>
    <2>1. DOMAIN file' = DOMAIN file
        BY MultipleSteps
    <2>2. DOMAIN file # {}
        BY <1>1 DEF Placed, Typed, TypeOK
    <2> QED
        BY <2>1, <2>2
<1>8. MultipleFile'
    <2>1. \A i : HduOf(i)' = HduOf(i)
        BY <1>1, SameKept DEF HduOf
    <2>2. misused' = {} => misused = {}
        BY StaysOn
    <2> QED
        BY <1>1, <2>1, <2>2, SameKept DEF Placed, MultipleFile
<1>9. outside' => misused' # {}
    <2> SUFFICES ASSUME misused' = {} PROVE ~outside'
        OBVIOUS
    <2>1. misused = {} /\ ~outside /\ Fits(r)
        BY StaysOn DEF Placed
    <2>2. ASSUME NEW i \in Kept
          PROVE  /\ InsideHdu(DOMAIN InPlane(Writes(r, bad)[i], 1), HduOf(i))
                 /\ i \in Rotated => Inside(Area(amp[i], PieceAt(amp[i], start[i], r), r), NRows, NCols)
        <3>1. /\ PutAt(i, r) = Shifted(Home(amp[i], totEleRead, r), 0, 0) /\ amp[i] \in Amplifiers
              /\ totEleRead \in Nat /\ totEleRead + r <= NRows
              /\ i \in Rotated <=> amp[i].rotate # 0
              /\ Wide(amp[i]) \in Nat /\ High(amp[i]) \in Nat
            BY <1>1, <1>2, <2>1, PutAtHome
        <3>2. /\ HduOf(i) \in DOMAIN size
              /\ size[HduOf(i)] = <<Wide(amp[i]), High(amp[i]), 1>>
            BY <1>1, <2>1 DEF Placed, MultipleFile
        <3>3. DOMAIN Writes(r, bad)[i] \subseteq Within(Wide(amp[i]), High(amp[i]))
            <4>1. CASE i \notin Rotated
                <5>1. DOMAIN Writes(r, bad)[i] = Area(amp[i], PutAt(i, r), r) \/ Writes(r, bad)[i] = <<>>
                    BY <4>1 DEF Writes, PutAt, Piece
                <5>2. 0 + Wide(amp[i]) <= Wide(amp[i]) /\ 0 + High(amp[i]) <= High(amp[i]) /\ 0 \in Nat
                    BY <3>1
                <5>3. Area(amp[i], Shifted(Home(amp[i], totEleRead, r), 0, 0), r)
                          \subseteq Within(Wide(amp[i]), High(amp[i]))
                    BY <1>2, <3>1, <5>2, AreaWithin
                <5>4. CASE DOMAIN Writes(r, bad)[i] = Area(amp[i], PutAt(i, r), r)
                    BY <3>1, <5>3, <5>4
                <5>5. CASE Writes(r, bad)[i] = <<>>
                    BY <5>5
                <5> QED
                    BY <5>1, <5>4, <5>5
            <4>2. CASE i \in Rotated
                <5>1. Writes(r, bad)[i] = tmpptr'[i] \/ Writes(r, bad)[i] = <<>>
                    BY <4>2 DEF Writes
                <5>2. DOMAIN tmpptr'[i] \subseteq Within(Wide(amp[i]), High(amp[i]))
                    BY <1>4, <2>1, <3>1, <4>2 DEF Wide, High
                <5> QED
                    BY <5>1, <5>2
            <4> QED
                BY <4>1, <4>2
        <3>4. InsideHdu(DOMAIN InPlane(Writes(r, bad)[i], 1), HduOf(i))
            <4> HIDE DEF Writes
            <4>1. /\ Inside(DOMAIN InPlane(Writes(r, bad)[i], 1), Wide(amp[i]), High(amp[i]))
                  /\ \A p \in DOMAIN InPlane(Writes(r, bad)[i], 1) : p[3] = 1
                BY <3>3, PlaneInside
            <4> QED
                BY <3>2, <4>1 DEF InsideHdu
        <3>5. i \in Rotated => Inside(Area(amp[i], PieceAt(amp[i], start[i], r), r), NRows, NCols)
            BY <1>1, <1>2, <2>1, TurnedIs DEF PutAt
        <3> QED
            BY <3>4, <3>5
    <2> QED
        BY <2>1, <2>2, MultipleSteps
<1> QED
    BY <1>1, <1>6, <1>7, <1>8, <1>9 DEF Placed, Lying, MemoryInBox, SingleFile

\* The image a single file takes from memory fits its HDU.
LEMMA ShownInside ==
    ASSUME Typed, Placed, misused = {}, file # <<>>, ~mext, ~(nzcnt >= nzim), course = "on",
           NEW r \in Nat \ {0}, Fits(r)
    PROVE  InsideHdu(DOMAIN Shown(r), 1)
<1>1. Flat /\ amp # <<>> /\ TypeOK /\ MemoryInBox /\ DOMAIN size = {1}
    BY DEF Placed, SingleFile, Typed, Kinds
<1>2. PICK d \in Nat : LaidOut(d) /\ (d # 0 /\ Mixed => nzcnt >= nzim)
    BY <1>1 DEF Placed, Lying
<1>3. nzcnt + 1 \in 1 .. nzim
    BY <1>1, WriterAssumption DEF TypeOK
<1>4. box.cols = Around(0).cols /\ box.rows = Around(0).rows
    BY <1>1, <1>2, <1>3, SameShape DEF LaidOut
<1>5. DOMAIN Memory(r) \subseteq Within(box.cols, box.rows)
    BY <1>1, <1>2, MemoryWithin
<1>6. CASE is_roi
    <2>1. size[1] = <<roi.cols, roi.rows, 1>>
        BY <1>6 DEF Placed, SingleFile
    <2>2. Inside(DOMAIN Shown(r), roi.cols, roi.rows) /\ \A p \in DOMAIN Shown(r) : p[3] = 1
        BY <1>6, CutWithin, PlaneInside DEF Shown
    <2> QED
        BY <1>1, <2>1, <2>2 DEF InsideHdu
<1>7. CASE ~is_roi
    <2>1. size[1] = <<box.cols, box.rows, nzim>>
        BY <1>4, <1>7 DEF Placed, SingleFile
    <2>2. Inside(DOMAIN Shown(r), box.cols, box.rows) /\ \A p \in DOMAIN Shown(r) : p[3] = nzcnt + 1
        BY <1>5, <1>7, PlaneInside DEF Shown
    <2> QED
        BY <1>1, <1>3, <2>1, <2>2 DEF InsideHdu
<1> QED
    BY <1>6, <1>7

\* The places of the next image of a file.
NextPlaces(r, from_buf) == IF from_buf THEN After(r) ELSE PlacesOf(amp)

LEMMA NextLaid ==
    ASSUME Typed, ~mext, course = "on", amp # <<>>, Flat, NEW d \in Nat, LaidOut(d), NEW r \in Nat \ {0},
           Fits(r), Completes(r), NEW from_buf \in BOOLEAN
    PROVE  /\ NextPlaces(r, from_buf) \in [1 .. Len(amp) -> Spots]
           /\ \A i \in Kept : NextPlaces(r, from_buf)[i] = Laid(IF from_buf THEN d + NRows ELSE 0)[i]
<1>1. TypeOK /\ Cursors /\ start \in Seq(Spots) /\ Len(start) = namps /\ namps \in Nat
    BY AmpTypes DEF Typed, TypeOK, Spots
<1>2. CASE ~from_buf
    BY <1>1, <1>2, PlacesLaid DEF NextPlaces
<1>3. CASE from_buf
    <2>1. After(r) \in [1 .. namps -> Spots]
        <3>1. \A i \in Kept : Advanced(amp[i], start[i], r) \in Spots
            BY <1>1, KeptTyped, AdvancedType DEF Cursors
        <3> QED
            BY <1>1, <3>1 DEF After
    <2>2. ASSUME NEW i \in Kept PROVE After(r)[i] = Laid(d + NRows)[i]
        <3>1. /\ i \in 1 .. namps /\ amp[i] \in Amplifiers /\ amp[i].rotate = 0
              /\ amp[i].x \in Nat /\ amp[i].y \in Nat
            BY <1>1, AmpTypes DEF Flat, Amplifiers
        <3>2. After(r)[i] = Advanced(amp[i], start[i], r)
            BY <3>1 DEF After
        <3>3. start[i] = Cursor(i, d)
            BY DEF LaidOut
        <3>4. totEleRead \in Nat /\ totEleRead + r = NRows
            BY <1>1, Sizes DEF TypeOK, Fits, Completes
        <3>5. CASE amp[i].type \in Lower
            <4>1. start[i] = <<amp[i].x + 0, (amp[i].y + d) + totEleRead>>
                BY <3>1, <3>3, <3>5 DEF Cursor, Laid, Shifted
            <4>2. Advanced(amp[i], start[i], r) = <<amp[i].x + 0, ((amp[i].y + d) + totEleRead) + r>>
                BY <3>1, <3>5, <4>1 DEF Advanced
            <4>3. Laid(d + NRows)[i] = <<amp[i].x, amp[i].y + (d + NRows)>>
                BY <3>1, <3>5 DEF Laid
            <4>4. amp[i].x + 0 = amp[i].x /\ ((amp[i].y + d) + totEleRead) + r = amp[i].y + (d + NRows)
                BY <3>1, <3>4, Sizes
            <4> QED
                BY <3>2, <4>2, <4>3, <4>4
        <3>6. CASE amp[i].type \notin Lower
            <4>1. start[i] = <<amp[i].x + 0, amp[i].y + (NRows - totEleRead)>>
                BY <3>1, <3>3, <3>6 DEF Cursor, Laid, Shifted
            <4>2. Advanced(amp[i], start[i], r) = <<amp[i].x + 0, (amp[i].y + (NRows - totEleRead)) - r>>
                BY <3>1, <3>6, <4>1 DEF Advanced
            <4>3. Laid(d + NRows)[i] = <<amp[i].x, amp[i].y>>
                BY <3>1, <3>6 DEF Laid
            <4>4. amp[i].x + 0 = amp[i].x /\ (amp[i].y + (NRows - totEleRead)) - r = amp[i].y
                BY <3>1, <3>4, Sizes
            <4> QED
                BY <3>2, <4>2, <4>3, <4>4
        <3> QED
            BY <3>5, <3>6
    <2> QED
        BY <1>3, <2>1, <2>2 DEF NextPlaces, namps
<1> QED
    BY <1>2, <1>3

LEMMA SetFlat ==
    ASSUME NEW at, NEW mem, NEW mult \in BOOLEAN, ~mult, SetValues(amp, at, mult, mem, FALSE)
    PROVE  SetValues(amp, at, FALSE, mem, FALSE)
BY DEF SetValues

LEMMA NextSet ==
    ASSUME NEW r \in Pieces, NEW from_buf \in BOOLEAN, NEW fails \in BOOLEAN, WriteSingle(r, from_buf, fails),
           Completes(r), mext \in BOOLEAN
    PROVE  SetValues(amp, NextPlaces(r, from_buf), FALSE, [tmpptr EXCEPT ![1] = Memory(r)], FALSE)
<1> DEFINE at == IF from_buf THEN After(r) ELSE PlacesOf(amp)
           mem == [tmpptr EXCEPT ![1] = Memory(r)]
<1>1. SetValues(amp, at, mext, mem, FALSE) /\ ~mext
    BY SingleSteps
<1>2. NextPlaces(r, from_buf) = at
    BY DEF NextPlaces
<1> HIDE DEF at, mem
<1>3. SetValues(amp, at, FALSE, mem, FALSE)
    BY <1>1, SetFlat
<1>4. SetValues(amp, NextPlaces(r, from_buf), FALSE, mem, FALSE)
    BY <1>2, <1>3 DEF SetValues
<1> QED
    BY <1>4 DEF mem

LEMMA WriteSinglePlaced ==
    ASSUME Typed, Placed, NEW r \in Pieces, NEW from_buf \in BOOLEAN, NEW fails \in BOOLEAN,
           WriteSingle(r, from_buf, fails)
    PROVE  Placed'
<1>1. /\ file # <<>> /\ ~mext /\ course = "on" /\ course' = IF Fits(r) THEN "on" ELSE "lost"
      /\ UNCHANGED <<amp, Extension, nzim, roi, is_roi, size>>
    BY SingleSteps
<1>2. r \in Nat \ {0} /\ TypeOK /\ amp # <<>> /\ MemoryInBox /\ DOMAIN size = {1} /\ amp \in Layouts /\ 1 \in 1 .. namps
    BY <1>1, WriterAssumption, AmpTypes, AmpPlaces, Sizes DEF Typed, Kinds, Placed
<1>3. misused \subseteq misused' /\ (misused' = {} => misused = {} /\ Fits(r) /\ ~(nzcnt >= nzim))
    BY SingleMisuses
<1>4. ~mext' /\ DOMAIN tmpptr = 1 .. namps
    <2>1. CASE Completes(r)
        BY <1>1, <2>1, SingleSteps DEF SetValues, Typed, Kinds
    <2>2. CASE ~Completes(r)
        BY <1>1, <2>2, SingleSteps DEF Typed, Kinds
    <2> QED
        BY <2>1, <2>2
<1>5. Flat' = Flat /\ Mixed' = Mixed /\ namps' = namps /\ Kept' = Kept
    BY <1>1, SameKept
<1>6. SingleFile'
    <2>1. Around(0)' = Around(0)
        BY <1>1, SameKept
    <2> QED
        BY <1>1, <1>3, <1>5, <2>1 DEF Placed, SingleFile
<1>7. Flat => \E d \in Nat : LaidOut(d) /\ (d # 0 /\ Mixed => misused' # {})
    BY <1>1, <1>3 DEF Placed, Lying
<1>8. Lying'
    <2> SUFFICES ASSUME Flat, Fits(r)
                 PROVE  \E e \in Nat : LaidOut(e)' /\ (e # 0 /\ Mixed => nzcnt' >= nzim' \/ misused' # {})
        BY <1>1, <1>5 DEF Lying
    <2>1. PICK d \in Nat : LaidOut(d) /\ (d # 0 /\ Mixed => misused' # {})
        BY <1>7
    <2>2. CASE Completes(r)
        <3> DEFINE e == IF from_buf THEN d + NRows ELSE 0
        <3>1. e \in Nat
            BY Sizes
        <3>2. /\ NextPlaces(r, from_buf) \in [1 .. Len(amp) -> Spots]
              /\ \A i \in Kept : NextPlaces(r, from_buf)[i] = Laid(e)[i]
            BY <1>1, <1>2, <2>1, <2>2, NextLaid
        <3>3. SetValues(amp, NextPlaces(r, from_buf), FALSE, [tmpptr EXCEPT ![1] = Memory(r)], FALSE)
            BY <1>2, <2>2, NextSet DEF TypeOK
        <3> HIDE DEF e
        <3>4. LaidOut(e)'
            BY <1>1, <1>2, <3>1, <3>2, <3>3, SetLaidOut
        <3>5. e # 0 => from_buf
            BY DEF e
        <3>6. nzcnt' = nzcnt + 1 /\ nzim' = nzim
            BY <1>1, <2>2, SingleSteps
        <3>7. from_buf /\ Mixed => nzcnt' >= nzim' \/ misused' # {}
            <4>1. CASE nzim > 1
                BY <2>2, <4>1, SingleMisuses DEF Mixed
            <4>2. CASE ~(nzim > 1)
                <5>1. nzim \in Nat /\ nzcnt \in Nat
                    BY <1>2, WriterAssumption DEF TypeOK
                <5> QED
                    BY <1>1, <3>6, <4>2, <5>1
            <4> QED
                BY <4>1, <4>2
        <3> QED
            BY <3>1, <3>4, <3>5, <3>7
    <2>3. CASE ~Completes(r)
        <3>1. start' = After(r) /\ box' = box /\ totEleRead' = totEleRead + r
            BY <2>3, SingleSteps
        <3>2. ASSUME NEW i \in Kept PROVE start'[i] = Cursor(i, d)'
            <4>1. /\ i \in 1 .. namps /\ amp[i] \in Amplifiers /\ amp[i].rotate = 0 /\ Laid(d)[i] \in Spots
                BY <1>2, AmpTypes, LaidIs DEF Flat, namps
            <4>2. start'[i] = Advanced(amp[i], start[i], r) /\ start[i] = Cursor(i, d)
                BY <2>1, <3>1, <4>1 DEF After, LaidOut
            <4>3. totEleRead \in Nat /\ r \in Nat /\ totEleRead + r <= NRows
                BY <1>1, <1>2, Sizes DEF TypeOK, Fits
            <4>4. Cursor(i, d)' = Shifted(Laid(d)[i], 0,
                          IF amp[i].type \in Lower THEN totEleRead + r ELSE NRows - (totEleRead + r))
                BY <1>1, <3>1, SameKept DEF Cursor
            <4> DEFINE u == Laid(d)[i][1]  v == Laid(d)[i][2]
            <4>5. u \in Nat /\ v \in Nat
                BY <4>1 DEF Spots
            <4>6. CASE amp[i].type \in Lower
                <5>1. start[i] = <<u + 0, v + totEleRead>>
                    BY <4>2, <4>6 DEF Cursor, Shifted
                <5>2. start'[i] = <<u + 0, (v + totEleRead) + r>>
                    BY <4>1, <4>2, <4>6, <5>1 DEF Advanced
                <5>3. Cursor(i, d)' = <<u + 0, v + (totEleRead + r)>>
                    BY <4>4, <4>6 DEF Shifted
                <5>4. (v + totEleRead) + r = v + (totEleRead + r)
                    BY <4>3, <4>5
                <5> QED
                    BY <5>2, <5>3, <5>4
            <4>7. CASE amp[i].type \notin Lower
                <5>1. start[i] = <<u + 0, v + (NRows - totEleRead)>>
                    BY <4>2, <4>7 DEF Cursor, Shifted
                <5>2. start'[i] = <<u + 0, (v + (NRows - totEleRead)) - r>>
                    BY <4>1, <4>2, <4>7, <5>1 DEF Advanced
                <5>3. Cursor(i, d)' = <<u + 0, v + (NRows - (totEleRead + r))>>
                    BY <4>4, <4>7 DEF Shifted
                <5>4. (v + (NRows - totEleRead)) - r = v + (NRows - (totEleRead + r))
                    BY <4>3, <4>5, Sizes
                <5> QED
                    BY <5>2, <5>3, <5>4
            <4> QED
                BY <4>6, <4>7
        <3>3. LaidOut(d)'
            BY <1>1, <1>5, <2>1, <3>1, <3>2, SameKept DEF LaidOut
        <3> QED
            BY <2>1, <3>1, <3>3
    <2> QED
        BY <2>2, <2>3
<1>9. MemoryInBox'
    <2> SUFFICES ASSUME Flat, Fits(r) PROVE DOMAIN tmpptr'[1] \subseteq Within(box'.cols, box'.rows)
        BY <1>1, <1>5 DEF MemoryInBox
    <2>1. PICK d \in Nat : LaidOut(d)
        BY <1>7
    <2>2. DOMAIN Memory(r) \subseteq Within(box.cols, box.rows)
        BY <1>1, <1>2, <2>1, MemoryWithin
    <2> DEFINE mem == [tmpptr EXCEPT ![1] = Memory(r)]
    <2>3. mem[1] = Memory(r)
        BY <1>2, <1>4
    <2>4. CASE Completes(r)
        <3>1. SetValues(amp, NextPlaces(r, from_buf), FALSE, mem, FALSE)
            BY <1>2, <2>4, NextSet DEF TypeOK
        <3>2. \/ \A i \in 1 .. Len(amp) : DOMAIN tmpptr'[i] = {}
              \/ tmpptr' = mem /\ box' = box
            BY <1>2, <3>1, Cleared
        <3> QED
            BY <1>2, <2>2, <2>3, <3>2 DEF namps
    <2>5. CASE ~Completes(r)
        BY <2>2, <2>3, <2>5, SingleSteps
    <2> QED
        BY <2>4, <2>5
<1>10. outside' => misused' # {}
    <2> SUFFICES ASSUME misused' = {} PROVE ~outside'
        OBVIOUS
    <2>1. misused = {} /\ ~outside /\ Fits(r) /\ ~(nzcnt >= nzim)
        BY <1>3 DEF Placed
    <2>2. Flat
        BY <1>1, <2>1 DEF Placed, SingleFile
    <2>3. PICK d \in Nat : LaidOut(d)
        BY <1>7, <2>2
    <2>4. \A i \in Kept : Inside(Area(amp[i], Spot(r)[i], r), box.cols, box.rows)
        BY <1>1, <1>2, <2>1, <2>2, <2>3, MemoryWithin
    <2>5. InsideHdu(DOMAIN Shown(r), 1)
        BY <1>1, <1>2, <2>1, ShownInside
    <2> QED
        BY <2>1, <2>4, <2>5, SingleSteps
<1>11. file' # <<>>
    <2>1. CASE Completes(r)
        <3>1. file' = file \/ \E f : file' = <<f>>
            BY <2>1, SingleSteps
        <3> QED
            BY <1>1, <3>1
    <2>2. CASE ~Completes(r)
        BY <1>1, <2>2, SingleSteps
    <2> QED
        BY <2>1, <2>2
<1> QED
    BY <1>1, <1>2, <1>4, <1>6, <1>8, <1>9, <1>10, <1>11 DEF Placed, MultipleFile, Turning

LEMMA StepPlaced == Typed /\ Placed /\ [Next]_vars => Placed'
<1> SUFFICES ASSUME Typed, Placed, [Next]_vars PROVE Placed'
    OBVIOUS
<1>1. CASE \E mult, wider \in BOOLEAN, layout \in Layouts : GFInit(layout, mult, wider)
    BY <1>1, GFInitPlaced
<1>2. CASE \E mult, wider \in BOOLEAN : CreateImg(mult, wider)
    BY <1>2, CreatePlaced
<1>3. CASE \E map \in Maps, past \in Beyond : SetExtensions(map, past)
    BY <1>3, SettingPlaced DEF SetExtensions
<1>4. CASE InitExtensions
    BY <1>4, SettingPlaced DEF InitExtensions
<1>5. CASE \E n \in Depths : SetZAxis(n)
    BY <1>5, SettingPlaced DEF SetZAxis
<1>6. CASE \E region \in Regions \cup {NoRegion} : SetRoi(region)
    BY <1>6, SettingPlaced DEF SetRoi
<1>7. CASE \E r \in Pieces, bad \in 1 .. MaxAmps + 1 : WriteMultiple(r, bad)
    BY <1>7, WriteMultiplePlaced
<1>8. CASE \E r \in Pieces, from_buf, fails \in BOOLEAN : WriteSingle(r, from_buf, fails)
    BY <1>8, WriteSinglePlaced
<1>9. CASE CloseFile
    BY <1>9, ClosePlaced
<1>10. CASE UNCHANGED vars
    <2>1. UNCHANGED <<amp, Extension, nzim, roi, is_roi, mext, start, box, totEleRead, nzcnt, tmpptr, size, file,
                      misused, outside, course>>
        BY <1>10 DEF vars, geometry
    <2>2. \A i : HduOf(i)' = HduOf(i)
        BY <2>1, SameKept DEF HduOf
    <2>3. \A d : LaidOut(d)' = LaidOut(d)
        BY <2>1, SameKept DEF LaidOut, Cursor
    <2>4. Lying' /\ MemoryInBox'
        BY <2>1, <2>3, SameKept DEF Placed, Lying, MemoryInBox
    <2>5. SingleFile' /\ MultipleFile' /\ Turning'
        BY <2>1, <2>2, SameKept DEF Placed, SingleFile, MultipleFile, Turning
    <2> QED
        BY <2>1, <2>4, <2>5 DEF Placed
<1> QED
    BY <1>1, <1>2, <1>3, <1>4, <1>5, <1>6, <1>7, <1>8, <1>9, <1>10 DEF Next

\* Whatever the amplifiers and the pieces are and whichever write fails, as long as a caller
\* keeps to the rows and the images it has asked for and uses the library for what it supports,
\* nothing is put outside of the image in memory, of the HDU or of the images the HDU has, by
\* GF_writeImage_Single() or GF_writeImage_Multiple().
THEOREM NothingGoesOutside == Spec => []NothingOutside
<1>1. Init => Typed /\ Placed
    BY InitTyped, InitPlaced
<1>2. Typed /\ Placed /\ [Next]_vars => (Typed /\ Placed)'
    BY StepTyped, StepPlaced
<1>3. Placed => NothingOutside
    BY DEF Placed, NothingOutside
<1> QED
    BY <1>1, <1>2, <1>3, PTL DEF Spec

-----------------------------------------------------------------------------
(* What the memory and the file hold.  A pixel in memory lies where it belongs; while an *)
(* image is written, the rows that were are in memory, of this image. *)

\* A lower amplifier lies below all the upper ones.  A buffer of several images moves the
\* lower ones; with such a layout the box moves with them, and what was put down is cleared.
LowerFirst ==
    \A layout \in Layouts :
        LET kept == {i \in 1 .. Len(layout) : ~layout[i].discard}
            upper == {i \in kept : layout[i].type \notin Lower}
        IN  (\A i \in kept : layout[i].rotate = 0) /\ (\E i \in kept : i \notin upper) /\ upper # {}
                => \E i \in kept : i \notin upper /\ \A j \in upper : layout[i].y < layout[j].y

\* A pixel of the i-th amplifier at its seat, in an image that begins <<dx, dy>> before it.
Mine(pixel, p, i, dx, dy) ==
    /\ pixel.amp = i /\ pixel.col \in 0 .. NCols - 1 /\ pixel.row \in 0 .. NRows - 1
    /\ p = Seated(amp[i], pixel.col, pixel.row, dx, dy)

Across(i) == amp[i].x - Around(0).x
Along(i) == amp[i].y - Around(0).y

MemoryOwned ==
    ~mext /\ Flat /\ amp # <<>> /\ course # "lost" /\ (Mixed => box = Around(0)) =>
        \A p \in DOMAIN tmpptr[1] : \E i \in Kept : Mine(tmpptr[1][p], p, i, Across(i), Along(i))

MemoryNow ==
    ~mext /\ file # <<>> /\ misused = {} /\ course = "on" =>
        \A i \in Kept, col \in 0 .. NCols - 1, row \in 0 .. totEleRead - 1 :
            LET p == Seated(amp[i], col, row, Across(i), Along(i))
            IN  p \in DOMAIN tmpptr[1] /\ tmpptr[1][p].image = image

TurnedOwned ==
    mext /\ course # "lost" => \A i \in Rotated : \A p \in DOMAIN tmpptr[i] : Mine(tmpptr[i][p], p, i, 0, 0)

TurnedNow ==
    mext /\ file # <<>> /\ course = "on" =>
        \A i \in Rotated, col \in 0 .. NCols - 1, row \in 0 .. totEleRead - 1 :
            LET p == Seated(amp[i], col, row, 0, 0)
            IN  p \in DOMAIN tmpptr[i] /\ tmpptr[i][p].image = image

\* The rows of a multiple file that were written, but for the HDUs that a write failed for.
SentSoFar ==
    mext /\ file # <<>> /\ misused = {} /\ course = "on" =>
        \A i \in Kept, col \in 0 .. NCols - 1, row \in 0 .. totEleRead - 1 :
            LET p == Seated(amp[i], col, row, 0, 0)
            IN  (i \notin Rotated \/ totEleRead = NRows) /\ <<HduOf(i), 1>> \notin failed
                    => <<p[1], p[2], 1>> \in DOMAIN file[HduOf(i)]

LEMMA BoxMoves ==
    ASSUME TypeOK, LowerFirst, amp # <<>>, Flat, Mixed, NEW d \in Nat, Around(d) = Around(0)
    PROVE  d = 0
<1>1. amp \in Layouts /\ Kept = {i \in 1 .. Len(amp) : ~amp[i].discard}
    BY DEF TypeOK, Kept, namps
<1>2. PICK k \in Kept : amp[k].type \in Lower /\ \A j \in Kept : amp[j].type \notin Lower => amp[k].y < amp[j].y
    <2> DEFINE upper == {i \in Kept : amp[i].type \notin Lower}
    <2>1. (\A i \in Kept : amp[i].rotate = 0) /\ (\E i \in Kept : i \notin upper) /\ upper # {}
              => \E i \in Kept : i \notin upper /\ \A j \in upper : amp[i].y < amp[j].y
        BY <1>1 DEF LowerFirst
    <2>2. (\A i \in Kept : amp[i].rotate = 0) /\ (\E i \in Kept : i \notin upper) /\ upper # {}
        BY DEF Flat, Mixed
    <2> QED
        BY <2>1, <2>2
<1>3. Encloses(Around(0), Kept, Laid(0)) /\ Encloses(Around(d), Kept, Laid(d))
    BY LaidIs
<1>4. PICK i \in Kept : Laid(d)[i][2] = Around(0).y
    BY <1>3 DEF Encloses
<1>5. Around(0).y \in Nat /\ Around(0).y <= Laid(0)[i][2] /\ Around(0).y <= Laid(0)[k][2]
    BY <1>3 DEF Encloses
<1>6. amp[i].y \in Nat /\ amp[k].y \in Nat /\ i \in 1 .. namps /\ k \in 1 .. namps
    BY AmpTypes DEF Amplifiers
<1>7. /\ Laid(0)[i][2] = amp[i].y /\ Laid(0)[k][2] = amp[k].y
      /\ Laid(d)[i][2] = IF amp[i].type \in Lower THEN amp[i].y + d ELSE amp[i].y
    BY <1>6 DEF Laid
<1> DEFINE m == Around(0).y
<1> HIDE DEF m
<1>8. m \in Nat /\ m <= amp[i].y /\ m <= amp[k].y
      /\ m = IF amp[i].type \in Lower THEN amp[i].y + d ELSE amp[i].y
    BY <1>4, <1>5, <1>7 DEF m
<1>9. CASE amp[i].type \in Lower
    BY <1>6, <1>8, <1>9
<1>10. CASE amp[i].type \notin Lower
    <2>1. amp[k].y < amp[i].y
        BY <1>2, <1>10
    <2> QED
        BY <1>6, <1>8, <1>10, <2>1
<1> QED
    BY <1>9, <1>10

\* In memory an amplifier lies as far from the corner as on the detector.
LEMMA OffsetIs ==
    ASSUME TypeOK, LowerFirst, amp # <<>>, Flat, NEW d \in Nat, LaidOut(d), Mixed => box = Around(0),
           NEW i \in Kept
    PROVE  Laid(d)[i][1] - box.x = Across(i) /\ Laid(d)[i][2] - box.y = Along(i)
<1>1. box = Around(d)
    BY DEF LaidOut
<1>2. Mixed => d = 0
    BY <1>1, BoxMoves
<1> QED
    BY <1>1, <1>2, SameShape DEF Across, Along

LEMMA SpotSeated ==
    ASSUME TypeOK, LowerFirst, amp # <<>>, Flat, NEW d \in Nat, LaidOut(d), Mixed => box = Around(0),
           NEW r \in Nat \ {0}, Fits(r), NEW i \in Kept
    PROVE  /\ Spot(r)[i] = Shifted(Home(amp[i], totEleRead, r), Across(i), Along(i))
           /\ Across(i) \in Nat /\ Along(i) \in Nat
           /\ totEleRead \in Nat /\ totEleRead + r <= NRows
<1>1. /\ Spot(r)[i] = Shifted(Home(amp[i], totEleRead, r), Laid(d)[i][1] - box.x, Laid(d)[i][2] - box.y)
      /\ Laid(d)[i][1] - box.x \in Nat /\ Laid(d)[i][2] - box.y \in Nat
      /\ totEleRead \in Nat /\ totEleRead + r <= NRows
    BY SpotIs
<1>2. Laid(d)[i][1] - box.x = Across(i) /\ Laid(d)[i][2] - box.y = Along(i)
    BY OffsetIs
<1> QED
    BY <1>1, <1>2

\* A piece holds the next rows of its amplifier, and nothing else.
LEMMA PieceIs ==
    ASSUME NEW i, amp[i] \in Amplifiers, NEW r \in Nat \ {0}, totEleRead \in Nat, totEleRead + r <= NRows,
           NEW dx \in Int, NEW dy \in Int, NEW at, at = Shifted(Home(amp[i], totEleRead, r), dx, dy)
    PROVE  /\ \A p \in DOMAIN Piece(i, at, r) :
                 Mine(Piece(i, at, r)[p], p, i, dx, dy) /\ Piece(i, at, r)[p].image = image
           /\ \A col \in 0 .. NCols - 1, row \in totEleRead .. totEleRead + r - 1 :
                 Seated(amp[i], col, row, dx, dy) \in DOMAIN Piece(i, at, r)
<1>1. DOMAIN Piece(i, at, r) = Area(amp[i], at, r)
    BY DEF Piece
<1>2. ASSUME NEW p \in DOMAIN Piece(i, at, r)
      PROVE  Mine(Piece(i, at, r)[p], p, i, dx, dy) /\ Piece(i, at, r)[p].image = image
    <2>1. PICK col \in 0 .. NCols - 1, row \in totEleRead .. totEleRead + r - 1 :
              /\ p = Seated(amp[i], col, row, dx, dy)
              /\ Unscrambled(amp[i], r, p[1] - at[1], p[2] - at[2]) = <<col, row - totEleRead>>
        BY <1>1, PieceHolds
    <2>2. Piece(i, at, r)[p] = PixelOf(i, at, r, p)
        BY <1>1 DEF Piece
    <2>3. PixelOf(i, at, r, p) = [image |-> image, amp |-> i, col |-> col, row |-> totEleRead + (row - totEleRead)]
        BY <2>1 DEF PixelOf
    <2>4. totEleRead + (row - totEleRead) = row /\ row \in 0 .. NRows - 1
        BY Sizes
    <2> QED
        BY <2>1, <2>2, <2>3, <2>4 DEF Mine
<1>3. ASSUME NEW col \in 0 .. NCols - 1, NEW row \in totEleRead .. totEleRead + r - 1
      PROVE  Seated(amp[i], col, row, dx, dy) \in DOMAIN Piece(i, at, r)
    BY <1>1, PieceAtSeat
<1> QED
    BY <1>2, <1>3

LEMMA SinglePieceIs ==
    ASSUME TypeOK, LowerFirst, amp # <<>>, Flat, NEW d \in Nat, LaidOut(d), Mixed => box = Around(0),
           NEW r \in Nat \ {0}, Fits(r), NEW i \in Kept
    PROVE  /\ \A p \in DOMAIN Piece(i, Spot(r)[i], r) :
                 /\ Mine(Piece(i, Spot(r)[i], r)[p], p, i, Across(i), Along(i))
                 /\ Piece(i, Spot(r)[i], r)[p].image = image
           /\ \A col \in 0 .. NCols - 1, row \in totEleRead .. totEleRead + r - 1 :
                 Seated(amp[i], col, row, Across(i), Along(i)) \in DOMAIN Piece(i, Spot(r)[i], r)
<1>1. /\ Spot(r)[i] = Shifted(Home(amp[i], totEleRead, r), Across(i), Along(i))
      /\ Across(i) \in Nat /\ Along(i) \in Nat
      /\ totEleRead \in Nat /\ totEleRead + r <= NRows
    BY SpotSeated
<1>2. amp[i] \in Amplifiers
    BY AmpTypes
<1> DEFINE dx == Across(i)  dy == Along(i)  at == Spot(r)[i]
<1>3. dx \in Int /\ dy \in Int /\ at = Shifted(Home(amp[i], totEleRead, r), dx, dy)
    BY <1>1
<1> HIDE DEF dx, dy, at
<1>4. /\ \A p \in DOMAIN Piece(i, at, r) :
             Mine(Piece(i, at, r)[p], p, i, dx, dy) /\ Piece(i, at, r)[p].image = image
      /\ \A col \in 0 .. NCols - 1, row \in totEleRead .. totEleRead + r - 1 :
             Seated(amp[i], col, row, dx, dy) \in DOMAIN Piece(i, at, r)
    <2>1. totEleRead \in Nat /\ totEleRead + r <= NRows
        BY <1>1
    <2>2. \A p \in DOMAIN Piece(i, at, r) :
              Mine(Piece(i, at, r)[p], p, i, dx, dy) /\ Piece(i, at, r)[p].image = image
        <3> SUFFICES ASSUME NEW p \in DOMAIN Piece(i, at, r)
                     PROVE  Mine(Piece(i, at, r)[p], p, i, dx, dy) /\ Piece(i, at, r)[p].image = image
            OBVIOUS
        <3>1. Mine(Piece(i, at, r)[p], p, i, dx, dy)
            BY <1>2, <1>3, <2>1, PieceIs, ZenonT(30)
        <3>2. Piece(i, at, r)[p].image = image
            <4>1. Piece(i, at, r)[p] = PixelOf(i, at, r, p)
                BY DEF Piece
            <4> QED
                BY <4>1 DEF PixelOf
        <3> QED
            BY <3>1, <3>2
    <2>3. \A col \in 0 .. NCols - 1, row \in totEleRead .. totEleRead + r - 1 :
              Seated(amp[i], col, row, dx, dy) \in DOMAIN Piece(i, at, r)
        BY <1>2, <1>3, <2>1, PieceIs
    <2> QED
        BY <2>2, <2>3
<1> QED
    BY <1>4 DEF dx, dy, at

\* The image in memory after a piece, as its writes.
LEMMA MemoryIs ==
    ASSUME TypeOK, NEW r
    PROVE  /\ DOMAIN Memory(r) = DOMAIN tmpptr[1] \cup UNION {DOMAIN Piece(i, Spot(r)[i], r) : i \in Kept}
           /\ \A p \in DOMAIN Memory(r) :
                 \/ \E i \in Kept : /\ p \in DOMAIN Piece(i, Spot(r)[i], r)
                                    /\ Memory(r)[p] = Piece(i, Spot(r)[i], r)[p]
                 \/ /\ p \in DOMAIN tmpptr[1] /\ Memory(r)[p] = tmpptr[1][p]
                    /\ \A i \in Kept : p \notin DOMAIN Piece(i, Spot(r)[i], r)
<1> DEFINE writes == [i \in Kept |-> Piece(i, Spot(r)[i], r)]
<1>1. namps \in Nat /\ Kept \subseteq 1 .. namps
    BY AmpTypes
<1>2. DOMAIN writes = Kept /\ DOMAIN writes \subseteq 1 .. namps /\ \A i \in Kept : writes[i] = Piece(i, Spot(r)[i], r)
    BY <1>1
<1>3. Memory(r) = Overlaid(writes, tmpptr[1])
    BY DEF Memory
<1> HIDE DEF writes
<1>4. DOMAIN Memory(r) = DOMAIN tmpptr[1] \cup UNION {DOMAIN writes[i] : i \in DOMAIN writes}
    BY <1>3, OverlaidDomain
<1>5. UNION {DOMAIN writes[i] : i \in DOMAIN writes} = UNION {DOMAIN Piece(i, Spot(r)[i], r) : i \in Kept}
    BY <1>2
<1>6. ASSUME NEW p \in DOMAIN Memory(r)
      PROVE  \/ \E i \in DOMAIN writes : p \in DOMAIN writes[i] /\ Memory(r)[p] = writes[i][p]
             \/ /\ p \in DOMAIN tmpptr[1] /\ Memory(r)[p] = tmpptr[1][p]
                /\ \A i \in DOMAIN writes : p \notin DOMAIN writes[i]
    <2>1. p \in DOMAIN Overlaid(writes, tmpptr[1])
        BY <1>3
    <2>2. \/ \E i \in DOMAIN writes : p \in DOMAIN writes[i] /\ Overlaid(writes, tmpptr[1])[p] = writes[i][p]
          \/ /\ p \in DOMAIN tmpptr[1] /\ Overlaid(writes, tmpptr[1])[p] = tmpptr[1][p]
             /\ \A i \in DOMAIN writes : p \notin DOMAIN writes[i]
        <3>1. namps \in Nat /\ DOMAIN writes \subseteq 1 .. namps
            BY <1>1, <1>2
        <3> QED
            BY <2>1, <3>1, OverlaidIs
    <2> QED
        BY <1>3, <2>2
<1> QED
    BY <1>2, <1>4, <1>5, <1>6

LEMMA MemoryKept ==
    ASSUME Typed, LowerFirst, ~mext, amp # <<>>, Flat, NEW d \in Nat, LaidOut(d), Mixed => box = Around(0),
           NEW r \in Nat \ {0}, Fits(r), MemoryOwned, course # "lost"
    PROVE  \A p \in DOMAIN Memory(r) : \E i \in Kept : Mine(Memory(r)[p], p, i, Across(i), Along(i))
<1> SUFFICES ASSUME NEW p \in DOMAIN Memory(r)
             PROVE  \E i \in Kept : Mine(Memory(r)[p], p, i, Across(i), Along(i))
    OBVIOUS
<1>1. TypeOK
    BY DEF Typed
<1>2. CASE \E i \in Kept : p \in DOMAIN Piece(i, Spot(r)[i], r) /\ Memory(r)[p] = Piece(i, Spot(r)[i], r)[p]
    <2>1. PICK i \in Kept : p \in DOMAIN Piece(i, Spot(r)[i], r) /\ Memory(r)[p] = Piece(i, Spot(r)[i], r)[p]
        BY <1>2
    <2>2. Mine(Piece(i, Spot(r)[i], r)[p], p, i, Across(i), Along(i))
        BY <1>1, <2>1, SinglePieceIs
    <2> QED
        BY <2>1, <2>2
<1>3. CASE p \in DOMAIN tmpptr[1] /\ Memory(r)[p] = tmpptr[1][p]
    BY <1>3 DEF MemoryOwned
<1> QED
    BY <1>1, <1>2, <1>3, MemoryIs

LEMMA MemoryGrows ==
    ASSUME Typed, Placed, LowerFirst, ~mext, file # <<>>, misused = {}, ~(nzcnt >= nzim), course = "on",
           NEW r \in Nat \ {0}, Fits(r), MemoryNow
    PROVE  /\ amp # <<>> /\ Flat
           /\ Mixed => box = Around(0)
           /\ \A i \in Kept, col \in 0 .. NCols - 1, row \in 0 .. totEleRead + r - 1 :
                 LET p == Seated(amp[i], col, row, Across(i), Along(i))
                 IN  p \in DOMAIN Memory(r) /\ Memory(r)[p].image = image
<1>1. TypeOK /\ amp # <<>> /\ Flat
    BY DEF Typed, Kinds, Placed, SingleFile
<1>2. PICK d \in Nat : LaidOut(d) /\ (d # 0 /\ Mixed => nzcnt >= nzim)
    BY <1>1 DEF Placed, Lying
<1>4. Mixed => box = Around(0)
    BY <1>2 DEF LaidOut
<1>5. ASSUME NEW i \in Kept, NEW col \in 0 .. NCols - 1, NEW row \in 0 .. totEleRead + r - 1
      PROVE  LET p == Seated(amp[i], col, row, Across(i), Along(i))
             IN  p \in DOMAIN Memory(r) /\ Memory(r)[p].image = image
    <2> DEFINE p == Seated(amp[i], col, row, Across(i), Along(i))
    <2>1. totEleRead \in Nat
        BY <1>1, Sizes DEF TypeOK
    <2>2. /\ p \in DOMAIN Memory(r)
          /\ \/ p \in DOMAIN tmpptr[1] => tmpptr[1][p].image = image
             \/ \E j \in Kept : p \in DOMAIN Piece(j, Spot(r)[j], r)
        <3>1. DOMAIN Memory(r) = DOMAIN tmpptr[1] \cup UNION {DOMAIN Piece(j, Spot(r)[j], r) : j \in Kept}
            BY <1>1, MemoryIs
        <3>2. CASE row \in 0 .. totEleRead - 1
            <4>1. p \in DOMAIN tmpptr[1] /\ tmpptr[1][p].image = image
                BY <3>2 DEF MemoryNow
            <4> HIDE DEF p
            <4> QED
                BY <3>1, <4>1
        <3>3. CASE row \in totEleRead .. totEleRead + r - 1
            <4>1. p \in DOMAIN Piece(i, Spot(r)[i], r)
                BY <1>1, <1>2, <1>4, <3>3, SinglePieceIs
            <4> HIDE DEF p
            <4> QED
                BY <3>1, <4>1
        <3> QED
            BY <2>1, <3>2, <3>3
    <2> HIDE DEF p
    <2>3. CASE \E j \in Kept : p \in DOMAIN Piece(j, Spot(r)[j], r) /\ Memory(r)[p] = Piece(j, Spot(r)[j], r)[p]
        <3>1. PICK j \in Kept : p \in DOMAIN Piece(j, Spot(r)[j], r) /\ Memory(r)[p] = Piece(j, Spot(r)[j], r)[p]
            BY <2>3
        <3>2. Piece(j, Spot(r)[j], r)[p].image = image
            BY <1>1, <1>2, <1>4, <3>1, SinglePieceIs
        <3> QED
            BY <2>2, <3>1, <3>2 DEF p
    <2>4. CASE /\ p \in DOMAIN tmpptr[1] /\ Memory(r)[p] = tmpptr[1][p]
               /\ \A j \in Kept : p \notin DOMAIN Piece(j, Spot(r)[j], r)
        BY <2>2, <2>4 DEF p
    <2> QED
        BY <1>1, <2>2, <2>3, <2>4, MemoryIs
<1> QED
    BY <1>1, <1>4, <1>5

\* Every image of a single file that counts as written is whole, or its write failed.
SingleWhole ==
    ~mext /\ file # <<>> /\ misused = {} =>
        \A n \in 1 .. nzcnt, i \in Kept, col \in 0 .. NCols - 1, row \in 0 .. NRows - 1 :
            LET place == Belongs(i, col, row, n)
            IN  \/ <<1, n>> \in failed
                \/ place[2] \in DOMAIN file[1]
                \/ (is_roi /\ ~Inside({place[2]}, roi.cols, roi.rows))

Content == MemoryOwned /\ MemoryNow /\ TurnedOwned /\ TurnedNow /\ SentSoFar /\ SingleWhole /\ PixelsInPlace

LEMMA NoFileContent ==
    ASSUME file' = <<>> \/ (misused' # {} /\ course' = "stopped"), MemoryOwned', TurnedOwned'
    PROVE  Content'
BY DEF Content, MemoryNow, TurnedNow, SentSoFar, SingleWhole, PixelsInPlace

LEMMA OwnedKept ==
    ASSUME MemoryOwned, TurnedOwned, UNCHANGED <<amp, mext, box, tmpptr>>, course' # "lost" => course # "lost"
    PROVE  MemoryOwned' /\ TurnedOwned'
<1>1. /\ Kept' = Kept /\ Flat' = Flat /\ Mixed' = Mixed /\ Rotated' = Rotated /\ Around(0)' = Around(0)
      /\ \A i : Across(i)' = Across(i) /\ Along(i)' = Along(i)
    BY SameKept DEF Across, Along
<1>2. MemoryOwned'
    BY <1>1 DEF MemoryOwned, Mine
<1>3. TurnedOwned'
    BY <1>1 DEF TurnedOwned, Mine
<1> QED
    BY <1>2, <1>3

LEMMA EmptyOwned ==
    ASSUME NEW layout \in Layouts, amp' = layout, \A i \in 1 .. Len(layout) : DOMAIN tmpptr'[i] = {}
    PROVE  MemoryOwned' /\ TurnedOwned'
<1>1. 1 \in 1 .. Len(layout)
    BY LayoutTypes, Sizes
<1>2. \A i \in Rotated' : i \in 1 .. Len(layout)
    BY DEF Rotated, Kept, namps
<1> QED
    BY <1>1, <1>2 DEF MemoryOwned, TurnedOwned

LEMMA InitContent == Init => Content
<1> SUFFICES ASSUME Init PROVE Content
    OBVIOUS
<1>1. amp = <<>> /\ ~mext /\ file = <<>>
    BY DEF Init
<1> QED
    BY <1>1 DEF Content, MemoryOwned, MemoryNow, TurnedOwned, TurnedNow, SentSoFar, SingleWhole, PixelsInPlace

LEMMA SettingContent ==
    ASSUME Typed, Content, SetUp, OffCourse, UNCHANGED <<amp, mext, box, tmpptr, file>>
    PROVE  Content'
<1>1. /\ file = <<>> => course' = course
      /\ file # <<>> => misused' # {} /\ course = "on" /\ course' = "stopped"
    BY SetUpSteps DEF Typed
<1>2. MemoryOwned' /\ TurnedOwned'
    BY <1>1, OwnedKept DEF Content
<1> QED
    BY <1>1, <1>2, NoFileContent

LEMMA CloseContent ==
    ASSUME Content, CloseFile
    PROVE  Content'
BY OwnedKept, NoFileContent DEF Content, CloseFile, geometry

LEMMA GFInitContent ==
    ASSUME Typed, NEW layout \in Layouts, NEW mult \in BOOLEAN, NEW wider \in BOOLEAN,
           GFInit(layout, mult, wider)
    PROVE  Content'
<1>1. /\ amp' = layout /\ SetValues(layout, PlacesOf(layout), mult, <<>>, TRUE)
      /\ file' = file /\ (file # <<>> => misused' # {} /\ course' = "stopped")
    BY GFInitSteps DEF Typed
<1>2. \A i \in 1 .. Len(layout) : DOMAIN tmpptr'[i] = {}
    BY <1>1, Cleared
<1> QED
    BY <1>1, <1>2, EmptyOwned, NoFileContent

LEMMA CreateContent ==
    ASSUME Typed, Content, NEW mult \in BOOLEAN, NEW wider \in BOOLEAN, CreateImg(mult, wider)
    PROVE  Content'
<1>1. /\ amp # <<>> /\ amp' = amp /\ nzcnt' = 0 /\ file' = [h \in DOMAIN size' |-> <<>>]
      /\ SetValues(amp, PlacesOf(amp), mult, tmpptr, wider) /\ course # "lost"
    BY CreateSteps
<1>2. amp \in Layouts /\ mext' = mult /\ totEleRead' = 0
    BY <1>1 DEF Typed, TypeOK, SetValues
<1>3. \/ \A i \in 1 .. Len(amp) : DOMAIN tmpptr'[i] = {}
      \/ tmpptr' = tmpptr /\ mext = mult /\ box' = box
    BY <1>1, <1>2, Cleared
<1>4. MemoryOwned' /\ TurnedOwned'
    BY <1>1, <1>2, <1>3, EmptyOwned, OwnedKept DEF Content
<1>5. 0 .. totEleRead' - 1 = {} /\ 1 .. nzcnt' = {}
    BY <1>1, <1>2
<1>6. MemoryNow' /\ TurnedNow' /\ SentSoFar' /\ SingleWhole'
    BY <1>5 DEF MemoryNow, TurnedNow, SentSoFar, SingleWhole
<1>7. PixelsInPlace'
    <2>1. \A h \in DOMAIN file' : DOMAIN file'[h] = {}
        BY <1>1
    <2> QED
        BY <2>1 DEF PixelsInPlace
<1> QED
    BY <1>4, <1>6, <1>7 DEF Content

-----------------------------------------------------------------------------
(* Where a pixel belongs does not change while a file is written. *)

LEMMA BelongsSame ==
    ASSUME UNCHANGED <<amp, Extension, roi, is_roi, mext>>
    PROVE  \A i, col, row, n : Belongs(i, col, row, n)' = Belongs(i, col, row, n)
BY SameKept DEF Belongs, Seat

FromLeft == IF is_roi THEN roi.x - 1 ELSE 0
FromBelow == IF is_roi THEN roi.y - 1 ELSE 0

LEMMA BelongsSingle ==
    ASSUME Typed, amp # <<>>, Flat, ~mext, NEW i \in Kept, NEW n,
           NEW col \in 0 .. NCols - 1, NEW row \in 0 .. NRows - 1
    PROVE  LET p == Seated(amp[i], col, row, Across(i), Along(i))
           IN  /\ Belongs(i, col, row, n) = <<1, <<p[1] - FromLeft, p[2] - FromBelow, n>>>>
               /\ p[1] \in Int /\ p[2] \in Int
<1> DEFINE s == Seat(amp[i], col, row)  X == Around(0).x  Y == Around(0).y
           u == FromLeft  v == FromBelow  p == Seated(amp[i], col, row, Across(i), Along(i))
           s1 == s[1]  s2 == s[2]  x == amp[i].x  y == amp[i].y
<1>1. amp[i] \in Amplifiers /\ x \in Nat /\ y \in Nat
    BY AmpTypes DEF Amplifiers, Typed
<1>2. s1 \in Nat /\ s2 \in Nat
    BY <1>1, SeatTypes, Sizes DEF Wide, High
<1>3. X \in Nat /\ Y \in Nat /\ X = Min({amp[j].x : j \in Kept}) /\ Y = Min({amp[j].y : j \in Kept})
    BY LaidIs DEF Encloses, Typed
<1>4. u \in Int /\ v \in Int
    <2>1. is_roi => roi.x \in Nat /\ roi.y \in Nat
        BY WriterAssumption DEF Typed, Kinds
    <2> QED
        BY <2>1 DEF FromLeft, FromBelow
<1>5. Belongs(i, col, row, n) = <<1, <<s1 + (x - X) + (1 - u), s2 + (y - Y) + (1 - v), n>>>>
    BY <1>3 DEF Belongs, FromLeft, FromBelow
<1>6. p = <<s1 + (1 + (x - X)), s2 + (1 + (y - Y))>>
    BY DEF Seated, Shifted, Across, Along
<1> HIDE DEF s1, s2, x, y, s, X, Y, u, v, p
<1>7. /\ s1 + (x - X) + (1 - u) = p[1] - u /\ s2 + (y - Y) + (1 - v) = p[2] - v
      /\ p[1] \in Int /\ p[2] \in Int
    <2> DEFINE a == s1 + (1 + (x - X))  b == s2 + (1 + (y - Y))
    <2>1. /\ s1 + (x - X) + (1 - u) = a - u /\ s2 + (y - Y) + (1 - v) = b - v
          /\ a \in Int /\ b \in Int
        <3>1. s1 \in Int /\ x \in Int /\ X \in Int /\ u \in Int
            BY <1>1, <1>2, <1>3, <1>4
        <3>2. s2 \in Int /\ y \in Int /\ Y \in Int /\ v \in Int
            BY <1>1, <1>2, <1>3, <1>4
        <3>3. s1 + (x - X) + (1 - u) = a - u /\ a \in Int
            BY <3>1
        <3>4. s2 + (y - Y) + (1 - v) = b - v /\ b \in Int
            BY <3>2
        <3> QED
            BY <3>3, <3>4
    <2>2. p[1] = a /\ p[2] = b
        BY <1>6
    <2> HIDE DEF a, b
    <2> QED
        BY <2>1, <2>2
<1> QED
    BY <1>5, <1>7 DEF u, v, p

LEMMA PlaneHolds ==
    ASSUME NEW mem, NEW z, \A q \in DOMAIN mem : q = <<q[1], q[2]>>, NEW p \in DOMAIN InPlane(mem, z)
    PROVE  p = <<p[1], p[2], z>> /\ <<p[1], p[2]>> \in DOMAIN mem /\ InPlane(mem, z)[p] = mem[<<p[1], p[2]>>]
<1>1. PICK q \in DOMAIN mem : p = <<q[1], q[2], z>>
    BY DEF InPlane
<1>2. p = <<p[1], p[2], z>> /\ <<p[1], p[2]>> = q
    BY <1>1
<1>3. InPlane(mem, z)[p] = mem[<<p[1], p[2]>>]
    BY DEF InPlane
<1> QED
    BY <1>2, <1>3

\* With the last piece every seat in memory has its pixel of this image, and there is nothing else.
LEMMA FullMemory ==
    ASSUME Typed, Placed, Content, LowerFirst, ~mext, file # <<>>, misused = {},
           ~(nzcnt >= nzim), course = "on", NEW r \in Nat \ {0}, Fits(r), Completes(r)
    PROVE  /\ amp # <<>> /\ Flat /\ DOMAIN Memory(r) \subseteq Within(box.cols, box.rows)
           /\ \A p \in DOMAIN Memory(r) :
                 /\ Memory(r)[p].image = image
                 /\ \E i \in Kept : Mine(Memory(r)[p], p, i, Across(i), Along(i))
           /\ \A i \in Kept, col \in 0 .. NCols - 1, row \in 0 .. NRows - 1 :
                 Seated(amp[i], col, row, Across(i), Along(i)) \in DOMAIN Memory(r)
<1>1. totEleRead + r - 1 = NRows - 1
    BY Sizes DEF Typed, TypeOK, Fits, Completes
<1>2. /\ TypeOK /\ amp # <<>> /\ Flat /\ MemoryOwned /\ MemoryInBox
      /\ Mixed => box = Around(0)
      /\ \A i \in Kept, col \in 0 .. NCols - 1, row \in 0 .. totEleRead + r - 1 :
            LET p == Seated(amp[i], col, row, Across(i), Along(i))
            IN  p \in DOMAIN Memory(r) /\ Memory(r)[p].image = image
    BY MemoryGrows DEF Content, Typed, Placed
<1>3. PICK d \in Nat : LaidOut(d)
    BY <1>2 DEF Placed, Lying
<1>4. \A p \in DOMAIN Memory(r) : \E i \in Kept : Mine(Memory(r)[p], p, i, Across(i), Along(i))
    BY <1>2, <1>3, MemoryKept
<1>5. DOMAIN Memory(r) \subseteq Within(box.cols, box.rows)
    BY <1>2, <1>3, MemoryWithin
<1>6. ASSUME NEW p \in DOMAIN Memory(r) PROVE Memory(r)[p].image = image
    <2> DEFINE pixel == Memory(r)[p]
    <2>1. PICK i \in Kept : Mine(pixel, p, i, Across(i), Along(i))
        BY <1>4
    <2>2. /\ pixel.col \in 0 .. NCols - 1 /\ pixel.row \in 0 .. totEleRead + r - 1
          /\ p = Seated(amp[i], pixel.col, pixel.row, Across(i), Along(i))
        BY <1>1, <2>1 DEF Mine
    <2> HIDE DEF pixel
    <2> QED
        BY <1>2, <2>2
<1> QED
    BY <1>1, <1>2, <1>4, <1>5, <1>6

LEMMA CutIs ==
    ASSUME NEW mem, NEW q \in DOMAIN Cut(mem)
    PROVE  /\ q \in (1 .. roi.cols) \X (1 .. roi.rows)
           /\ <<q[1] + roi.x - 1, q[2] + roi.y - 1>> \in DOMAIN mem
           /\ Cut(mem)[q] = mem[<<q[1] + roi.x - 1, q[2] + roi.y - 1>>]
BY DEF Cut

LEMMA CutHas ==
    ASSUME NEW mem, NEW q \in (1 .. roi.cols) \X (1 .. roi.rows),
           <<q[1] + roi.x - 1, q[2] + roi.y - 1>> \in DOMAIN mem
    PROVE  q \in DOMAIN Cut(mem)
BY DEF Cut

\* The image that a single file takes from memory.
LEMMA ShownIs ==
    ASSUME Typed, Placed, Content, LowerFirst, ~mext, file # <<>>, misused = {},
           ~(nzcnt >= nzim), course = "on", NEW r \in Nat \ {0}, Fits(r), Completes(r)
    PROVE  /\ \A p \in DOMAIN Shown(r) :
                 LET pixel == Shown(r)[p]
                 IN  /\ pixel.image = image /\ p[3] = nzcnt + 1
                     /\ Belongs(pixel.amp, pixel.col, pixel.row, nzcnt + 1) = <<1, p>>
           /\ \A i \in Kept, col \in 0 .. NCols - 1, row \in 0 .. NRows - 1 :
                 LET place == Belongs(i, col, row, nzcnt + 1)
                 IN  \/ place[2] \in DOMAIN Shown(r)
                     \/ (is_roi /\ ~Inside({place[2]}, roi.cols, roi.rows))
<1> DEFINE mem == Memory(r)
<1>1. /\ amp # <<>> /\ Flat /\ DOMAIN mem \subseteq Within(box.cols, box.rows)
      /\ \A p \in DOMAIN mem :
            /\ mem[p].image = image
            /\ \E i \in Kept : Mine(mem[p], p, i, Across(i), Along(i))
      /\ \A i \in Kept, col \in 0 .. NCols - 1, row \in 0 .. NRows - 1 :
            Seated(amp[i], col, row, Across(i), Along(i)) \in DOMAIN mem
    BY FullMemory
<1>2. nzcnt \in Nat /\ (is_roi => nzcnt + 1 = 1)
    <2>1. nzcnt \in Nat /\ nzim \in Nat
        BY WriterAssumption DEF Typed, TypeOK
    <2>2. is_roi => nzim = 1
        BY DEF Placed, SingleFile
    <2> QED
        BY <2>1, <2>2
<1>3. is_roi => roi.x \in Nat /\ roi.y \in Nat /\ roi.cols \in Nat /\ roi.rows \in Nat
    BY WriterAssumption DEF Typed, Kinds
<1>4. Shown(r) = IF is_roi THEN InPlane(Cut(mem), nzcnt + 1) ELSE InPlane(mem, nzcnt + 1)
    BY <1>2 DEF Shown
<1>5. ASSUME NEW q \in DOMAIN mem
      PROVE  /\ mem[q].image = image /\ q[1] \in Int /\ q[2] \in Int
             /\ Belongs(mem[q].amp, mem[q].col, mem[q].row, nzcnt + 1)
                    = <<1, <<q[1] - FromLeft, q[2] - FromBelow, nzcnt + 1>>>>
    <2> DEFINE pixel == mem[q]
    <2>1. PICK i \in Kept : Mine(pixel, q, i, Across(i), Along(i))
        BY <1>1
    <2>2. /\ pixel.amp = i /\ pixel.col \in 0 .. NCols - 1 /\ pixel.row \in 0 .. NRows - 1
          /\ q = Seated(amp[i], pixel.col, pixel.row, Across(i), Along(i))
        BY <2>1 DEF Mine
    <2> HIDE DEF pixel, mem
    <2>3. /\ Belongs(i, pixel.col, pixel.row, nzcnt + 1) = <<1, <<q[1] - FromLeft, q[2] - FromBelow, nzcnt + 1>>>>
          /\ q[1] \in Int /\ q[2] \in Int
        BY <1>1, <2>2, BelongsSingle, ZenonT(30)
    <2>4. pixel.image = image
        BY <1>1 DEF pixel
    <2>5. Belongs(pixel.amp, pixel.col, pixel.row, nzcnt + 1) = <<1, <<q[1] - FromLeft, q[2] - FromBelow, nzcnt + 1>>>>
        BY <2>2, <2>3
    <2> QED
        BY <2>3, <2>4, <2>5 DEF pixel
<1> HIDE DEF mem
<1>6. ASSUME NEW p \in DOMAIN Shown(r)
      PROVE  /\ Shown(r)[p].image = image /\ p[3] = nzcnt + 1
             /\ Belongs(Shown(r)[p].amp, Shown(r)[p].col, Shown(r)[p].row, nzcnt + 1) = <<1, p>>
    <2>1. CASE ~is_roi
        <3>1. /\ p = <<p[1], p[2], nzcnt + 1>> /\ <<p[1], p[2]>> \in DOMAIN mem
              /\ Shown(r)[p] = mem[<<p[1], p[2]>>]
            <4>1. Shown(r) = InPlane(mem, nzcnt + 1) /\ DOMAIN mem \subseteq (1 .. box.cols) \X (1 .. box.rows)
                BY <1>1, <1>4, <2>1 DEF Within
            <4>2. \A q \in DOMAIN InPlane(mem, nzcnt + 1) :
                      /\ q = <<q[1], q[2], nzcnt + 1>> /\ <<q[1], q[2]>> \in DOMAIN mem
                      /\ InPlane(mem, nzcnt + 1)[q] = mem[<<q[1], q[2]>>]
                BY <4>1, PlaneIs
            <4> QED
                BY <4>1, <4>2
        <3>2. /\ mem[<<p[1], p[2]>>].image = image /\ p[1] \in Int /\ p[2] \in Int
              /\ Belongs(Shown(r)[p].amp, Shown(r)[p].col, Shown(r)[p].row, nzcnt + 1)
                     = <<1, <<p[1] - FromLeft, p[2] - FromBelow, nzcnt + 1>>>>
            <4> DEFINE q == <<p[1], p[2]>>
            <4>1. q \in DOMAIN mem /\ q[1] = p[1] /\ q[2] = p[2] /\ Shown(r)[p] = mem[q]
                BY <3>1
            <4> HIDE DEF q
            <4>2. mem[q].image = image /\ q[1] \in Int /\ q[2] \in Int
                  /\ Belongs(mem[q].amp, mem[q].col, mem[q].row, nzcnt + 1)
                         = <<1, <<q[1] - FromLeft, q[2] - FromBelow, nzcnt + 1>>>>
                BY <1>5, <4>1
            <4> QED
                BY <4>1, <4>2 DEF q
        <3>3. p[1] - FromLeft = p[1] /\ p[2] - FromBelow = p[2]
            BY <2>1, <3>2 DEF FromLeft, FromBelow
        <3>4. Belongs(Shown(r)[p].amp, Shown(r)[p].col, Shown(r)[p].row, nzcnt + 1)
                  = <<1, <<p[1], p[2], nzcnt + 1>>>>
            BY <3>2, <3>3
        <3>5. p[3] = nzcnt + 1
            BY <3>1
        <3> QED
            BY <3>1, <3>2, <3>4, <3>5
    <2>2. CASE is_roi
        <3>1. DOMAIN Cut(mem) \subseteq (1 .. roi.cols) \X (1 .. roi.rows)
            BY CutIs
        <3>2. /\ p = <<p[1], p[2], nzcnt + 1>> /\ <<p[1], p[2]>> \in DOMAIN Cut(mem)
              /\ Shown(r)[p] = Cut(mem)[<<p[1], p[2]>>]
            <4>1. Shown(r) = InPlane(Cut(mem), nzcnt + 1)
                BY <1>4, <2>2
            <4>2. \A q \in DOMAIN InPlane(Cut(mem), nzcnt + 1) :
                      /\ q = <<q[1], q[2], nzcnt + 1>> /\ <<q[1], q[2]>> \in DOMAIN Cut(mem)
                      /\ InPlane(Cut(mem), nzcnt + 1)[q] = Cut(mem)[<<q[1], q[2]>>]
                <5>1. \A q \in DOMAIN Cut(mem) : q = <<q[1], q[2]>>
                    BY <3>1
                <5> QED
                    BY <5>1, PlaneHolds
            <4> QED
                BY <4>1, <4>2
        <3> DEFINE q == <<p[1], p[2]>>  z == <<p[1] + roi.x - 1, p[2] + roi.y - 1>>
        <3>3. p[1] \in 1 .. roi.cols /\ p[2] \in 1 .. roi.rows
            BY <3>1, <3>2
        <3>4. q[1] = p[1] /\ q[2] = p[2]
            OBVIOUS
        <3>5. z \in DOMAIN mem /\ Shown(r)[p] = mem[z]
            <4> HIDE DEF q
            <4>1. q \in DOMAIN Cut(mem) /\ Shown(r)[p] = Cut(mem)[q]
                BY <3>2 DEF q
            <4>2. <<q[1] + roi.x - 1, q[2] + roi.y - 1>> \in DOMAIN mem
                  /\ Cut(mem)[q] = mem[<<q[1] + roi.x - 1, q[2] + roi.y - 1>>]
                BY <4>1, CutIs
            <4> QED
                BY <3>4, <4>1, <4>2
        <3>6. z[1] = p[1] + roi.x - 1 /\ z[2] = p[2] + roi.y - 1
            OBVIOUS
        <3> HIDE DEF z, q
        <3>7. /\ mem[z].image = image
              /\ Belongs(mem[z].amp, mem[z].col, mem[z].row, nzcnt + 1)
                     = <<1, <<z[1] - FromLeft, z[2] - FromBelow, nzcnt + 1>>>>
            BY <1>5, <3>5
        <3>8. z[1] - FromLeft = p[1] /\ z[2] - FromBelow = p[2]
            BY <1>3, <2>2, <3>3, <3>6 DEF FromLeft, FromBelow
        <3>9. p[3] = nzcnt + 1
            BY <3>2
        <3>10. Belongs(mem[z].amp, mem[z].col, mem[z].row, nzcnt + 1) = <<1, p>>
            BY <3>2, <3>7, <3>8
        <3> QED
            BY <3>5, <3>7, <3>9, <3>10
    <2> QED
        BY <2>1, <2>2
<1>7. ASSUME NEW i \in Kept, NEW col \in 0 .. NCols - 1, NEW row \in 0 .. NRows - 1
      PROVE  LET place == Belongs(i, col, row, nzcnt + 1)
             IN  \/ place[2] \in DOMAIN Shown(r)
                 \/ (is_roi /\ ~Inside({place[2]}, roi.cols, roi.rows))
    <2> DEFINE P == Seated(amp[i], col, row, Across(i), Along(i))
               place == Belongs(i, col, row, nzcnt + 1)
               at == <<P[1] - FromLeft, P[2] - FromBelow, nzcnt + 1>>
    <2>1. P \in DOMAIN mem
        BY <1>1
    <2>2. P = <<P[1], P[2]>>
        BY DEF Seated, Shifted
    <2>3. place = <<1, at>> /\ P[1] \in Int /\ P[2] \in Int
        BY <1>1, BelongsSingle
    <2> HIDE DEF P
    <2>4. place[2] = at /\ at[1] = P[1] - FromLeft /\ at[2] = P[2] - FromBelow
        BY <2>3
    <2>5. CASE ~is_roi
        <3>1. at = <<P[1], P[2], nzcnt + 1>>
            BY <2>3, <2>5 DEF FromLeft, FromBelow
        <3>2. <<P[1], P[2], nzcnt + 1>> \in DOMAIN InPlane(mem, nzcnt + 1)
            BY <1>1, <2>1, PlaneIs DEF Within
        <3>3. Shown(r) = InPlane(mem, nzcnt + 1)
            BY <1>4, <2>5
        <3>4. place[2] \in DOMAIN Shown(r)
            <4> HIDE DEF at, place
            <4> QED
                BY <2>4, <3>1, <3>2, <3>3
        <3> QED
            BY <3>4
    <2>6. CASE is_roi
        <3> SUFFICES ASSUME Inside({at}, roi.cols, roi.rows) PROVE at \in DOMAIN Shown(r)
            BY <2>4, <2>6
        <3> DEFINE q == <<at[1], at[2]>>
        <3>1. at[1] \in 1 .. roi.cols /\ at[2] \in 1 .. roi.rows
            BY DEF Inside
        <3>2. at[1] + roi.x - 1 = P[1] /\ at[2] + roi.y - 1 = P[2]
            <4>1. FromLeft = roi.x - 1 /\ FromBelow = roi.y - 1
                BY <2>6 DEF FromLeft, FromBelow
            <4>2. roi.x \in Int /\ roi.y \in Int /\ P[1] \in Int /\ P[2] \in Int
                BY <1>3, <2>3, <2>6
            <4>3. at[1] = P[1] - (roi.x - 1) /\ at[2] = P[2] - (roi.y - 1)
                BY <2>4, <4>1
            <4>4. \A a, u \in Int : a - (u - 1) + (u - 1) = a
                OBVIOUS
            <4> HIDE DEF at
            <4> QED
                BY <4>2, <4>3, <4>4
        <3>3. q \in (1 .. roi.cols) \X (1 .. roi.rows) /\ <<q[1] + roi.x - 1, q[2] + roi.y - 1>> \in DOMAIN mem
            BY <2>1, <2>2, <3>1, <3>2
        <3>4. at = <<at[1], at[2], nzcnt + 1>> /\ q[1] = at[1] /\ q[2] = at[2]
            OBVIOUS
        <3> HIDE DEF q, at
        <3>5. q \in DOMAIN Cut(mem)
            BY <3>3, CutHas
        <3>6. DOMAIN Cut(mem) \subseteq (1 .. roi.cols) \X (1 .. roi.rows)
            BY CutIs
        <3>7. <<q[1], q[2], nzcnt + 1>> \in DOMAIN InPlane(Cut(mem), nzcnt + 1)
            BY <3>5, <3>6, PlaneIs
        <3> QED
            BY <1>4, <2>6, <3>4, <3>7
    <2> QED
        BY <2>5, <2>6
<1> QED
    BY <1>6, <1>7

Added(new, old) == Overlaid([i \in {1} |-> new], old)

\* One set of pixels put over another.
LEMMA AddedIs ==
    ASSUME NEW new, NEW old
    PROVE  /\ DOMAIN Added(new, old) = DOMAIN new \cup DOMAIN old
           /\ \A p \in DOMAIN Added(new, old) :
                 \/ p \in DOMAIN new /\ Added(new, old)[p] = new[p]
                 \/ p \in DOMAIN old /\ Added(new, old)[p] = old[p]
<1> DEFINE writes == [i \in {1} |-> new]
<1>1. DOMAIN writes = {1} /\ writes[1] = new
    OBVIOUS
<1> HIDE DEF writes
<1>2. DOMAIN Overlaid(writes, old) = DOMAIN new \cup DOMAIN old
    BY <1>1 DEF Overlaid
<1>3. ASSUME NEW p \in DOMAIN Overlaid(writes, old)
      PROVE  \/ p \in DOMAIN new /\ Overlaid(writes, old)[p] = new[p]
             \/ p \in DOMAIN old /\ Overlaid(writes, old)[p] = old[p]
    <2> DEFINE by == {i \in DOMAIN writes : p \in DOMAIN writes[i]}
    <2>1. Overlaid(writes, old)[p] = IF by = {} THEN old[p] ELSE writes[Max(by)][p]
        BY <1>1, <1>2 DEF Overlaid
    <2>2. CASE p \in DOMAIN new
        <3>1. by = {1}
            BY <1>1, <2>2
        <3>2. Max({1}) = 1
            BY DEF Max
        <3> QED
            BY <1>1, <2>1, <2>2, <3>1, <3>2
    <2>3. CASE p \notin DOMAIN new
        <3>1. by = {}
            BY <1>1, <2>3
        <3> QED
            BY <1>2, <2>1, <2>3, <3>1
    <2> QED
        BY <2>2, <2>3
<1> QED
    BY <1>2, <1>3 DEF writes, Added

LEMMA WriteSingleContent ==
    ASSUME Typed, Placed, Content, LowerFirst, NEW r \in Pieces, NEW from_buf \in BOOLEAN,
           NEW fails \in BOOLEAN, WriteSingle(r, from_buf, fails)
    PROVE  Content'
<1>1. /\ file # <<>> /\ ~mext /\ course = "on" /\ (fails => Completes(r))
      /\ course' = IF Fits(r) THEN "on" ELSE "lost"
      /\ UNCHANGED <<amp, Extension, nzim, roi, is_roi, size>>
      /\ failed' = IF fails THEN failed \cup {<<1, nzcnt + 1>>} ELSE failed
      /\ Completes(r) =>
            /\ file' = IF fails THEN file ELSE <<Overlaid([i \in {1} |-> Shown(r)], file[1])>>
            /\ nzcnt' = nzcnt + 1 /\ image' = image + 1
      /\ ~Completes(r) =>
            /\ totEleRead' = totEleRead + r
            /\ tmpptr' = [tmpptr EXCEPT ![1] = Memory(r)]
            /\ UNCHANGED <<mext, box, nzcnt, file, image>>
    BY SingleSteps
<1>2. /\ r \in Nat \ {0} /\ TypeOK /\ amp # <<>> /\ amp \in Layouts /\ 1 \in 1 .. namps
      /\ DOMAIN tmpptr = 1 .. namps /\ mext \in BOOLEAN
    <2>1. TypeOK /\ amp # <<>> /\ DOMAIN tmpptr = 1 .. namps
        BY <1>1 DEF Typed, Kinds
    <2>2. amp \in Layouts /\ mext \in BOOLEAN
        BY <2>1 DEF TypeOK
    <2>3. r \in Nat \ {0}
        BY WriterAssumption
    <2>4. 1 \in 1 .. namps
        BY <2>2, LayoutTypes, Sizes DEF namps
    <2> QED
        BY <2>1, <2>2, <2>3, <2>4
<1>3. /\ misused' = {} => misused = {} /\ Fits(r) /\ ~(nzcnt >= nzim)
      /\ course' # "lost" => Fits(r)
    BY <1>1, SingleMisuses
<1>4. [tmpptr EXCEPT ![1] = Memory(r)][1] = Memory(r)
    BY <1>2
<1>5. /\ Kept' = Kept /\ Flat' = Flat /\ Mixed' = Mixed /\ namps' = namps /\ Around(0)' = Around(0)
      /\ \A i : Across(i)' = Across(i) /\ Along(i)' = Along(i)
    BY <1>1, SameKept DEF Across, Along
<1>6. ASSUME Completes(r)
      PROVE  /\ mext' = FALSE /\ totEleRead' = 0
             /\ \/ DOMAIN tmpptr'[1] = {}
                \/ tmpptr'[1] = Memory(r) /\ box' = box
    <2> DEFINE mem == [tmpptr EXCEPT ![1] = Memory(r)]
    <2>1. SetValues(amp, NextPlaces(r, from_buf), FALSE, mem, FALSE)
        BY <1>2, <1>6, NextSet
    <2>2. \/ \A i \in 1 .. Len(amp) : DOMAIN tmpptr'[i] = {}
          \/ tmpptr' = mem /\ box' = box
        BY <1>2, <2>1, Cleared
    <2>3. mext' = FALSE /\ totEleRead' = 0
        BY <2>1 DEF SetValues
    <2> QED
        BY <1>2, <1>4, <2>2, <2>3 DEF namps
<1>7. mext' = mext /\ ~mext' /\ (DOMAIN tmpptr'[1] = {} \/ (tmpptr'[1] = Memory(r) /\ box' = box))
    <2>1. mext = FALSE
        BY <1>1, <1>2
    <2>2. CASE Completes(r)
        BY <1>6, <2>1, <2>2
    <2>3. CASE ~Completes(r)
        <3>1. tmpptr' = [tmpptr EXCEPT ![1] = Memory(r)] /\ mext' = mext /\ box' = box
            BY <1>1, <2>3
        <3> QED
            BY <1>4, <2>1, <3>1
    <2> QED
        BY <2>2, <2>3
<1>8. TurnedOwned' /\ TurnedNow' /\ SentSoFar'
    BY <1>7 DEF TurnedOwned, TurnedNow, SentSoFar
<1>9. MemoryOwned'
    <2> SUFFICES ASSUME Flat, Fits(r), Mixed => box' = Around(0), NEW p \in DOMAIN tmpptr'[1]
                 PROVE  \E i \in Kept : Mine(tmpptr'[1][p], p, i, Across(i), Along(i))
        BY <1>1, <1>3, <1>5 DEF MemoryOwned, Mine
    <2>1. PICK d \in Nat : LaidOut(d)
        BY <1>1 DEF Placed, Lying
    <2>2. tmpptr'[1] = Memory(r) /\ box' = box
        BY <1>7
    <2> QED
        BY <1>1, <1>2, <2>1, <2>2, MemoryKept DEF Content
<1>10. MemoryNow'
    <2> SUFFICES ASSUME misused' = {}, NEW i \in Kept, NEW col \in 0 .. NCols - 1, NEW row \in 0 .. totEleRead' - 1
                 PROVE  LET p == Seated(amp[i], col, row, Across(i), Along(i))
                        IN  p \in DOMAIN tmpptr'[1] /\ tmpptr'[1][p].image = image'
        BY <1>1, <1>5 DEF MemoryNow
    <2>1. ~Completes(r)
        <3> SUFFICES ASSUME Completes(r) PROVE FALSE
            OBVIOUS
        <3>1. totEleRead' = 0
            BY <1>6
        <3>2. 0 .. totEleRead' - 1 = {}
            BY <3>1
        <3> QED
            BY <3>2
    <2>2. totEleRead' = totEleRead + r /\ image' = image /\ misused = {} /\ tmpptr'[1] = Memory(r)
        BY <1>1, <1>3, <1>4, <2>1
    <2>3. totEleRead' - 1 = totEleRead + r - 1
        BY <1>2, <2>2, Sizes DEF TypeOK
    <2>4. row \in 0 .. totEleRead + r - 1
        BY <2>3
    <2>5. MemoryNow
        BY DEF Content
    <2> QED
        BY <1>1, <1>2, <1>3, <2>2, <2>4, <2>5, MemoryGrows
<1>11. \A i, col, row, n : Belongs(i, col, row, n)' = Belongs(i, col, row, n)
    BY <1>1, <1>7, BelongsSame
<1>12. ASSUME misused' = {}, Completes(r)
       PROVE  /\ \A p \in DOMAIN Shown(r) :
                    LET pixel == Shown(r)[p]
                    IN  /\ pixel.image = image /\ p[3] = nzcnt + 1
                        /\ Belongs(pixel.amp, pixel.col, pixel.row, nzcnt + 1) = <<1, p>>
              /\ \A i \in Kept, col \in 0 .. NCols - 1, row \in 0 .. NRows - 1 :
                    LET place == Belongs(i, col, row, nzcnt + 1)
                    IN  \/ place[2] \in DOMAIN Shown(r)
                        \/ (is_roi /\ ~Inside({place[2]}, roi.cols, roi.rows))
    BY <1>1, <1>2, <1>3, <1>12, ShownIs
<1> DEFINE new == Shown(r)  old == file[1]  all == Added(new, old)
<1>13. Completes(r) /\ ~fails => DOMAIN file' = {1} /\ file'[1] = all
    BY <1>1 DEF Added
<1>14. /\ DOMAIN all = DOMAIN new \cup DOMAIN old
       /\ \A p \in DOMAIN all : \/ p \in DOMAIN new /\ all[p] = new[p]
                                \/ p \in DOMAIN old /\ all[p] = old[p]
    <2> HIDE DEF new, old
    <2> QED
        BY AddedIs
<1>15. 1 \in DOMAIN file
    BY <1>1, <1>2 DEF Typed, Kinds, TypeOK
<1>16. image \in Nat /\ nzcnt \in Nat
    BY <1>2, Sizes DEF TypeOK
<1> HIDE DEF new, old, all
<1>17. SingleWhole'
    <2> SUFFICES ASSUME misused' = {}, NEW n \in 1 .. nzcnt', <<1, n>> \notin failed', NEW i \in Kept,
                        NEW col \in 0 .. NCols - 1, NEW row \in 0 .. NRows - 1
                 PROVE  LET place == Belongs(i, col, row, n)
                        IN  \/ place[2] \in DOMAIN file'[1]
                            \/ (is_roi /\ ~Inside({place[2]}, roi.cols, roi.rows))
        BY <1>1, <1>5, <1>11 DEF SingleWhole
    <2>1. CASE n \in 1 .. nzcnt
        <3>1. <<1, n>> \notin failed
            BY <1>1
        <3>2. LET place == Belongs(i, col, row, n)
              IN  \/ place[2] \in DOMAIN file[1]
                  \/ (is_roi /\ ~Inside({place[2]}, roi.cols, roi.rows))
            BY <1>1, <1>3, <2>1, <3>1 DEF Content, SingleWhole
        <3>3. DOMAIN file[1] \subseteq DOMAIN file'[1]
            BY <1>1, <1>13, <1>14 DEF old
        <3> QED
            BY <3>2, <3>3
    <2>2. CASE n \notin 1 .. nzcnt
        <3>1. Completes(r) /\ n = nzcnt + 1
            BY <1>1, <1>16, <2>2
        <3>2. ~fails
            BY <1>1, <3>1
        <3>3. DOMAIN Shown(r) \subseteq DOMAIN file'[1]
            BY <1>13, <1>14, <3>1, <3>2 DEF new
        <3> QED
            BY <1>12, <3>1, <3>3
    <2> QED
        BY <2>1, <2>2
<1>18. PixelsInPlace'
    <2>1. First' = First
        <3>1. CASE Completes(r)
            <4>1. (image + 1) - (nzcnt + 1) = image - nzcnt
                BY <1>16
            <4> QED
                BY <1>1, <1>7, <3>1, <4>1 DEF First
        <3>2. CASE ~Completes(r)
            BY <1>1, <3>2 DEF First
        <3> QED
            BY <3>1, <3>2
    <2> SUFFICES ASSUME misused' = {}, NEW h \in DOMAIN file', NEW p \in DOMAIN file'[h]
                 PROVE  LET pixel == file'[h][p]
                        IN  /\ pixel.image = First + p[3] - 1
                            /\ Belongs(pixel.amp, pixel.col, pixel.row, p[3]) = <<h, p>>
        BY <1>11, <2>1 DEF PixelsInPlace
    <2>2. ASSUME NEW g \in DOMAIN file, NEW q \in DOMAIN file[g]
          PROVE  LET pixel == file[g][q]
                 IN  /\ pixel.image = First + q[3] - 1
                     /\ Belongs(pixel.amp, pixel.col, pixel.row, q[3]) = <<g, q>>
        BY <1>3 DEF Content, PixelsInPlace
    <2>3. CASE ~Completes(r) \/ fails
        <3>1. file' = file
            BY <1>1, <2>3
        <3> QED
            BY <2>2, <3>1
    <2>4. CASE Completes(r) /\ ~fails
        <3>1. h = 1 /\ p \in DOMAIN all /\ file'[h][p] = all[p]
            BY <1>13, <2>4
        <3>2. CASE p \in DOMAIN new /\ all[p] = new[p]
            <4>1. /\ new[p].image = image /\ p[3] = nzcnt + 1
                  /\ Belongs(new[p].amp, new[p].col, new[p].row, nzcnt + 1) = <<1, p>>
                BY <1>12, <2>4, <3>2 DEF new
            <4>2. First + (nzcnt + 1) - 1 = image
                <5>1. First = image - nzcnt
                    BY <1>1 DEF First
                <5> QED
                    BY <1>16, <5>1
            <4> QED
                BY <3>1, <3>2, <4>1, <4>2
        <3>3. CASE p \in DOMAIN old /\ all[p] = old[p]
            BY <1>15, <2>2, <3>1, <3>3 DEF old
        <3> QED
            BY <1>14, <3>1, <3>2, <3>3
    <2> QED
        BY <2>3, <2>4
<1> QED
    BY <1>8, <1>9, <1>10, <1>17, <1>18 DEF Content

LEMMA BelongsMultiple ==
    ASSUME Typed, MultipleFile, file # <<>>, mext, misused = {}, NEW i \in Kept, NEW n,
           NEW col \in 0 .. NCols - 1, NEW row \in 0 .. NRows - 1
    PROVE  LET p == Seated(amp[i], col, row, 0, 0)
           IN  Belongs(i, col, row, n) = <<HduOf(i), <<p[1], p[2], n>>>> /\ HduOf(i) \in DOMAIN file
<1> DEFINE s == Seat(amp[i], col, row)  p == Seated(amp[i], col, row, 0, 0)
<1>1. s[1] \in Nat /\ s[2] \in Nat
    BY AmpTypes, SeatTypes, Sizes DEF Wide, High, Typed
<1>2. p[1] = s[1] + 1 /\ p[2] = s[2] + 1
    BY <1>1 DEF Seated, Shifted
<1>3. HduOf(i) \in DOMAIN size
      /\ HduOf(i) = IF Kept = 1 .. namps THEN Extension[i] + 2 ELSE Cardinality(1 .. i \cap Kept) + 1
    BY DEF MultipleFile
<1>4. Belongs(i, col, row, n)
          = << IF Kept = 1 .. namps THEN Extension[i] + 2 ELSE Cardinality(1 .. i \cap Kept) + 1,
               <<s[1] + 1, s[2] + 1, n>> >>
    BY DEF Belongs
<1>5. HduOf(i) \in DOMAIN file
    BY <1>3 DEF Typed, TypeOK
<1> HIDE DEF s, p
<1> QED
    BY <1>2, <1>3, <1>4, <1>5 DEF p

\* The piece of an amplifier in a multiple file.
LEMMA MultiplePieceIs ==
    ASSUME Typed, Turning, mext, course = "on", NEW r \in Nat \ {0}, Fits(r), NEW i \in Kept
    PROVE  /\ \A p \in DOMAIN Piece(i, PutAt(i, r), r) :
                 /\ Mine(Piece(i, PutAt(i, r), r)[p], p, i, 0, 0)
                 /\ Piece(i, PutAt(i, r), r)[p].image = image
           /\ \A col \in 0 .. NCols - 1, row \in totEleRead .. totEleRead + r - 1 :
                 Seated(amp[i], col, row, 0, 0) \in DOMAIN Piece(i, PutAt(i, r), r)
<1> DEFINE at == PutAt(i, r)
<1>1. /\ at = Shifted(Home(amp[i], totEleRead, r), 0, 0) /\ 0 \in Int
      /\ totEleRead \in Nat /\ totEleRead + r <= NRows /\ amp[i] \in Amplifiers
    BY PutAtHome
<1> HIDE DEF at
<1>2. \A p \in DOMAIN Piece(i, at, r) : Mine(Piece(i, at, r)[p], p, i, 0, 0) /\ Piece(i, at, r)[p].image = image
    <2> SUFFICES ASSUME NEW p \in DOMAIN Piece(i, at, r)
                 PROVE  Mine(Piece(i, at, r)[p], p, i, 0, 0) /\ Piece(i, at, r)[p].image = image
        OBVIOUS
    <2> QED
        BY <1>1, PieceIs
<1>3. \A col \in 0 .. NCols - 1, row \in totEleRead .. totEleRead + r - 1 :
          Seated(amp[i], col, row, 0, 0) \in DOMAIN Piece(i, at, r)
    BY <1>1, PieceIs
<1> QED
    BY <1>2, <1>3 DEF at

\* What a rotated amplifier has in memory after a piece.
LEMMA TurnedHolds ==
    ASSUME Typed, Turning, Content, mext, file # <<>>, course = "on", NEW r \in Nat \ {0}, Fits(r),
           NEW i \in Rotated
    PROVE  /\ \A p \in DOMAIN Turned(i, r) : Mine(Turned(i, r)[p], p, i, 0, 0)
           /\ \A col \in 0 .. NCols - 1, row \in 0 .. totEleRead + r - 1 :
                 LET p == Seated(amp[i], col, row, 0, 0)
                 IN  p \in DOMAIN Turned(i, r) /\ Turned(i, r)[p].image = image
<1> DEFINE piece == Piece(i, PutAt(i, r), r)
<1>1. i \in Kept
    BY DEF Rotated
<1>2. /\ \A p \in DOMAIN piece : Mine(piece[p], p, i, 0, 0) /\ piece[p].image = image
      /\ \A col \in 0 .. NCols - 1, row \in totEleRead .. totEleRead + r - 1 :
            Seated(amp[i], col, row, 0, 0) \in DOMAIN piece
    BY <1>1, MultiplePieceIs
<1>3. /\ DOMAIN Turned(i, r) = DOMAIN tmpptr[i] \cup DOMAIN piece
      /\ \A p \in DOMAIN Turned(i, r) : Turned(i, r)[p] = IF p \in DOMAIN piece THEN piece[p] ELSE tmpptr[i][p]
    BY TurnedIs
<1>4. \A p \in DOMAIN tmpptr[i] : Mine(tmpptr[i][p], p, i, 0, 0)
    BY DEF Content, TurnedOwned
<1>5. \A col \in 0 .. NCols - 1, row \in 0 .. totEleRead - 1 :
          LET p == Seated(amp[i], col, row, 0, 0)
          IN  p \in DOMAIN tmpptr[i] /\ tmpptr[i][p].image = image
    BY DEF Content, TurnedNow
<1>6. totEleRead \in Nat
    BY Sizes DEF Typed, TypeOK
<1> HIDE DEF piece
<1>7. ASSUME NEW p \in DOMAIN Turned(i, r) PROVE Mine(Turned(i, r)[p], p, i, 0, 0)
    <2>1. CASE p \in DOMAIN piece
        BY <1>2, <1>3, <2>1
    <2>2. CASE p \notin DOMAIN piece
        BY <1>3, <1>4, <2>2
    <2> QED
        BY <2>1, <2>2
<1>8. ASSUME NEW col \in 0 .. NCols - 1, NEW row \in 0 .. totEleRead + r - 1
      PROVE  LET p == Seated(amp[i], col, row, 0, 0)
             IN  p \in DOMAIN Turned(i, r) /\ Turned(i, r)[p].image = image
    <2> DEFINE p == Seated(amp[i], col, row, 0, 0)
    <2>1. p \in DOMAIN piece \/ (p \in DOMAIN tmpptr[i] /\ tmpptr[i][p].image = image)
        <3>1. CASE row \in totEleRead .. totEleRead + r - 1
            BY <1>2, <3>1
        <3>2. CASE row \in 0 .. totEleRead - 1
            BY <1>5, <3>2
        <3> QED
            BY <1>6, <3>1, <3>2
    <2> HIDE DEF p
    <2>2. p \in DOMAIN Turned(i, r) /\ Turned(i, r)[p].image = image
        BY <1>2, <1>3, <2>1
    <2> QED
        BY <2>2 DEF p
<1> QED
    BY <1>7, <1>8

\* What goes to the HDU of an amplifier with a piece: pixels of this image at their seats, and
\* all there are if no write fails before.
LEMMA WritesHold ==
    ASSUME Typed, Turning, Content, NEW r \in Pieces, NEW bad \in 1 .. MaxAmps + 1, WriteMultiple(r, bad), Fits(r),
           NEW i \in Kept
    PROVE  /\ \A q \in DOMAIN Writes(r, bad)[i] :
                 /\ q = <<q[1], q[2]>>
                 /\ Mine(Writes(r, bad)[i][q], q, i, 0, 0) /\ Writes(r, bad)[i][q].image = image
           /\ i \notin Rotated /\ ~(i >= bad) =>
                 \A col \in 0 .. NCols - 1, row \in totEleRead .. totEleRead + r - 1 :
                    Seated(amp[i], col, row, 0, 0) \in DOMAIN Writes(r, bad)[i]
           /\ i \in Rotated /\ totEleRead + r = NRows /\ ~(i >= bad) =>
                 \A col \in 0 .. NCols - 1, row \in 0 .. NRows - 1 :
                    Seated(amp[i], col, row, 0, 0) \in DOMAIN Writes(r, bad)[i]
<1> DEFINE w == Writes(r, bad)[i]
<1>1. /\ file # <<>> /\ mext /\ course = "on" /\ r \in Nat \ {0} /\ i \in 1 .. namps
      /\ tmpptr' = [k \in 1 .. namps |-> IF k \in Rotated \cap Reached(bad) THEN Turned(k, r) ELSE tmpptr[k]]
    <2>1. /\ file # <<>> /\ mext /\ course = "on"
          /\ tmpptr' = [k \in 1 .. namps |-> IF k \in Rotated \cap Reached(bad) THEN Turned(k, r) ELSE tmpptr[k]]
        BY MultipleSteps, Zenon
    <2>2. r \in Nat \ {0} /\ i \in 1 .. namps
        BY WriterAssumption, AmpTypes DEF Typed
    <2> QED
        BY <2>1, <2>2, Zenon
<1>2. w = IF i \notin Due(r) \/ i >= bad THEN <<>>
          ELSE IF i \in Rotated THEN tmpptr'[i] ELSE Piece(i, ExtensionSpot(i, r), r)
    BY DEF Writes
<1>8. ASSUME ~(i >= bad), i \in Rotated PROVE tmpptr'[i] = Turned(i, r)
    <2>1. Kept \subseteq 1 .. namps /\ namps \in Nat
        BY AmpTypes DEF Typed
    <2>2. \A j \in Ends(bad) : j \in 1 .. namps /\ j >= bad
        BY <2>1 DEF Ends
    <2>3. i \in Reached(bad)
        BY <1>1, <1>8, <2>1, <2>2, Sizes DEF Reached
    <2> QED
        BY <1>1, <1>8, <2>3
<1>3. totEleRead \in Nat /\ totEleRead + r <= NRows /\ NRows \in Nat
    BY <1>1, Sizes DEF Typed, TypeOK, Fits
<1> HIDE DEF w
<1>4. ASSUME NEW q \in DOMAIN w PROVE Mine(w[q], q, i, 0, 0) /\ w[q].image = image
    <2>0. i \in Due(r) /\ ~(i >= bad)
        BY <1>2
    <2>1. CASE i \notin Rotated
        <3>1. w = Piece(i, PutAt(i, r), r)
            BY <1>2, <2>0, <2>1 DEF PutAt
        <3> QED
            BY <1>1, <3>1, MultiplePieceIs
    <2>2. CASE i \in Rotated
        <3>1. Completes(r) /\ w = Turned(i, r)
            BY <1>2, <1>8, <2>0, <2>2 DEF Due
        <3>2. Mine(w[q], q, i, 0, 0)
            BY <1>1, <2>2, <3>1, TurnedHolds
        <3>3. totEleRead + r - 1 = NRows - 1
            BY <1>1, <1>3, <3>1 DEF Completes
        <3>4. w[q].col \in 0 .. NCols - 1 /\ w[q].row \in 0 .. totEleRead + r - 1
              /\ q = Seated(amp[i], w[q].col, w[q].row, 0, 0)
            BY <3>2, <3>3 DEF Mine
        <3>5. \A col \in 0 .. NCols - 1, row \in 0 .. totEleRead + r - 1 :
                 Turned(i, r)[Seated(amp[i], col, row, 0, 0)].image = image
            BY <1>1, <2>2, TurnedHolds
        <3>6. Turned(i, r)[q].image = image
            BY <3>4, <3>5
        <3> QED
            BY <3>1, <3>2, <3>6
    <2> QED
        BY <2>1, <2>2
<1>5. ASSUME NEW q \in DOMAIN w PROVE q = <<q[1], q[2]>>
    BY <1>4 DEF Mine, Seated, Shifted
<1>6. ASSUME i \notin Rotated, ~(i >= bad), NEW col \in 0 .. NCols - 1, NEW row \in totEleRead .. totEleRead + r - 1
      PROVE  Seated(amp[i], col, row, 0, 0) \in DOMAIN w
    <2>1. w = Piece(i, PutAt(i, r), r)
        BY <1>2, <1>6 DEF PutAt, Due
    <2> QED
        BY <1>1, <2>1, MultiplePieceIs
<1>7. ASSUME i \in Rotated, totEleRead + r = NRows, ~(i >= bad), NEW col \in 0 .. NCols - 1, NEW row \in 0 .. NRows - 1
      PROVE  Seated(amp[i], col, row, 0, 0) \in DOMAIN w
    <2>1. totEleRead + r - 1 = NRows - 1 /\ Completes(r)
        BY <1>1, <1>3, <1>7 DEF Completes
    <2>2. w = Turned(i, r) /\ row \in 0 .. totEleRead + r - 1
        BY <1>2, <1>7, <1>8, <2>1 DEF Due
    <2> QED
        BY <1>1, <1>7, <2>2, TurnedHolds
<1> QED
    BY <1>4, <1>5, <1>6, <1>7 DEF w

\* The HDUs after a piece of a multiple file.
LEMMA SentIs ==
    ASSUME Typed, Turning, Content, NEW r \in Pieces, NEW bad \in 1 .. MaxAmps + 1, WriteMultiple(r, bad), Fits(r),
           NEW h \in DOMAIN file
    PROVE  /\ DOMAIN file' = DOMAIN file
           /\ DOMAIN file[h] \subseteq DOMAIN file'[h]
           /\ \A i \in Kept : HduOf(i) = h =>
                 \A q \in DOMAIN Writes(r, bad)[i] : <<q[1], q[2], 1>> \in DOMAIN file'[h]
           /\ \A p \in DOMAIN file'[h] :
                 \/ p \in DOMAIN file[h] /\ file'[h][p] = file[h][p]
                 \/ \E i \in Kept : /\ HduOf(i) = h /\ p = <<p[1], p[2], 1>>
                                    /\ <<p[1], p[2]>> \in DOMAIN Writes(r, bad)[i]
                                    /\ file'[h][p] = Writes(r, bad)[i][<<p[1], p[2]>>]
<1> DEFINE here == {j \in Kept : HduOf(j) = h}
           writes == [i \in here |-> InPlane(Writes(r, bad)[i], 1)]
           all == Overlaid(writes, file[h])
<1>1. DOMAIN file' = DOMAIN file /\ file'[h] = all
    <2>1. file' = [g \in DOMAIN file |->
                     Overlaid([i \in {j \in Kept : HduOf(j) = g} |-> InPlane(Writes(r, bad)[i], 1)], file[g])]
        BY MultipleSteps, Zenon
    <2> QED
        BY <2>1, Zenon
<1>2. namps \in Nat /\ here \subseteq 1 .. namps
    BY AmpTypes DEF Typed
<1>3. DOMAIN writes = here /\ \A i \in here : writes[i] = InPlane(Writes(r, bad)[i], 1)
    OBVIOUS
<1>4. DOMAIN all = DOMAIN file[h] \cup UNION {DOMAIN writes[i] : i \in DOMAIN writes}
    <2> HIDE DEF writes
    <2> QED
        BY OverlaidDomain
<1>5. ASSUME NEW i \in Kept, HduOf(i) = h, NEW q \in DOMAIN Writes(r, bad)[i]
      PROVE  <<q[1], q[2], 1>> \in DOMAIN file'[h]
    <2>1. <<q[1], q[2], 1>> \in DOMAIN InPlane(Writes(r, bad)[i], 1)
        BY DEF InPlane
    <2>2. i \in here
        BY <1>5
    <2> HIDE DEF here, writes, all
    <2> QED
        BY <1>1, <1>3, <1>4, <2>1, <2>2
<1>6. ASSUME NEW p \in DOMAIN all
      PROVE  \/ p \in DOMAIN file[h] /\ all[p] = file[h][p]
             \/ \E i \in Kept : /\ HduOf(i) = h /\ p = <<p[1], p[2], 1>>
                                /\ <<p[1], p[2]>> \in DOMAIN Writes(r, bad)[i]
                                /\ all[p] = Writes(r, bad)[i][<<p[1], p[2]>>]
    <2>1. ASSUME NEW i \in here, p \in DOMAIN writes[i], all[p] = writes[i][p]
          PROVE  /\ p = <<p[1], p[2], 1>> /\ <<p[1], p[2]>> \in DOMAIN Writes(r, bad)[i]
                 /\ all[p] = Writes(r, bad)[i][<<p[1], p[2]>>]
        <3> DEFINE w == Writes(r, bad)[i]
        <3>1. \A q \in DOMAIN w : q = <<q[1], q[2]>>
            BY WritesHold
        <3>2. p \in DOMAIN InPlane(w, 1) /\ all[p] = InPlane(w, 1)[p]
            <4> HIDE DEF all
            <4> QED
                BY <1>3, <2>1
        <3> HIDE DEF w, all
        <3> QED
            BY <3>1, <3>2, PlaneHolds DEF w
    <2>2. \/ \E i \in DOMAIN writes : p \in DOMAIN writes[i] /\ all[p] = writes[i][p]
          \/ p \in DOMAIN file[h] /\ all[p] = file[h][p]
        <3>1. namps \in Nat /\ DOMAIN writes \subseteq 1 .. namps /\ p \in DOMAIN Overlaid(writes, file[h])
            BY <1>2, <1>3
        <3>2. \/ \E i \in DOMAIN writes : p \in DOMAIN writes[i] /\ Overlaid(writes, file[h])[p] = writes[i][p]
              \/ p \in DOMAIN file[h] /\ Overlaid(writes, file[h])[p] = file[h][p]
            <4> HIDE DEF writes, here
            <4> QED
                BY <3>1, OverlaidIs
        <3> QED
            BY <3>2
    <2>3. \A i \in here : i \in Kept /\ HduOf(i) = h
        OBVIOUS
    <2> HIDE DEF here, writes, all
    <2> QED
        BY <1>3, <2>1, <2>2, <2>3
<1> HIDE DEF here, writes, all
<1> QED
    BY <1>1, <1>4, <1>5, <1>6

LEMMA WriteMultipleContent ==
    ASSUME Typed, Placed, Content, NEW r \in Pieces, NEW bad \in 1 .. MaxAmps + 1, WriteMultiple(r, bad)
    PROVE  Content'
<1>1. /\ file # <<>> /\ mext /\ course = "on" /\ r \in Nat \ {0}
      /\ totEleRead' = totEleRead + r
      /\ tmpptr' = [i \in 1 .. namps |-> IF i \in Rotated \cap Reached(bad) THEN Turned(i, r) ELSE tmpptr[i]]
      /\ failed' = failed \cup {<<HduOf(i), 1>> : i \in {j \in Due(r) : j >= bad}}
      /\ UNCHANGED <<amp, Extension, nzim, roi, is_roi, mext, nzcnt, size, image>>
    <2>1. /\ file # <<>> /\ mext /\ course = "on"
          /\ totEleRead' = totEleRead + r
          /\ tmpptr' = [i \in 1 .. namps |-> IF i \in Rotated \cap Reached(bad) THEN Turned(i, r) ELSE tmpptr[i]]
          /\ failed' = failed \cup {<<HduOf(i), 1>> : i \in {j \in Due(r) : j >= bad}}
          /\ UNCHANGED <<amp, Extension, nzim, roi, is_roi, mext, box, nzcnt, size, image>>
        BY MultipleSteps, Zenon
    <2>2. r \in Nat \ {0}
        BY WriterAssumption
    <2> QED
        BY <2>1, <2>2, Zenon
<1>11. /\ misused' = {} => misused = {} /\ Fits(r)
       /\ course' # "lost" => Fits(r)
       /\ course' = "on" => Fits(r) /\ Reached(bad) = Kept
    BY StaysOn
<1>2. /\ Kept' = Kept /\ Rotated' = Rotated /\ namps' = namps
      /\ \A i : HduOf(i)' = HduOf(i)
      /\ \A i, col, row, n : Belongs(i, col, row, n)' = Belongs(i, col, row, n)
    BY <1>1, SameKept, BelongsSame DEF HduOf
<1>3. Turning /\ MultipleFile
    BY DEF Placed
<1>4. totEleRead \in Nat /\ totEleRead' - 1 = totEleRead + r - 1
    BY <1>1, Sizes DEF Typed, TypeOK
<1>5. MemoryOwned' /\ MemoryNow' /\ SingleWhole'
    BY <1>1 DEF MemoryOwned, MemoryNow, SingleWhole
<1>6. ASSUME NEW i \in Rotated
      PROVE  /\ tmpptr'[i] = Turned(i, r) \/ tmpptr'[i] = tmpptr[i]
             /\ course' = "on" => tmpptr'[i] = Turned(i, r)
    <2>1. i \in 1 .. namps /\ i \in Kept
        BY DEF Rotated, Kept
    <2> QED
        BY <1>1, <1>11, <2>1
<1>7. TurnedOwned'
    <2> SUFFICES ASSUME Fits(r), NEW i \in Rotated, NEW p \in DOMAIN tmpptr'[i]
                 PROVE  Mine(tmpptr'[i][p], p, i, 0, 0)
        BY <1>1, <1>2, <1>11 DEF TurnedOwned, Mine
    <2>1. CASE tmpptr'[i] = Turned(i, r)
        BY <1>1, <1>3, <2>1, TurnedHolds
    <2>2. CASE tmpptr'[i] = tmpptr[i]
        BY <1>1, <2>2 DEF Content, TurnedOwned
    <2> QED
        BY <1>6, <2>1, <2>2
<1>8. TurnedNow'
    <2> SUFFICES ASSUME course' = "on", NEW i \in Rotated, NEW col \in 0 .. NCols - 1, NEW row \in 0 .. totEleRead' - 1
                 PROVE  LET p == Seated(amp[i], col, row, 0, 0)
                        IN  p \in DOMAIN tmpptr'[i] /\ tmpptr'[i][p].image = image
        BY <1>1, <1>2 DEF TurnedNow
    <2>1. row \in 0 .. totEleRead + r - 1 /\ Fits(r) /\ tmpptr'[i] = Turned(i, r)
        BY <1>4, <1>6, <1>11
    <2> QED
        BY <1>1, <1>3, <2>1, TurnedHolds
<1>9. SentSoFar'
    <2> SUFFICES ASSUME misused' = {}, course' = "on", NEW i \in Kept, NEW col \in 0 .. NCols - 1,
                        NEW row \in 0 .. totEleRead' - 1, i \notin Rotated \/ totEleRead' = NRows,
                        <<HduOf(i), 1>> \notin failed'
                 PROVE  LET p == Seated(amp[i], col, row, 0, 0)
                        IN  <<p[1], p[2], 1>> \in DOMAIN file'[HduOf(i)]
        BY <1>1, <1>2 DEF SentSoFar
    <2> DEFINE p == Seated(amp[i], col, row, 0, 0)  h == HduOf(i)
    <2>1. misused = {} /\ Fits(r) /\ row \in 0 .. totEleRead + r - 1 /\ <<HduOf(i), 1>> \notin failed
        BY <1>1, <1>4, <1>11
    <2>6. ~(i >= bad)
        <3>1. i \in Due(r)
            BY <1>1, <1>4, Sizes DEF Due, Completes
        <3> QED
            BY <1>1, <3>1
    <2>2. h \in DOMAIN file
        BY <1>1, <1>3, <2>1 DEF MultipleFile, Typed, TypeOK
    <2>3. /\ DOMAIN file[h] \subseteq DOMAIN file'[h]
          /\ \A q \in DOMAIN Writes(r, bad)[i] : <<q[1], q[2], 1>> \in DOMAIN file'[h]
        BY <1>3, <2>1, <2>2, SentIs
    <2>4. p \in DOMAIN Writes(r, bad)[i] \/ <<p[1], p[2], 1>> \in DOMAIN file[h]
        <3>1. CASE i \in Rotated
            <4>1. totEleRead + r = NRows /\ row \in 0 .. NRows - 1
                BY <1>1, <3>1
            <4> QED
                BY <1>3, <2>1, <2>6, <3>1, <4>1, WritesHold
        <3>2. CASE i \notin Rotated /\ row \in totEleRead .. totEleRead + r - 1
            BY <1>3, <2>1, <2>6, <3>2, WritesHold
        <3>3. CASE i \notin Rotated /\ row \in 0 .. totEleRead - 1
            BY <1>1, <2>1, <3>3 DEF Content, SentSoFar
        <3> QED
            BY <1>4, <2>1, <3>1, <3>2, <3>3
    <2> HIDE DEF p, h
    <2>5. <<p[1], p[2], 1>> \in DOMAIN file'[h]
        BY <2>3, <2>4
    <2> QED
        BY <2>5 DEF p, h
<1>10. PixelsInPlace'
    <2>1. First' = First /\ First = image
        BY <1>1 DEF First
    <2>2. DOMAIN file' = DOMAIN file
        BY MultipleSteps
    <2> SUFFICES ASSUME misused' = {}, NEW h \in DOMAIN file', NEW p \in DOMAIN file'[h]
                 PROVE  LET pixel == file'[h][p]
                        IN  /\ pixel.image = First + p[3] - 1
                            /\ Belongs(pixel.amp, pixel.col, pixel.row, p[3]) = <<h, p>>
        BY <1>2, <2>1 DEF PixelsInPlace
    <2>3. misused = {} /\ h \in DOMAIN file /\ Fits(r)
        BY <1>11, <2>2
    <2>4. CASE p \in DOMAIN file[h] /\ file'[h][p] = file[h][p]
        BY <2>3, <2>4 DEF Content, PixelsInPlace
    <2>5. ASSUME NEW i \in Kept, HduOf(i) = h, p = <<p[1], p[2], 1>>, <<p[1], p[2]>> \in DOMAIN Writes(r, bad)[i],
                 file'[h][p] = Writes(r, bad)[i][<<p[1], p[2]>>]
          PROVE  LET pixel == file'[h][p]
                 IN  /\ pixel.image = First + p[3] - 1
                     /\ Belongs(pixel.amp, pixel.col, pixel.row, p[3]) = <<h, p>>
        <3> DEFINE pixel == file'[h][p]  q == <<p[1], p[2]>>
        <3>1. Mine(pixel, q, i, 0, 0) /\ pixel.image = image
            BY <1>3, <2>3, <2>5, WritesHold
        <3>2. p[3] = 1 /\ p = <<q[1], q[2], 1>>
            BY <2>5
        <3> HIDE DEF pixel, q
        <3>3. /\ pixel.amp = i /\ pixel.col \in 0 .. NCols - 1 /\ pixel.row \in 0 .. NRows - 1
              /\ q = Seated(amp[i], pixel.col, pixel.row, 0, 0)
            BY <3>1 DEF Mine
        <3>4. Belongs(i, pixel.col, pixel.row, 1) = <<h, <<q[1], q[2], 1>>>>
            BY <1>1, <1>3, <2>3, <2>5, <3>3, BelongsMultiple
        <3>5. First + 1 - 1 = image
            BY <2>1, Sizes DEF Typed, TypeOK
        <3>6. pixel.image = First + p[3] - 1 /\ Belongs(pixel.amp, pixel.col, pixel.row, p[3]) = <<h, p>>
            BY <3>1, <3>2, <3>3, <3>4, <3>5
        <3> QED
            BY <3>6 DEF pixel
    <2> QED
        BY <1>3, <2>3, <2>4, <2>5, SentIs
<1> QED
    BY <1>5, <1>7, <1>8, <1>9, <1>10 DEF Content

LEMMA StepContent == LowerFirst /\ Typed /\ Placed /\ Content /\ [Next]_vars => Content'
<1> SUFFICES ASSUME LowerFirst, Typed, Placed, Content, [Next]_vars PROVE Content'
    OBVIOUS
<1>1. CASE \E mult, wider \in BOOLEAN, layout \in Layouts : GFInit(layout, mult, wider)
    BY <1>1, GFInitContent
<1>2. CASE \E mult, wider \in BOOLEAN : CreateImg(mult, wider)
    BY <1>2, CreateContent
<1>3. CASE \E map \in Maps, past \in Beyond : SetExtensions(map, past)
    BY <1>3, SettingContent DEF SetExtensions
<1>4. CASE InitExtensions
    BY <1>4, SettingContent DEF InitExtensions
<1>5. CASE \E n \in Depths : SetZAxis(n)
    BY <1>5, SettingContent DEF SetZAxis
<1>6. CASE \E region \in Regions \cup {NoRegion} : SetRoi(region)
    BY <1>6, SettingContent DEF SetRoi
<1>7. CASE \E r \in Pieces, bad \in 1 .. MaxAmps + 1 : WriteMultiple(r, bad)
    BY <1>7, WriteMultipleContent
<1>8. CASE \E r \in Pieces, from_buf, fails \in BOOLEAN : WriteSingle(r, from_buf, fails)
    BY <1>8, WriteSingleContent
<1>9. CASE CloseFile
    BY <1>9, CloseContent
<1>10. CASE UNCHANGED vars
    <2>1. UNCHANGED <<amp, Extension, nzim, roi, is_roi, mext, start, box, totEleRead, nzcnt, tmpptr, size, file,
                      image, misused, failed, course>>
        BY <1>10 DEF vars, geometry
    <2>2. /\ Kept' = Kept /\ Flat' = Flat /\ Mixed' = Mixed /\ Rotated' = Rotated /\ Around(0)' = Around(0)
          /\ \A i : Across(i)' = Across(i) /\ Along(i)' = Along(i) /\ HduOf(i)' = HduOf(i)
        BY <2>1, SameKept DEF Across, Along, HduOf
    <2>3. /\ \A i, col, row, n : Belongs(i, col, row, n)' = Belongs(i, col, row, n)
          /\ First' = First
        BY <2>1, BelongsSame DEF First
    <2>4. MemoryOwned' /\ TurnedOwned'
        BY <2>1, OwnedKept DEF Content
    <2>5. MemoryNow'
        BY <2>1, <2>2 DEF Content, MemoryNow
    <2>6. TurnedNow'
        BY <2>1, <2>2 DEF Content, TurnedNow
    <2>7. SentSoFar'
        BY <2>1, <2>2 DEF Content, SentSoFar
    <2>8. SingleWhole'
        BY <2>1, <2>2, <2>3 DEF Content, SingleWhole
    <2>9. PixelsInPlace'
        BY <2>1, <2>3 DEF Content, PixelsInPlace
    <2> QED
        BY <2>4, <2>5, <2>6, <2>7, <2>8, <2>9 DEF Content
<1> QED
    BY <1>1, <1>2, <1>3, <1>4, <1>5, <1>6, <1>7, <1>8, <1>9, <1>10 DEF Next

LEMMA ContentWhole == Typed /\ Placed /\ Content => ImagesWhole
<1> SUFFICES ASSUME Typed, Placed, Content, file # <<>>, misused = {}, NEW n \in 1 .. Finished, NEW i \in Kept,
                    NEW col \in 0 .. NCols - 1, NEW row \in 0 .. NRows - 1
             PROVE  LET place == Belongs(i, col, row, n)
                    IN  \/ <<place[1], n>> \in failed
                        \/ place[2] \in DOMAIN file[place[1]]
                        \/ (~mext /\ is_roi /\ ~Inside({place[2]}, roi.cols, roi.rows))
    BY DEF ImagesWhole
<1>1. CASE ~mext
    <2>1. n \in 1 .. nzcnt
        BY <1>1 DEF Finished
    <2>2. Belongs(i, col, row, n)[1] = 1
        BY <1>1 DEF Belongs
    <2> QED
        BY <1>1, <2>1, <2>2 DEF Content, SingleWhole
<1>2. CASE mext
    <2> DEFINE p == Seated(amp[i], col, row, 0, 0)
    <2>1. totEleRead = NRows /\ course = "on" /\ n = 1
        BY <1>2 DEF Finished
    <2>2. <<HduOf(i), 1>> \in failed \/ <<p[1], p[2], 1>> \in DOMAIN file[HduOf(i)]
        BY <1>2, <2>1 DEF Content, SentSoFar
    <2>3. Belongs(i, col, row, n) = <<HduOf(i), <<p[1], p[2], n>>>>
        BY <1>2, BelongsMultiple DEF Placed
    <2> QED
        BY <2>1, <2>2, <2>3
<1> QED
    BY <1>1, <1>2

LEMMA AlwaysContent == LowerFirst => (Spec => [](Typed /\ Placed /\ Content))
<1> SUFFICES ASSUME LowerFirst PROVE Spec => [](Typed /\ Placed /\ Content)
    OBVIOUS
<1>1. Init => Typed /\ Placed /\ Content
    BY InitTyped, InitPlaced, InitContent
<1>2. Typed /\ Placed /\ Content /\ [Next]_vars => (Typed /\ Placed /\ Content)'
    BY StepTyped, StepPlaced, StepContent
<1> QED
    BY <1>1, <1>2, PTL DEF Spec

\* Whatever the amplifiers are (of an image of both sides, with a lower one first), however an
\* image is cut into rows, wherever the one before was given up and whichever writes fail, a
\* pixel in a file that is used as the library supports it is of the image and at the place it
\* should be: the writes of GF_writeImage_Single() and of GF_writeImage_Multiple(), with the
\* corners and steps of GF_fits_set_values().
THEOREM PixelsStayInPlace == LowerFirst => (Spec => []PixelsInPlace)
<1>1. Typed /\ Placed /\ Content => PixelsInPlace
    BY DEF Content
<1> QED
    BY <1>1, AlwaysContent, PTL

\* Under the same condition, an image that GF_writeImage_Single() has counted in zcnt, or that
\* GF_writeImage_Multiple() has written the last row of, lacks no pixel that belongs to it, but
\* for the HDU, or the image in it, that a write has failed for: a failure spoils no other.
THEOREM ImagesComeWhole == LowerFirst => (Spec => []ImagesWhole)
<1>1. Typed /\ Placed /\ Content => ImagesWhole
    BY ContentWhole
<1> QED
    BY <1>1, AlwaysContent, PTL
=============================================================================

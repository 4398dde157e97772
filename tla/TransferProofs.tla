--------------------------- MODULE TransferProofs ---------------------------
(***************************************************************************)
(* What is proved of FrameTransfer: that the readers of astroIIILib.c hand *)
(* on every frame whole and in its turn.                                   *)
(***************************************************************************)
EXTENDS FrameTransfer, TLAPS

\* The reader polls four times or more while the board writes a frame.
Timely == 4 * MaxBehind <= Chunks + 1

\* With three frames or more in the buffer, none needs rounding.
RoundFrames == \A l \in Layouts : l.fpb > 2 => l.gap = 0

\* The fast modes are used for exposures that are read once.
FastReadsOnce == \A e \in Exposures : e.mode # "chunks" => e.pre = 0

-----------------------------------------------------------------------------
(* The inductive invariant. *)

Start(l, p) == p * (Chunks + l.gap)

Previous == IF framesCounter = 0 THEN layout.fpb - 1 ELSE framesCounter - 1
Following == IF framesCounter = layout.fpb - 1 THEN 0 ELSE framesCounter + 1

\* The frame the reader is at, and how many frames the board has begun since the one before.
current == first + Len(out) + 1
ahead == begun - first - Len(out)

\* The pieces of the current frame, and of the one after it, that are written.
written == IF ahead = 0 THEN 0 ELSE IF ahead = 1 THEN done ELSE Chunks + done

ReadingInv ==
    /\ pc \notin {"idle", "frame"} => num_reads < num_frames
    /\ pc \in {"wait", "poll", "copy"} => mode = "chunks"
    /\ pc \in {"await", "take"} => mode # "chunks"
    /\ pc = "wait" => oldpix = 0 /\ prevpix = 0
    /\ pc = "poll" => oldpix < Chunks /\ prevpix < Chunks
    /\ pc = "copy" => oldpix < Chunks /\ (pix = Chunks \/ prevpix < Chunks)
    /\ pciPixCounter = 0 \/ pciPixCounter >= Chunks

\* The board is where the reader expects it.
PlaceInv ==
    /\ ~halted /\ ahead \in 0 .. 2
    /\ begun - first + todo = Len(out) + (num_frames - num_reads) + later
    /\ count = begun - first - (IF done < Chunks THEN 1 ELSE 0)
    /\ mode # "chunks" => num_reads = Len(out) /\ (num_frames = 0 \/ later = 0)
    /\ begun # first => progress = Start(layout, place) + done
    /\ begun = first => progress \in {0, pciPixCounter}
    /\ Len(out) = 0 => framesCounter = 0
    /\ Len(out) # 0 => pciPixCounter = Start(layout, Previous) + Chunks
    /\ ahead = 0 => done = Chunks /\ (Len(out) # 0 => place = Previous)
    /\ ahead = 1 => place = framesCounter
    /\ ahead = 2 => place = Following

\* The board is no further than the reader can follow.
PaceInv ==
    /\ pc \in {"frame", "wait"} => written - behind <= MaxBehind - 1
    /\ pc = "await" => written - behind <= Chunks - 1
    /\ pc = "take" => written - behind <= Chunks - 1 + MaxBehind /\ written >= Chunks
    /\ pc = "poll" => /\ oldpix <= written
                      /\ written - behind <= oldpix \/ written - behind <= 2 * MaxBehind - 1
                      /\ ahead = 0 => FrameProgress = 0
    /\ pc = "copy" => /\ oldpix <= pix /\ pix <= written
                      /\ written - behind <= pix \/ pix = Chunks
                      /\ written - behind <= oldpix + MaxBehind
                           \/ written - behind <= 3 * MaxBehind - 1
                      /\ ahead = 0 => FrameProgress = 0

\* What is in the DMA buffer of the current frame and of the last begun.
MemoryInv ==
    /\ ahead > 0 => \A c \in 1 .. done : mem[Start(layout, place) + c] = begun
    /\ \A c \in Pieces : c <= written /\ (layout.fpb > 1 \/ c > written - Chunks)
            => mem[Start(layout, framesCounter) + c] = current

BufferInv == pc \in {"poll", "copy"} => \A c \in 1 .. oldpix : buffer[c] = current

Followed == PlaceInv /\ PaceInv /\ MemoryInv /\ BufferInv

Synchronized == sound /\ pc # "idle" => Followed

Inv == TypeOK /\ ReadingInv /\ Synchronized /\ FramesIntact

-----------------------------------------------------------------------------
(* Where the frames are in the DMA buffer. *)

LEMMA Spread ==
    ASSUME NEW a \in Nat, NEW b \in Nat, NEW s \in Nat, a < b
    PROVE  a * s \in Nat /\ a * s + s <= b * s
<1>1. PICK k \in Nat : b = a + 1 + k
    <2>1. b - a - 1 \in Nat /\ b = a + 1 + (b - a - 1)
        OBVIOUS
    <2> QED
        BY <2>1
<1>2. k * s \in Nat /\ a * s \in Nat
    OBVIOUS
<1>3. b * s = a * s + s + k * s
    BY <1>1
<1> QED
    BY <1>2, <1>3

LEMMA NextMultiple ==
    ASSUME NEW a \in Nat, NEW s \in Nat
    PROVE  a * s \in Nat /\ (a + 1) * s = a * s + s
OBVIOUS

LEMMA Sizes ==
    ASSUME TypeOK
    PROVE  /\ layout \in Layouts /\ layout.fpb \in Nat \ {0} /\ layout.gap \in Nat
           /\ Chunks \in Nat \ {0} /\ MaxBehind \in Nat \ {0} /\ FastSlots \in Nat \ {0}
           /\ Stride \in Nat /\ Stride = Chunks + layout.gap
BY TransferAssumption DEF TypeOK, Stride

\* The frames do not overlap.
LEMMA Starts ==
    ASSUME TypeOK
    PROVE  /\ Start(layout, 0) = 0
           /\ \A p \in Nat : /\ Start(layout, p) \in Nat
                             /\ Start(layout, p + 1) = Start(layout, p) + Chunks + layout.gap
           /\ \A p, q \in Nat :
                 p < q => Start(layout, p) + Chunks + layout.gap <= Start(layout, q)
<1> DEFINE s == Chunks + layout.gap
<1>1. s \in Nat /\ layout.gap \in Nat /\ Chunks \in Nat
    BY Sizes
<1>2. \A p : Start(layout, p) = p * s
    BY DEF Start
<1> HIDE DEF s
<1>3. Start(layout, 0) = 0
    BY <1>1, <1>2
<1>4. ASSUME NEW p \in Nat
      PROVE  Start(layout, p) \in Nat /\ Start(layout, p + 1) = Start(layout, p) + s
    BY <1>1, <1>2, NextMultiple
<1>5. ASSUME NEW p \in Nat, NEW q \in Nat, p < q
      PROVE  Start(layout, p) + s <= Start(layout, q)
    BY <1>1, <1>2, <1>5, Spread
<1>6. \A x \in Nat : x + s = x + Chunks + layout.gap
    BY <1>1 DEF s
<1> QED
    BY <1>3, <1>4, <1>5, <1>6

-----------------------------------------------------------------------------
(* The types. *)

LEMMA SeqOfMore ==
    ASSUME NEW S, NEW T, S \subseteq T, NEW s \in Seq(S)
    PROVE  s \in Seq(T)
OBVIOUS

LEMMA AppendType ==
    ASSUME NEW S, NEW s \in Seq(S), NEW e \in S
    PROVE  Append(s, e) \in Seq(S)
OBVIOUS

LEMMA TypedInit == Init => TypeOK /\ ReadingInv
<1> SUFFICES ASSUME Init PROVE TypeOK /\ ReadingInv
    OBVIOUS
<1>1. layout \in Layouts /\ layout.fpb \in Nat \ {0} /\ layout.gap \in Nat /\ Chunks \in Nat \ {0}
    BY TransferAssumption DEF Init
<1>2. Stride \in Nat /\ 0 * Stride = 0 /\ layout.fpb * Stride \in Nat
    BY <1>1 DEF Stride
<1>3. /\ 0 \in 0 .. layout.fpb * Stride /\ 0 \in 0 .. layout.fpb - 1
      /\ \A c \in Pieces : 0 \in 0 .. 0
    BY <1>1, <1>2
<1>4. /\ mem \in [1 .. layout.fpb * Stride -> 0 .. begun] /\ buffer \in [Pieces -> 0 .. begun]
      /\ out \in Seq([Pieces -> 0 .. begun])
    BY <1>3 DEF Init, Empty
<1>5. /\ tot_pix_rec = framesCounter * Stride /\ progress \in 0 .. layout.fpb * Stride
      /\ pciPixCounter \in 0 .. layout.fpb * Stride
    BY <1>2, <1>3 DEF Init
<1>6. TypeOK
    <2>1. /\ done \in 0 .. Chunks /\ oldpix \in 0 .. Chunks /\ pix \in 0 .. Chunks
          /\ behind \in 0 .. MaxBehind /\ fastPtrNo \in 0 .. FastSlots - 1
          /\ shots \in 0 .. MaxExposures /\ faults \in 0 .. MaxFaults /\ first \in 0 .. begun
          /\ num_reads \in 0 .. num_frames
        BY TransferAssumption DEF Init
    <2>2. /\ begun \in Nat /\ todo \in Nat /\ count \in Nat /\ num_frames \in Nat
          /\ later \in Nat /\ prevpix \in Nat /\ halted \in BOOLEAN /\ sound \in BOOLEAN
          /\ place \in 0 .. layout.fpb - 1 /\ framesCounter \in 0 .. layout.fpb - 1
        BY <1>3 DEF Init
    <2> QED
        BY <1>1, <1>4, <1>5, <2>1, <2>2 DEF Init, TypeOK
<1>7. ReadingInv
    BY DEF Init, ReadingInv
<1> QED
    BY <1>6, <1>7

LEMMA Address ==
    ASSUME TypeOK, NEW p \in 0 .. layout.fpb - 1
    PROVE  /\ p * Stride \in Nat /\ p * Stride + Chunks <= layout.fpb * Stride
           /\ p * Stride = Start(layout, p)
           /\ \A c \in Pieces : p * Stride + c \in 1 .. layout.fpb * Stride
<1> DEFINE S == Stride   f == layout.fpb
<1>1. S \in Nat /\ f \in Nat \ {0} /\ Chunks <= S /\ Chunks \in Nat
    BY Sizes
<1>2. p * Stride = Start(layout, p)
    BY Sizes DEF Start
<1> HIDE DEF S, f
<1>3. p * S \in Nat /\ p * S + S <= f * S /\ f * S \in Nat
    BY <1>1, Spread, NextMultiple DEF f
<1>4. p * S + Chunks <= f * S
    BY <1>1, <1>3
<1>5. \A c \in Pieces : p * S + c \in 1 .. f * S
    BY <1>1, <1>3, <1>4 DEF Pieces
<1> QED
    BY <1>2, <1>3, <1>4, <1>5 DEF S, f

LEMMA CopiedType ==
    ASSUME TypeOK, NEW a, NEW b
    PROVE  Copied(a, b) \in [Pieces -> 0 .. begun]
<1>1. framesCounter \in 0 .. layout.fpb - 1 /\ tot_pix_rec = framesCounter * Stride
    BY DEF TypeOK
<1>2. ASSUME NEW c \in Pieces
      PROVE  mem[tot_pix_rec + c] \in 0 .. begun /\ buffer[c] \in 0 .. begun
    BY <1>1, Address DEF TypeOK
<1> QED
    BY <1>2 DEF Copied

LEMMA UpdateType ==
    ASSUME TypeOK, UpdateFrameInfo, layout' = layout
    PROVE  /\ framesCounter' \in 0 .. layout.fpb - 1 /\ tot_pix_rec' = framesCounter' * Stride
           /\ pciPixCounter' \in 0 .. layout.fpb * Stride /\ pciPixCounter' >= Chunks
<1> DEFINE S == Stride   f == layout.fpb
<1>1. /\ S \in Nat /\ f \in Nat \ {0} /\ Chunks \in Nat /\ framesCounter \in 0 .. f - 1
      /\ tot_pix_rec = framesCounter * S
    BY Sizes DEF TypeOK
<1>2. framesCounter * S \in Nat /\ framesCounter * S + Chunks <= f * S
    BY <1>1, Address
<1>3. (framesCounter + 1) * S = framesCounter * S + S /\ 0 * S = 0
    BY <1>1, NextMultiple
<1>4. /\ pciPixCounter' = tot_pix_rec + Chunks
      /\ framesCounter' = IF framesCounter = f - 1 THEN 0 ELSE framesCounter + 1
      /\ tot_pix_rec' = IF framesCounter = f - 1 THEN 0 ELSE tot_pix_rec + S
    BY DEF UpdateFrameInfo, LastOfBuffer
<1> HIDE DEF S, f
<1>5. f * S \in Nat
    BY <1>1
<1>6. /\ framesCounter' \in 0 .. f - 1 /\ pciPixCounter' \in 0 .. f * S
      /\ pciPixCounter' >= Chunks
    BY <1>1, <1>2, <1>4, <1>5
<1>7. tot_pix_rec' = framesCounter' * S
    BY <1>1, <1>2, <1>3, <1>4
<1> QED
    BY <1>6, <1>7 DEF S, f

LEMMA ProgressType ==
    ASSUME TypeOK
    PROVE  FrameProgress \in Nat /\ progress \in Nat /\ tot_pix_rec \in Nat
<1> DEFINE N == layout.fpb * Stride   t == framesCounter * Stride
<1>1. t \in Nat /\ N \in Nat /\ Chunks \in Nat
    <2>1. layout.fpb \in Nat /\ framesCounter \in Nat /\ Stride \in Nat
        BY Sizes DEF TypeOK
    <2> QED
        BY <2>1, NextMultiple, Sizes
<1>2. tot_pix_rec = t /\ progress \in 0 .. N
    BY DEF TypeOK
<1> HIDE DEF N, t
<1> QED
    BY <1>1, <1>2 DEF FrameProgress

\* The type invariant, with the addresses as they are reasoned about.
Room(l) == Start(l, l.fpb)

BoardTyped ==
    /\ layout \in Layouts /\ begun \in Nat
    /\ mem \in [1 .. Room(layout) -> 0 .. begun]
    /\ todo \in Nat /\ place \in 0 .. layout.fpb - 1 /\ done \in 0 .. Chunks
    /\ progress \in 0 .. Room(layout)
    /\ count \in Nat /\ halted \in BOOLEAN /\ behind \in 0 .. MaxBehind

PlaceTyped ==
    /\ framesCounter \in 0 .. layout.fpb - 1 /\ tot_pix_rec = Start(layout, framesCounter)
    /\ pciPixCounter \in 0 .. Room(layout)

ReaderTyped ==
    /\ pc \in {"idle", "frame", "wait", "poll", "copy", "await", "take"}
    /\ mode \in {"chunks", "fast", "ultra"}
    /\ num_frames \in Nat /\ num_reads \in 0 .. num_frames /\ later \in Nat
    /\ fastPtrNo \in 0 .. FastSlots - 1
    /\ oldpix \in 0 .. Chunks /\ pix \in 0 .. Chunks /\ prevpix \in Nat
    /\ result \in {"none", "OK", "ETIME", "error"}
    /\ first \in 0 .. begun /\ sound \in BOOLEAN
    /\ shots \in 0 .. MaxExposures /\ faults \in 0 .. MaxFaults

BuffersTyped ==
    buffer \in [Pieces -> 0 .. begun] /\ out \in Seq([Pieces -> 0 .. begun])

LEMMA TypeOKSplit == TypeOK => BoardTyped /\ PlaceTyped /\ ReaderTyped /\ BuffersTyped
<1>1. ASSUME TypeOK PROVE layout.fpb * Stride = Room(layout)
    BY DEF Stride, Room, Start
<1>2. ASSUME TypeOK PROVE framesCounter * Stride = Start(layout, framesCounter)
    BY DEF Stride, Start
<1> QED
    BY <1>1, <1>2 DEF TypeOK, BoardTyped, PlaceTyped, ReaderTyped, BuffersTyped

LEMMA TypeOKJoin == BoardTyped' /\ PlaceTyped' /\ ReaderTyped' /\ BuffersTyped' => TypeOK'
<1>1. layout'.fpb * Stride' = Room(layout')
    BY DEF Stride, Room, Start
<1>2. framesCounter' * Stride' = Start(layout', framesCounter')
    BY DEF Stride, Start
<1> QED
    BY <1>1, <1>2 DEF TypeOK, BoardTyped, PlaceTyped, ReaderTyped, BuffersTyped

LEMMA BuffersGrow ==
    ASSUME BuffersTyped, begun \in Nat, begun' \in Nat, begun <= begun'
    PROVE  /\ buffer \in [Pieces -> 0 .. begun'] /\ out \in Seq([Pieces -> 0 .. begun'])
           /\ [Pieces -> 0 .. begun] \subseteq [Pieces -> 0 .. begun']
<1>1. 0 .. begun \subseteq 0 .. begun'
    OBVIOUS
<1>2. [Pieces -> 0 .. begun] \subseteq [Pieces -> 0 .. begun']
    BY <1>1
<1> QED
    BY <1>2, SeqOfMore DEF BuffersTyped

LEMMA PlaceKept ==
    ASSUME PlaceTyped, UNCHANGED <<layout, follow>>
    PROVE  PlaceTyped'
BY DEF PlaceTyped, follow

LEMMA BuffersKept ==
    ASSUME BuffersTyped, UNCHANGED <<begun, buffer, out>>
    PROVE  BuffersTyped'
BY DEF BuffersTyped

LEMMA BoardKept ==
    ASSUME BoardTyped, UNCHANGED <<layout, boardVars>>, behind' \in 0 .. MaxBehind
    PROVE  BoardTyped'
BY DEF BoardTyped, boardVars

\* What an abort leaves of the board's state has its types.
LEMMA BoardAborted ==
    ASSUME TypeOK, AbortRead, UNCHANGED <<layout, behind>>
    PROVE  BoardTyped' /\ begun' = begun
<1>1. BoardTyped /\ Chunks \in Nat /\ Room(layout) \in Nat
    BY Sizes, Starts, TypeOKSplit DEF Room
<1>2. CASE UNCHANGED boardVars
    BY <1>1, <1>2, BoardKept DEF boardVars, BoardTyped
<1>3. CASE /\ todo' = 0 /\ done' = Chunks /\ halted' = FALSE /\ progress' \in {progress, 0}
           /\ UNCHANGED <<mem, begun, place, count>>
    <2>1. progress' \in 0 .. Room(layout) /\ done' \in 0 .. Chunks
        BY <1>1, <1>3 DEF BoardTyped
    <2> QED
        BY <1>1, <1>3, <2>1 DEF BoardTyped
<1> QED
    BY <1>2, <1>3 DEF AbortRead

LEMMA UpdatePlace ==
    ASSUME TypeOK, UpdateFrameInfo, layout' = layout
    PROVE  PlaceTyped' /\ pciPixCounter' >= Chunks
<1>1. framesCounter' * Stride = Start(layout, framesCounter') /\ layout.fpb * Stride = Room(layout)
    BY DEF Stride, Start, Room
<1> QED
    BY <1>1, UpdateType DEF PlaceTyped

LEMMA TypedStep == TypeOK /\ ReadingInv /\ [Next]_vars => TypeOK' /\ ReadingInv'
<1> SUFFICES ASSUME TypeOK, ReadingInv, [Next]_vars PROVE TypeOK' /\ ReadingInv'
    OBVIOUS
<1> USE DEF call, poll, history
<1>a. BoardTyped /\ PlaceTyped /\ ReaderTyped /\ BuffersTyped
    BY TypeOKSplit
<1>b. SUFFICES BoardTyped' /\ PlaceTyped' /\ ReaderTyped' /\ BuffersTyped' /\ ReadingInv'
    BY TypeOKJoin
<1>c. /\ Room(layout) \in Nat /\ layout.fpb \in Nat \ {0} /\ Chunks \in Nat \ {0}
      /\ MaxBehind \in Nat \ {0} /\ FastSlots \in Nat \ {0}
      /\ MaxExposures \in Nat /\ MaxFaults \in Nat
    BY Sizes, Starts, TransferAssumption DEF Room
<1>d. /\ 0 \in 0 .. MaxBehind /\ begun \in Nat /\ behind \in 0 .. MaxBehind
      /\ \A p \in 0 .. layout.fpb - 1 : Start(layout, p) = p * Stride
    BY <1>a, <1>c, Address DEF BoardTyped
<1>1. CASE BeginPlace
    <2>1. place' \in 0 .. layout.fpb - 1 /\ progress' = place' * Stride
        BY <1>1, <1>a, <1>c DEF BeginPlace, BoardTyped
    <2>2. progress' = Start(layout, place') /\ place' \in Nat /\ place' < layout.fpb
        BY <2>1, <1>c, <1>d
    <2>3. progress' \in 0 .. Room(layout)
        <3>1. /\ Start(layout, place') \in Nat /\ layout.gap \in Nat
              /\ Start(layout, place') + Chunks + layout.gap <= Room(layout)
            BY <2>2, <1>c, Starts, Sizes DEF Room
        <3> QED
            BY <2>2, <3>1, <1>c
    <2>4. begun' = begun + 1 /\ 0 .. begun \subseteq 0 .. begun' /\ begun' \in Nat
        BY <1>1, <1>d DEF BeginPlace
    <2>5. mem \in [1 .. Room(layout) -> 0 .. begun']
        BY <1>a, <2>4 DEF BoardTyped
    <2>6. BoardTyped'
        BY <1>1, <1>a, <1>c, <2>1, <2>3, <2>4, <2>5 DEF BeginPlace, BoardTyped
    <2>7. BuffersTyped'
        BY <1>1, <1>a, <1>d, <2>4, BuffersGrow DEF BeginPlace, BuffersTyped
    <2>8. PlaceTyped'
        BY <1>1, <1>a, PlaceKept DEF BeginPlace
    <2>9. ReaderTyped' /\ ReadingInv'
        BY <1>1, <1>a, <1>d, <2>4 DEF BeginPlace, ReaderTyped, ReadingInv, follow
    <2> QED
        BY <2>6, <2>7, <2>8, <2>9
<1>2. CASE WritePiece
    <2>1. done' \in Pieces /\ progress' = place * Stride + done' /\ place \in 0 .. layout.fpb - 1
        BY <1>2, <1>a, <1>c DEF WritePiece, BoardTyped, Pieces
    <2>2. progress' \in 1 .. Room(layout)
        BY <2>1, Address, Sizes DEF Room, Start
    <2>3. mem' = [mem EXCEPT ![progress'] = begun] /\ layout' = layout /\ begun' = begun
        BY <1>2 DEF WritePiece
    <2>4. mem' \in [1 .. Room(layout) -> 0 .. begun]
        BY <2>2, <2>3, <1>a, <1>d DEF BoardTyped
    <2>5. BoardTyped'
        BY <1>2, <1>a, <1>c, <2>1, <2>2, <2>3, <2>4 DEF WritePiece, BoardTyped, Pieces
    <2>6. PlaceTyped' /\ BuffersTyped'
        BY <1>2, <1>a, PlaceKept, BuffersKept DEF WritePiece
    <2>7. ReaderTyped' /\ ReadingInv'
        BY <1>2, <1>a DEF WritePiece, ReaderTyped, ReadingInv, follow
    <2> QED
        BY <2>5, <2>6, <2>7
<1>3. CASE Halts
    <2>1. BoardTyped'
        BY <1>3, <1>a DEF Halts, BoardTyped
    <2>2. PlaceTyped' /\ BuffersTyped'
        BY <1>3, <1>a, PlaceKept, BuffersKept DEF Halts
    <2>3. ReaderTyped' /\ ReadingInv'
        <3>1. faults' \in 0 .. MaxFaults
            BY <1>3, <1>a, <1>c DEF Halts, ReaderTyped
        <3>2. sound' \in BOOLEAN
            BY <1>3 DEF Halts
        <3> QED
            BY <1>3, <1>a, <3>1, <3>2 DEF Halts, ReaderTyped, ReadingInv, follow
    <2> QED
        BY <2>1, <2>2, <2>3
<1>4. CASE BeginExposure
    <2>1. PICK e \in Exposures :
             /\ mode' = e.mode /\ todo' = e.pre + e.post
             /\ num_frames' = e.pre /\ later' = e.post
             /\ fastPtrNo' = IF e.mode = "ultra" THEN 0 ELSE fastPtrNo
        BY <1>4 DEF BeginExposure
    <2>2. e.mode \in {"chunks", "fast", "ultra"} /\ e.pre \in Nat /\ e.post \in Nat
        BY TransferAssumption
    <2>3. BoardTyped'
        <3>1. todo' \in Nat
            BY <2>1, <2>2
        <3>2. count' = 0 /\ done' \in 0 .. Chunks
            BY <1>4, <1>c DEF BeginExposure
        <3>3. halted' \in BOOLEAN
            BY <1>4 DEF BeginExposure
        <3> QED
            BY <1>4, <1>a, <3>1, <3>2, <3>3 DEF BeginExposure, BoardTyped
    <2>4. PlaceTyped'
        <3>1. layout' = layout /\ pciPixCounter' = pciPixCounter /\ tot_pix_rec' = 0 /\ framesCounter' = 0
            BY <1>4 DEF BeginExposure
        <3>2. Start(layout, 0) = 0 /\ 0 \in 0 .. layout.fpb - 1
            <4>1. Start(layout, 0) = 0
                BY Starts
            <4>2. layout.fpb \in Nat \ {0}
                BY Sizes
            <4> QED
                BY <4>1, <4>2
        <3> QED
            BY <1>a, <3>1, <3>2 DEF PlaceTyped
    <2>5. BuffersTyped'
        BY <1>4, <1>a, <1>c DEF BeginExposure, BuffersTyped
    <2>6. /\ fastPtrNo' \in 0 .. FastSlots - 1 /\ first' \in 0 .. begun' /\ shots' \in 0 .. MaxExposures
          /\ num_frames' \in Nat /\ num_reads' \in 0 .. num_frames' /\ later' \in Nat /\ sound' \in BOOLEAN
        BY <1>4, <1>a, <1>c, <1>d, <2>1, <2>2, TransferAssumption DEF BeginExposure, ReaderTyped
    <2>7. ReaderTyped'
        BY <1>4, <1>a, <2>1, <2>2, <2>6 DEF BeginExposure, ReaderTyped
    <2>8. ReadingInv'
        BY <1>4 DEF BeginExposure, ReadingInv
    <2> QED
        BY <2>3, <2>4, <2>5, <2>7, <2>8
<1>5. CASE EndCall
    <2>1. BoardTyped' /\ PlaceTyped' /\ BuffersTyped'
        BY <1>5, <1>a, <1>d, BoardKept, PlaceKept, BuffersKept DEF EndCall, boardVars
    <2>2. ReaderTyped' /\ ReadingInv'
        BY <1>5, <1>a DEF EndCall, Return, ReaderTyped, ReadingInv, boardVars, follow
    <2> QED
        BY <2>1, <2>2
<1>6. CASE BeginFrame
    <2>1. Empty \in [Pieces -> 0 .. begun]
        BY <1>d DEF Empty
    <2>2. BoardTyped' /\ PlaceTyped'
        BY <1>6, <1>a, <1>d, BoardKept, PlaceKept DEF BeginFrame
    <2>3. BuffersTyped'
        BY <1>6, <1>a, <2>1 DEF BeginFrame, BuffersTyped, boardVars
    <2>4. fastPtrNo' \in 0 .. FastSlots - 1
        BY <1>6, <1>a, <1>c DEF BeginFrame, NextFast, ReaderTyped
    <2>5. ReaderTyped' /\ ReadingInv'
        BY <1>6, <1>a, <1>c, <2>4 DEF BeginFrame, ReaderTyped, ReadingInv, boardVars, follow
    <2> QED
        BY <2>2, <2>3, <2>5
<1>7. CASE WaitFrame
    <2>1. BoardTyped' /\ PlaceTyped' /\ BuffersTyped'
        BY <1>7, <1>a, <1>d, BoardKept, PlaceKept, BuffersKept DEF WaitFrame, boardVars
    <2>2. ReaderTyped' /\ ReadingInv'
        BY <1>7, <1>a, <1>c DEF WaitFrame, ReaderTyped, ReadingInv, boardVars, follow
    <2> QED
        BY <2>1, <2>2
<1>8. CASE WaitsOn
    <2>1. BoardTyped' /\ PlaceTyped' /\ BuffersTyped'
        BY <1>8, <1>a, <1>d, BoardKept, PlaceKept, BuffersKept DEF WaitsOn, boardVars
    <2>2. ReaderTyped' /\ ReadingInv'
        BY <1>8, <1>a DEF WaitsOn, ReaderTyped, ReadingInv, boardVars, follow
    <2> QED
        BY <2>1, <2>2
<1>9. CASE Poll
    <2>1. BoardTyped' /\ PlaceTyped' /\ BuffersTyped'
        BY <1>9, <1>a, <1>d, BoardKept, PlaceKept, BuffersKept DEF Poll, boardVars
    <2>2. ReaderTyped' /\ ReadingInv'
        BY <1>9, <1>a, <1>c, ProgressType DEF Poll, ReaderTyped, ReadingInv, boardVars, follow, Seen
    <2> QED
        BY <2>1, <2>2
<1>10. CASE TimesOut
    <2>1. BoardTyped' /\ begun' = begun
        BY <1>10, BoardAborted DEF TimesOut
    <2>2. PlaceTyped' /\ BuffersTyped'
        BY <1>10, <1>a, <2>1, PlaceKept, BuffersKept DEF TimesOut
    <2>3. ReaderTyped' /\ ReadingInv'
        BY <1>10, <1>a, <2>1 DEF TimesOut, Return, ReaderTyped, ReadingInv, follow
    <2> QED
        BY <2>1, <2>2, <2>3
<1>11. CASE CopyNew
    <2>1. buffer' \in [Pieces -> 0 .. begun] /\ layout' = layout /\ begun' = begun
        BY <1>11, CopiedType DEF CopyNew, boardVars
    <2>2. BoardTyped'
        BY <1>11, <1>a, <1>d, BoardKept DEF CopyNew
    <2>3. out' \in Seq([Pieces -> 0 .. begun])
        <3>1. out' = Append(out, buffer') \/ out' = out
            BY <1>11 DEF CopyNew, Delivered
        <3> QED
            <4>1. out \in Seq([Pieces -> 0 .. begun])
                BY <1>a DEF BuffersTyped
            <4> QED
                BY <2>1, <3>1, <4>1, AppendType
    <2>4. BuffersTyped'
        BY <2>1, <2>3 DEF BuffersTyped
    <2>5. CASE pix = Chunks
        <3>1. UpdateFrameInfo /\ num_reads' = num_reads + 1 /\ pc' = "frame"
            BY <1>11, <2>5 DEF CopyNew, Delivered
        <3>2. PlaceTyped' /\ pciPixCounter' >= Chunks
            BY <2>1, <3>1, UpdatePlace
        <3>3. ReaderTyped' /\ ReadingInv'
            BY <1>11, <1>a, <2>1, <3>1, <3>2 DEF CopyNew, ReaderTyped, ReadingInv
        <3> QED
            BY <2>2, <2>4, <3>2, <3>3
    <2>6. CASE pix # Chunks
        <3>1. PlaceTyped'
            BY <1>11, <1>a, <2>6, PlaceKept DEF CopyNew
        <3>2. ReaderTyped' /\ ReadingInv'
            BY <1>11, <1>a, <1>c, <2>1, <2>6 DEF CopyNew, ReaderTyped, ReadingInv, follow
        <3> QED
            BY <2>2, <2>4, <3>1, <3>2
    <2> QED
        BY <2>5, <2>6
<1>12. CASE AwaitFrame
    <2>1. BoardTyped' /\ PlaceTyped' /\ BuffersTyped'
        BY <1>12, <1>a, <1>d, BoardKept, PlaceKept, BuffersKept DEF AwaitFrame, boardVars
    <2>2. ReaderTyped' /\ ReadingInv'
        BY <1>12, <1>a DEF AwaitFrame, ReaderTyped, ReadingInv, boardVars, follow
    <2> QED
        BY <2>1, <2>2
<1>13. CASE AwaitTimesOut
    <2>1. BoardTyped'
        BY <1>13, <1>a, <1>d, BoardKept DEF AwaitTimesOut
    <2>2. /\ layout' = layout /\ UNCHANGED <<begun, buffer, first, shots, faults, fastPtrNo, mode,
                num_frames, later, oldpix, prevpix, pix>>
          /\ pc' = "idle" /\ result' = "ETIME" /\ sound' \in BOOLEAN /\ pc = "await"
        BY <1>13, <1>a DEF AwaitTimesOut, boardVars, Return, ReaderTyped
    <2>3. CASE mode = "ultra"
        <3>1. out' = Append(out, Copied(0, Chunks)) /\ UpdateFrameInfo /\ num_reads' = num_reads + 1
            BY <1>13, <2>3 DEF AwaitTimesOut, Delivered
        <3>2. PlaceTyped' /\ pciPixCounter' >= Chunks
            BY <2>2, <3>1, UpdatePlace
        <3>3. BuffersTyped'
            BY <1>a, <2>2, <3>1, CopiedType DEF BuffersTyped
        <3>4. ReaderTyped' /\ ReadingInv'
            BY <1>a, <2>2, <3>1, <3>2 DEF ReaderTyped, ReadingInv
        <3> QED
            BY <2>1, <3>2, <3>3, <3>4
    <2>4. CASE mode # "ultra"
        <3>1. UNCHANGED <<out, num_reads, follow>>
            BY <1>13, <2>4 DEF AwaitTimesOut
        <3>2. PlaceTyped' /\ BuffersTyped'
            BY <1>a, <2>2, <3>1, PlaceKept, BuffersKept
        <3>3. ReaderTyped' /\ ReadingInv'
            BY <1>a, <2>2, <3>1 DEF ReaderTyped, ReadingInv, follow
        <3> QED
            BY <2>1, <3>2, <3>3
    <2> QED
        BY <2>3, <2>4
<1>14. CASE TakeFrame
    <2>1. BoardTyped' /\ begun' = begun
        BY <1>14, <1>a, <1>d, BoardKept, BoardAborted DEF TakeFrame, boardVars
    <2>2. /\ buffer' \in [Pieces -> 0 .. begun] /\ out' = Append(out, buffer')
          /\ layout' = layout /\ UpdateFrameInfo
        BY <1>14, CopiedType DEF TakeFrame, Delivered
    <2>3. BuffersTyped'
        BY <1>a, <2>1, <2>2 DEF BuffersTyped
    <2>4. PlaceTyped' /\ pciPixCounter' >= Chunks
        BY <2>2, UpdatePlace
    <2>5. ReaderTyped' /\ ReadingInv'
        BY <1>14, <1>a, <2>1, <2>4 DEF TakeFrame, Delivered, Return, ReaderTyped, ReadingInv
    <2> QED
        BY <2>1, <2>3, <2>4, <2>5
<1>15. CASE PollFails
    <2>1. BoardTyped' /\ PlaceTyped' /\ BuffersTyped'
        BY <1>15, <1>a, <1>d, BoardKept, PlaceKept, BuffersKept DEF PollFails, boardVars
    <2>2. ReaderTyped' /\ ReadingInv'
        BY <1>15, <1>a, <1>c DEF PollFails, Return, ReaderTyped, ReadingInv, boardVars, follow
    <2> QED
        BY <2>1, <2>2
<1>16. CASE UNCHANGED vars
    <2>1. BoardTyped' /\ PlaceTyped' /\ BuffersTyped'
        BY <1>16, <1>a, <1>d, BoardKept, PlaceKept, BuffersKept DEF vars, boardVars
    <2>2. ReaderTyped' /\ ReadingInv'
        BY <1>16, <1>a DEF vars, ReaderTyped, ReadingInv, boardVars, follow
    <2> QED
        BY <2>1, <2>2
<1> QED
    BY <1>1, <1>2, <1>3, <1>4, <1>5, <1>6, <1>7, <1>8, <1>9, <1>10, <1>11, <1>12, <1>13, <1>14,
       <1>15, <1>16 DEF Next, Board, Reader

-----------------------------------------------------------------------------
(* Board and reader, as long as nothing fails. *)

\* The numbers that the proofs below reckon with.
LEMMA Numbers ==
    ASSUME TypeOK
    PROVE  /\ Chunks \in Nat \ {0} /\ MaxBehind \in Nat \ {0} /\ layout.fpb \in Nat \ {0}
           /\ layout.gap \in Nat
           /\ done \in 0 .. Chunks /\ behind \in 0 .. MaxBehind
           /\ place \in 0 .. layout.fpb - 1 /\ framesCounter \in 0 .. layout.fpb - 1
           /\ oldpix \in 0 .. Chunks /\ pix \in 0 .. Chunks /\ prevpix \in Nat
<1>1. BoardTyped /\ PlaceTyped /\ ReaderTyped
    BY TypeOKSplit
<1> QED
    BY <1>1, Sizes DEF BoardTyped, ReaderTyped, PlaceTyped

LEMMA Counts ==
    ASSUME TypeOK
    PROVE  /\ begun \in Nat /\ first \in Nat /\ first <= begun /\ todo \in Nat /\ count \in Nat
           /\ num_frames \in Nat /\ num_reads \in Nat /\ num_reads <= num_frames /\ later \in Nat
           /\ Len(out) \in Nat /\ ahead \in Int
<1>1. BoardTyped /\ ReaderTyped /\ BuffersTyped
    BY TypeOKSplit
<1>2. Len(out) \in Nat
    BY <1>1 DEF BuffersTyped
<1>3. begun \in Nat /\ first \in Nat /\ first <= begun
    BY <1>1 DEF BoardTyped, ReaderTyped
<1> QED
    BY <1>1, <1>2, <1>3 DEF BoardTyped, ReaderTyped, ahead

LEMMA Places ==
    ASSUME TypeOK
    PROVE  /\ progress \in Nat /\ pciPixCounter \in Nat /\ tot_pix_rec \in Nat
           /\ tot_pix_rec = Start(layout, framesCounter)
           /\ Start(layout, place) \in Nat /\ Start(layout, 0) = 0
           /\ Previous \in 0 .. layout.fpb - 1 /\ Following \in 0 .. layout.fpb - 1
<1>1. BoardTyped /\ PlaceTyped /\ Room(layout) \in Nat
    BY TypeOKSplit, Sizes, Starts DEF Room
<1>2. progress \in Nat /\ pciPixCounter \in Nat
    BY <1>1 DEF BoardTyped, PlaceTyped
<1>3. Previous \in 0 .. layout.fpb - 1 /\ Following \in 0 .. layout.fpb - 1
    BY Numbers DEF Previous, Following
<1>4. framesCounter \in Nat /\ place \in Nat
    BY Numbers
<1>5. Start(layout, place) \in Nat /\ Start(layout, framesCounter) \in Nat /\ Start(layout, 0) = 0
    BY <1>4, Starts
<1>6. tot_pix_rec = Start(layout, framesCounter)
    BY <1>1 DEF PlaceTyped
<1> QED
    BY <1>2, <1>3, <1>5, <1>6

LEMMA WrittenIs ==
    ASSUME TypeOK, PlaceInv
    PROVE  /\ ahead \in 0 .. 2 /\ written \in 0 .. 2 * Chunks
           /\ written >= Chunks => ahead > 0 /\ (ahead = 1 => done = Chunks)
           /\ ahead = 0 => written = 0
           /\ ahead = 1 => written = done
           /\ ahead = 2 => written = Chunks + done
<1>1. ahead \in 0 .. 2 /\ (ahead = 0 => done = Chunks)
    BY DEF PlaceInv
<1>2. done \in 0 .. Chunks /\ Chunks \in Nat \ {0}
    BY Numbers
<1>3. written = IF ahead = 0 THEN 0 ELSE IF ahead = 1 THEN done ELSE Chunks + done
    BY DEF written
<1> QED
    BY <1>1, <1>2, <1>3

\* The board is never two frames ahead of the reader, and at the start of a frame not one.
LEMMA Paced ==
    ASSUME TypeOK, ReadingInv, Timely, Followed, pc # "idle"
    PROVE  /\ written < 2 * Chunks
           /\ pc \in {"frame", "wait"} => written < Chunks
           /\ pc = "copy" => written <= oldpix + Chunks
           /\ pc = "poll" => written - Chunks < oldpix \/ written < Chunks
           /\ 2 * MaxBehind <= Chunks /\ 3 <= Chunks
<1>1. 2 * MaxBehind <= Chunks /\ 3 <= Chunks /\ 4 * MaxBehind - 1 <= Chunks
    BY Numbers DEF Timely
<1>2. written \in Nat /\ PaceInv /\ behind \in 0 .. MaxBehind
    BY WrittenIs, Numbers DEF Followed
<1>3. CASE pc \in {"frame", "wait"}
    BY <1>1, <1>2, <1>3, Numbers DEF PaceInv
<1>4. CASE pc \in {"await", "take"}
    BY <1>1, <1>2, <1>4, Numbers DEF PaceInv
<1>5. CASE pc = "poll"
    <2>1. written <= oldpix + MaxBehind \/ written <= 3 * MaxBehind - 1
        BY <1>2, <1>5, Numbers DEF PaceInv
    <2>2. oldpix < Chunks
        BY <1>5 DEF ReadingInv
    <2> QED
        BY <1>1, <1>2, <1>5, <2>1, <2>2, Numbers
<1>6. CASE pc = "copy"
    <2>1. written <= oldpix + 2 * MaxBehind \/ written <= 4 * MaxBehind - 1
        BY <1>2, <1>6, Numbers DEF PaceInv
    <2>2. oldpix < Chunks
        BY <1>6 DEF ReadingInv
    <2> QED
        BY <1>1, <1>2, <1>6, <2>1, <2>2, Numbers
<1>7. pc \in {"frame", "wait", "await", "take", "poll", "copy"}
    BY TypeOKSplit DEF ReaderTyped
<1> QED
    BY <1>3, <1>4, <1>5, <1>6, <1>7

\* What the register says of the frame the reader is at.
LEMMA Register ==
    ASSUME TypeOK, PlaceInv, written < 2 * Chunks
    PROVE  /\ ahead = 1 => FrameProgress = done
           /\ ahead = 2 /\ layout.fpb > 1 => FrameProgress >= Chunks
           /\ ahead = 2 /\ layout.fpb = 1 => FrameProgress = done /\ LastOfBuffer
<1>1. ahead > 0 => progress = Start(layout, place) + done
    <2>1. ahead > 0 => begun # first
        BY Counts DEF ahead
    <2> QED
        BY <2>1 DEF PlaceInv
<1>2. /\ tot_pix_rec = Start(layout, framesCounter) /\ Start(layout, place) \in Nat
      /\ tot_pix_rec \in Nat /\ Start(layout, 0) = 0
    BY Places
<1>3. CASE ahead = 1
    BY <1>1, <1>2, <1>3, Numbers DEF PlaceInv, FrameProgress
<1>4. CASE ahead = 2
    <2>1. done < Chunks /\ place = Following
        BY <1>4, WrittenIs, Numbers DEF PlaceInv
    <2>2. CASE framesCounter # layout.fpb - 1
        <3>0. place = framesCounter + 1 /\ framesCounter \in Nat /\ layout.fpb > 1
            BY <2>1, <2>2, Numbers DEF Following
        <3>1. Start(layout, place) = Start(layout, framesCounter) + Chunks + layout.gap
            BY <3>0, Starts
        <3> QED
            BY <1>1, <1>2, <1>4, <2>1, <3>0, <3>1, Numbers DEF FrameProgress
    <2>3. CASE framesCounter = layout.fpb - 1 /\ layout.fpb > 1
        <3>1. place = 0 /\ 0 < framesCounter /\ framesCounter \in Nat
            BY <2>1, <2>3, Numbers DEF Following
        <3>2. Start(layout, 0) + Chunks + layout.gap <= Start(layout, framesCounter)
            BY <3>1, Starts
        <3>3. Chunks <= Start(layout, framesCounter)
            BY <1>2, <3>2, Places, Numbers
        <3> QED
            BY <1>1, <1>2, <1>4, <2>1, <2>3, <3>1, <3>3, Numbers DEF FrameProgress
    <2>4. CASE framesCounter = layout.fpb - 1 /\ layout.fpb = 1
        <3>1. place = 0 /\ framesCounter = 0
            BY <2>1, <2>4, Numbers DEF Following
        <3> QED
            BY <1>1, <1>2, <1>4, <2>1, <2>4, <3>1, Numbers DEF FrameProgress, LastOfBuffer
    <2> QED
        BY <2>2, <2>3, <2>4, Numbers
<1> QED
    BY <1>3, <1>4

\* The board goes on with another frame.
LEMMA BeginPlaceFollowed ==
    ASSUME TypeOK, ReadingInv, Timely, Followed, pc # "idle", BeginPlace
    PROVE  Followed'
<1>1. /\ todo > 0 /\ done = Chunks /\ place' = IF count = 0 \/ place = layout.fpb - 1 THEN 0 ELSE place + 1
      /\ progress' = place' * Stride /\ begun' = begun + 1 /\ todo' = todo - 1 /\ done' = 0
      /\ UNCHANGED <<layout, mem, count, halted, behind, pc, mode, num_frames, num_reads, later,
            pciPixCounter, framesCounter, oldpix, pix, buffer, out, first>>
    BY DEF BeginPlace, call, follow, poll, history
<1>2. PlaceInv /\ PaceInv /\ MemoryInv /\ BufferInv
    BY DEF Followed
<1>3. ahead' = ahead + 1 /\ ahead \in {0, 1}
    <2>1. ahead \in 0 .. 2 /\ written < 2 * Chunks
        BY <1>2, WrittenIs, Paced
    <2>2. ahead # 2
        <3>1. Chunks \in Nat /\ (ahead = 2 => written = Chunks + done)
            BY <1>2, WrittenIs, Numbers
        <3> QED
            BY <1>1, <2>1, <3>1
    <2>3. ahead' = begun' - first' - Len(out')
        BY DEF ahead
    <2>4. begun \in Nat /\ first \in Nat /\ Len(out) \in Nat /\ ahead = begun - first - Len(out)
        BY Counts DEF ahead
    <2>5. begun' = begun + 1 /\ first' = first /\ Len(out') = Len(out)
        BY <1>1
    <2>6. ahead' = ahead + 1
        BY <2>3, <2>4, <2>5
    <2> QED
        BY <2>1, <2>2, <2>6
<1>4. written' = written
    <2>1. written' = IF ahead' = 0 THEN 0 ELSE IF ahead' = 1 THEN done' ELSE Chunks + done'
        BY DEF written
    <2>2. (ahead = 0 => written = 0) /\ (ahead = 1 => written = done) /\ Chunks \in Nat
        BY <1>2, WrittenIs, Numbers
    <2>3. done = Chunks /\ done' = 0
        BY <1>1
    <2> QED
        BY <1>3, <2>1, <2>2, <2>3
<1>5. place' = IF ahead = 0 THEN framesCounter ELSE Following
    <2>1. count = begun - first /\ ahead = begun - first - Len(out)
        <3>1. count = begun - first - (IF done < Chunks THEN 1 ELSE 0)
            BY <1>2 DEF PlaceInv
        <3>2. ~(done < Chunks)
            BY <1>1, Numbers
        <3>3. begun \in Nat /\ first \in Nat
            BY Counts
        <3>4. count = begun - first
            BY <3>1, <3>2, <3>3
        <3> QED
            BY <3>4 DEF ahead
    <2>2. CASE ahead = 0 /\ Len(out) = 0
        BY <1>1, <1>2, <2>1, <2>2, Counts DEF PlaceInv
    <2>3. CASE ahead = 0 /\ Len(out) # 0
        <3>1. count # 0 /\ place = Previous
            BY <1>2, <2>1, <2>3, Counts DEF PlaceInv
        <3> QED
            BY <1>1, <2>3, <3>1, Numbers DEF Previous
    <2>4. CASE ahead = 1
        <3>1. count # 0 /\ place = framesCounter
            BY <1>2, <2>1, <2>4, Counts DEF PlaceInv
        <3> QED
            BY <1>1, <2>4, <3>1, Numbers DEF Following
    <2> QED
        BY <1>3, <2>2, <2>3, <2>4
<1>6. progress' = Start(layout', place') + done'
    <2>1. place' \in 0 .. layout.fpb - 1
        BY <1>3, <1>5, Numbers, Places
    <2>2. place' * Stride = Start(layout, place') /\ place' * Stride \in Nat
        BY <2>1, Address
    <2> QED
        BY <1>1, <2>2
<1>7. PlaceInv'
    <2>1. begun' # first' /\ Previous' = Previous /\ Following' = Following /\ first <= begun
        BY <1>1, Counts DEF Previous, Following
    <2>2. /\ begun' - first' + todo' = Len(out') + (num_frames' - num_reads') + later'
          /\ count' = begun' - first' - (IF done' < Chunks THEN 1 ELSE 0)
        <3>1. /\ begun - first + todo = Len(out) + (num_frames - num_reads) + later
              /\ count = begun - first - (IF done < Chunks THEN 1 ELSE 0)
            BY <1>2 DEF PlaceInv
        <3>2. /\ done = Chunks /\ done' = 0 /\ begun' = begun + 1 /\ todo' = todo - 1
              /\ UNCHANGED <<count, out, num_frames, num_reads, later, first>>
            BY <1>1
        <3>a. ~(done < Chunks)
            BY <3>2, Sizes
        <3>b. begun - first \in Int /\ (begun - first) - 0 = begun - first
            BY Counts
        <3>c. count = begun - first
            BY <3>1, <3>a, <3>b
        <3>3. count' = begun' - first - 1
            BY <3>2, <3>c, Counts
        <3>4. done' < Chunks /\ first' = first
            BY <3>2, Sizes
        <3>5. begun' - first' + todo' = Len(out') + (num_frames' - num_reads') + later'
            BY <3>1, <3>2, Counts
        <3> QED
            BY <3>3, <3>4, <3>5
    <2>3. ~halted' /\ ahead' \in 0 .. 2 /\ ahead' # 0
        BY <1>1, <1>2, <1>3 DEF PlaceInv
    <2>4. /\ ahead' = 1 => place' = framesCounter'
          /\ ahead' = 2 => place' = Following'
        BY <1>1, <1>3, <1>5, <2>1
    <2> QED
        BY <1>1, <1>2, <1>6, <2>1, <2>2, <2>3, <2>4 DEF PlaceInv
<1>8. PaceInv'
    <2>1. ahead' # 0
        BY <1>3
    <2> QED
        BY <1>1, <1>2, <1>4, <2>1 DEF PaceInv
<1>9. MemoryInv'
    <2>1. current' = current
        BY <1>1 DEF current
    <2> QED
        BY <1>1, <1>2, <1>4, <2>1 DEF MemoryInv
<1>10. BufferInv'
    BY <1>1, <1>2 DEF BufferInv, current
<1> QED
    BY <1>7, <1>8, <1>9, <1>10 DEF Followed

\* The board writes a piece.
LEMMA WritePieceFollowed ==
    ASSUME TypeOK, ReadingInv, Timely, Followed, pc # "idle", WritePiece
    PROVE  Followed'
<1>1. /\ done < Chunks /\ done' = done + 1 /\ behind' = behind + 1
      /\ progress' = place * Stride + done' /\ mem' = [mem EXCEPT ![progress'] = begun]
      /\ count' = (IF done' = Chunks THEN count + 1 ELSE count)
      /\ UNCHANGED <<layout, begun, todo, place, halted, pc, mode, num_frames, num_reads, later,
            pciPixCounter, framesCounter, oldpix, pix, buffer, out, first>>
    BY DEF WritePiece, call, follow, poll, history
<1>2. PlaceInv /\ PaceInv /\ MemoryInv /\ BufferInv
    BY DEF Followed
<1>3. /\ ahead' = ahead /\ ahead \in {1, 2} /\ begun # first /\ current' = current
      /\ Previous' = Previous /\ Following' = Following
    <2>1. ahead \in {1, 2}
        BY <1>1, <1>2, Numbers DEF PlaceInv
    <2> QED
        BY <1>1, <2>1, Counts DEF ahead, current, Previous, Following
<1>4. written' = written + 1 /\ written \in Nat
    <2>1. written' = IF ahead' = 0 THEN 0 ELSE IF ahead' = 1 THEN done' ELSE Chunks + done'
        BY DEF written
    <2> QED
        BY <1>1, <1>2, <1>3, <2>1, WrittenIs, Numbers
<1>5. progress' = Start(layout, place) + done' /\ Start(layout, place) \in Nat
    BY <1>1, Address, Numbers
<1>6. PlaceInv'
    <2>1. count' = begun' - first' - (IF done' < Chunks THEN 1 ELSE 0)
        <3>1. count = begun - first - (IF done < Chunks THEN 1 ELSE 0)
            BY <1>2 DEF PlaceInv
        <3>2. /\ done < Chunks /\ done' = done + 1 /\ UNCHANGED <<begun, first>>
              /\ count' = (IF done' = Chunks THEN count + 1 ELSE count)
            BY <1>1
        <3>3. done \in Nat /\ Chunks \in Nat
            BY Numbers
        <3> QED
            BY <3>1, <3>2, <3>3, Counts
    <2> QED
        BY <1>1, <1>2, <1>3, <1>5, <2>1 DEF PlaceInv
<1>7. PaceInv'
    <2>1. written' - behind' = written - behind
        BY <1>1, <1>4, Numbers
    <2>2. \A n \in Nat : n <= written => n <= written'
        BY <1>4
    <2>3. oldpix \in Nat /\ pix \in Nat /\ Chunks \in Nat
        BY Numbers
    <2>4. ahead' # 0
        BY <1>3
    <2> QED
        BY <1>1, <1>2, <1>4, <2>1, <2>2, <2>3, <2>4 DEF PaceInv
<1>8. ASSUME NEW a \in Int, a # Start(layout, place) + done'
      PROVE  mem'[a] = mem[a]
    BY <1>1, <1>5, <1>8 DEF TypeOK
<1>9. mem'[Start(layout, place) + done'] = begun
    <2>1. progress' \in DOMAIN mem
        <3>1. done' \in Pieces
            BY <1>1, Numbers DEF Pieces
        <3>2. progress' \in 1 .. layout.fpb * Stride
            BY <1>1, <3>1, Address, Numbers
        <3> QED
            BY <3>2 DEF TypeOK
    <2> QED
        BY <1>1, <1>5, <2>1
<1>10. MemoryInv'
    <2>1. ASSUME NEW c \in 1 .. done'
          PROVE  mem'[Start(layout, place) + c] = begun
        <3>1. CASE c = done'
            BY <1>9, <3>1
        <3>2. CASE c # done'
            <4>1. c \in 1 .. done
                BY <1>1, <3>2, Numbers
            <4>2. mem[Start(layout, place) + c] = begun
                BY <1>2, <1>3, <4>1 DEF MemoryInv
            <4>3. Start(layout, place) + c \in Int /\ Start(layout, place) + c # Start(layout, place) + done'
                BY <1>1, <1>5, <3>2, Numbers
            <4> QED
                BY <1>8, <4>2, <4>3
        <3> QED
            BY <3>1, <3>2
    <2>2. ASSUME NEW c \in Pieces, c <= written', layout.fpb > 1 \/ c > written' - Chunks
          PROVE  mem'[Start(layout, framesCounter) + c] = current
        <3>0. c \in Nat /\ c >= 1 /\ c <= Chunks /\ Chunks \in Nat /\ done \in Nat
            BY Numbers DEF Pieces
        <3>1. CASE ahead = 1
            <4>1. place = framesCounter /\ written' = done' /\ begun = current
                <5>1. place = framesCounter
                    BY <1>2, <3>1 DEF PlaceInv
                <5>2. written' = done'
                    BY <1>1, <1>2, <1>4, <3>1, WrittenIs
                <5>3. begun = current
                    BY <3>1, Counts DEF ahead, current
                <5> QED
                    BY <5>1, <5>2, <5>3
            <4> QED
                BY <2>1, <2>2, <4>1, <3>0
        <3>2. CASE ahead = 2
            <4>1. place = Following /\ written = Chunks + done /\ written' = Chunks + done'
                BY <1>1, <1>2, <1>4, <3>2, <3>0, WrittenIs DEF PlaceInv
            <4>2. mem[Start(layout, framesCounter) + c] = current
                <5>1. c <= written /\ (layout.fpb > 1 \/ c > written - Chunks)
                    BY <1>1, <2>2, <3>0, <4>1
                <5> QED
                    BY <1>2, <5>1 DEF MemoryInv
            <4>3. Start(layout, framesCounter) + c # Start(layout, place) + done'
                <5>1. CASE layout.fpb > 1
                    <6>1. /\ place # framesCounter /\ place \in Nat /\ framesCounter \in Nat
                          /\ place < framesCounter \/ framesCounter < place
                        BY <4>1, <5>1, Numbers DEF Following
                    <6>2. /\ place < framesCounter => Start(layout, place) + Chunks + layout.gap <= Start(layout, framesCounter)
                          /\ framesCounter < place => Start(layout, framesCounter) + Chunks + layout.gap <= Start(layout, place)
                        BY <6>1, Starts
                    <6>3. layout.gap \in Nat /\ done' \in 1 .. Chunks /\ Start(layout, framesCounter) \in Nat
                        BY <1>1, <3>0, Places, Numbers
                    <6> QED
                        BY <1>5, <3>0, <6>1, <6>2, <6>3
                <5>2. CASE layout.fpb = 1
                    <6>1. place = framesCounter /\ c > done'
                        BY <1>1, <2>2, <3>0, <4>1, <5>2, Numbers
                    <6> QED
                        BY <1>1, <1>5, <3>0, <6>1
                <5> QED
                    BY <5>1, <5>2, Numbers
            <4>4. Start(layout, framesCounter) + c \in Int
                BY <3>0, Places
            <4> QED
                BY <1>8, <4>2, <4>3, <4>4
        <3> QED
            BY <1>3, <3>1, <3>2
    <2> QED
        BY <1>1, <1>3, <2>1, <2>2 DEF MemoryInv
<1>11. BufferInv'
    BY <1>1, <1>2, <1>3 DEF BufferInv
<1> QED
    BY <1>6, <1>7, <1>10, <1>11 DEF Followed

\* A step of the reader that moves neither itself nor the board to another place.
LEMMA StandStill ==
    ASSUME UNCHANGED <<layout, boardVars, follow, out, first>>
    PROVE  /\ ahead' = ahead /\ written' = written /\ current' = current
           /\ FrameProgress' = FrameProgress
           /\ PlaceInv /\ UNCHANGED <<mode, num_frames, num_reads, later>> => PlaceInv'
           /\ MemoryInv => MemoryInv'
<1> USE DEF boardVars, follow
<1>1. /\ ahead' = ahead /\ current' = current /\ Previous' = Previous /\ Following' = Following
      /\ FrameProgress' = FrameProgress
    BY DEF ahead, current, Previous, Following, FrameProgress
<1>2. written' = written
    BY <1>1 DEF written
<1>3. PlaceInv /\ UNCHANGED <<mode, num_frames, num_reads, later>> => PlaceInv'
    BY <1>1 DEF PlaceInv
<1>4. MemoryInv => MemoryInv'
    BY <1>1, <1>2 DEF MemoryInv
<1> QED
    BY <1>1, <1>2, <1>3, <1>4

\* The board does not rest before the frame that is waited for is whole.
LEMMA FrameComes ==
    ASSUME TypeOK, PlaceInv, num_reads < num_frames, Stopped
    PROVE  written >= Chunks
<1>1. todo = 0 /\ done = Chunks
    BY DEF PlaceInv, Stopped, AtRest
<1>2. begun - first + todo = Len(out) + (num_frames - num_reads) + later
    BY DEF PlaceInv
<1>3. ahead > 0
    <2>1. ahead = begun - first - Len(out)
        BY DEF ahead
    <2> QED
        BY <1>1, <1>2, <2>1, Counts
<1> QED
    BY <1>1, <1>3, WrittenIs, Sizes

\* Before the board begins the frame the register says nothing of it, or where the last ended.
LEMMA NotBegun ==
    ASSUME TypeOK, RoundFrames, PlaceInv, ahead = 0, FrameProgress # pciPixCounter
    PROVE  FrameProgress = 0
<1>1. begun - first = Len(out)
    BY Counts DEF ahead
<1>2. CASE Len(out) = 0
    <2>1. begun = first /\ framesCounter = 0
        BY <1>1, <1>2, Counts DEF PlaceInv
    <2>2. tot_pix_rec = 0 /\ progress \in {0, pciPixCounter}
        BY <2>1, Places DEF PlaceInv
    <2> QED
        BY <2>2, Places DEF FrameProgress
<1>3. CASE Len(out) # 0
    <2>1. begun # first /\ place = Previous /\ done = Chunks /\ pciPixCounter = Start(layout, Previous) + Chunks
        BY <1>1, <1>3, Counts DEF PlaceInv
    <2>2. progress = pciPixCounter
        BY <2>1 DEF PlaceInv
    <2>3. CASE framesCounter = 0
        BY <2>2, <2>3, Places DEF FrameProgress
    <2>4. CASE framesCounter # 0
        <3>1. Previous = framesCounter - 1 /\ Previous \in Nat /\ framesCounter = Previous + 1
            BY <2>4, Numbers DEF Previous
        <3>2. tot_pix_rec = Start(layout, Previous) + Chunks + layout.gap /\ Start(layout, Previous) \in Nat
            BY <3>1, Starts, Places
        <3>3. CASE layout.gap = 0
            BY <2>1, <2>2, <3>2, <3>3, Numbers DEF FrameProgress
        <3>4. CASE layout.gap # 0
            <4>1. ~(layout.fpb > 2)
                BY <3>4, Sizes DEF RoundFrames
            <4>2. Previous = 0
                BY <2>4, <3>1, <4>1, Numbers
            <4>3. pciPixCounter = Chunks
                BY <2>1, <4>2, Places, Numbers
            <4>4. progress < tot_pix_rec
                BY <2>1, <2>2, <3>2, <3>4, Numbers
            <4> QED
                BY <4>3, <4>4 DEF FrameProgress
        <3> QED
            BY <3>3, <3>4
    <2> QED
        BY <2>3, <2>4
<1> QED
    BY <1>2, <1>3

LEMMA EndCallFollowed ==
    ASSUME TypeOK, Followed, EndCall, pc' # "idle"
    PROVE  Followed'
<1>1. /\ later > 0 /\ pc = "frame" /\ num_reads = num_frames
      /\ num_frames' = later /\ later' = 0 /\ num_reads' = 0
      /\ UNCHANGED <<layout, boardVars, behind, mode, follow, poll, out, first, pc>>
    BY DEF EndCall, Return
<1>2. PlaceInv /\ PaceInv /\ MemoryInv
    BY DEF Followed
<1>3. PlaceInv'
    <2>1. begun - first + todo = Len(out) + (num_frames - num_reads) + later
        BY <1>2 DEF PlaceInv
    <2>2. begun' - first' + todo' = Len(out') + (num_frames' - num_reads') + later'
        BY <1>1, <2>1, Counts DEF boardVars
    <2>3. mode # "chunks" => num_frames = 0 /\ num_reads = Len(out)
        BY <1>1, <1>2, Counts DEF PlaceInv
    <2>4. mode' # "chunks" => num_reads' = Len(out') /\ (num_frames' = 0 \/ later' = 0)
        BY <1>1, <2>3
    <2>5. /\ ahead' = ahead /\ Previous' = Previous /\ Following' = Following
        BY <1>1 DEF boardVars, follow, ahead, Previous, Following
    <2> QED
        BY <1>1, <1>2, <2>2, <2>4, <2>5 DEF PlaceInv, boardVars, follow
<1>4. PaceInv'
    BY <1>1, <1>2, StandStill DEF PaceInv
<1>5. MemoryInv'
    BY <1>1, <1>2, StandStill
<1>6. BufferInv'
    BY <1>1 DEF BufferInv
<1> QED
    BY <1>3, <1>4, <1>5, <1>6 DEF Followed

LEMMA BeginFrameFollowed ==
    ASSUME TypeOK, Timely, Followed, BeginFrame
    PROVE  Followed'
<1>1. /\ pc = "frame" /\ pc' \in {"wait", "await"}
      /\ UNCHANGED <<layout, boardVars, behind, call, follow, out, first>>
    BY DEF BeginFrame, history
<1>2. PlaceInv /\ PaceInv /\ MemoryInv
    BY DEF Followed
<1>3. PlaceInv' /\ MemoryInv' /\ written' = written
    BY <1>1, <1>2, StandStill DEF call
<1>4. PaceInv'
    <2>1. written - behind <= MaxBehind - 1
        BY <1>1, <1>2 DEF PaceInv
    <2>2. MaxBehind - 1 <= Chunks - 1
        BY Sizes DEF Timely
    <2>3. written - behind <= Chunks - 1
        BY <2>1, <2>2, <1>2, WrittenIs, Numbers
    <2> QED
        BY <1>1, <1>3, <2>1, <2>3 DEF PaceInv
<1>5. BufferInv'
    BY <1>1 DEF BufferInv
<1> QED
    BY <1>3, <1>4, <1>5 DEF Followed

LEMMA WaitFrameFollowed ==
    ASSUME TypeOK, ReadingInv, Timely, RoundFrames, Followed, WaitFrame
    PROVE  Followed'
<1>1. /\ pc = "wait" /\ pc' = "poll" /\ behind' = 0 /\ (FrameProgress # pciPixCounter \/ Stopped)
      /\ UNCHANGED <<layout, boardVars, call, follow, poll, out, first>>
    BY DEF WaitFrame, history
<1>2. PlaceInv /\ PaceInv /\ MemoryInv /\ oldpix = 0 /\ num_reads < num_frames
    BY <1>1 DEF Followed, ReadingInv
<1>3. PlaceInv' /\ MemoryInv' /\ written' = written /\ ahead' = ahead /\ FrameProgress' = FrameProgress
    BY <1>1, <1>2, StandStill DEF call
<1>4. written < Chunks /\ written \in Nat
    BY <1>1, <1>2, Paced, WrittenIs, Numbers
<1>5. FrameProgress # pciPixCounter
    BY <1>1, <1>2, <1>4, FrameComes, Numbers
<1>6. PaceInv'
    <2>1. written - behind <= MaxBehind - 1
        BY <1>1, <1>2 DEF PaceInv
    <2>2. written - 0 <= 2 * MaxBehind - 1
        BY <2>1, <1>4, Numbers
    <2>3. ahead = 0 => FrameProgress = 0
        BY <1>2, <1>5, NotBegun
    <2>4. oldpix' = 0
        BY <1>1, <1>2 DEF poll
    <2> QED
        BY <1>1, <1>3, <1>4, <2>2, <2>3, <2>4 DEF PaceInv
<1>7. BufferInv'
    BY <1>1, <1>2 DEF BufferInv, poll
<1> QED
    BY <1>3, <1>6, <1>7 DEF Followed

LEMMA WaitsOnFollowed ==
    ASSUME TypeOK, ReadingInv, Timely, Followed, WaitsOn
    PROVE  Followed'
<1>1. /\ pc' = pc /\ behind' = 0
      /\ (pc = "wait" /\ FrameProgress = pciPixCounter) \/ (pc = "await" /\ ~FrameFinished)
      /\ UNCHANGED <<layout, boardVars, call, follow, poll, out, first>>
    BY DEF WaitsOn, history
<1>2. PlaceInv /\ PaceInv /\ MemoryInv /\ BufferInv
    BY DEF Followed
<1>3. PlaceInv' /\ MemoryInv' /\ written' = written
    BY <1>1, <1>2, StandStill DEF call
<1>4. BufferInv'
    BY <1>1 DEF BufferInv
<1>5. CASE pc = "wait"
    <2>1. written < Chunks /\ written < 2 * Chunks
        BY <1>5, Paced, Sizes
    <2>2. pciPixCounter = 0 \/ pciPixCounter >= Chunks
        BY DEF ReadingInv
    <2>3. FrameProgress = pciPixCounter
        BY <1>1, <1>5
    <2>4. written = 0
        <3>1. CASE ahead = 0
            BY <1>2, <3>1, WrittenIs
        <3>2. CASE ahead = 1
            BY <1>2, <2>1, <2>2, <2>3, <3>2, WrittenIs, Register, Numbers
        <3>3. CASE ahead = 2
            BY <1>2, <2>1, <3>3, WrittenIs, Numbers
        <3> QED
            BY <1>2, <3>1, <3>2, <3>3, WrittenIs
    <2>5. written' - behind' <= MaxBehind - 1
        BY <1>1, <1>3, <2>4, Sizes
    <2>6. PaceInv'
        BY <1>1, <1>5, <2>5 DEF PaceInv
    <2> QED
        BY <1>3, <1>4, <2>6 DEF Followed
<1>6. CASE pc = "await"
    <2>1. ~(count > num_reads) /\ num_reads = Len(out)
        BY <1>1, <1>2, <1>6 DEF FrameFinished, ReadingInv, PlaceInv
    <2>2. count = begun - first - (IF done < Chunks THEN 1 ELSE 0) /\ ahead = begun - first - Len(out)
        BY <1>2 DEF PlaceInv, ahead
    <2>3. written <= Chunks - 1
        <3>1. CASE done < Chunks
            <4>1. ahead \in {0, 1}
                <5>1. ahead \in 0 .. 2 /\ count = begun - first - 1
                    BY <1>2, <2>2, <3>1, WrittenIs
                <5>2. /\ count \in Nat /\ begun \in Nat /\ first \in Nat
                      /\ num_reads \in Nat /\ Len(out) \in Nat
                    BY Counts
                <5>3. begun - first - 1 <= Len(out)
                    BY <2>1, <5>1, <5>2
                <5>4. ahead = begun - first - Len(out)
                    BY <2>2
                <5> QED
                    BY <5>1, <5>2, <5>3, <5>4
            <4> QED
                BY <1>2, <3>1, <4>1, WrittenIs, Numbers
        <3>2. CASE ~(done < Chunks)
            <4>1. count = begun - first
                BY <2>2, <3>2, Counts
            <4>2. ahead = 0
                BY <1>2, <2>1, <2>2, <4>1, Counts, WrittenIs
            <4> QED
                BY <1>2, <4>2, WrittenIs, Numbers
        <3> QED
            BY <3>1, <3>2
    <2>4. written' - behind' <= Chunks - 1
        BY <1>1, <1>2, <1>3, <2>3, WrittenIs, Sizes
    <2>5. PaceInv'
        BY <1>1, <1>6, <2>4 DEF PaceInv
    <2> QED
        BY <1>3, <1>4, <2>5 DEF Followed
<1> QED
    BY <1>1, <1>5, <1>6

\* The next look takes the progress for what is written of the frame, and for no more.
LEMMA Looked ==
    ASSUME TypeOK, ReadingInv, Timely, Followed, Poll
    PROVE  pix' = IF written < Chunks THEN written ELSE Chunks
<1>1. /\ pc = "poll"
      /\ pix' = Seen(IF FrameProgress > Chunks THEN Chunks ELSE FrameProgress)
    BY DEF Poll
<1>2. PlaceInv /\ PaceInv
    BY DEF Followed
<1>3. /\ written < 2 * Chunks /\ written \in Nat /\ oldpix <= written /\ oldpix \in Nat
      /\ oldpix < Chunks /\ Chunks \in Nat
      /\ written - Chunks < oldpix \/ written < Chunks
    BY <1>1, <1>2, Paced, WrittenIs, Numbers DEF PaceInv, ReadingInv
<1>4. CASE ahead = 0
    <2>1. FrameProgress = 0 /\ written = 0 /\ oldpix = 0
        BY <1>1, <1>2, <1>3, <1>4, WrittenIs DEF PaceInv
    <2> QED
        BY <1>1, <1>3, <2>1 DEF Seen
<1>5. CASE ahead = 1
    <2>1. FrameProgress = done /\ written = done /\ done <= Chunks /\ done \in Nat
        BY <1>2, <1>3, <1>5, WrittenIs, Register, Numbers
    <2> QED
        BY <1>1, <1>3, <2>1 DEF Seen
<1>6. CASE ahead = 2
    <2>1. written = Chunks + done /\ done \in Nat /\ done < oldpix
        BY <1>2, <1>3, <1>6, WrittenIs, Numbers
    <2>2. CASE layout.fpb > 1
        <3>1. FrameProgress >= Chunks /\ FrameProgress \in Nat
            BY <1>2, <1>3, <1>6, <2>2, Register, ProgressType
        <3> QED
            BY <1>1, <1>3, <2>1, <3>1 DEF Seen
    <2>3. CASE layout.fpb = 1
        <3>1. FrameProgress = done /\ LastOfBuffer
            BY <1>2, <1>3, <1>6, <2>3, Register
        <3> QED
            BY <1>1, <1>3, <2>1, <3>1 DEF Seen
    <2> QED
        BY <2>2, <2>3, Numbers
<1> QED
    BY <1>2, <1>4, <1>5, <1>6, WrittenIs

LEMMA PollFollowed ==
    ASSUME TypeOK, ReadingInv, Timely, Followed, Poll
    PROVE  Followed'
<1>1. /\ pc = "poll" /\ pc' = "copy" /\ behind' = 0
      /\ UNCHANGED <<layout, boardVars, call, follow, oldpix, buffer, out, first>>
    BY DEF Poll, history
<1>2. PlaceInv /\ PaceInv /\ MemoryInv /\ BufferInv
    BY DEF Followed
<1>3. PlaceInv' /\ MemoryInv' /\ written' = written /\ ahead' = ahead /\ FrameProgress' = FrameProgress
      /\ current' = current
    BY <1>1, <1>2, StandStill DEF call
<1>4. pix' = IF written < Chunks THEN written ELSE Chunks
    BY Looked
<1>5. written \in Nat /\ oldpix < Chunks /\ oldpix <= written
    BY <1>1, <1>2, WrittenIs DEF PaceInv, ReadingInv
<1>6. PaceInv'
    <2>1. written - 0 <= oldpix + MaxBehind \/ written - 0 <= 3 * MaxBehind - 1
        <3>1. written - behind <= oldpix \/ written - behind <= 2 * MaxBehind - 1
            BY <1>1, <1>2 DEF PaceInv
        <3> QED
            BY <1>5, <3>1, Numbers
    <2>2. oldpix <= pix' /\ pix' <= written /\ (written - 0 <= pix' \/ pix' = Chunks)
        BY <1>4, <1>5, Numbers
    <2>3. ahead = 0 => FrameProgress = 0
        BY <1>1, <1>2 DEF PaceInv
    <2> QED
        BY <1>1, <1>3, <2>1, <2>2, <2>3 DEF PaceInv
<1>7. BufferInv'
    BY <1>1, <1>2, <1>3 DEF BufferInv
<1> QED
    BY <1>3, <1>6, <1>7 DEF Followed

LEMMA AwaitFrameFollowed ==
    ASSUME TypeOK, ReadingInv, Timely, Followed, AwaitFrame
    PROVE  Followed'
<1>1. /\ pc = "await" /\ pc' = "take" /\ behind' = 0 /\ count > num_reads
      /\ UNCHANGED <<layout, boardVars, call, follow, poll, out, first>>
    BY DEF AwaitFrame, FrameFinished, history
<1>2. PlaceInv /\ PaceInv /\ MemoryInv
    BY DEF Followed
<1>3. PlaceInv' /\ MemoryInv' /\ written' = written
    BY <1>1, <1>2, StandStill DEF call
<1>4. written >= Chunks
    <2>1. /\ num_reads = Len(out) /\ ahead = begun - first - Len(out)
          /\ count = begun - first - (IF done < Chunks THEN 1 ELSE 0)
        BY <1>1, <1>2 DEF ReadingInv, PlaceInv, ahead
    <2>2. CASE done < Chunks
        <3>1. ahead > 1
            BY <1>1, <2>1, <2>2, Counts
        <3> QED
            BY <1>2, <3>1, WrittenIs, Numbers
    <2>3. CASE ~(done < Chunks)
        <3>1. count = begun - first
            BY <2>1, <2>3, Counts
        <3>2. ahead > 0 /\ done = Chunks
            <4>1. ahead > 0
                BY <1>1, <2>1, <3>1, Counts
            <4>2. done = Chunks
                BY <2>3, Numbers
            <4> QED
                BY <4>1, <4>2
        <3> QED
            BY <1>2, <3>2, WrittenIs, Numbers
    <2> QED
        BY <2>2, <2>3
<1>5. written - 0 <= Chunks - 1 + MaxBehind
    <2>1. written - behind <= Chunks - 1
        BY <1>1, <1>2 DEF PaceInv
    <2> QED
        BY <1>2, <2>1, WrittenIs, Numbers
<1>6. PaceInv'
    BY <1>1, <1>3, <1>4, <1>5 DEF PaceInv
<1>7. BufferInv'
    BY <1>1 DEF BufferInv
<1> QED
    BY <1>3, <1>6, <1>7 DEF Followed

\* A frame is handed on, and the reader is at the next.
LEMMA DeliveredFollowed ==
    ASSUME TypeOK, Timely, Followed, NEW b, Delivered(b), pc' = "frame", num_reads < num_frames,
           written >= Chunks, written < 2 * Chunks, written - behind - Chunks <= MaxBehind - 1,
           UNCHANGED <<layout, boardVars, behind, mode, num_frames, later, first>>
    PROVE  Followed'
<1>1. PlaceInv /\ MemoryInv /\ framesCounter' = Following
    BY DEF Followed, Delivered, UpdateFrameInfo, LastOfBuffer, Following
<1>2. UNCHANGED <<layout, mem, begun, todo, place, done, progress, count, halted, behind,
                  mode, num_frames, later, first>>
    BY DEF boardVars
<1>3. Len(out') = Len(out) + 1 /\ num_reads' = num_reads + 1
    BY TypeOKSplit DEF Delivered, BuffersTyped
<1>4. /\ pciPixCounter' = Start(layout, framesCounter) + Chunks
      /\ Previous' = framesCounter
    <2>1. Previous' = IF framesCounter' = 0 THEN layout.fpb - 1 ELSE framesCounter' - 1
        BY <1>2 DEF Previous
    <2>2. Previous' = framesCounter
        BY <1>1, <2>1, Numbers DEF Following
    <2> QED
        BY <2>2, Places DEF Delivered, UpdateFrameInfo
<1>5. ahead' = ahead - 1 /\ ahead \in {1, 2} /\ current' = current + 1
    <2>1. ahead \in {1, 2}
        BY <1>1, WrittenIs
    <2>2. ahead' = begun - first - Len(out') /\ current' = first + Len(out') + 1
        BY <1>2 DEF ahead, current
    <2>3. ahead = begun - first - Len(out) /\ current = first + Len(out) + 1
        BY DEF ahead, current
    <2>4. Len(out') = Len(out) + 1
        BY <1>3
    <2>5. begun \in Nat /\ first \in Nat /\ Len(out) \in Nat
        BY Counts
    <2>6. begun - first - (Len(out) + 1) = (begun - first - Len(out)) - 1
        BY <2>5
    <2>7. first + (Len(out) + 1) + 1 = (first + Len(out) + 1) + 1
        BY <2>5
    <2> QED
        BY <2>1, <2>2, <2>3, <2>4, <2>6, <2>7
<1>6. /\ written' = written - Chunks
      /\ ahead = 1 => done = Chunks
      /\ ahead = 2 => written' = done
    <2>1. written' = IF ahead' = 0 THEN 0 ELSE IF ahead' = 1 THEN done ELSE Chunks + done
        BY <1>2 DEF written
    <2>2. /\ written >= Chunks => ahead > 0 /\ (ahead = 1 => done = Chunks)
          /\ ahead = 1 => written = done
          /\ ahead = 2 => written = Chunks + done
        BY <1>1, WrittenIs
    <2>3. Chunks \in Nat /\ done \in Nat
        BY Numbers
    <2>4. written >= Chunks
        BY <1>1
    <2>5. CASE ahead = 1
        BY <1>5, <2>1, <2>2, <2>3, <2>4, <2>5
    <2>6. CASE ahead = 2
        BY <1>5, <2>1, <2>2, <2>3, <2>6
    <2> QED
        BY <1>5, <2>5, <2>6
<1>7. PlaceInv'
    <2>1. begun' - first' + todo' = Len(out') + (num_frames' - num_reads') + later'
        <3>1. begun - first + todo = Len(out) + (num_frames - num_reads) + later
            BY <1>1 DEF PlaceInv
        <3>2. /\ begun' - first' = begun - first /\ todo' = todo /\ Len(out') = Len(out) + 1
              /\ num_frames' - num_reads' = num_frames - (num_reads + 1) /\ later' = later
            BY <1>2, <1>3
        <3>3. /\ begun \in Nat /\ first \in Nat /\ todo \in Nat /\ Len(out) \in Nat
              /\ num_frames \in Nat /\ num_reads \in Nat /\ later \in Nat
            BY Counts
        <3>4. Len(out) + 1 + (num_frames - (num_reads + 1)) + later = Len(out) + (num_frames - num_reads) + later
            BY <3>3
        <3>5. begun' - first' + todo' = begun - first + todo
            BY <3>2
        <3>6. Len(out') + (num_frames' - num_reads') + later' = Len(out) + 1 + (num_frames - (num_reads + 1)) + later
            BY <3>2
        <3> QED
            BY <3>1, <3>4, <3>5, <3>6
    <2>2. mode # "chunks" => num_reads' = Len(out') /\ (num_frames = 0 \/ later = 0)
        BY <1>1, <1>3 DEF PlaceInv
    <2>3. begun' # first' /\ Len(out') # 0
        <3>1. begun \in Nat /\ first \in Nat /\ Len(out) \in Nat
            BY Counts
        <3>2. begun - first - Len(out) >= 1
            BY <1>5 DEF ahead
        <3>3. begun # first /\ Len(out) + 1 # 0
            BY <3>1, <3>2
        <3> QED
            BY <1>2, <1>3, <3>3
    <2>4. /\ ahead' = 0 => done' = Chunks /\ place' = Previous'
          /\ ahead' = 1 => place' = framesCounter'
          /\ ahead' # 2 /\ ahead' \in 0 .. 2
        BY <1>1, <1>2, <1>4, <1>5, <1>6 DEF PlaceInv
    <2>5. /\ ~halted' /\ progress' = Start(layout', place') + done'
          /\ count' = begun' - first' - (IF done' < Chunks THEN 1 ELSE 0)
        <3>1. begun # first
            BY <1>2, <2>3
        <3> QED
            BY <1>1, <1>2, <3>1 DEF PlaceInv
    <2> QED
        BY <1>2, <1>4, <2>1, <2>2, <2>3, <2>4, <2>5 DEF PlaceInv
<1>8. PaceInv'
    <2>1. written' - behind' <= MaxBehind - 1
        BY <1>1, <1>2, <1>6, WrittenIs, Numbers
    <2> QED
        BY <2>1 DEF PaceInv
<1>9. MemoryInv'
    <2>1. ahead' > 0 => \A c \in 1 .. done' : mem'[Start(layout', place') + c] = begun'
        BY <1>1, <1>2, <1>5 DEF MemoryInv
    <2>2. ASSUME NEW c \in Pieces, c <= written'
          PROVE  mem'[Start(layout', framesCounter') + c] = current'
        <3>1. c >= 1 /\ c \in Nat
            BY Sizes DEF Pieces
        <3>2. ahead = 2
            BY <1>1, <1>5, <1>6, <2>2, <3>1, WrittenIs, Numbers
        <3>3. c \in 1 .. done /\ place = framesCounter' /\ begun = current'
            <4>1. begun = current'
                <5>1. current' = first + Len(out) + 1 + 1 /\ begun - first - Len(out) = 2
                    BY <1>5, <3>2 DEF ahead, current
                <5> QED
                    BY <5>1, Counts
            <4>2. place = framesCounter'
                BY <1>1, <3>2 DEF PlaceInv
            <4>3. c \in 1 .. done
                BY <1>6, <2>2, <3>1, <3>2, Numbers
            <4> QED
                BY <4>1, <4>2, <4>3
        <3>4. mem[Start(layout, place) + c] = begun
            BY <1>1, <3>2, <3>3 DEF MemoryInv
        <3> QED
            BY <1>2, <3>3, <3>4
    <2> QED
        BY <2>1, <2>2 DEF MemoryInv
<1>10. BufferInv'
    BY DEF BufferInv
<1> QED
    BY <1>7, <1>8, <1>9, <1>10 DEF Followed

\* What is copied is of the frame the reader is at.
LEMMA CopiedCurrent ==
    ASSUME TypeOK, MemoryInv, NEW a \in Nat, NEW z \in 0 .. Chunks, z <= written,
           layout.fpb > 1 \/ written <= a + Chunks, written \in Nat,
           NEW c \in Pieces, c <= z, c <= a => buffer[c] = current
    PROVE  Copied(a, z)[c] = current
<1>1. Copied(a, z)[c] = IF c > a /\ c <= z THEN mem[tot_pix_rec + c] ELSE buffer[c]
    BY DEF Copied
<1>2. c \in Nat /\ Chunks \in Nat
    BY Sizes DEF Pieces
<1>3. CASE c > a
    <2>1. c <= written /\ (layout.fpb > 1 \/ c > written - Chunks)
        BY <1>2, <1>3
    <2>2. mem[Start(layout, framesCounter) + c] = current
        BY <2>1 DEF MemoryInv
    <2> QED
        BY <1>1, <1>2, <1>3, <2>2, Places
<1>4. CASE ~(c > a)
    BY <1>1, <1>2, <1>4
<1> QED
    BY <1>3, <1>4

LEMMA CopyNewCopies ==
    ASSUME TypeOK, ReadingInv, Timely, Followed, CopyNew
    PROVE  \A c \in Pieces : c <= pix => buffer'[c] = current
<1>1. pc = "copy" /\ buffer' = Copied(oldpix, pix)
    BY DEF CopyNew
<1>2. PlaceInv /\ PaceInv /\ MemoryInv /\ BufferInv
    BY DEF Followed
<1>3. written <= oldpix + Chunks /\ pix <= written /\ written \in Nat
    BY <1>1, <1>2, Paced, WrittenIs DEF PaceInv
<1>4. oldpix \in Nat /\ pix \in 0 .. Chunks
    BY Numbers
<1>5. ASSUME NEW c \in Pieces, c <= oldpix
      PROVE  buffer[c] = current
    BY <1>1, <1>2, <1>4, <1>5 DEF BufferInv, Pieces
<1> QED
    BY <1>1, <1>2, <1>3, <1>4, <1>5, CopiedCurrent

LEMMA CopyNewFollowed ==
    ASSUME TypeOK, ReadingInv, Timely, Followed, CopyNew
    PROVE  Followed'
<1>1. /\ pc = "copy" /\ oldpix' = (IF pix > oldpix THEN pix ELSE oldpix)
      /\ pix = Chunks => Delivered(buffer') /\ pc' = "frame"
      /\ pix # Chunks => pc' = "poll" /\ UNCHANGED <<out, num_reads, follow>>
      /\ UNCHANGED <<layout, boardVars, behind, mode, num_frames, later, first, pix>>
    BY DEF CopyNew, history
<1>2. /\ PlaceInv /\ PaceInv /\ MemoryInv /\ written \in Nat
      /\ written < 2 * Chunks /\ 2 * MaxBehind <= Chunks
    BY <1>1, Paced, WrittenIs DEF Followed
<1>3. /\ oldpix <= pix /\ pix <= written /\ oldpix < Chunks /\ num_reads < num_frames
      /\ written - behind <= oldpix + MaxBehind \/ written - behind <= 3 * MaxBehind - 1
      /\ written - behind <= pix \/ pix = Chunks
      /\ ahead = 0 => FrameProgress = 0
    BY <1>1, <1>2 DEF PaceInv, ReadingInv
<1>4. CASE pix = Chunks
    <2>1. written - behind - Chunks <= MaxBehind - 1 /\ written >= Chunks
        BY <1>2, <1>3, <1>4, Numbers
    <2> QED
        BY <1>1, <1>2, <1>3, <1>4, <2>1, DeliveredFollowed
<1>5. CASE pix # Chunks
    <2>1. /\ PlaceInv' /\ MemoryInv' /\ written' = written /\ ahead' = ahead
          /\ FrameProgress' = FrameProgress /\ current' = current
        BY <1>1, <1>2, <1>5, StandStill
    <2>2. oldpix' = pix /\ behind' = behind /\ pc' = "poll"
        BY <1>1, <1>3, <1>5, Numbers
    <2>3. PaceInv'
        BY <1>3, <1>5, <2>1, <2>2 DEF PaceInv
    <2>4. BufferInv'
        <3>1. \A c \in 1 .. pix : c \in Pieces /\ c <= pix
            BY Numbers DEF Pieces
        <3> QED
            BY <2>1, <2>2, <3>1, CopyNewCopies DEF BufferInv
    <2> QED
        BY <2>1, <2>3, <2>4 DEF Followed
<1> QED
    BY <1>4, <1>5

LEMMA TakeFrameCopies ==
    ASSUME TypeOK, ReadingInv, Followed, TakeFrame, layout.fpb > 1
    PROVE  \A c \in Pieces : buffer'[c] = current
<1>1. pc = "take" /\ buffer' = Copied(0, Chunks) /\ PlaceInv /\ PaceInv /\ MemoryInv
    BY DEF TakeFrame, Followed
<1>2. written >= Chunks /\ written \in Nat /\ Chunks \in Nat
    BY <1>1, WrittenIs, Sizes DEF PaceInv
<1>3. \A c \in Pieces : c <= Chunks /\ ~(c <= 0)
    BY <1>2 DEF Pieces
<1> QED
    BY <1>1, <1>2, <1>3, CopiedCurrent

LEMMA TakeFrameFollowed ==
    ASSUME TypeOK, ReadingInv, Timely, Followed, TakeFrame, pc' # "idle"
    PROVE  Followed'
<1>1. /\ pc = "take" /\ pc' = "frame" /\ Delivered(buffer')
      /\ UNCHANGED <<layout, boardVars, behind, mode, num_frames, later, first>>
    BY DEF TakeFrame, Return
<1>2. PlaceInv /\ PaceInv /\ written \in Nat /\ written < 2 * Chunks /\ num_reads < num_frames
    BY <1>1, Paced, WrittenIs DEF Followed, ReadingInv
<1>3. written >= Chunks /\ written - behind <= Chunks - 1 + MaxBehind
    BY <1>1, <1>2 DEF PaceInv
<1>4. written - behind - Chunks <= MaxBehind - 1
    BY <1>2, <1>3, Numbers
<1> QED
    BY <1>1, <1>2, <1>3, <1>4, DeliveredFollowed

\* An exposure begins with board and reader at the start of the buffer.
LEMMA BeginExposureFollowed ==
    ASSUME TypeOK, FastReadsOnce, BeginExposure, sound'
    PROVE  Followed'
<1>1. PICK e \in Exposures :
         /\ mode' = e.mode /\ todo' = e.pre + e.post /\ num_frames' = e.pre /\ later' = e.post
    BY DEF BeginExposure
<1>2. e.pre \in Nat /\ e.post \in Nat /\ (e.mode # "chunks" => e.pre = 0)
    BY TransferAssumption DEF FastReadsOnce
<1>3. /\ num_reads' = 0 /\ framesCounter' = 0 /\ count' = 0 /\ done' = Chunks /\ ~halted'
      /\ out' = <<>> /\ first' = begun /\ progress \in {0, pciPixCounter} /\ pc' = "frame"
      /\ UNCHANGED <<layout, begun, progress, behind, pciPixCounter>>
    BY DEF BeginExposure
<1>4. Len(out') = 0 /\ begun' - first' = 0
    BY <1>3, Counts
<1>5. ahead' = 0
    BY <1>3, <1>4, Counts DEF ahead
<1>6. written' = 0
    BY <1>5 DEF written
<1>7. PlaceInv'
    <2>1. /\ begun' - first' + todo' = Len(out') + (num_frames' - num_reads') + later'
          /\ mode' # "chunks" => num_reads' = Len(out') /\ (num_frames' = 0 \/ later' = 0)
        BY <1>1, <1>2, <1>3, <1>4
    <2>2. count' = begun' - first' - (IF done' < Chunks THEN 1 ELSE 0)
        BY <1>3, <1>4, Sizes
    <2> QED
        BY <1>3, <1>4, <1>5, <2>1, <2>2 DEF PlaceInv
<1>8. PaceInv'
    <2>1. written' - behind' <= MaxBehind - 1
        BY <1>3, <1>6, Numbers
    <2> QED
        BY <1>3, <2>1 DEF PaceInv
<1>9. MemoryInv'
    <2>1. \A c \in Pieces : ~(c <= written')
        BY <1>6, Sizes DEF Pieces
    <2> QED
        BY <1>5, <2>1 DEF MemoryInv
<1>10. BufferInv'
    BY <1>3 DEF BufferInv
<1> QED
    BY <1>7, <1>8, <1>9, <1>10 DEF Followed

-----------------------------------------------------------------------------
(* The invariant, and what it is for. *)

LEMMA SynchronizedStep ==
    ASSUME Timely, RoundFrames, FastReadsOnce, TypeOK, ReadingInv, Synchronized, [Next]_vars
    PROVE  Synchronized'
<1> SUFFICES ASSUME sound', pc' # "idle" PROVE Followed'
    BY DEF Synchronized
<1>1. CASE BeginExposure
    BY <1>1, BeginExposureFollowed
<1>2. CASE ~BeginExposure
    <2>1. CASE Board
        <3>1. sound /\ pc # "idle"
            BY <2>1 DEF Board, BeginPlace, WritePiece, history
        <3> QED
            BY <2>1, <3>1, BeginPlaceFollowed, WritePieceFollowed DEF Board, Synchronized
    <2>2. CASE EndCall \/ BeginFrame \/ WaitFrame \/ WaitsOn \/ Poll \/ CopyNew \/ AwaitFrame \/ TakeFrame
        <3>1. sound /\ pc # "idle"
            BY <2>2 DEF EndCall, BeginFrame, WaitFrame, WaitsOn, Poll, CopyNew, AwaitFrame, TakeFrame,
                        Return, history
        <3> QED
            BY <2>2, <3>1, EndCallFollowed, BeginFrameFollowed, WaitFrameFollowed, WaitsOnFollowed,
               PollFollowed, CopyNewFollowed, AwaitFrameFollowed, TakeFrameFollowed DEF Synchronized
    <2>3. CASE Halts \/ TimesOut \/ AwaitTimesOut \/ PollFails
        BY <2>3 DEF Halts, TimesOut, AwaitTimesOut, PollFails, Return
    <2>4. CASE UNCHANGED vars
        <3>1. /\ sound /\ pc # "idle" /\ pc' = pc
              /\ UNCHANGED <<layout, boardVars, follow, out, first, call, behind, poll>>
            BY <2>4 DEF vars, history
        <3>2. PlaceInv /\ PaceInv /\ MemoryInv /\ BufferInv
            BY <3>1 DEF Synchronized, Followed
        <3>3. PlaceInv' /\ MemoryInv'
            BY <3>1, <3>2, StandStill DEF call
        <3>4. PaceInv' /\ BufferInv'
            BY <3>1, <3>2, StandStill DEF PaceInv, BufferInv, poll
        <3> QED
            BY <3>3, <3>4 DEF Followed
    <2> QED
        BY <1>2, <2>1, <2>2, <2>3, <2>4 DEF Next, Reader
<1> QED
    BY <1>1, <1>2

LEMMA IntactKept ==
    ASSUME FramesIntact, UNCHANGED <<layout, mode, out, first>>, sound' => sound
    PROVE  FramesIntact'
BY DEF FramesIntact, Whole

LEMMA IntactDelivered ==
    ASSUME TypeOK, FramesIntact, NEW b, out' = Append(out, b), UNCHANGED <<layout, mode, first>>,
           sound' => sound, sound /\ (mode = "chunks" \/ layout.fpb > 1) => b = Whole(current)
    PROVE  FramesIntact'
<1> SUFFICES ASSUME sound', mode' = "chunks" \/ layout'.fpb > 1, NEW k \in 1 .. Len(out')
             PROVE  out'[k] = Whole(first' + k)
    BY DEF FramesIntact, Whole
<1>1. sound /\ (mode = "chunks" \/ layout.fpb > 1) /\ first' = first
    OBVIOUS
<1>2. /\ Len(out) \in Nat /\ Len(out') = Len(out) + 1
      /\ \A i \in 1 .. Len(out) : out'[i] = out[i]
      /\ out'[Len(out) + 1] = b
    BY TypeOKSplit DEF BuffersTyped
<1>3. CASE k \in 1 .. Len(out)
    BY <1>1, <1>2, <1>3 DEF FramesIntact
<1>4. CASE k = Len(out) + 1
    <2>1. first + (Len(out) + 1) = current
        BY Counts DEF current
    <2> QED
        BY <1>1, <1>2, <1>4, <2>1
<1> QED
    BY <1>2, <1>3, <1>4

LEMMA FramesIntactStep ==
    ASSUME Timely, Inv, [Next]_vars
    PROVE  FramesIntact'
<1>0. TypeOK /\ ReadingInv /\ Synchronized /\ FramesIntact
    BY DEF Inv
<1>1. CASE BeginExposure
    <2>1. Len(out') = 0
        BY <1>1 DEF BeginExposure
    <2> QED
        BY <2>1 DEF FramesIntact
<1>2. CASE CopyNew /\ pix = Chunks
    <2>1. /\ out' = Append(out, buffer') /\ UNCHANGED <<layout, mode, first, sound>> /\ pc = "copy"
          /\ buffer' = Copied(oldpix, pix)
        BY <1>2 DEF CopyNew, Delivered, history
    <2>2. ASSUME sound PROVE buffer' = Whole(current)
        <3>1. \A c \in Pieces : buffer'[c] = current
            <4>1. \A c \in Pieces : c <= Chunks
                BY <1>0, Sizes DEF Pieces
            <4> QED
                BY <1>0, <1>2, <2>1, <2>2, <4>1, CopyNewCopies DEF Synchronized
        <3>2. buffer' = [c \in Pieces |-> buffer'[c]]
            BY <2>1 DEF Copied
        <3> QED
            BY <3>1, <3>2 DEF Whole
    <2> QED
        BY <1>0, <2>1, <2>2, IntactDelivered
<1>3. CASE TakeFrame
    <2>1. /\ out' = Append(out, buffer') /\ UNCHANGED <<layout, mode, first>> /\ pc = "take"
          /\ buffer' = Copied(0, Chunks)
        BY <1>3 DEF TakeFrame, Delivered
    <2>3. sound' => sound
        BY <1>3 DEF TakeFrame, Return
    <2>2. ASSUME sound, mode = "chunks" \/ layout.fpb > 1 PROVE buffer' = Whole(current)
        <3>1. \A c \in Pieces : buffer'[c] = current
            <4>1. layout.fpb > 1
                BY <1>0, <2>1, <2>2 DEF ReadingInv
            <4> QED
                BY <1>0, <1>3, <2>1, <2>2, <4>1, TakeFrameCopies DEF Synchronized
        <3>2. buffer' = [c \in Pieces |-> buffer'[c]]
            BY <2>1 DEF Copied
        <3> QED
            BY <3>1, <3>2 DEF Whole
    <2> QED
        BY <1>0, <2>1, <2>2, <2>3, IntactDelivered
<1>4. CASE AwaitTimesOut \/ TimesOut \/ PollFails \/ Halts
    <2>1. ~sound'
        BY <1>4 DEF AwaitTimesOut, TimesOut, PollFails, Halts, Return
    <2> QED
        BY <2>1 DEF FramesIntact
<1>5. CASE Board \/ UNCHANGED vars \/ (CopyNew /\ pix # Chunks)
    <2>1. UNCHANGED <<layout, mode, out, first>> /\ (sound' => sound)
        BY <1>5 DEF Board, BeginPlace, WritePiece, CopyNew, vars, call, history
    <2> QED
        BY <1>0, <2>1, IntactKept
<1>6. CASE BeginFrame \/ WaitFrame \/ WaitsOn \/ Poll \/ AwaitFrame
    <2>1. UNCHANGED <<layout, mode, out, first>> /\ (sound' => sound)
        BY <1>6 DEF BeginFrame, WaitFrame, WaitsOn, Poll, AwaitFrame, call, history
    <2> QED
        BY <1>0, <2>1, IntactKept
<1>7. CASE EndCall
    <2>1. UNCHANGED <<layout, mode, out, first>>
        BY <1>7 DEF EndCall
    <2>2. sound' => sound
        BY <1>7 DEF EndCall, Return
    <2> QED
        BY <1>0, <2>1, <2>2, IntactKept
<1> QED
    BY <1>1, <1>2, <1>3, <1>4, <1>5, <1>6, <1>7 DEF Next, Reader

\* A readout that has not failed finds its frame before the board rests.
LEMMA TimeoutStep ==
    ASSUME Timely, Inv, [Next]_vars, result' = "ETIME", result # "ETIME"
    PROVE  ~sound
<1> SUFFICES ASSUME sound PROVE FALSE
    OBVIOUS
<1>0. TypeOK /\ ReadingInv /\ Synchronized
    BY DEF Inv
<1>1. CASE TimesOut
    <2>1. pc = "poll" /\ FrameProgress = prevpix /\ Stopped
        BY <1>1 DEF TimesOut, NothingComes
    <2>2. Followed /\ PlaceInv /\ num_reads < num_frames /\ prevpix < Chunks
        BY <1>0, <2>1 DEF Synchronized, Followed, ReadingInv
    <2>3. written >= Chunks /\ written < 2 * Chunks /\ done = Chunks
        BY <1>0, <2>1, <2>2, FrameComes, Paced DEF Stopped, AtRest, PlaceInv
    <2>4. ahead = 1
        BY <1>0, <2>2, <2>3, WrittenIs, Sizes
    <2>5. FrameProgress = Chunks
        BY <1>0, <2>2, <2>3, <2>4, Register
    <2> QED
        BY <1>0, <2>1, <2>2, <2>5, Numbers
<1>2. CASE AwaitTimesOut
    <2>1. pc = "await" /\ ~(count > num_reads) /\ Stopped
        BY <1>2 DEF AwaitTimesOut, FrameFinished
    <2>2. PlaceInv /\ num_reads < num_frames /\ num_reads = Len(out)
        BY <1>0, <2>1 DEF Synchronized, Followed, ReadingInv, PlaceInv
    <2>3. /\ ahead > 0 /\ done = Chunks /\ count = begun - first - (IF done < Chunks THEN 1 ELSE 0)
          /\ ahead = begun - first - Len(out)
        BY <1>0, <2>1, <2>2, FrameComes, WrittenIs DEF PlaceInv, Stopped, AtRest, ahead
    <2>4. count = begun - first
        <3>1. ~(done < Chunks)
            BY <1>0, <2>3, Sizes
        <3> QED
            BY <1>0, <2>3, <3>1, Counts
    <2> QED
        BY <1>0, <2>1, <2>2, <2>3, <2>4, Counts
<1>3. CASE ~TimesOut /\ ~AwaitTimesOut
    <2>1. result' = result \/ result' # "ETIME"
        BY <1>3 DEF Next, Board, Reader, BeginPlace, WritePiece, Halts, BeginExposure, EndCall, BeginFrame,
                    WaitFrame, WaitsOn, Poll, CopyNew, AwaitFrame, TakeFrame, PollFails, Return, vars
    <2> QED
        BY <2>1
<1> QED
    BY <1>1, <1>2, <1>3

LEMMA InvInit == Init => Inv
<1> SUFFICES ASSUME Init PROVE Inv
    OBVIOUS
<1>1. TypeOK /\ ReadingInv
    BY TypedInit
<1>2. Synchronized
    BY DEF Init, Synchronized
<1>3. FramesIntact
    BY DEF Init, FramesIntact
<1> QED
    BY <1>1, <1>2, <1>3 DEF Inv

LEMMA InvStep ==
    ASSUME Timely, RoundFrames, FastReadsOnce, Inv, [Next]_vars
    PROVE  Inv'
BY TypedStep, SynchronizedStep, FramesIntactStep DEF Inv

\* Registers, places in the DMA buffer and the lengths of what is handed on have their types,
\* whatever fails and however late the reader looks: no address is outside the DMA buffer.
THEOREM TransferTypes == Spec => []TypeOK
<1>1. Init => TypeOK /\ ReadingInv
    BY TypedInit
<1>2. (TypeOK /\ ReadingInv) /\ [Next]_vars => (TypeOK /\ ReadingInv)'
    BY TypedStep
<1> QED
    BY <1>1, <1>2, PTL DEF Spec

\* As long as nothing fails, every buffer that readNframes(), readNFastframes() and
\* readUltraFastframes() hand on is one whole frame, each in its turn: with any number of
\* frames in the DMA buffer, of any size, provided the reader looks four times a frame.
THEOREM FramesStayIntact ==
    ASSUME Timely, RoundFrames, FastReadsOnce
    PROVE  Spec => []FramesIntact
<1>1. Init => Inv
    BY InvInit
<1>2. Inv /\ [Next]_vars => Inv'
    BY InvStep
<1>3. Inv => FramesIntact
    BY DEF Inv
<1> QED
    BY <1>1, <1>2, <1>3, PTL DEF Spec

\* A readout of which nothing failed never reports ETIME: the reader does not overlook that
\* a frame has come.
THEOREM TimeoutsAreTrue ==
    ASSUME Timely, RoundFrames, FastReadsOnce
    PROVE  Spec => NoFalseTimeout
<1>1. Init => Inv
    BY InvInit
<1>2. Inv /\ [Next]_vars => Inv'
    BY InvStep
<1>3. Inv /\ [Next]_vars => [result' = "ETIME" /\ result # "ETIME" => ~sound]_vars
    BY TimeoutStep
<1> QED
    BY <1>1, <1>2, <1>3, PTL DEF Spec, NoFalseTimeout
=============================================================================

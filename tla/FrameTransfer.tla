--------------------------- MODULE FrameTransfer ---------------------------
(***************************************************************************)
(* How the pixels of a readout reach the buffers of the caller.  The board *)
(* writes the frames of an exposure one after the other into a DMA buffer, *)
(* at addresses rounded up, and after framesPerBuffer frames begins again. *)
(* readNframes(), readNFastframes() and readUltraFastframes() of           *)
(* astroIIILib.c follow it by a register that tells how far it has come,   *)
(* or by the number of frames it has finished, and copy the frames out     *)
(* before they are overwritten.                                            *)
(***************************************************************************)
EXTENDS Integers, Sequences

CONSTANTS
    Chunks,         \* pieces of buff_size pixels in a frame
    Layouts,        \* [fpb, gap]: frames in the buffer, room left after each by the rounding
    Exposures,      \* [mode, pre, post]: frames to read before and after the exposure time
    FastSlots,      \* images in the fast buffer
    MaxBehind,      \* assumption: pieces the board writes between two polls
    MaxExposures, MaxFaults     \* bounds

ASSUME TransferAssumption ==
    /\ Chunks \in Nat \ {0} /\ FastSlots \in Nat \ {0}
    /\ Layouts \subseteq [fpb : Nat \ {0}, gap : Nat]
    /\ Exposures \subseteq [mode : {"chunks", "fast", "ultra"}, pre : Nat, post : Nat]
    /\ MaxBehind \in Nat \ {0} /\ MaxExposures \in Nat /\ MaxFaults \in Nat

VARIABLES
    layout,     \* framesPerBuffer, and what the rounding adds to a frame
    mem,        \* board: the DMA buffer, for each piece the frame it is of
    begun,      \* board: frames begun, ever; a frame is known by its number
    todo,       \* board: frames of this exposure not yet begun
    place,      \* board: place of the frame in the buffer
    done,       \* board: pieces of the frame that are written
    progress,   \* board: how far it has come in the buffer
    count,      \* board: frames finished in this exposure
    halted,     \* board: it has stopped by itself
    behind,     \* pieces written since the reader last looked
    pc,         \* reader: next statement
    mode,       \* reader: "chunks" is readNframes()
    num_frames, num_reads, later,   \* reader: frames of this call, read, and of the next call
    tot_pix_rec, pciPixCounter, framesCounter,  \* reader: where it is in the DMA buffer
    fastPtrNo,  \* reader: image of the fast buffer
    oldpix, prevpix, pix,           \* reader: progress within the frame
    buffer,     \* reader: the buffer that is being filled
    out,        \* the buffers filled in this exposure
    result,     \* what the exposure returned
    first,      \* history: frames begun before this exposure
    sound,      \* history: reader and board agreed at the start, nothing failed since
    shots, faults   \* bounded by MaxExposures and MaxFaults

boardVars == <<mem, begun, todo, place, done, progress, count, halted>>
call == <<mode, num_frames, num_reads, later>>
follow == <<tot_pix_rec, pciPixCounter, framesCounter>>
poll == <<oldpix, prevpix, pix, buffer>>
history == <<first, sound, shots, faults>>
vars == <<layout, boardVars, behind, pc, call, follow, fastPtrNo, poll, out, result, history>>

Pieces == 1 .. Chunks
Empty == [c \in Pieces |-> 0]
Whole(n) == [c \in Pieces |-> n]
Stride == Chunks + layout.gap           \* 512 * (tot_pix_rec / 512 + 1)

TypeOK ==
    /\ layout \in Layouts
    /\ mem \in [1 .. layout.fpb * Stride -> 0 .. begun] /\ begun \in Nat
    /\ todo \in Nat /\ place \in 0 .. layout.fpb - 1 /\ done \in 0 .. Chunks
    /\ progress \in 0 .. layout.fpb * Stride
    /\ count \in Nat /\ halted \in BOOLEAN /\ behind \in 0 .. MaxBehind
    /\ pc \in {"idle", "frame", "wait", "poll", "copy", "await", "take"}
    /\ mode \in {"chunks", "fast", "ultra"}
    /\ num_frames \in Nat /\ num_reads \in 0 .. num_frames /\ later \in Nat
    /\ framesCounter \in 0 .. layout.fpb - 1 /\ tot_pix_rec = framesCounter * Stride
    /\ pciPixCounter \in 0 .. layout.fpb * Stride
    /\ fastPtrNo \in 0 .. FastSlots - 1
    /\ oldpix \in 0 .. Chunks /\ pix \in 0 .. Chunks /\ prevpix \in Nat
    /\ buffer \in [Pieces -> 0 .. begun] /\ out \in Seq([Pieces -> 0 .. begun])
    /\ result \in {"none", "OK", "ETIME", "error"}
    /\ first \in 0 .. begun /\ sound \in BOOLEAN
    /\ shots \in 0 .. MaxExposures /\ faults \in 0 .. MaxFaults

Init ==
    /\ layout \in Layouts
    /\ mem = [p \in 1 .. layout.fpb * Stride |-> 0]
    /\ begun = 0 /\ todo = 0 /\ place = 0 /\ done = Chunks /\ progress = 0 /\ count = 0
    /\ halted = FALSE /\ behind = 0
    /\ pc = "idle" /\ mode = "chunks" /\ num_frames = 0 /\ num_reads = 0 /\ later = 0
    /\ tot_pix_rec = 0 /\ pciPixCounter = 0 /\ framesCounter = 0 /\ fastPtrNo = 0
    /\ oldpix = 0 /\ prevpix = 0 /\ pix = 0 /\ buffer = Empty
    /\ out = <<>> /\ result = "none"
    /\ first = 0 /\ sound = TRUE /\ shots = 0 /\ faults = 0

-----------------------------------------------------------------------------
(* The board. *)

AtRest == todo = 0 /\ done = Chunks
Stopped == AtRest \/ halted

\* It goes on with the next place, or with the first after the last.
BeginPlace ==
    /\ todo > 0 /\ done = Chunks /\ ~halted
    /\ LET next == IF count = 0 \/ place = layout.fpb - 1 THEN 0 ELSE place + 1
       IN  place' = next /\ progress' = next * Stride
    /\ begun' = begun + 1 /\ todo' = todo - 1 /\ done' = 0
    /\ UNCHANGED <<layout, mem, count, halted, behind, pc, call, follow, fastPtrNo, poll,
                   out, result, history>>

\* The readers keep up with it: it writes no more than MaxBehind pieces between two polls.
WritePiece ==
    /\ done < Chunks /\ ~halted /\ behind < MaxBehind
    /\ done' = done + 1 /\ behind' = behind + 1
    /\ progress' = place * Stride + done'
    /\ mem' = [mem EXCEPT ![progress'] = begun]
    /\ count' = IF done' = Chunks THEN count + 1 ELSE count
    /\ UNCHANGED <<layout, begun, todo, place, halted, pc, call, follow, fastPtrNo, poll,
                   out, result, history>>

\* The link to the detector breaks.
Halts ==
    /\ ~Stopped /\ faults < MaxFaults
    /\ halted' = TRUE /\ faults' = faults + 1 /\ sound' = FALSE
    /\ UNCHANGED <<layout, mem, begun, todo, place, done, progress, count, behind, pc, call,
                   follow, fastPtrNo, poll, out, result, first, shots>>

-----------------------------------------------------------------------------
(* expose(), as far as the readers are concerned. *)

NextFast(n) == IF n + 1 >= FastSlots - 1 THEN 0 ELSE n + 1

\* init_cont_read() and start_exposure(); fast_expose() also goes back to the start of
\* the fast buffer.
BeginExposure ==
    /\ pc = "idle" /\ shots < MaxExposures
    /\ shots' = shots + 1
    /\ \E e \in Exposures :
          /\ mode' = e.mode /\ todo' = e.pre + e.post
          /\ num_frames' = e.pre /\ later' = e.post
          /\ fastPtrNo' = IF e.mode = "ultra" THEN 0 ELSE fastPtrNo
    /\ num_reads' = 0 /\ tot_pix_rec' = 0 /\ framesCounter' = 0
    /\ count' = 0 /\ done' = Chunks /\ halted' = FALSE
    /\ out' = <<>> /\ result' = "none" /\ first' = begun
    /\ sound' = (AtRest /\ progress \in {0, pciPixCounter})
    /\ pc' = "frame"
    /\ UNCHANGED <<layout, mem, begun, place, progress, behind, pciPixCounter, poll, faults>>

Return(r) == result' = r /\ pc' = "idle" /\ sound' = (sound /\ r = "OK")

\* A call ends; the exposure time passes between the two calls of an infrared image.
EndCall ==
    /\ pc = "frame" /\ num_reads = num_frames
    /\ num_frames' = later /\ later' = 0 /\ num_reads' = 0
    /\ IF later > 0 THEN UNCHANGED <<pc, result, sound>> ELSE Return("OK")
    /\ UNCHANGED <<layout, boardVars, behind, mode, follow, fastPtrNo, poll, out, first,
                   shots, faults>>

-----------------------------------------------------------------------------
(* readNframes(). *)

\* get_readout_progress(): what the register says of this frame.
FrameProgress == IF progress < tot_pix_rec THEN Chunks ELSE progress - tot_pix_rec

\* Mutant of FrameFinished: one frame more is waited for.
NextFinished == count > num_reads + 1

\* get_frames_progress() tells how many frames are finished; each call counts from zero.
FrameFinished == count > num_reads

BeginFrame ==
    /\ pc = "frame" /\ num_reads < num_frames
    /\ buffer' = Empty /\ oldpix' = 0 /\ prevpix' = 0 /\ pix' = 0
    /\ fastPtrNo' = IF mode = "chunks" THEN fastPtrNo ELSE NextFast(fastPtrNo)
    /\ pc' = IF mode = "chunks" THEN "wait" ELSE "await"
    /\ UNCHANGED <<layout, boardVars, behind, call, follow, out, result, history>>

\* It waits for the progress to change, up to half a minute.
WaitFrame ==
    /\ pc = "wait" /\ (FrameProgress # pciPixCounter \/ Stopped)
    /\ pc' = "poll" /\ behind' = 0
    /\ UNCHANGED <<layout, boardVars, call, follow, fastPtrNo, poll, out, result, history>>

\* A poll that finds nothing new, in either kind of reader.
WaitsOn ==
    /\ (pc = "wait" /\ FrameProgress = pciPixCounter) \/ (pc = "await" /\ ~FrameFinished)
    /\ behind # 0 /\ behind' = 0
    /\ UNCHANGED <<layout, boardVars, pc, call, follow, fastPtrNo, poll, out, result, history>>

LastOfBuffer == framesCounter = layout.fpb - 1

\* Mutant of NothingComes: a readout that stops half way is waited for.
NothingToCome == FrameProgress = prevpix /\ AtRest

NothingComes == FrameProgress = prevpix /\ Stopped

\* It started the next frame on the initial address.
Seen(p) == IF p < oldpix /\ LastOfBuffer THEN Chunks ELSE p

Poll ==
    /\ pc = "poll" /\ ~NothingComes
    /\ behind' = 0
    /\ prevpix' = FrameProgress
    /\ pix' = Seen(IF FrameProgress > Chunks THEN Chunks ELSE FrameProgress)
    /\ pc' = "copy"
    /\ UNCHANGED <<layout, boardVars, call, follow, fastPtrNo, oldpix, buffer, out, result,
                   history>>

\* abort_read(), if the controller supports it: whether the register keeps its value is
\* the board's affair.
AbortRead ==
    \/ /\ todo' = 0 /\ done' = Chunks /\ halted' = FALSE
       /\ progress' \in {progress, 0}
       /\ UNCHANGED <<mem, begun, place, count>>
    \/ UNCHANGED boardVars

\* Nothing has changed for half a minute.
TimesOut ==
    /\ pc = "poll" /\ NothingComes
    /\ AbortRead /\ Return("ETIME")
    /\ UNCHANGED <<layout, behind, call, follow, fastPtrNo, poll, out, first, shots, faults>>

\* The driver fails; the readout goes on.
PollFails ==
    /\ pc \in {"poll", "await"} /\ faults < MaxFaults
    /\ faults' = faults + 1 /\ Return("error")
    /\ UNCHANGED <<layout, boardVars, behind, call, follow, fastPtrNo, poll, out, first, shots>>

\* Mutant of UpdateFrameInfo: the start of the next frame is not rounded up.
UpdateUnrounded ==
    /\ pciPixCounter' = tot_pix_rec + Chunks
    /\ framesCounter' = IF LastOfBuffer THEN 0 ELSE framesCounter + 1
    /\ tot_pix_rec' = IF LastOfBuffer THEN 0 ELSE tot_pix_rec + Chunks

\* Mutant of UpdateFrameInfo: the buffer is taken for one frame longer.
UpdateLate ==
    LET last == framesCounter = layout.fpb
    IN  /\ pciPixCounter' = tot_pix_rec + Chunks
        /\ framesCounter' = IF last THEN 0 ELSE framesCounter + 1
        /\ tot_pix_rec' = IF last THEN 0 ELSE tot_pix_rec + Stride

UpdateFrameInfo ==
    /\ pciPixCounter' = tot_pix_rec + Chunks
    /\ framesCounter' = IF LastOfBuffer THEN 0 ELSE framesCounter + 1
    /\ tot_pix_rec' = IF LastOfBuffer THEN 0 ELSE tot_pix_rec + Stride

Delivered(b) ==
    /\ out' = Append(out, b) /\ num_reads' = num_reads + 1
    /\ UpdateFrameInfo

Copied(from, to) ==
    [c \in Pieces |-> IF c > from /\ c <= to THEN mem[tot_pix_rec + c] ELSE buffer[c]]

\* What is new is copied; the frame is at its end when all of it has come.
CopyNew ==
    /\ pc = "copy"
    /\ buffer' = Copied(oldpix, pix)
    /\ oldpix' = IF pix > oldpix THEN pix ELSE oldpix
    /\ IF pix = Chunks
       THEN Delivered(buffer') /\ pc' = "frame"
       ELSE pc' = "poll" /\ UNCHANGED <<out, num_reads, follow>>
    /\ UNCHANGED <<layout, boardVars, behind, mode, num_frames, later, fastPtrNo, prevpix, pix,
                   result, history>>

-----------------------------------------------------------------------------
(* readNFastframes() and readUltraFastframes(). *)

AwaitFrame ==
    /\ pc = "await" /\ FrameFinished
    /\ pc' = "take" /\ behind' = 0
    /\ UNCHANGED <<layout, boardVars, call, follow, fastPtrNo, poll, out, result, history>>

\* Four seconds without a frame: readUltraFastframes() copies what is there before it
\* gives up.
AwaitTimesOut ==
    /\ pc = "await" /\ ~FrameFinished /\ Stopped
    /\ IF mode = "ultra"
       THEN Delivered(Copied(0, Chunks))
       ELSE UNCHANGED <<out, num_reads, follow>>
    /\ Return("ETIME")
    /\ UNCHANGED <<layout, boardVars, behind, mode, num_frames, later, fastPtrNo, poll, first,
                   shots, faults>>

\* A stop ends fast_expose() after any frame.
TakeFrame ==
    /\ pc = "take"
    /\ buffer' = Copied(0, Chunks)
    /\ Delivered(buffer')
    /\ \/ pc' = "frame" /\ UNCHANGED <<result, sound, boardVars>>
       \/ mode = "ultra" /\ AbortRead /\ Return("OK")
    /\ UNCHANGED <<layout, behind, mode, num_frames, later, fastPtrNo, oldpix, prevpix, pix,
                   first, shots, faults>>

-----------------------------------------------------------------------------
Board == BeginPlace \/ WritePiece

Reader ==
    \/ EndCall \/ BeginFrame \/ WaitFrame \/ WaitsOn \/ Poll \/ TimesOut \/ CopyNew
    \/ AwaitFrame \/ AwaitTimesOut \/ TakeFrame

Next == BeginExposure \/ Board \/ Halts \/ Reader \/ PollFails

Spec == Init /\ [][Next]_vars

\* The board reads out what it was told to, and the readers do not stop polling.
FairSpec == Spec /\ WF_vars(Board) /\ WF_vars(Reader)

-----------------------------------------------------------------------------
\* As long as nothing fails, and the board has been idle since it last told the reader how
\* far it is, every buffer holds the pixels of one frame, of each frame of
\* the exposure in its turn, however board and reader interleave.  Whole frames, as the
\* fast modes copy them, can be had only if the board does not begin at once to overwrite
\* them.  (The reader has to look four times a frame, 4 * MaxBehind <= Chunks + 1; with
\* three frames or more in the buffer it is right only if they need no rounding.)
FramesIntact ==
    sound /\ (mode = "chunks" \/ layout.fpb > 1) =>
        \A k \in 1 .. Len(out) : out[k] = Whole(first + k)

\* While nothing fails the reader does not wait in vain for a frame that it missed.
NoFalseTimeout == [][result' = "ETIME" /\ result # "ETIME" => ~sound]_vars

\* A readout ends, whatever fails: the reader neither waits for ever nor polls for ever.
ReadoutEnds == pc # "idle" ~> pc = "idle"
=============================================================================

------------------------------ MODULE FrameRing ------------------------------
(***************************************************************************)
(* The ring frame[0 .. CIRC_BUF_SIZE] of astroIIILib.c.  readNframes(), in *)
(* the acquisition thread, writes frame[fmi]; get_imstatus(), polled by    *)
(* the status loop, reports frame[fmo] and moves fmo after fmi; the buffer *)
(* feeder hands one buffer at a time over in next_imptr.  Nothing is       *)
(* locked.  Buffers are numbered in the order they are fed, 0 is NULL.     *)
(***************************************************************************)
EXTENDS Integers

CONSTANTS
    Circ,       \* CIRC_BUF_SIZE
    Bufs,       \* bufs_per_frame
    Frames,     \* num_frames of a call of readNframes()
    MaxRuns     \* bound: calls of expose()

ASSUME RingAssumption ==
    /\ Circ \in Nat \ {0} /\ Bufs \in Nat \ {0}
    /\ Frames \in Nat \ {0} /\ MaxRuns \in Nat

VARIABLES
    fmi, fmo,                   \* indices of the writer and of the reader
    ptr, buf_read, status,      \* the fields of frame[i]
    next_imptr,                 \* buffer for the next frame, 0 if none
    fed,                        \* buffers fed so far
    wpc, left,                  \* writer: next statement, frames to read
    copied,                     \* buffers' worth of pixels copied to frame[fmi].ptr
    rpc, rbufs, rptr, rstatus,  \* reader: next statement, values copied so far
    rnext,                      \* reader: the index fmo is about to get
    reported,                   \* history: the frames get_imstatus() reported
    pace,                       \* history: whether a frame was begun during this poll,
                                \* and "slow" once a poll lasted for a whole frame
    runs                        \* calls of expose() made (bounded by MaxRuns)

writer == <<wpc, left, copied, runs>>
reader == <<rpc, rbufs, rptr, rstatus, rnext, reported>>
frame == <<ptr, buf_read, status>>
vars == <<fmi, fmo, frame, next_imptr, fed, writer, reader, pace>>

\* One slot more than frame[] has: the writer does use it, and it is taken to be
\* memory nobody else writes.
Slots == 0 .. Circ + 1
Buffers == 0 .. Frames * MaxRuns + 1
FrameStatus == {"IDLE", "READING", "OK", "ERROR", "RDENDED"}

TypeOK ==
    /\ fmi \in Slots /\ fmo \in Slots
    /\ ptr \in [Slots -> Buffers]
    /\ buf_read \in [Slots -> 0 .. Bufs]
    /\ status \in [Slots -> FrameStatus]
    /\ next_imptr \in Buffers /\ fed \in Buffers
    /\ wpc \in {"idle", "buffer", "fill", "copy", "stored"}
    /\ left \in 0 .. Frames
    /\ copied \in 0 .. Bufs
    /\ rpc \in {"idle", "force", "load", "ptr", "status", "advance", "store"}
    /\ rnext \in Slots
    /\ rbufs \in 0 .. Bufs
    /\ rptr \in Buffers
    /\ rstatus \in FrameStatus
    /\ reported \subseteq Buffers
    /\ pace \in {"prompt", "spans", "slow"}
    /\ runs \in 0 .. MaxRuns

Init ==
    /\ fmi = 0 /\ fmo = 0
    /\ ptr = [i \in Slots |-> 0]
    /\ buf_read = [i \in Slots |-> 0]
    /\ status = [i \in Slots |-> "IDLE"]
    /\ next_imptr = 0 /\ fed = 0
    /\ wpc = "idle" /\ left = 0 /\ copied = 0
    /\ rpc = "idle" /\ rbufs = 0 /\ rptr = 0 /\ rstatus = "IDLE"
    /\ rnext = 0 /\ reported = {}
    /\ pace = "prompt"
    /\ runs = 0

-----------------------------------------------------------------------------
(* The feeder. *)

FeedBuffer ==
    /\ next_imptr = 0
    /\ fed < Frames * MaxRuns + 1
    /\ fed' = fed + 1
    /\ next_imptr' = fed + 1
    /\ UNCHANGED <<fmi, fmo, frame, writer, reader, pace>>

-----------------------------------------------------------------------------
(* The writer. *)

\* Entry of expose(): clear_counters() resets both indices and every frame.
Enter ==
    /\ wpc = "idle"
    /\ runs < MaxRuns
    /\ runs' = runs + 1
    /\ fmi' = 0 /\ fmo' = 0
    /\ ptr' = [i \in Slots |-> IF i <= Circ THEN 0 ELSE ptr[i]]
    /\ buf_read' = [i \in Slots |-> IF i <= Circ THEN 0 ELSE buf_read[i]]
    /\ status' = [i \in Slots |-> IF i <= Circ THEN "IDLE" ELSE status[i]]
    /\ left' = Frames
    /\ wpc' = "buffer"
    /\ UNCHANGED <<next_imptr, fed, copied, reader, pace>>

\* Mutant of NextWrite: the writer never wraps.
NextWriteNoWrap == fmi + 1

\* if (fmi++ > CIRC_BUF_SIZE) fmi = 0
NextWrite == IF fmi > Circ THEN 0 ELSE fmi + 1

\* The index moves first: for a moment the status loop finds in frame[fmi] what an
\* earlier frame left there.
NextSlot ==
    /\ wpc = "buffer" /\ left > 0
    /\ next_imptr # 0
    /\ fmi' = NextWrite
    /\ wpc' = "fill"
    /\ pace' = IF rpc # "idle" /\ pace = "spans" THEN "slow" ELSE pace
    /\ UNCHANGED <<fmo, frame, next_imptr, fed, left, copied, runs, reader>>

\* buf_read keeps what an earlier frame left in the slot.
BeginFrame ==
    /\ wpc = "fill"
    /\ ptr' = [ptr EXCEPT ![fmi] = next_imptr]
    /\ status' = [status EXCEPT ![fmi] = "READING"]
    /\ next_imptr' = 0
    /\ copied' = 0
    /\ wpc' = "copy"
    /\ pace' = IF rpc # "idle" /\ pace = "prompt" THEN "spans" ELSE pace
    /\ UNCHANGED <<fmi, fmo, buf_read, fed, left, runs, reader>>

\* A pass of the polling loop copies the pixels that have come,
CopyPixels ==
    /\ wpc = "copy"
    /\ \E n \in copied .. Bufs :
          /\ n = copied => buf_read[fmi] # n
          /\ copied' = n
    /\ wpc' = "stored"
    /\ UNCHANGED <<fmi, fmo, frame, next_imptr, fed, left, runs, reader, pace>>

\* and then stores the progress.
StoreProgress ==
    /\ wpc = "stored"
    /\ buf_read' = [buf_read EXCEPT ![fmi] = copied]
    /\ wpc' = "copy"
    /\ UNCHANGED <<fmi, fmo, ptr, status, next_imptr, fed, left, copied, runs, reader, pace>>

FrameRead ==
    /\ wpc = "copy" /\ copied = Bufs /\ buf_read[fmi] = Bufs
    /\ status' = [status EXCEPT ![fmi] = "OK"]
    /\ left' = left - 1
    /\ wpc' = "buffer"
    /\ UNCHANGED <<fmi, fmo, ptr, buf_read, next_imptr, fed, copied, runs, reader, pace>>

\* The readout fails, or no buffer was fed in time: expose() marks frame[fmi],
\* in the second case the frame before the one that failed.
ReadFails ==
    /\ \/ wpc = "copy"
       \/ wpc = "buffer" /\ left > 0 /\ next_imptr = 0
    /\ status' = [status EXCEPT ![fmi] = "ERROR"]
    /\ wpc' = "idle"
    /\ UNCHANGED <<fmi, fmo, ptr, buf_read, next_imptr, fed, left, copied, runs, reader, pace>>

\* The last statement of a sequence marks the last frame.
ReadEnded ==
    /\ wpc = "buffer" /\ left = 0
    /\ status' = [status EXCEPT ![fmi] = "RDENDED"]
    /\ wpc' = "idle"
    /\ UNCHANGED <<fmi, fmo, ptr, buf_read, next_imptr, fed, left, copied, runs, reader, pace>>

WriterStep ==
    \/ NextSlot \/ BeginFrame \/ CopyPixels \/ StoreProgress
    \/ FrameRead \/ ReadFails \/ ReadEnded

-----------------------------------------------------------------------------
(* The reader: get_imstatus(). *)

\* Mutant of Forced: the progress of a frame being read is forced as well.
ForcedWhileReading == status[fmo] \in {"READING", "OK"}

\* A complete frame the writer has left is reported as full.
Forced == fmo # fmi /\ status[fmo] = "OK"

Poll ==
    /\ rpc = "idle"
    /\ rpc' = IF Forced THEN "force" ELSE "load"
    /\ pace' = IF pace = "spans" THEN "prompt" ELSE pace
    /\ UNCHANGED <<fmi, fmo, frame, next_imptr, fed, writer, rbufs, rptr, rstatus, rnext,
                   reported>>

\* The slot found complete may by now be another frame's, or cleared.
ForceProgress ==
    /\ rpc = "force"
    /\ buf_read' = [buf_read EXCEPT ![fmo] = Bufs]
    /\ rpc' = "load"
    /\ UNCHANGED <<fmi, fmo, ptr, status, next_imptr, fed, writer, rbufs, rptr, rstatus,
                   rnext, reported, pace>>

LoadProgress ==
    /\ rpc = "load"
    /\ rbufs' = buf_read[fmo]
    /\ rpc' = "ptr"
    /\ UNCHANGED <<fmi, fmo, frame, next_imptr, fed, writer, rptr, rstatus, rnext,
                   reported, pace>>

LoadPtr ==
    /\ rpc = "ptr"
    /\ rptr' = ptr[fmo]
    /\ reported' = reported \cup {ptr[fmo]}
    /\ rpc' = "status"
    /\ UNCHANGED <<fmi, fmo, frame, next_imptr, fed, writer, rbufs, rstatus, rnext, pace>>

LoadStatus ==
    /\ rpc = "status"
    /\ rstatus' = status[fmo]
    /\ rpc' = "advance"
    /\ UNCHANGED <<fmi, fmo, frame, next_imptr, fed, writer, rbufs, rptr, rnext, reported,
                   pace>>

\* Mutants of NextRead: the reader jumps to the writer; it never wraps.
NextReadToWriter == fmi
NextReadNoWrap == IF fmo < fmi THEN fmo + 1 ELSE fmo

NextRead ==
    IF fmo < fmi THEN fmo + 1
    ELSE IF fmo = fmi THEN fmo
    ELSE IF fmo >= Circ THEN 0 ELSE fmo + 1

\* The indices are compared; an index that has reached the other stays.
Advance ==
    /\ rpc = "advance" /\ fmo # fmi
    /\ rnext' = NextRead
    /\ rpc' = "store"
    /\ UNCHANGED <<fmi, fmo, frame, next_imptr, fed, writer, rbufs, rptr, rstatus,
                   reported, pace>>

\* The call returns: what it loaded is the caller's now.
Return ==
    /\ rpc' = "idle" /\ rbufs' = 0 /\ rptr' = 0 /\ rnext' = 0
    /\ UNCHANGED <<fmi, frame, next_imptr, fed, writer, rstatus, reported, pace>>

Stay == rpc = "advance" /\ fmo = fmi /\ Return /\ UNCHANGED fmo

\* fmo++ is a load and a store: clear_counters() in between is lost or counted on.
StoreIndex ==
    /\ rpc = "store"
    /\ \/ fmo' = rnext
       \/ rnext # 0 /\ fmo = 0 /\ fmo' = 1
    /\ Return

ReaderStep ==
    \/ Poll \/ ForceProgress \/ LoadProgress \/ LoadPtr \/ LoadStatus
    \/ Advance \/ Stay \/ StoreIndex

Next == FeedBuffer \/ Enter \/ WriterStep \/ ReaderStep

Spec == Init /\ [][Next]_vars

\* The status loop keeps polling, the feeder feeds and readNframes() goes on.
FairSpec ==
    Spec /\ WF_vars(ReaderStep) /\ WF_vars(WriterStep) /\ WF_vars(FeedBuffer)

-----------------------------------------------------------------------------
\* frame[] has CIRC_BUF_SIZE + 1 elements: the check get_imstatus() once made
\* says that neither index leaves it.
IndexInRange == fmi <= Circ /\ fmo <= Circ

\* Before the writer uses a slot for the second time, as long as no poll took longer
\* than a whole frame.
FirstLap == runs <= 1 /\ fed <= Circ + 1 /\ pace # "slow"

\* The status loop is never told of more pixels of the frame being read than have
\* been copied to its buffer.  Only in the first lap: later the slot still has
\* the progress of an old frame until the first pixels of the new one arrive.
NoPixelsBeforeRead ==
    FirstLap /\ rpc \in {"status", "advance", "store"} /\ wpc \in {"copy", "stored"}
             /\ rptr = ptr[fmi]
        => rbufs <= copied

\* The ring as a queue of frames (first lap).
Queue == INSTANCE FrameQueue WITH
    begun <- IF FirstLap THEN fmi ELSE 0,
    buffer <- [i \in 1 .. IF FirstLap THEN fmi ELSE 0 |->
                  IF wpc = "fill" /\ i = fmi THEN next_imptr ELSE ptr[i]],
    at <- IF FirstLap THEN fmo ELSE 0,
    reported <- IF FirstLap THEN reported \ {0} ELSE {}

\* Frames are reported in the order they are read, each before the next.
ImplementsQueue == Queue!Spec

\* The end of the readout is reported once the writer has stopped, however far
\* behind the status loop is.
EndReported ==
    (wpc = "idle" /\ runs = MaxRuns) ~> (fmo = fmi /\ rstatus \in {"ERROR", "RDENDED"})
=============================================================================

--------------------------- MODULE FrameRingProofs ---------------------------
(***************************************************************************)
(* Proofs about FrameRing: its types for every size of the ring, and, for  *)
(* the first lap of the writer, that the status loop is told of no pixels  *)
(* that have not been copied and goes from frame to frame as a queue does. *)
(***************************************************************************)
EXTENDS FrameRing, TLAPS

\* What TypeOK needs beside itself: a frame is read only if one is left.
TypeInv ==
    /\ TypeOK
    /\ wpc \in {"fill", "copy", "stored"} => left > 0

\* Before the first call nothing has been written. In the first lap the writer has
\* used the slots 1 .. fmi, each for the buffer of the same number, and the reader
\* has not passed it.
Written ==
    /\ runs = 0 => fmi = 0 /\ wpc = "idle"
    /\ next_imptr \in {0, fed}
    /\ wpc = "fill" => next_imptr = fmi /\ fmi > 0 /\ buf_read[fmi] = 0
    /\ fmi = IF next_imptr = 0 \/ wpc = "fill" THEN fed ELSE fed - 1
    /\ \A i \in Slots :
          ptr[i] = IF i < fmi \/ (i = fmi /\ wpc # "fill") THEN i ELSE 0
    /\ \A i \in Slots : i > fmi => buf_read[i] = 0
    /\ fmo <= fmi

\* What the reader holds is about the slot it has not yet left. It may have found
\* that slot before its buffer was there, but not for a whole frame.
Read ==
    /\ wpc \in {"copy", "stored"} => buf_read[fmi] <= copied
    /\ rpc = "force" => fmo < fmi
    /\ rpc \in {"ptr", "status", "advance", "store"} /\ fmo = fmi =>
          /\ wpc \in {"copy", "stored"} => rbufs <= copied
          /\ wpc = "fill" => rbufs = 0
    /\ rpc \in {"status", "advance", "store"} =>
          /\ rptr \in {0, fmo}
          /\ ptr[fmo] \in reported \/ (fmo = fmi /\ pace = "spans")
    /\ rpc = "store" => fmo < fmi /\ rnext = fmo + 1
    /\ \A i \in Slots : i < fmo => ptr[i] \in reported

\* The inductive invariant of the first lap.
LapInv == FirstLap => Written /\ Read

LEMMA BuffersBound == Frames * MaxRuns \in Nat
  BY RingAssumption DEF RingAssumption

\* NextWrite and NextRead stay inside the slots.
LEMMA IndicesInSlots ==
  ASSUME TypeOK
  PROVE  NextWrite \in Slots /\ NextRead \in Slots
  BY RingAssumption DEF RingAssumption, TypeOK, NextWrite, NextRead, Slots

LEMMA TypeInvInit == Init => TypeInv
  BY RingAssumption, BuffersBound
  DEF RingAssumption, Init, TypeInv, TypeOK, Slots, Buffers, FrameStatus

LEMMA TypeInvStep == TypeInv /\ [Next]_vars => TypeInv'
<1> SUFFICES ASSUME TypeInv, [Next]_vars PROVE TypeInv'
  OBVIOUS
<1> USE RingAssumption, BuffersBound
    DEF RingAssumption, TypeInv, TypeOK, Slots, Buffers, FrameStatus
<1>1. CASE FeedBuffer
  BY <1>1 DEF FeedBuffer, frame, writer, reader
<1>2. CASE Enter
  BY <1>2 DEF Enter, reader
<1>3. CASE BeginFrame
  BY <1>3 DEF BeginFrame, reader
<1>12. CASE NextSlot
  BY <1>12, IndicesInSlots DEF NextSlot, frame, reader
<1>13. CASE StoreIndex
  BY <1>13 DEF StoreIndex, Return, frame, writer
<1>4. CASE CopyPixels
  BY <1>4 DEF CopyPixels, frame, reader
<1>5. CASE FrameRead
  BY <1>5 DEF FrameRead, reader
<1>6. CASE ReadFails
  BY <1>6 DEF ReadFails, reader
<1>7. CASE ReadEnded
  BY <1>7 DEF ReadEnded, reader
<1>14. CASE StoreProgress
  BY <1>14 DEF StoreProgress, reader
<1>8. CASE Poll
  BY <1>8 DEF Poll, frame, writer
<1>16. CASE ForceProgress
  BY <1>16 DEF ForceProgress, writer
<1>18. CASE LoadProgress
  BY <1>18 DEF LoadProgress, frame, writer
<1>9. CASE LoadPtr
  BY <1>9 DEF LoadPtr, frame, writer
<1>17. CASE LoadStatus
  BY <1>17 DEF LoadStatus, frame, writer
<1>15. CASE Stay
  BY <1>15 DEF Stay, Return, frame, writer
<1>10. CASE Advance
  BY <1>10, IndicesInSlots DEF Advance, frame, writer
<1>11. CASE UNCHANGED vars
  BY <1>11 DEF vars, frame, writer, reader
<1> QED
  BY <1>1, <1>2, <1>3, <1>4, <1>5, <1>6, <1>7, <1>8, <1>9, <1>10, <1>11, <1>12, <1>13,
     <1>14, <1>15, <1>16, <1>17, <1>18
  DEF Next, WriterStep, ReaderStep

\* Type correctness: whatever the size of the ring, the number of frames and of
\* calls, both indices stay within one slot of frame[] and no buffer that was never
\* fed is reported.
THEOREM TypeCorrect == Spec => []TypeOK
<1>1. Spec => []TypeInv
  BY TypeInvInit, TypeInvStep, PTL DEF Spec
<1>2. TypeInv => TypeOK
  BY DEF TypeInv
<1> QED
  BY <1>1, <1>2, PTL

-----------------------------------------------------------------------------
(* The first lap. *)

LEMMA LapInvInit == Init => LapInv
  BY RingAssumption DEF RingAssumption, Init, LapInv, FirstLap, Written, Read, Slots

\* A step never leaves the later laps for the first one.
LEMMA LapsGrow ==
  ASSUME TypeInv, [Next]_vars, FirstLap'
  PROVE  FirstLap
  BY RingAssumption, BuffersBound
  DEF RingAssumption, TypeInv, TypeOK, Buffers, FirstLap, Next, WriterStep, ReaderStep,
      FeedBuffer, Enter, BeginFrame, CopyPixels, FrameRead, ReadFails, ReadEnded,
      StoreProgress, Poll, ForceProgress, LoadProgress, LoadPtr, LoadStatus, Advance,
      Stay, StoreIndex, Return, NextSlot, vars, writer

LEMMA LapInvStep == TypeInv /\ LapInv /\ [Next]_vars => LapInv'
<1> SUFFICES ASSUME TypeInv, LapInv, [Next]_vars, FirstLap'
             PROVE  Written' /\ Read'
  BY DEF LapInv
<1>f. FirstLap /\ Written /\ Read
  BY LapsGrow DEF LapInv
<1> USE <1>f, RingAssumption, BuffersBound
    DEF RingAssumption, TypeInv, TypeOK, Slots, Buffers, FirstLap
<1>1. CASE FeedBuffer
  BY <1>1 DEF FeedBuffer, Written, Read, frame, writer, reader
<1>2. CASE Enter
  <2>1. fmi = 0 /\ fmo = 0 /\ runs = 0 /\ wpc = "idle"
    BY <1>2 DEF Enter, Written
  <2>2. ptr' = ptr
    BY <1>2, <2>1 DEF Enter, Written
  <2>3. Written'
    BY <1>2, <2>1, <2>2 DEF Enter, Written
  <2>4. Read'
    BY <1>2, <2>1, <2>2 DEF Enter, Read, reader
  <2> QED
    BY <2>3, <2>4
<1>3. CASE BeginFrame
  <2>1. Written'
    BY <1>3 DEF BeginFrame, Written
  <2>2. Read'
    BY <1>3, <2>1 DEF BeginFrame, Written, Read, reader
  <2> QED
    BY <2>1, <2>2
<1>12. CASE NextSlot
  <2>1. NextWrite = fmi + 1 /\ fmi + 1 \in Slots /\ next_imptr = fmi + 1
    BY <1>12 DEF NextSlot, Written, NextWrite
  <2>2. Written'
    BY <1>12, <2>1 DEF NextSlot, Written, frame
  <2>3. Read'
    BY <1>12, <2>1 DEF NextSlot, Written, Read, frame, reader
  <2> QED
    BY <2>2, <2>3
<1>4. CASE CopyPixels
  BY <1>4 DEF CopyPixels, Written, Read, frame, reader
<1>14. CASE StoreProgress
  BY <1>14 DEF StoreProgress, Written, Read, reader
<1>5. CASE FrameRead
  BY <1>5 DEF FrameRead, Written, Read, reader
<1>6. CASE ReadFails
  BY <1>6 DEF ReadFails, Written, Read, reader
<1>7. CASE ReadEnded
  BY <1>7 DEF ReadEnded, Written, Read, reader
<1>8. CASE Poll
  BY <1>8 DEF Poll, Forced, Written, Read, frame, writer
<1>16. CASE ForceProgress
  <2>1. Written'
    BY <1>16 DEF ForceProgress, Written, Read, writer
  <2>2. Read'
    BY <1>16 DEF ForceProgress, Written, Read, writer
  <2> QED
    BY <2>1, <2>2
<1>9. CASE LoadProgress
  BY <1>9 DEF LoadProgress, Written, Read, frame, writer
<1>18. CASE LoadStatus
  BY <1>18 DEF LoadStatus, Written, Read, frame, writer
<1>17. CASE LoadPtr
  BY <1>17 DEF LoadPtr, Written, Read, frame, writer
<1>15. CASE Stay
  BY <1>15 DEF Stay, Return, Written, Read, frame, writer
<1>10. CASE Advance
  <2>1. Written'
    BY <1>10 DEF Advance, Written, frame, writer
  <2>2. Read'
    BY <1>10 DEF Advance, NextRead, Written, Read, frame, writer
  <2> QED
    BY <2>1, <2>2
<1>13. CASE StoreIndex
  <2>1. fmo' = fmo + 1 /\ fmo < fmi
    BY <1>13 DEF StoreIndex, Return, Read
  <2>2. Written'
    BY <1>13, <2>1 DEF StoreIndex, Return, Written, frame, writer
  <2>3. Read'
    BY <1>13, <2>1 DEF StoreIndex, Return, Written, Read, frame, writer
  <2> QED
    BY <2>2, <2>3
<1>11. CASE UNCHANGED vars
  BY <1>11 DEF vars, frame, writer, reader, Written, Read
<1> QED
  BY <1>1, <1>2, <1>3, <1>4, <1>5, <1>6, <1>7, <1>8, <1>9, <1>10, <1>11, <1>12, <1>13,
     <1>14, <1>15, <1>16, <1>17, <1>18
  DEF Next, WriterStep, ReaderStep

LEMMA LapInvariant == Spec => [](TypeInv /\ LapInv)
<1>1. Init => TypeInv /\ LapInv
  BY TypeInvInit, LapInvInit
<1>2. TypeInv /\ LapInv /\ [Next]_vars => (TypeInv /\ LapInv)'
  BY TypeInvStep, LapInvStep
<1> QED
  BY <1>1, <1>2, PTL DEF Spec

\* However the acquisition thread and the status loop interleave, the loop is told,
\* of the frame being read, of no pixel that has not been copied (first lap).
THEOREM PixelsBeforeRead == Spec => []NoPixelsBeforeRead
<1>1. TypeInv /\ LapInv => NoPixelsBeforeRead
  <2> SUFFICES ASSUME TypeInv, LapInv, FirstLap,
                      rpc \in {"status", "advance", "store"},
                      wpc \in {"copy", "stored"}, rptr = ptr[fmi]
               PROVE  rbufs <= copied
    BY DEF NoPixelsBeforeRead
  <2>1. fmo = fmi
    BY DEF TypeInv, TypeOK, LapInv, Written, Read, Slots
  <2> QED
    BY <2>1 DEF LapInv, Read
<1> QED
  BY <1>1, LapInvariant, PTL

-----------------------------------------------------------------------------
(* The refinement. *)

LEMMA QueueInit == Init => Queue!Init
  BY RingAssumption DEF RingAssumption, Init, FirstLap, Queue!Init

\* A step of the ring is a step of the queue, or none.
LEMMA QueueStep ==
  TypeInv /\ LapInv /\ LapInv' /\ [Next]_vars => [Queue!Next]_(Queue!vars)
<1> SUFFICES ASSUME TypeInv, LapInv, LapInv', [Next]_vars
             PROVE  Queue!Next \/ UNCHANGED Queue!vars
  OBVIOUS
<1>1. CASE ~FirstLap'
  <2>1. Queue!Drop
    BY <1>1 DEF Queue!Drop
  <2> QED
    BY <2>1 DEF Queue!Next
<1>2. CASE FirstLap'
  <2>f. FirstLap /\ Written /\ Read /\ Written'
    BY <1>2, LapsGrow DEF LapInv
  <2> USE <1>2, <2>f
  <2>1. CASE NextSlot
    <3>1. fmi' = fmi + 1 /\ next_imptr' = fmi' /\ fmi' \in Slots
      BY <2>1, RingAssumption
      DEF RingAssumption, NextSlot, NextWrite, Written, FirstLap, TypeInv, TypeOK, Slots
    <3>2. Queue!Begin
      BY <2>1, <3>1 DEF Queue!Begin, NextSlot, frame, reader, TypeInv, TypeOK, Slots
    <3> QED
      BY <3>2 DEF Queue!Next
  <2>2. CASE LoadPtr
    <3>1. CASE ptr[fmo] = 0
      BY <2>2, <3>1 DEF LoadPtr, Queue!vars, frame, writer
    <3>2. CASE ptr[fmo] # 0
      <4>1. Queue!Report
        BY <2>2, <3>2 DEF LoadPtr, Queue!Report, frame, writer, Written, TypeInv, TypeOK, Slots
      <4> QED
        BY <4>1 DEF Queue!Next
    <3> QED
      BY <3>1, <3>2
  <2>3. CASE StoreIndex
    <3>1. fmo' = fmo + 1 /\ fmo < fmi /\ (fmo > 0 => ptr[fmo] \in reported \ {0})
      BY <2>3 DEF StoreIndex, Return, Read, Written, TypeInv, TypeOK, Slots
    <3>2. Queue!GoOn
      BY <2>3, <3>1 DEF StoreIndex, Return, Queue!GoOn, frame, writer, Read, Written, TypeInv, TypeOK, Slots
    <3> QED
      BY <3>2 DEF Queue!Next
  <2>4. CASE BeginFrame
    BY <2>4 DEF BeginFrame, Queue!vars, reader, Written, TypeInv, TypeOK, Slots
  <2>5. CASE Enter
    BY <2>5 DEF Enter, Queue!vars, reader, Written, FirstLap, TypeInv, TypeOK, Slots
  <2>6. CASE FeedBuffer \/ CopyPixels \/ StoreProgress \/ FrameRead \/ ReadFails
             \/ ReadEnded \/ Poll \/ ForceProgress \/ LoadProgress \/ LoadStatus
             \/ Advance \/ Stay \/ UNCHANGED vars
    <3> USE DEF CopyPixels, StoreProgress, FrameRead, ReadFails, ReadEnded, Poll,
                ForceProgress, LoadProgress, LoadStatus, Advance, Stay, Return, vars,
                frame, reader, writer
    <3>1. UNCHANGED <<fmi, fmo, ptr, reported>>
      BY <2>6 DEF FeedBuffer
    <3>2. (wpc # "fill" /\ wpc' # "fill") \/ UNCHANGED <<wpc, next_imptr>>
      <4>1. CASE FeedBuffer
        BY <4>1 DEF FeedBuffer, writer, Written, TypeInv, TypeOK, Slots
      <4> QED
        BY <2>6, <4>1
    <3> QED
      BY <3>1, <3>2 DEF Queue!vars
  <2> QED
    BY <2>1, <2>2, <2>3, <2>4, <2>5, <2>6 DEF Next, WriterStep, ReaderStep
<1> QED
  BY <1>1, <1>2

\* The ring of get_imstatus() and readNframes() implements a queue of frames: the
\* status loop reports each frame before the next, in the order they were read
\* (first lap).
THEOREM RingIsQueue == Spec => ImplementsQueue
<1>1. Spec => [](TypeInv /\ LapInv)
  BY LapInvariant
<1> QED
  BY <1>1, QueueInit, QueueStep, PTL DEF Spec, ImplementsQueue, Queue!Spec
=============================================================================

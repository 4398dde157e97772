----------------------------- MODULE ExposeProofs -----------------------------
(***************************************************************************)
(* Proofs about Expose, for every number of images, coadds, samples,       *)
(* frames and commands: its types, and that no sequence is reported as     *)
(* aborted unless somebody asked for it.                                   *)
(***************************************************************************)
EXTENDS Expose, TLAPS

\* The statements of expose() at which a coadd has begun and is not yet done.
InCoadd == {"sur", "try_sur", "sur_stop", "try_coadd", "coadd_stop", "try_exp",
            "exp_stop", "rt_enter", "rt_wait", "rt_loop", "rt_done", "frame",
            "reading", "err"}

\* What TypeOK needs beside itself: a frame is read only if one is left, a
\* controller at work has a frame to deliver, and a coadd is counted only once it
\* has been begun.
Counts ==
    /\ pc = "reading" => left > 0
    /\ ctl \in {"expo", "paused", "readout"} => due > 0
    /\ path = "infrared" /\ pc \in InCoadd => coadds_done + ncoadds < NCoadds
    /\ path = "infrared" /\ pc \in {"reexp", "start", "coadd"}
        => coadds_done + ncoadds <= NCoadds

TypeInv == TypeOK /\ Counts

LEMMA TypeInvInit == Init => TypeInv
<1> SUFFICES ASSUME Init PROVE TypeInv
  OBVIOUS
<1>1. DeviceTypeOK
  BY DEF Init, ThreadInit, SharedInit, DeviceTypeOK
<1>2. CallTypeOK
  BY DEF Init, ThreadInit, SharedInit, CallTypeOK, AllCommands, Steps
<1> QED
  BY <1>1, <1>2, ConstantsAssumption, FramesAssumption
  DEF ConstantsAssumption, FramesAssumption, AllCommands, Init, ThreadInit, SharedInit, RampInit,
      TypeInv, TypeOK, Counts, ThreadTypeOK, SharedTypeOK, StatusTypeOK, TimesTypeOK,
      ImagesTypeOK, RampTypeOK, DetStatus,
      Flags, FrameStatus, Controller, PCs, Results, InCoadd

\* What the controller was told stays a number of coadds and of samples.
LEMMA ToldTypes ==
  ASSUME NEW t \in [coadds : Nat, sur : Nat], NEW n \in Nat
  PROVE  /\ [t EXCEPT !.coadds = n] \in [coadds : Nat, sur : Nat]
         /\ [t EXCEPT !.sur = n] \in [coadds : Nat, sur : Nat]
  OBVIOUS

\* Machine counters stay machine counters.
LEMMA Modulo ==
  ASSUME NEW n \in Int
  PROVE  n % UMod \in 0 .. UMod - 1
  BY ConstantsAssumption DEF ConstantsAssumption

\* A step of the command thread keeps the types.
LEMMA CommandTypes ==
  ASSUME TypeInv, CommandStep, UNCHANGED <<thread, ramp>>
  PROVE  TypeInv'
<1> USE ConstantsAssumption, NReadsAssumption, FramesAssumption
    DEF ConstantsAssumption, NReadsAssumption, FramesAssumption, TypeInv, TypeOK,
        Counts, ThreadTypeOK, SharedTypeOK, StatusTypeOK, TimesTypeOK, DeviceTypeOK,
        ImagesTypeOK, CallTypeOK, RampTypeOK, DetStatus, Flags, FrameStatus,
        Controller, Steps, AllCommands, PCs, Results, InCoadd, images, results, call
<1>1. CASE StopExpBegin
  <2> USE <1>1 DEF StopExpBegin, StopExp, Goto, shared, device, thread, ramp
  <2>1. StatusTypeOK'
    OBVIOUS
  <2>2. TimesTypeOK'
    <3>1. exposure_time' = exposure_time \/ exposure_time' = exp_prog + StopTime
      OBVIOUS
    <3>2. exp_prog' = exp_prog /\ elapsed' = elapsed
      OBVIOUS
    <3> QED
      BY <3>1, <3>2
  <2>3. DeviceTypeOK'
    OBVIOUS
  <2>4. ImagesTypeOK'
    OBVIOUS
  <2>5. CallTypeOK'
    OBVIOUS
  <2>6. ThreadTypeOK'
    BY <2>1, <2>2, <2>3, <2>4, <2>5
  <2>7. RampTypeOK'
    OBVIOUS
  <2>8. Counts'
    OBVIOUS
  <2> QED
    BY <2>6, <2>7, <2>8
<1>2. CASE StopAllBegin
  <2> USE <1>2 DEF StopAllBegin, StopExp, Goto, shared, device, thread, ramp
  <2>1. StatusTypeOK'
    OBVIOUS
  <2>2. TimesTypeOK'
    <3>1. exposure_time' = exposure_time \/ exposure_time' = exp_prog + StopTime
      OBVIOUS
    <3>2. exp_prog' = exp_prog /\ elapsed' = elapsed
      OBVIOUS
    <3> QED
      BY <3>1, <3>2
  <2>3. DeviceTypeOK'
    OBVIOUS
  <2>4. ImagesTypeOK'
    OBVIOUS
  <2>5. CallTypeOK'
    OBVIOUS
  <2>6. ThreadTypeOK'
    BY <2>1, <2>2, <2>3, <2>4, <2>5
  <2>7. RampTypeOK'
    OBVIOUS
  <2>8. Counts'
    OBVIOUS
  <2> QED
    BY <2>6, <2>7, <2>8
<1>3. CASE StopExpFlag
  BY <1>3 DEF StopExpFlag, AfterStopExp, Goto, Raise, device, thread, ramp
<1>4. CASE TryStopNext
  BY <1>4 DEF TryStopNext, Goto, Raise, device, thread, ramp
<1>5. CASE StopSeq
  BY <1>5 DEF StopSeq, Goto, Raise, device, thread, ramp
<1>6. CASE StopCoadd
  BY <1>6 DEF StopCoadd, Goto, shared, device, thread, ramp
<1>7. CASE StopHardCoadd
  <2> USE <1>7 DEF StopHardCoadd, TellCoadds, Goto, shared, thread, ramp
  <2>1. StatusTypeOK'
    OBVIOUS
  <2>2. TimesTypeOK'
    OBVIOUS
  <2>3. DeviceTypeOK'
    <3>1. told' \in [coadds : Nat, sur : Nat]
      BY ToldTypes
    <3>2. due' = due /\ at' = at
      OBVIOUS
    <3> QED
      BY <3>1, <3>2
  <2>4. ImagesTypeOK'
    OBVIOUS
  <2>5. CallTypeOK'
    OBVIOUS
  <2>6. ThreadTypeOK'
    BY <2>1, <2>2, <2>3, <2>4, <2>5
  <2>7. RampTypeOK'
    OBVIOUS
  <2>8. Counts'
    OBVIOUS
  <2> QED
    BY <2>6, <2>7, <2>8
<1>8. CASE StopCoaddFlags
  <2> USE <1>8 DEF StopCoaddFlags, AfterStopCoadd, Goto, Raise, device, thread, ramp
  <2>1. StatusTypeOK'
    OBVIOUS
  <2>2. TimesTypeOK'
    OBVIOUS
  <2>3. DeviceTypeOK'
    OBVIOUS
  <2>4. ImagesTypeOK'
    OBVIOUS
  <2>5. CallTypeOK'
    OBVIOUS
  <2>6. ThreadTypeOK'
    BY <2>1, <2>2, <2>3, <2>4, <2>5
  <2>7. RampTypeOK'
    OBVIOUS
  <2>8. Counts'
    OBVIOUS
  <2> QED
    BY <2>6, <2>7, <2>8
<1>9. CASE StopSampleUpTheRamp
  BY <1>9 DEF StopSampleUpTheRamp, Goto, shared, device, thread, ramp
<1>10. CASE StopHardSur
  <2> USE <1>10 DEF StopHardSur, TellSur, Goto, shared, thread, ramp
  <2>1. StatusTypeOK'
    OBVIOUS
  <2>2. TimesTypeOK'
    OBVIOUS
  <2>3. DeviceTypeOK'
    <3>1. told' \in [coadds : Nat, sur : Nat]
      BY ToldTypes
    <3>2. due' = due /\ at' = at
      OBVIOUS
    <3> QED
      BY <3>1, <3>2
  <2>4. ImagesTypeOK'
    OBVIOUS
  <2>5. CallTypeOK'
    OBVIOUS
  <2>6. ThreadTypeOK'
    BY <2>1, <2>2, <2>3, <2>4, <2>5
  <2>7. RampTypeOK'
    OBVIOUS
  <2>8. Counts'
    OBVIOUS
  <2> QED
    BY <2>6, <2>7, <2>8
<1>11. CASE StopSurFlags
  <2> USE <1>11 DEF StopSurFlags, Goto, Raise, device, thread, ramp
  <2>1. StatusTypeOK'
    OBVIOUS
  <2>2. TimesTypeOK'
    OBVIOUS
  <2>3. DeviceTypeOK'
    OBVIOUS
  <2>4. ImagesTypeOK'
    OBVIOUS
  <2>5. CallTypeOK'
    OBVIOUS
  <2>6. ThreadTypeOK'
    BY <2>1, <2>2, <2>3, <2>4, <2>5
  <2>7. RampTypeOK'
    OBVIOUS
  <2>8. Counts'
    OBVIOUS
  <2> QED
    BY <2>6, <2>7, <2>8
<1>12. CASE AbortAllBegin
  BY <1>12 DEF AbortAllBegin, Goto, shared, device, thread, ramp
<1>13. CASE AbortAllTest
  <2> USE <1>13 DEF AbortAllTest, AfterAEX, Goto, shared, thread, ramp
  <2>1. StatusTypeOK'
    OBVIOUS
  <2>2. TimesTypeOK'
    OBVIOUS
  <2>3. DeviceTypeOK'
    OBVIOUS
  <2>4. ImagesTypeOK'
    OBVIOUS
  <2>5. CallTypeOK'
    OBVIOUS
  <2>6. ThreadTypeOK'
    BY <2>1, <2>2, <2>3, <2>4, <2>5
  <2>7. RampTypeOK'
    OBVIOUS
  <2>8. Counts'
    OBVIOUS
  <2> QED
    BY <2>6, <2>7, <2>8
<1>14. CASE AbortAllAgain
  <2> USE <1>14 DEF AbortAllAgain, AfterAEX, Goto, shared, thread, ramp
  <2>1. StatusTypeOK'
    OBVIOUS
  <2>2. TimesTypeOK'
    OBVIOUS
  <2>3. DeviceTypeOK'
    OBVIOUS
  <2>4. ImagesTypeOK'
    OBVIOUS
  <2>5. CallTypeOK'
    OBVIOUS
  <2>6. ThreadTypeOK'
    BY <2>1, <2>2, <2>3, <2>4, <2>5
  <2>7. RampTypeOK'
    OBVIOUS
  <2>8. Counts'
    OBVIOUS
  <2> QED
    BY <2>6, <2>7, <2>8
<1>15. CASE AbortAllDiscard
  <2> USE <1>15 DEF AbortAllDiscard, Goto, Raise, device, thread, ramp
  <2>1. StatusTypeOK'
    OBVIOUS
  <2>2. TimesTypeOK'
    OBVIOUS
  <2>3. DeviceTypeOK'
    OBVIOUS
  <2>4. ImagesTypeOK'
    OBVIOUS
  <2>5. CallTypeOK'
    OBVIOUS
  <2>6. ThreadTypeOK'
    BY <2>1, <2>2, <2>3, <2>4, <2>5
  <2>7. RampTypeOK'
    OBVIOUS
  <2>8. Counts'
    OBVIOUS
  <2> QED
    BY <2>6, <2>7, <2>8
<1>16. CASE AbortAllStop
  <2> USE <1>16 DEF AbortAllStop, SequenceStopped, Goto, Raise, device, thread, ramp
  <2>1. StatusTypeOK'
    OBVIOUS
  <2>2. TimesTypeOK'
    OBVIOUS
  <2>3. DeviceTypeOK'
    OBVIOUS
  <2>4. ImagesTypeOK'
    OBVIOUS
  <2>5. CallTypeOK'
    OBVIOUS
  <2>6. ThreadTypeOK'
    BY <2>1, <2>2, <2>3, <2>4, <2>5
  <2>7. RampTypeOK'
    OBVIOUS
  <2>8. Counts'
    OBVIOUS
  <2> QED
    BY <2>6, <2>7, <2>8
<1>17. CASE AbortAllReadout
  <2> USE <1>17 DEF AbortAllReadout, AfterAEX, Goto, shared, thread, ramp
  <2>1. StatusTypeOK'
    OBVIOUS
  <2>2. TimesTypeOK'
    OBVIOUS
  <2>3. DeviceTypeOK'
    OBVIOUS
  <2>4. ImagesTypeOK'
    OBVIOUS
  <2>5. CallTypeOK'
    OBVIOUS
  <2>6. ThreadTypeOK'
    BY <2>1, <2>2, <2>3, <2>4, <2>5
  <2>7. RampTypeOK'
    OBVIOUS
  <2>8. Counts'
    OBVIOUS
  <2> QED
    BY <2>6, <2>7, <2>8
<1>18. CASE AbortAllRead
  <2> USE <1>18 DEF AbortAllRead, AfterAbortRead, Goto, shared, thread, ramp
  <2>1. StatusTypeOK'
    OBVIOUS
  <2>2. TimesTypeOK'
    OBVIOUS
  <2>3. DeviceTypeOK'
    OBVIOUS
  <2>4. ImagesTypeOK'
    OBVIOUS
  <2>5. CallTypeOK'
    OBVIOUS
  <2>6. ThreadTypeOK'
    BY <2>1, <2>2, <2>3, <2>4, <2>5
  <2>7. RampTypeOK'
    OBVIOUS
  <2>8. Counts'
    OBVIOUS
  <2> QED
    BY <2>6, <2>7, <2>8
<1>19. CASE AbortCoadd
  <2> USE <1>19 DEF AbortCoadd, Goto, Raise, device, thread, ramp
  <2>1. StatusTypeOK'
    OBVIOUS
  <2>2. TimesTypeOK'
    OBVIOUS
  <2>3. DeviceTypeOK'
    OBVIOUS
  <2>4. ImagesTypeOK'
    OBVIOUS
  <2>5. CallTypeOK'
    OBVIOUS
  <2>6. ThreadTypeOK'
    BY <2>1, <2>2, <2>3, <2>4, <2>5
  <2>7. RampTypeOK'
    OBVIOUS
  <2>8. Counts'
    OBVIOUS
  <2> QED
    BY <2>6, <2>7, <2>8
<1>20. CASE AbortCoaddRead
  <2> USE <1>20 DEF AbortCoaddRead, AfterAbortRead, Goto, shared, thread, ramp
  <2>1. StatusTypeOK'
    OBVIOUS
  <2>2. TimesTypeOK'
    OBVIOUS
  <2>3. DeviceTypeOK'
    OBVIOUS
  <2>4. ImagesTypeOK'
    OBVIOUS
  <2>5. CallTypeOK'
    OBVIOUS
  <2>6. ThreadTypeOK'
    BY <2>1, <2>2, <2>3, <2>4, <2>5
  <2>7. RampTypeOK'
    OBVIOUS
  <2>8. Counts'
    OBVIOUS
  <2> QED
    BY <2>6, <2>7, <2>8
<1>21. CASE PauseExposure
  <2> USE <1>21 DEF PauseExposure, Goto, shared, thread, ramp
  <2>1. StatusTypeOK'
    OBVIOUS
  <2>2. TimesTypeOK'
    OBVIOUS
  <2>3. DeviceTypeOK'
    OBVIOUS
  <2>4. ImagesTypeOK'
    OBVIOUS
  <2>5. CallTypeOK'
    OBVIOUS
  <2>6. ThreadTypeOK'
    BY <2>1, <2>2, <2>3, <2>4, <2>5
  <2>7. RampTypeOK'
    OBVIOUS
  <2>8. Counts'
    OBVIOUS
  <2> QED
    BY <2>6, <2>7, <2>8
<1>22. CASE ResumeExposure
  <2> USE <1>22 DEF ResumeExposure, Goto, shared, thread, ramp
  <2>1. StatusTypeOK'
    OBVIOUS
  <2>2. TimesTypeOK'
    OBVIOUS
  <2>3. DeviceTypeOK'
    OBVIOUS
  <2>4. ImagesTypeOK'
    OBVIOUS
  <2>5. CallTypeOK'
    OBVIOUS
  <2>6. ThreadTypeOK'
    BY <2>1, <2>2, <2>3, <2>4, <2>5
  <2>7. RampTypeOK'
    OBVIOUS
  <2>8. Counts'
    OBVIOUS
  <2> QED
    BY <2>6, <2>7, <2>8
<1>23. CASE SetStatus
  BY <1>23 DEF SetStatus, Goto, device, thread, ramp
<1>24. CASE SetNImagesLoad
  BY <1>24 DEF SetNImagesLoad, Goto, shared, device, thread, ramp
<1>25. CASE SetNImagesStore
  BY <1>25, Modulo DEF SetNImagesStore, Goto, Resized, device, thread, ramp
<1> QED
  BY <1>1, <1>2, <1>3, <1>4, <1>5, <1>6, <1>7, <1>8, <1>9, <1>10, <1>11, <1>12, <1>13,
      <1>14, <1>15, <1>16, <1>17, <1>18, <1>19, <1>20, <1>21, <1>21, <1>22, <1>23, <1>24,
      <1>25 DEF CommandStep

\* A step the acquisition thread makes on both paths keeps the types.
LEMMA ThreadTypes ==
  ASSUME TypeInv, ThreadStep, UNCHANGED ramp
  PROVE  TypeInv'
<1> USE ConstantsAssumption, NReadsAssumption, FramesAssumption
    DEF ConstantsAssumption, NReadsAssumption, FramesAssumption, TypeInv, TypeOK,
        Counts, ThreadTypeOK, SharedTypeOK, StatusTypeOK, TimesTypeOK, DeviceTypeOK,
        ImagesTypeOK, CallTypeOK, RampTypeOK, DetStatus, Flags, FrameStatus,
        Controller, Steps, AllCommands, PCs, Results, InCoadd, images, results, call
<1>1. CASE LoopTest
  BY <1>1 DEF LoopTest, MoreImages, shared, device, caller, ramp
<1>2. CASE RestoreExpTime
  BY <1>2 DEF RestoreExpTime, device, caller, ramp
<1>3. CASE StartFails
  BY <1>3 DEF StartFails, Return, ClearAll, KeptByClearAll, caller, ramp
<1>4. CASE ReadExpTimeEnter
  BY <1>4 DEF ReadExpTimeEnter, device, caller, ramp
<1>5. CASE WaitExpReset
  BY <1>5 DEF WaitExpReset, device, caller, ramp
<1>6. CASE PollExposure
  <2> USE <1>6 DEF PollExposure, ClearAll, AbortRequested, MoreExposure, KeptByClearAll, device,
          caller, ramp
  <2>1. StatusTypeOK'
    OBVIOUS
  <2>2. TimesTypeOK'
    OBVIOUS
  <2>3. DeviceTypeOK'
    OBVIOUS
  <2>4. ImagesTypeOK'
    OBVIOUS
  <2>5. CallTypeOK'
    OBVIOUS
  <2>6. ThreadTypeOK'
    BY <2>1, <2>2, <2>3, <2>4, <2>5
  <2>7. RampTypeOK'
    OBVIOUS
  <2>8. Counts'
    OBVIOUS
  <2> QED
    BY <2>6, <2>7, <2>8
<1>7. CASE ExposureTimeout
  BY <1>7 DEF ExposureTimeout, AbortRequested, MoreExposure, device, caller, ramp
<1>8. CASE PollFails
  BY <1>8 DEF PollFails, AbortRequested, MoreExposure, device, caller, thread, ramp
<1>9. CASE ExposureRead
  BY <1>9 DEF ExposureRead, MoreExposure, shared, device, caller, ramp
<1>10. CASE BeginFrame
  BY <1>10 DEF BeginFrame, MoreFrames, device, caller, ramp
<1>11. CASE NoBuffer
  BY <1>11 DEF NoBuffer, AfterAbortRead, MoreFrames, shared, caller, ramp
<1>12. CASE FrameFails
  BY <1>12 DEF FrameFails, AfterAbortRead, shared, caller, ramp
<1>13. CASE GetExposeStatus
  BY <1>13 DEF GetExposeStatus, ClearAll, KeptByClearAll, device, caller, ramp
<1> QED
  BY <1>1, <1>2, <1>3, <1>4, <1>5, <1>6, <1>7, <1>8, <1>9, <1>10, <1>11, <1>12, <1>13 DEF ThreadStep

\* A step of expose_optical() keeps the types.
LEMMA OpticalTypes ==
  ASSUME TypeInv, OpticalStep, UNCHANGED ramp
  PROVE  TypeInv'
<1> USE ConstantsAssumption, NReadsAssumption, FramesAssumption
    DEF ConstantsAssumption, NReadsAssumption, FramesAssumption, TypeInv, TypeOK,
        Counts, ThreadTypeOK, SharedTypeOK, StatusTypeOK, TimesTypeOK, DeviceTypeOK,
        ImagesTypeOK, CallTypeOK, RampTypeOK, DetStatus, Flags, FrameStatus,
        Controller, Steps, AllCommands, PCs, Results, InCoadd, images, results, call
<1>1. CASE SetExpTime
  <2> USE <1>1 DEF SetExpTime, Return, ClearAll, KeptByClearAll, device, caller, ramp
  <2>1. StatusTypeOK'
    OBVIOUS
  <2>2. TimesTypeOK'
    <3>1. exposure_time' = exposure_time \/ exposure_time' = ExpTime
      OBVIOUS
    <3>2. exp_prog' \in {exp_prog, 0} /\ elapsed' = elapsed
      OBVIOUS
    <3> QED
      BY <3>1, <3>2
  <2>3. DeviceTypeOK'
    OBVIOUS
  <2>4. ImagesTypeOK'
    OBVIOUS
  <2>5. CallTypeOK'
    OBVIOUS
  <2>6. ThreadTypeOK'
    BY <2>1, <2>2, <2>3, <2>4, <2>5
  <2>7. RampTypeOK'
    OBVIOUS
  <2>8. Counts'
    OBVIOUS
  <2> QED
    BY <2>6, <2>7, <2>8
<1>2. CASE BeginImage
  <2> USE <1>2 DEF BeginImage, Return, ClearAll, AbortRequested, AfterStopRequests, KeptByClearAll,
          device, caller, ramp
  <2>1. StatusTypeOK'
    OBVIOUS
  <2>2. TimesTypeOK'
    OBVIOUS
  <2>3. DeviceTypeOK'
    OBVIOUS
  <2>4. ImagesTypeOK'
    BY Modulo
  <2>5. CallTypeOK'
    OBVIOUS
  <2>6. ThreadTypeOK'
    BY <2>1, <2>2, <2>3, <2>4, <2>5
  <2>7. RampTypeOK'
    OBVIOUS
  <2>8. Counts'
    OBVIOUS
  <2> QED
    BY <2>6, <2>7, <2>8
<1>3. CASE StartExposure
  BY <1>3, Modulo DEF StartExposure, Bump, caller, ramp
<1>4. CASE OpticalFrame
  <2> USE <1>4 DEF OpticalFrame, FrameRead, caller, ramp
  <2>1. StatusTypeOK'
    OBVIOUS
  <2>2. TimesTypeOK'
    OBVIOUS
  <2>3. DeviceTypeOK'
    OBVIOUS
  <2>4. ImagesTypeOK'
    OBVIOUS
  <2>5. CallTypeOK'
    OBVIOUS
  <2>6. ThreadTypeOK'
    BY <2>1, <2>2, <2>3, <2>4, <2>5
  <2>7. RampTypeOK'
    OBVIOUS
  <2>8. Counts'
    OBVIOUS
  <2> QED
    BY <2>6, <2>7, <2>8
<1>5. CASE BeginReadout
  BY <1>5 DEF BeginReadout, device, caller, ramp
<1>6. CASE ImageRead
  BY <1>6, Modulo DEF ImageRead, MoreFrames, ImageEnds, Bump, device, caller, ramp
<1>7. CASE ReadoutError
  <2> USE <1>7 DEF ReadoutError, Return, ClearAll, ImageEnds, KeptByClearAll, Bump, device, caller,
          ramp
  <2>1. StatusTypeOK'
    OBVIOUS
  <2>2. TimesTypeOK'
    OBVIOUS
  <2>3. DeviceTypeOK'
    OBVIOUS
  <2>4. ImagesTypeOK'
    BY Modulo
  <2>5. CallTypeOK'
    OBVIOUS
  <2>6. ThreadTypeOK'
    BY <2>1, <2>2, <2>3, <2>4, <2>5
  <2>7. RampTypeOK'
    OBVIOUS
  <2>8. Counts'
    OBVIOUS
  <2> QED
    BY <2>6, <2>7, <2>8
<1>8. CASE Finish
  BY <1>8 DEF Finish, Return, KeptByClearAll, AbortRequested, device, caller, ramp
<1> QED
  BY <1>1, <1>2, <1>3, <1>4, <1>5, <1>6, <1>7, <1>8 DEF OpticalStep

\* A step of the infrared path of expose() keeps the types.
LEMMA InfraredTypes ==
  ASSUME TypeInv, InfraredStep
  PROVE  TypeInv'
<1> USE ConstantsAssumption, NReadsAssumption, FramesAssumption
    DEF ConstantsAssumption, NReadsAssumption, FramesAssumption, TypeInv, TypeOK,
        Counts, ThreadTypeOK, SharedTypeOK, StatusTypeOK, TimesTypeOK, DeviceTypeOK,
        ImagesTypeOK, CallTypeOK, RampTypeOK, DetStatus, Flags, FrameStatus,
        Controller, Steps, AllCommands, PCs, Results, InCoadd, images, results, call
<1>1. CASE SetUp
  <2> USE <1>1 DEF SetUp, SetUpExpTime, SetUpCoadds, SetUpSur, TellCoadds, TellSur, caller, ramp
  <2>1. StatusTypeOK'
    OBVIOUS
  <2>2. TimesTypeOK'
    OBVIOUS
  <2>3. DeviceTypeOK'
    <3>1. told' \in [coadds : Nat, sur : Nat]
      BY ToldTypes
    <3>2. due' = due /\ at' = at
      OBVIOUS
    <3> QED
      BY <3>1, <3>2
  <2>4. ImagesTypeOK'
    OBVIOUS
  <2>5. CallTypeOK'
    OBVIOUS
  <2>6. ThreadTypeOK'
    BY <2>1, <2>2, <2>3, <2>4, <2>5
  <2>7. RampTypeOK'
    OBVIOUS
  <2>8. Counts'
    OBVIOUS
  <2> QED
    BY <2>6, <2>7, <2>8
<1>2. CASE SetUpFails
  <2> USE <1>2 DEF SetUpFails, Return, ClearAll, KeptByClearAll, device, caller, ramp
  <2>1. StatusTypeOK'
    OBVIOUS
  <2>2. TimesTypeOK'
    OBVIOUS
  <2>3. DeviceTypeOK'
    OBVIOUS
  <2>4. ImagesTypeOK'
    OBVIOUS
  <2>5. CallTypeOK'
    OBVIOUS
  <2>6. ThreadTypeOK'
    BY <2>1, <2>2, <2>3, <2>4, <2>5
  <2>7. RampTypeOK'
    OBVIOUS
  <2>8. Counts'
    OBVIOUS
  <2> QED
    BY <2>6, <2>7, <2>8
<1>3. CASE BeginCoaddedImage
  <2> USE <1>3 DEF BeginCoaddedImage, Return, ClearAll, AbortRequested, KeptByClearAll, device, caller
  <2>1. StatusTypeOK'
    OBVIOUS
  <2>2. TimesTypeOK'
    OBVIOUS
  <2>3. DeviceTypeOK'
    OBVIOUS
  <2>4. ImagesTypeOK'
    BY Modulo
  <2>5. CallTypeOK'
    OBVIOUS
  <2>6. ThreadTypeOK'
    BY <2>1, <2>2, <2>3, <2>4, <2>5
  <2>7. RampTypeOK'
    OBVIOUS
  <2>8. Counts'
    OBVIOUS
  <2> QED
    BY <2>6, <2>7, <2>8
<1>21. CASE ForgetRequests
  <2> USE <1>21 DEF ForgetRequests, AfterStopRequests, device, caller
  <2>1. StatusTypeOK'
    OBVIOUS
  <2>2. TimesTypeOK'
    OBVIOUS
  <2>3. DeviceTypeOK'
    OBVIOUS
  <2>4. ImagesTypeOK'
    OBVIOUS
  <2>5. CallTypeOK'
    OBVIOUS
  <2>6. ThreadTypeOK'
    BY <2>1, <2>2, <2>3, <2>4, <2>5
  <2>7. RampTypeOK'
    OBVIOUS
  <2>8. Counts'
    OBVIOUS
  <2> QED
    BY <2>6, <2>7, <2>8
<1>4. CASE StartRamp
  <2> USE <1>4 DEF StartRamp, Bump, ramp
  <2>1. StatusTypeOK'
    OBVIOUS
  <2>2. TimesTypeOK'
    OBVIOUS
  <2>3. DeviceTypeOK'
    OBVIOUS
  <2>4. ImagesTypeOK'
    BY Modulo
  <2>5. CallTypeOK'
    OBVIOUS
  <2>6. ThreadTypeOK'
    BY <2>1, <2>2, <2>3, <2>4, <2>5
  <2>7. RampTypeOK'
    OBVIOUS
  <2>8. Counts'
    OBVIOUS
  <2> QED
    BY <2>6, <2>7, <2>8
<1>5. CASE BeginCoadd
  BY <1>5 DEF BeginCoadd, MoreCoadds, Prevex, shared, device, caller
<1>6. CASE PreFramesRead
  BY <1>6 DEF PreFramesRead, MoreFrames, shared, device, caller, ramp
<1>7. CASE BeginSample
  BY <1>7 DEF BeginSample, MoreSamples, shared, device, caller
<1>8. CASE TryStopSur
  <2> USE <1>8 DEF TryStopSur, TellSur, shared, caller, ramp
  <2>1. StatusTypeOK'
    OBVIOUS
  <2>2. TimesTypeOK'
    OBVIOUS
  <2>3. DeviceTypeOK'
    <3>1. told' \in [coadds : Nat, sur : Nat]
      BY ToldTypes
    <3>2. due' = due /\ at' = at
      OBVIOUS
    <3> QED
      BY <3>1, <3>2
  <2>4. ImagesTypeOK'
    OBVIOUS
  <2>5. CallTypeOK'
    OBVIOUS
  <2>6. ThreadTypeOK'
    BY <2>1, <2>2, <2>3, <2>4, <2>5
  <2>7. RampTypeOK'
    OBVIOUS
  <2>8. Counts'
    OBVIOUS
  <2> QED
    BY <2>6, <2>7, <2>8
<1>9. CASE TryStopCoadd
  <2> USE <1>9 DEF TryStopCoadd, TellCoadds, shared, caller, ramp
  <2>1. StatusTypeOK'
    OBVIOUS
  <2>2. TimesTypeOK'
    OBVIOUS
  <2>3. DeviceTypeOK'
    <3>1. told' \in [coadds : Nat, sur : Nat]
      BY ToldTypes
    <3>2. due' = due /\ at' = at
      OBVIOUS
    <3> QED
      BY <3>1, <3>2
  <2>4. ImagesTypeOK'
    OBVIOUS
  <2>5. CallTypeOK'
    OBVIOUS
  <2>6. ThreadTypeOK'
    BY <2>1, <2>2, <2>3, <2>4, <2>5
  <2>7. RampTypeOK'
    OBVIOUS
  <2>8. Counts'
    OBVIOUS
  <2> QED
    BY <2>6, <2>7, <2>8
<1>10. CASE StopAccepted
  <2> USE <1>10 DEF StopAccepted, Accepted, device, caller, ramp
  <2>1. StatusTypeOK'
    OBVIOUS
  <2>2. TimesTypeOK'
    OBVIOUS
  <2>3. DeviceTypeOK'
    OBVIOUS
  <2>4. ImagesTypeOK'
    OBVIOUS
  <2>5. CallTypeOK'
    OBVIOUS
  <2>6. ThreadTypeOK'
    BY <2>1, <2>2, <2>3, <2>4, <2>5
  <2>7. RampTypeOK'
    OBVIOUS
  <2>8. Counts'
    OBVIOUS
  <2> QED
    BY <2>6, <2>7, <2>8
<1>11. CASE TryStopExp
  <2> USE <1>11 DEF TryStopExp, Forgotten, device, caller, ramp
  <2>1. StatusTypeOK'
    OBVIOUS
  <2>2. TimesTypeOK'
    <3>1. exposure_time' = exposure_time \/ exposure_time' = exp_prog + StopTime
      OBVIOUS
    <3>2. exp_prog' = exp_prog /\ elapsed' = elapsed
      OBVIOUS
    <3> QED
      BY <3>1, <3>2
  <2>3. DeviceTypeOK'
    OBVIOUS
  <2>4. ImagesTypeOK'
    OBVIOUS
  <2>5. CallTypeOK'
    OBVIOUS
  <2>6. ThreadTypeOK'
    BY <2>1, <2>2, <2>3, <2>4, <2>5
  <2>7. RampTypeOK'
    OBVIOUS
  <2>8. Counts'
    OBVIOUS
  <2> QED
    BY <2>6, <2>7, <2>8
<1>12. CASE ExpStopped
  <2> USE <1>12 DEF ExpStopped, Forgotten, device, caller, ramp
  <2>1. StatusTypeOK'
    OBVIOUS
  <2>2. TimesTypeOK'
    OBVIOUS
  <2>3. DeviceTypeOK'
    OBVIOUS
  <2>4. ImagesTypeOK'
    OBVIOUS
  <2>5. CallTypeOK'
    OBVIOUS
  <2>6. ThreadTypeOK'
    BY <2>1, <2>2, <2>3, <2>4, <2>5
  <2>7. RampTypeOK'
    OBVIOUS
  <2>8. Counts'
    OBVIOUS
  <2> QED
    BY <2>6, <2>7, <2>8
<1>13. CASE BeginRampReadout
  <2> USE <1>13 DEF BeginRampReadout, Return, ClearAll, AbortRequested, Postex, KeptByClearAll,
          device, caller
  <2>1. StatusTypeOK'
    OBVIOUS
  <2>2. TimesTypeOK'
    OBVIOUS
  <2>3. DeviceTypeOK'
    OBVIOUS
  <2>4. ImagesTypeOK'
    OBVIOUS
  <2>5. CallTypeOK'
    OBVIOUS
  <2>6. ThreadTypeOK'
    BY <2>1, <2>2, <2>3, <2>4, <2>5
  <2>7. RampTypeOK'
    OBVIOUS
  <2>8. Counts'
    OBVIOUS
  <2> QED
    BY <2>6, <2>7, <2>8
<1>14. CASE SampleRead
  BY <1>14 DEF SampleRead, MoreFrames, shared, device, caller, ramp
<1>15. CASE RampError
  <2> USE <1>15 DEF RampError, AfterDiscard, Return, ClearAll, Bump, KeptByClearAll, device, caller
  <2>1. StatusTypeOK'
    OBVIOUS
  <2>2. TimesTypeOK'
    OBVIOUS
  <2>3. DeviceTypeOK'
    OBVIOUS
  <2>4. ImagesTypeOK'
    BY Modulo
  <2>5. CallTypeOK'
    OBVIOUS
  <2>6. ThreadTypeOK'
    BY <2>1, <2>2, <2>3, <2>4, <2>5
  <2>7. RampTypeOK'
    <3>1. coadds_discarded' \in {coadds_discarded, (coadds_discarded + 1) % UMod}
      OBVIOUS
    <3>2. (coadds_discarded + 1) % UMod \in 0 .. UMod - 1
      BY Modulo
    <3>3. UNCHANGED <<phase, ncoadds, nsur, coadds_done>>
      OBVIOUS
    <3> QED
      BY <3>1, <3>2, <3>3
  <2>8. Counts'
    OBVIOUS
  <2> QED
    BY <2>6, <2>7, <2>8
<1>16. CASE CoaddDone
  BY <1>16 DEF CoaddDone, MoreSamples, device, caller
<1>17. CASE CoaddsDone
  BY <1>17 DEF CoaddsDone, MoreCoadds, shared, device, caller, ramp
<1>18. CASE ImageDone
  BY <1>18, Modulo DEF ImageDone, Bump, device, caller, ramp
<1>19. CASE FinishRamps
  <2> USE <1>19 DEF FinishRamps, Return, ClearAll, AbortRequested, KeptByClearAll, device, caller,
          ramp
  <2>1. StatusTypeOK'
    OBVIOUS
  <2>2. TimesTypeOK'
    OBVIOUS
  <2>3. DeviceTypeOK'
    OBVIOUS
  <2>4. ImagesTypeOK'
    OBVIOUS
  <2>5. CallTypeOK'
    OBVIOUS
  <2>6. ThreadTypeOK'
    BY <2>1, <2>2, <2>3, <2>4, <2>5
  <2>7. RampTypeOK'
    OBVIOUS
  <2>8. Counts'
    OBVIOUS
  <2> QED
    BY <2>6, <2>7, <2>8
<1>20. CASE InfraredFrame
  <2> USE <1>20 DEF InfraredFrame, FrameRead, PartFrame, PartEnds, NextExposure, NextCoadd, RampEnds,
          ramp
  <2>1. StatusTypeOK'
    OBVIOUS
  <2>2. TimesTypeOK'
    OBVIOUS
  <2>3. DeviceTypeOK'
    OBVIOUS
  <2>4. ImagesTypeOK'
    OBVIOUS
  <2>5. CallTypeOK'
    OBVIOUS
  <2>6. ThreadTypeOK'
    BY <2>1, <2>2, <2>3, <2>4, <2>5
  <2>7. RampTypeOK'
    OBVIOUS
  <2>8. Counts'
    OBVIOUS
  <2> QED
    BY <2>6, <2>7, <2>8
<1> QED
  BY <1>1, <1>2, <1>3, <1>4, <1>5, <1>6, <1>7, <1>8, <1>9, <1>10, <1>11, <1>12, <1>13,
      <1>14, <1>15, <1>16, <1>17, <1>18, <1>19, <1>20, <1>21 DEF InfraredStep

LEMMA LateAtEntry == Enter => late' \in BOOLEAN
<1>1. Enter => late' = Deciding
  BY DEF Enter, EnterOptical, EnterInfrared, EnterExpose
<1>2. Deciding \in BOOLEAN
  BY DEF Deciding
<1> QED
  BY <1>1, <1>2

\* A call of expose(), the controller and the issue of a command keep the types.
LEMMA OtherTypes ==
  ASSUME TypeInv,
         \/ Enter
         \/ (ControllerStep \/ IssueAny) /\ UNCHANGED ramp
         \/ UNCHANGED vars
  PROVE  TypeInv'
<1> USE ConstantsAssumption, NReadsAssumption, FramesAssumption
    DEF ConstantsAssumption, NReadsAssumption, FramesAssumption, TypeInv, TypeOK,
        Counts, ThreadTypeOK, SharedTypeOK, StatusTypeOK, TimesTypeOK, DeviceTypeOK,
        ImagesTypeOK, CallTypeOK, RampTypeOK, DetStatus, Flags, FrameStatus,
        Controller, Steps, AllCommands, PCs, Results, InCoadd, images, results, call
<1>1. CASE Enter
  <2> USE <1>1, DetectorsAssumption DEF DetectorsAssumption, Enter, EnterOptical, EnterInfrared, EnterExpose, KeptByClearAll, Deciding, device
  <2>1. StatusTypeOK'
    OBVIOUS
  <2>2. TimesTypeOK'
    OBVIOUS
  <2>3. DeviceTypeOK'
    OBVIOUS
  <2>4. ImagesTypeOK'
    OBVIOUS
  <2>5. CallTypeOK'
    <3>1. late' \in BOOLEAN
      BY LateAtEntry, <1>1
    <3>2. asked' \subseteq AllCommands
      OBVIOUS
    <3> QED
      BY <3>1, <3>2
  <2>6. ThreadTypeOK'
    BY <2>1, <2>2, <2>3, <2>4, <2>5
  <2>7. RampTypeOK'
    OBVIOUS
  <2>8. Counts'
    OBVIOUS
  <2> QED
    BY <2>6, <2>7, <2>8
<1>2. CASE ControllerStep /\ UNCHANGED ramp
  BY <1>2 DEF ControllerStep, Tick, shared, caller, thread, ramp
<1>3. CASE IssueAny /\ UNCHANGED ramp
  BY <1>3 DEF IssueAny, Issue, shared, device, thread, ramp
<1>4. CASE UNCHANGED vars
  BY <1>4 DEF vars, shared, device, caller, thread, ramp
<1> QED
  BY <1>1, <1>2, <1>3, <1>4

LEMMA TypeInvStep == TypeInv /\ [Next]_vars => TypeInv'
<1> SUFFICES ASSUME TypeInv, [Next]_vars PROVE TypeInv'
  OBVIOUS
<1>1. CASE CommandThreadStep /\ UNCHANGED ramp
  BY <1>1, CommandTypes DEF CommandThreadStep, thread, ramp
<1>2. CASE AcquisitionStep
  BY <1>2, ThreadTypes, OpticalTypes, InfraredTypes DEF AcquisitionStep
<1>3. CASE \/ Enter
           \/ (ControllerStep \/ IssueAny) /\ UNCHANGED ramp
           \/ UNCHANGED vars
  BY <1>3, OtherTypes
<1> QED
  BY <1>1, <1>2, <1>3 DEF Next

\* Type correctness: with any number of images, coadds, samples and frames, and
\* any interleaving of the two threads, the counters keep their range, no frame is
\* counted down below zero and no coadd is counted above NCoadds.
THEOREM TypeCorrect == Spec => []TypeOK
<1>1. Spec => []TypeInv
  BY TypeInvInit, TypeInvStep, PTL DEF Spec
<1>2. TypeInv => TypeOK
  BY DEF TypeInv
<1> QED
  BY <1>1, <1>2, PTL

-----------------------------------------------------------------------------
(* An abort has a cause. *)

Aborted == "abort_all" \in asked \/ "abort_coadd" \in asked

\* A discard is raised only by the steps of abort_all() and abort_coadd(), and a
\* call in progress when a sequence begins counts as made during it.
Cause ==
    /\ cstep = "none" <=> cmd = "none"
    /\ cmd # "none" => cmd \in asked
    /\ cstep \in {"abort_test", "discard", "stop", "abort_again", "discard_again",
                 "stop_again", "abort_readout", "abort_read", "discard_read",
                 "stop_read"}
        => cmd = "abort_all"
    /\ cstep = "coadd_read" => cmd = "abort_coadd"

AbortInv ==
    /\ Cause
    /\ "discard_coadd" \in flags => Aborted
    /\ pc = "err" /\ pix = "ECONNABORTED" /\ errno # "ECONNABORTED" => Aborted
    /\ pc = "returned" /\ ret = "ECONNABORTED" => Aborted

LEMMA AbortInvInit == Init => AbortInv
  BY DEF Init, ThreadInit, SharedInit, AbortInv, Cause, Aborted

\* A step of the command thread.
LEMMA CommandAborts ==
  ASSUME TypeInv, AbortInv, CommandStep, UNCHANGED thread
  PROVE  AbortInv'
<1> USE DEF AbortInv, Cause, Aborted, images, results, call
<1>1. CASE StopExpBegin
  BY <1>1 DEF StopExpBegin, StopExp, Goto, shared, thread
<1>2. CASE StopAllBegin
  <2>1. flags' = flags /\ asked' = asked /\ cmd' = cmd /\ cstep' \in {"exp_flag", "seq", "try_next"}
    BY <1>2 DEF StopAllBegin, StopExp, Goto, shared
  <2>2. cmd = "stop_all"
    BY <1>2 DEF StopAllBegin
  <2> QED
    BY <2>1, <2>2 DEF thread
<1>3. CASE StopExpFlag
  BY <1>3 DEF StopExpFlag, AfterStopExp, Goto, Raise, thread
<1>4. CASE TryStopNext
  BY <1>4 DEF TryStopNext, Goto, Raise, thread
<1>5. CASE StopSeq
  BY <1>5 DEF StopSeq, Goto, Raise, thread
<1>6. CASE StopCoadd
  BY <1>6 DEF StopCoadd, Goto, shared, thread
<1>7. CASE StopHardCoadd
  BY <1>7 DEF StopHardCoadd, Goto, shared, thread
<1>8. CASE StopCoaddFlags
  BY <1>8 DEF StopCoaddFlags, AfterStopCoadd, Goto, Raise, thread
<1>9. CASE StopSampleUpTheRamp
  BY <1>9 DEF StopSampleUpTheRamp, Goto, shared, thread
<1>10. CASE StopHardSur
  BY <1>10 DEF StopHardSur, Goto, shared, thread
<1>11. CASE StopSurFlags
  BY <1>11 DEF StopSurFlags, Goto, Raise, thread
<1>12. CASE AbortAllBegin
  BY <1>12 DEF AbortAllBegin, Goto, shared, thread
<1>13. CASE AbortAllTest
  BY <1>13 DEF AbortAllTest, Goto, shared, thread
<1>14. CASE AbortAllAgain
  BY <1>14 DEF AbortAllAgain, Goto, shared, thread
<1>15. CASE AbortAllDiscard
  BY <1>15 DEF AbortAllDiscard, Goto, Raise, thread
<1>16. CASE AbortAllStop
  BY <1>16 DEF AbortAllStop, SequenceStopped, Goto, Raise, thread
<1>17. CASE AbortAllReadout
  BY <1>17 DEF AbortAllReadout, Goto, shared, thread
<1>18. CASE AbortAllRead
  BY <1>18 DEF AbortAllRead, Goto, shared, thread
<1>19. CASE AbortCoadd
  BY <1>19 DEF AbortCoadd, Goto, Raise, thread
<1>20. CASE AbortCoaddRead
  BY <1>20 DEF AbortCoaddRead, Goto, shared, thread
<1>21. CASE PauseExposure
  BY <1>21 DEF PauseExposure, Goto, shared, thread
<1>22. CASE ResumeExposure
  BY <1>22 DEF ResumeExposure, Goto, shared, thread
<1>23. CASE SetStatus
  BY <1>23 DEF SetStatus, Goto, thread
<1>24. CASE SetNImagesLoad
  BY <1>24 DEF SetNImagesLoad, Goto, shared, thread
<1>25. CASE SetNImagesStore
  BY <1>25 DEF SetNImagesStore, Goto, thread
<1> QED
  BY <1>1, <1>2, <1>3, <1>4, <1>5, <1>6, <1>7, <1>8, <1>9, <1>10, <1>11, <1>12, <1>13,
      <1>14, <1>15, <1>16, <1>17, <1>18, <1>19, <1>20, <1>21, <1>21, <1>22, <1>23, <1>24,
      <1>25 DEF CommandStep

\* A step the acquisition thread makes on both paths.
LEMMA ThreadAborts ==
  ASSUME TypeInv, AbortInv, ThreadStep
  PROVE  AbortInv'
<1> USE DEF AbortInv, Cause, Aborted, images, results, call
<1>1. CASE LoopTest
  BY <1>1 DEF LoopTest, MoreImages, shared, caller
<1>2. CASE RestoreExpTime
  BY <1>2 DEF RestoreExpTime, caller
<1>3. CASE StartFails
  BY <1>3 DEF StartFails, Return, ClearAll, KeptByClearAll, caller
<1>4. CASE ReadExpTimeEnter
  BY <1>4 DEF ReadExpTimeEnter, caller
<1>5. CASE WaitExpReset
  BY <1>5 DEF WaitExpReset, caller
<1>6. CASE PollExposure
  BY <1>6 DEF PollExposure, ClearAll, AbortRequested, KeptByClearAll, caller
<1>7. CASE ExposureTimeout
  BY <1>7 DEF ExposureTimeout, AbortRequested, caller
<1>8. CASE PollFails
  BY <1>8 DEF PollFails, AbortRequested, caller, thread
<1>9. CASE ExposureRead
  BY <1>9 DEF ExposureRead, shared, caller
<1>10. CASE BeginFrame
  BY <1>10 DEF BeginFrame, caller
<1>11. CASE NoBuffer
  BY <1>11 DEF NoBuffer, shared, caller
<1>12. CASE FrameFails
  BY <1>12 DEF FrameFails, shared, caller
<1>13. CASE GetExposeStatus
  BY <1>13 DEF GetExposeStatus, ClearAll, KeptByClearAll, caller
<1> QED
  BY <1>1, <1>2, <1>3, <1>4, <1>5, <1>6, <1>7, <1>8, <1>9, <1>10, <1>11, <1>12,
      <1>13 DEF ThreadStep

\* A step of expose_optical().
LEMMA OpticalAborts ==
  ASSUME TypeInv, AbortInv, OpticalStep
  PROVE  AbortInv'
<1> USE DEF AbortInv, Cause, Aborted, images, results, call
<1>1. CASE SetExpTime
  BY <1>1 DEF SetExpTime, Return, ClearAll, KeptByClearAll, caller
<1>2. CASE BeginImage
  BY <1>2 DEF BeginImage, Return, ClearAll, AbortRequested, AfterStopRequests, KeptByClearAll,
      caller
<1>3. CASE StartExposure
  BY <1>3 DEF StartExposure, caller
<1>4. CASE OpticalFrame
  BY <1>4 DEF OpticalFrame, FrameRead, caller
<1>5. CASE BeginReadout
  BY <1>5 DEF BeginReadout, caller
<1>6. CASE ImageRead
  BY <1>6 DEF ImageRead, ImageEnds, caller
<1>7. CASE ReadoutError
  BY <1>7 DEF ReadoutError, Return, ClearAll, ImageEnds, KeptByClearAll, caller
<1>8. CASE Finish
  BY <1>8 DEF Finish, Return, KeptByClearAll, AbortRequested, caller
<1> QED
  BY <1>1, <1>2, <1>3, <1>4, <1>5, <1>6, <1>7, <1>8 DEF OpticalStep

\* A step of the infrared path of expose().
LEMMA InfraredAborts ==
  ASSUME TypeInv, AbortInv, InfraredStep
  PROVE  AbortInv'
<1> USE DEF AbortInv, Cause, Aborted, images, results, call
<1>1. CASE SetUp
  BY <1>1 DEF SetUp, SetUpExpTime, SetUpCoadds, SetUpSur, caller
<1>2. CASE SetUpFails
  BY <1>2 DEF SetUpFails, Return, ClearAll, KeptByClearAll, caller
<1>3. CASE BeginCoaddedImage
  BY <1>3 DEF BeginCoaddedImage, Return, ClearAll, AbortRequested, KeptByClearAll, caller
<1>21. CASE ForgetRequests
  BY <1>21 DEF ForgetRequests, AfterStopRequests, caller
<1>4. CASE StartRamp
  BY <1>4 DEF StartRamp
<1>5. CASE BeginCoadd
  BY <1>5 DEF BeginCoadd, shared, caller
<1>6. CASE PreFramesRead
  BY <1>6 DEF PreFramesRead, shared, caller
<1>7. CASE BeginSample
  BY <1>7 DEF BeginSample, shared, caller
<1>8. CASE TryStopSur
  BY <1>8 DEF TryStopSur, shared, caller
<1>9. CASE TryStopCoadd
  BY <1>9 DEF TryStopCoadd, shared, caller
<1>10. CASE StopAccepted
  BY <1>10 DEF StopAccepted, Accepted, caller
<1>11. CASE TryStopExp
  BY <1>11 DEF TryStopExp, Forgotten, caller
<1>12. CASE ExpStopped
  BY <1>12 DEF ExpStopped, Forgotten, caller
<1>13. CASE BeginRampReadout
  BY <1>13 DEF BeginRampReadout, Return, ClearAll, AbortRequested, KeptByClearAll, caller
<1>14. CASE SampleRead
  BY <1>14 DEF SampleRead, shared, caller
<1>15. CASE RampError
  BY <1>15 DEF RampError, AfterDiscard, Return, ClearAll, KeptByClearAll, caller
<1>16. CASE CoaddDone
  BY <1>16 DEF CoaddDone, caller
<1>17. CASE CoaddsDone
  BY <1>17 DEF CoaddsDone, shared, caller
<1>18. CASE ImageDone
  BY <1>18 DEF ImageDone, caller
<1>19. CASE FinishRamps
  BY <1>19 DEF FinishRamps, Return, ClearAll, AbortRequested, KeptByClearAll, caller
<1>20. CASE InfraredFrame
  BY <1>20 DEF InfraredFrame, FrameRead
<1> QED
  BY <1>1, <1>2, <1>3, <1>4, <1>5, <1>6, <1>7, <1>8, <1>9, <1>10, <1>11, <1>12, <1>13,
      <1>14, <1>15, <1>16, <1>17, <1>18, <1>19, <1>20, <1>21 DEF InfraredStep

LEMMA AbortInvStep == TypeInv /\ AbortInv /\ [Next]_vars => AbortInv'
<1> SUFFICES ASSUME TypeInv, AbortInv, [Next]_vars PROVE AbortInv'
  OBVIOUS
<1> USE DEF AbortInv, Cause, Aborted, images, results, call
<1>1. CASE CommandThreadStep
  BY <1>1, CommandAborts DEF CommandThreadStep
<1>2. CASE AcquisitionStep
  BY <1>2, ThreadAborts, OpticalAborts, InfraredAborts DEF AcquisitionStep
<1>3. CASE Enter
  BY <1>3 DEF Enter, EnterOptical, EnterInfrared, EnterExpose, KeptByClearAll
<1>4. CASE ControllerStep
  BY <1>4 DEF ControllerStep, Tick, shared, caller, thread
<1>5. CASE IssueAny
  BY <1>5, ConstantsAssumption
  DEF ConstantsAssumption, AllCommands, IssueAny, Issue, shared, thread
<1>6. CASE UNCHANGED vars
  BY <1>6 DEF vars, shared, caller, thread
<1> QED
  BY <1>1, <1>2, <1>3, <1>4, <1>5, <1>6 DEF Next

\* expose() never reports a sequence as aborted unless abort_all() or
\* abort_coadd() was called while it ran.
THEOREM AbortsAreAsked == Spec => []AbortHasCause
<1>1. Init => TypeInv /\ AbortInv
  BY TypeInvInit, AbortInvInit
<1>2. TypeInv /\ AbortInv /\ [Next]_vars => (TypeInv /\ AbortInv)'
  BY TypeInvStep, AbortInvStep
<1>3. AbortInv => AbortHasCause
  BY DEF AbortInv, Aborted, AbortHasCause, Returned
<1> QED
  BY <1>1, <1>2, <1>3, PTL DEF Spec
===============================================================================

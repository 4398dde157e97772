--------------------------- MODULE SequenceProofs ---------------------------
(***************************************************************************)
(* Proofs that expose() keeps its promise to the exposure loop: the images *)
(* of a sequence are accounted for, whatever is asked of it while it runs, *)
(* and Expose implements Sequence.  Then what the requests of the command  *)
(* thread leave behind: the exposure time, the detector status, the coadds *)
(* of an image and the controller.                                         *)
(***************************************************************************)
EXTENDS ExposeProofs

Changed == "set_nimages" \in asked
Cut == asked \cap Cuts # {}

\* Which command a step of the command thread belongs to.
StepOf ==
    /\ cstep \in {"try_next", "seq", "coadd", "sur"} => cmd = "stop_all"
    /\ cstep \in {"coadd_hard", "coadd_seq", "coadd_flag", "coadd_try"}
        => cmd \in {"stop_coadd", "stop_all"}
    /\ cstep = "exp_flag" => cmd \in {"stop_exp", "stop_all"}
    /\ cstep = "store" => cmd = "set_nimages"

\* A flag that may end the sequence was raised by a call that may.
StopsAsked ==
    "stop_sequence" \in flags \/ "try_stop_coadding" \in flags \/ pc = "coadd_stop"
        => Cut

\* An image is discarded only for an abort; expose_optical() discards none.
DiscardsAsked ==
    /\ coadds_discarded # 0 => Aborted
    /\ path = "optical" => coadds_discarded = 0

SettingUp == {"setexp", "setcoadds", "setsur"}
BetweenImages == SettingUp \cup {"loop", "body"}
InImage == {"forget", "reexp", "start", "coadd", "sur", "try_sur", "sur_stop", "try_coadd",
            "coadd_stop", "try_exp", "exp_stop", "rt_enter", "rt_wait", "rt_loop",
            "rt_done", "frame", "reading", "err", "coadd_done", "image_done"}

Total == images_done + coadds_discarded
EndsWell == pc = "finish" \/ (pc = "returned" /\ ret = "OK")

\* Every image is left, in progress, done or discarded.
Balance ==
    ~Changed =>
        /\ pc \in BetweenImages /\ ~ContRead => Total + npics = wanted
        /\ pc \in InImage /\ ~ContRead => Total + 1 + npics = wanted
        /\ pc = "body" => npics # 0
        /\ pc \in BetweenImages \cup InImage /\ ContRead => npics # 0
        /\ EndsWell => Cut \/ (~ContRead /\ Total = wanted)

\* An optical image whose readout was aborted is counted as done, too.
Spoiled ==
    path = "optical" /\ ~Changed /\ ~ContRead
        /\ (pc \in BetweenImages \cup InImage \/ EndsWell)
        => images_discarded <= images_done

\* expose() goes to its label err only with a failure.
Failed == pc = "err" => pix # "OK"

SequenceInv == StepOf /\ StopsAsked /\ DiscardsAsked /\ Balance /\ Spoiled

\* In expose_optical(), the images started and not yet done.
Started ==
    path = "optical" =>
        /\ pc \in {"setexp", "loop", "body", "reexp", "start", "finish"}
              => images_started = images_done
        /\ pc \in {"rt_enter", "rt_wait", "rt_loop", "rt_done", "frame", "reading", "err"}
              => images_started = Bump(images_done)
        /\ pc = "returned" /\ ret = "OK" => images_started = images_done
        /\ pc \notin InImage \ {"reexp", "start", "rt_enter", "rt_wait", "rt_loop",
                                "rt_done", "frame", "reading", "err"}
        /\ pc \notin {"setcoadds", "setsur"}

LEMMA SequenceInvInit == Init => SequenceInv
  BY DEF Init, ThreadInit, SharedInit, RampInit, SequenceInv, StepOf, StopsAsked,
      DiscardsAsked, Balance, Spoiled, SettingUp, BetweenImages, InImage, EndsWell

-----------------------------------------------------------------------------
(* What the steps leave alone. *)

LEMMA CommandKeeps ==
  ASSUME CommandStep
  PROVE  /\ UNCHANGED <<asked, late, due, at, elapsed, onpics, images_done,
                        images_started, images_discarded>>
         /\ flags \subseteq flags'
         /\ SetNImagesStore \/ UNCHANGED <<npics, wanted>>
         /\ SetStatus \/ detstatus' = detstatus
<1>1. CASE StopExpBegin
  BY <1>1 DEF StopExpBegin, StopExp, Goto, shared, device, images
<1>2. CASE StopAllBegin
  BY <1>2 DEF StopAllBegin, StopExp, Goto, shared, device, images
<1>3. CASE StopExpFlag
  BY <1>3 DEF StopExpFlag, AfterStopExp, Goto, Raise, device, images, shared
<1>4. CASE TryStopNext
  BY <1>4 DEF TryStopNext, Goto, Raise, device, images, shared
<1>5. CASE StopSeq
  BY <1>5 DEF StopSeq, Goto, Raise, device, images, shared
<1>6. CASE StopCoadd
  BY <1>6 DEF StopCoadd, Goto, shared, device, images
<1>7. CASE StopHardCoadd
  BY <1>7 DEF StopHardCoadd, Goto, shared, images, device
<1>8. CASE StopCoaddFlags
  BY <1>8 DEF StopCoaddFlags, AfterStopCoadd, Goto, Raise, device, images, shared
<1>9. CASE StopSampleUpTheRamp
  BY <1>9 DEF StopSampleUpTheRamp, Goto, shared, device, images
<1>10. CASE StopHardSur
  BY <1>10 DEF StopHardSur, Goto, shared, images, device
<1>11. CASE StopSurFlags
  BY <1>11 DEF StopSurFlags, Goto, Raise, device, images, shared
<1>12. CASE AbortAllBegin
  BY <1>12 DEF AbortAllBegin, Goto, shared, device, images
<1>13. CASE AbortAllTest
  BY <1>13 DEF AbortAllTest, AfterAEX, Goto, shared, images, device
<1>14. CASE AbortAllAgain
  BY <1>14 DEF AbortAllAgain, AfterAEX, Goto, shared, images, device
<1>15. CASE AbortAllDiscard
  BY <1>15 DEF AbortAllDiscard, Goto, Raise, device, images, shared
<1>16. CASE AbortAllStop
  BY <1>16 DEF AbortAllStop, SequenceStopped, Goto, Raise, device, images, shared
<1>17. CASE AbortAllReadout
  BY <1>17 DEF AbortAllReadout, AfterAEX, Goto, shared, images, device
<1>18. CASE AbortAllRead
  BY <1>18 DEF AbortAllRead, AfterAbortRead, Goto, shared, images, device
<1>19. CASE AbortCoadd
  BY <1>19 DEF AbortCoadd, Goto, Raise, device, images, shared
<1>20. CASE AbortCoaddRead
  BY <1>20 DEF AbortCoaddRead, AfterAbortRead, Goto, shared, images, device
<1>21. CASE PauseExposure
  BY <1>21 DEF PauseExposure, Goto, shared, images, device
<1>22. CASE ResumeExposure
  BY <1>22 DEF ResumeExposure, Goto, shared, images, device
<1>23. CASE SetStatus
  BY <1>23 DEF SetStatus, Goto, device, images, shared
<1>24. CASE SetNImagesLoad
  BY <1>24 DEF SetNImagesLoad, Goto, shared, device, images
<1>25. CASE SetNImagesStore
  BY <1>25 DEF SetNImagesStore, Goto, device, images, shared
<1> QED
  BY <1>1, <1>2, <1>3, <1>4, <1>5, <1>6, <1>7, <1>8, <1>9, <1>10, <1>11, <1>12, <1>13,
      <1>14, <1>15, <1>16, <1>17, <1>18, <1>19, <1>20, <1>21, <1>22, <1>23, <1>24, <1>25
      DEF CommandStep

LEMMA ThreadKeeps ==
  ASSUME ThreadStep
  PROVE  UNCHANGED <<caller, images, path>>
<1>1. CASE LoopTest
  BY <1>1 DEF LoopTest, MoreImages, shared, caller, call, thread
<1>2. CASE RestoreExpTime
  BY <1>2 DEF RestoreExpTime, caller, shared, call, thread
<1>3. CASE StartFails
  BY <1>3 DEF StartFails, Return, ClearAll, KeptByClearAll, caller, shared, call, thread
<1>4. CASE ReadExpTimeEnter
  BY <1>4 DEF ReadExpTimeEnter, caller, shared, call, thread
<1>5. CASE WaitExpReset
  BY <1>5 DEF WaitExpReset, caller, shared, call, thread
<1>6. CASE PollExposure
  BY <1>6 DEF PollExposure, ClearAll, KeptByClearAll, caller, shared, call, thread
<1>7. CASE ExposureTimeout
  BY <1>7 DEF ExposureTimeout, caller, shared, call, thread
<1>8. CASE PollFails
  BY <1>8 DEF PollFails, caller, thread, shared, call
<1>9. CASE ExposureRead
  BY <1>9 DEF ExposureRead, shared, caller, call, thread
<1>10. CASE BeginFrame
  BY <1>10 DEF BeginFrame, caller, shared, call, thread
<1>11. CASE NoBuffer
  BY <1>11 DEF NoBuffer, shared, caller, call, thread
<1>12. CASE FrameFails
  BY <1>12 DEF FrameFails, shared, caller, call, thread
<1>13. CASE GetExposeStatus
  BY <1>13 DEF GetExposeStatus, ClearAll, KeptByClearAll, caller, shared, call, thread
<1> QED
  BY <1>1, <1>2, <1>3, <1>4, <1>5, <1>6, <1>7, <1>8, <1>9, <1>10, <1>11, <1>12, <1>13
      DEF ThreadStep

LEMMA OpticalKeeps ==
  ASSUME OpticalStep
  PROVE  path = "optical" /\ UNCHANGED <<caller, path>>
<1>1. CASE SetExpTime
  BY <1>1 DEF SetExpTime, Return, ClearAll, KeptByClearAll, caller, call
<1>2. CASE BeginImage
  BY <1>2 DEF BeginImage, Return, ClearAll, AbortRequested, AfterStopRequests,
      KeptByClearAll, caller, call
<1>3. CASE StartExposure
  BY <1>3 DEF StartExposure, caller, call
<1>4. CASE BeginReadout
  BY <1>4 DEF BeginReadout, caller, call
<1>5. CASE OpticalFrame
  BY <1>5 DEF OpticalFrame, FrameRead, caller, call
<1>6. CASE ImageRead
  BY <1>6 DEF ImageRead, ImageEnds, MoreFrames, caller, call
<1>7. CASE ReadoutError
  BY <1>7 DEF ReadoutError, Return, ClearAll, ImageEnds, KeptByClearAll, caller, call
<1>8. CASE Finish
  BY <1>8 DEF Finish, Return, AbortRequested, KeptByClearAll, caller, call
<1> QED
  BY <1>1, <1>2, <1>3, <1>4, <1>5, <1>6, <1>7, <1>8 DEF OpticalStep

LEMMA InfraredKeeps ==
  ASSUME InfraredStep
  PROVE  /\ path = "infrared" /\ UNCHANGED <<cmd, cstep, asked, wanted, path>>
         /\ late' = late \/ late' = (late \/ Deciding)
<1>1. CASE SetUp
  BY <1>1 DEF SetUp, SetUpExpTime, SetUpCoadds, SetUpSur, caller, call
<1>2. CASE SetUpFails
  BY <1>2 DEF SetUpFails, Return, ClearAll, KeptByClearAll, caller, call
<1>3. CASE BeginCoaddedImage
  BY <1>3 DEF BeginCoaddedImage, Return, ClearAll, AbortRequested, KeptByClearAll,
      caller, call
<1>4. CASE ForgetRequests
  BY <1>4 DEF ForgetRequests, AfterStopRequests, caller, call
<1>5. CASE StartRamp
  BY <1>5 DEF StartRamp, call
<1>6. CASE BeginCoadd
  BY <1>6 DEF BeginCoadd, shared, caller, call
<1>7. CASE PreFramesRead
  BY <1>7 DEF PreFramesRead, shared, caller, call
<1>8. CASE BeginSample
  BY <1>8 DEF BeginSample, shared, caller, call
<1>9. CASE TryStopSur
  BY <1>9 DEF TryStopSur, shared, caller, call
<1>10. CASE TryStopCoadd
  BY <1>10 DEF TryStopCoadd, shared, caller, call
<1>11. CASE StopAccepted
  BY <1>11 DEF StopAccepted, Accepted, caller, call
<1>12. CASE TryStopExp
  BY <1>12 DEF TryStopExp, Forgotten, caller, call
<1>13. CASE ExpStopped
  BY <1>13 DEF ExpStopped, Forgotten, caller, call
<1>14. CASE BeginRampReadout
  BY <1>14 DEF BeginRampReadout, Return, ClearAll, AbortRequested, KeptByClearAll,
      caller, call
<1>15. CASE SampleRead
  BY <1>15 DEF SampleRead, shared, caller, call
<1>16. CASE RampError
  BY <1>16 DEF RampError, AfterDiscard, Return, ClearAll, KeptByClearAll, caller, call
<1>17. CASE CoaddDone
  BY <1>17 DEF CoaddDone, caller, call
<1>18. CASE CoaddsDone
  BY <1>18 DEF CoaddsDone, shared, caller, call
<1>19. CASE ImageDone
  BY <1>19 DEF ImageDone, caller, call
<1>20. CASE FinishRamps
  BY <1>20 DEF FinishRamps, Return, ClearAll, AbortRequested, KeptByClearAll, caller,
      call
<1>21. CASE InfraredFrame
  BY <1>21 DEF InfraredFrame, FrameRead, PartFrame, PartEnds, call
<1> QED
  BY <1>1, <1>2, <1>3, <1>4, <1>5, <1>6, <1>7, <1>8, <1>9, <1>10, <1>11, <1>12, <1>13,
      <1>14, <1>15, <1>16, <1>17, <1>18, <1>19, <1>20, <1>21 DEF InfraredStep

-----------------------------------------------------------------------------
(* The images of a sequence. *)

\* A stop or an abort in progress counts as asked of the sequence.
LEMMA StopIsAsked ==
  ASSUME Cause, cmd \in Cuts
  PROVE  Cut
  BY DEF Cause, Cut, Cuts

\* A step that leaves the counters, the requests and what was asked as they are,
\* and stays between the images, in an image or after an unsuccessful end.
LEMMA QuietStep ==
  ASSUME SequenceInv,
         UNCHANGED <<npics, images_done, coadds_discarded, wanted, asked, cmd, cstep, path>>,
         \/ images_discarded' = images_discarded
         \/ path = "infrared"
         \/ pc' = "returned" /\ ret' # "OK",
         "stop_sequence" \in flags' \/ "try_stop_coadding" \in flags' \/ pc' = "coadd_stop" => Cut,
         \/ pc' = pc /\ ret' = ret
         \/ pc \in InImage /\ pc' \in InImage
         \/ pc \in BetweenImages /\ pc' \in BetweenImages \ {"body"}
         \/ pc' = "idle"
         \/ pc' = "returned" /\ ret' # "OK"
         \/ pc = "finish" /\ pc' = "returned"
  PROVE  SequenceInv'
<1> USE DEF SequenceInv
<1>1. StepOf'
  BY DEF StepOf
<1>2. StopsAsked'
  BY DEF StopsAsked, Cut
<1>3. DiscardsAsked'
  BY DEF DiscardsAsked, Aborted
<1>4. Balance'
  BY DEF Balance, Changed, Cut, Total, EndsWell, SettingUp, BetweenImages, InImage
<1>5. Spoiled'
  BY DEF Spoiled, Changed, EndsWell, SettingUp, BetweenImages, InImage
<1> QED
  BY <1>1, <1>2, <1>3, <1>4, <1>5

\* A step of the command thread that may not end the sequence raises no flag that
\* does.
LEMMA CommandFlags ==
  ASSUME Cause, StepOf, CommandStep, cmd \notin Cuts
  PROVE  /\ "stop_sequence" \in flags' => "stop_sequence" \in flags
         /\ "try_stop_coadding" \in flags' => "try_stop_coadding" \in flags
<1> USE DEF Cause, StepOf, Cuts
<1>1. CASE StopExpBegin
  BY <1>1 DEF StopExpBegin, StopExp, Goto, shared
<1>2. CASE StopAllBegin
  BY <1>2 DEF StopAllBegin, StopExp, Goto, shared
<1>3. CASE StopExpFlag
  BY <1>3 DEF StopExpFlag, AfterStopExp, Goto, Raise
<1>4. CASE TryStopNext
  BY <1>4 DEF TryStopNext, Goto, Raise
<1>5. CASE StopSeq
  BY <1>5 DEF StopSeq, Goto, Raise
<1>6. CASE StopCoadd
  BY <1>6 DEF StopCoadd, Goto, shared
<1>7. CASE StopHardCoadd
  BY <1>7 DEF StopHardCoadd, Goto, shared
<1>8. CASE StopCoaddFlags
  BY <1>8 DEF StopCoaddFlags, AfterStopCoadd, Goto, Raise
<1>9. CASE StopSampleUpTheRamp
  BY <1>9 DEF StopSampleUpTheRamp, Goto, shared
<1>10. CASE StopHardSur
  BY <1>10 DEF StopHardSur, Goto, shared
<1>11. CASE StopSurFlags
  BY <1>11 DEF StopSurFlags, Goto, Raise
<1>12. CASE AbortAllBegin
  BY <1>12 DEF AbortAllBegin, Goto, shared
<1>13. CASE AbortAllTest
  BY <1>13 DEF AbortAllTest, AfterAEX, Goto, shared
<1>14. CASE AbortAllAgain
  BY <1>14 DEF AbortAllAgain, AfterAEX, Goto, shared
<1>15. CASE AbortAllDiscard
  BY <1>15 DEF AbortAllDiscard, Goto, Raise
<1>16. CASE AbortAllStop
  BY <1>16 DEF AbortAllStop, SequenceStopped, Goto, Raise
<1>17. CASE AbortAllReadout
  BY <1>17 DEF AbortAllReadout, AfterAEX, Goto, shared
<1>18. CASE AbortAllRead
  BY <1>18 DEF AbortAllRead, AfterAbortRead, Goto, shared
<1>19. CASE AbortCoadd
  BY <1>19 DEF AbortCoadd, Goto, Raise
<1>20. CASE AbortCoaddRead
  BY <1>20 DEF AbortCoaddRead, AfterAbortRead, Goto, shared
<1>21. CASE PauseExposure
  BY <1>21 DEF PauseExposure, Goto, shared
<1>22. CASE ResumeExposure
  BY <1>22 DEF ResumeExposure, Goto, shared
<1>23. CASE SetStatus
  BY <1>23 DEF SetStatus, Goto
<1>24. CASE SetNImagesLoad
  BY <1>24 DEF SetNImagesLoad, Goto, shared
<1>25. CASE SetNImagesStore
  BY <1>25 DEF SetNImagesStore, Goto
<1> QED
  BY <1>1, <1>2, <1>3, <1>4, <1>5, <1>6, <1>7, <1>8, <1>9, <1>10, <1>11, <1>12, <1>13,
      <1>14, <1>15, <1>16, <1>17, <1>18, <1>19, <1>20, <1>21, <1>22, <1>23, <1>24, <1>25
      DEF CommandStep

LEMMA CommandSteps ==
  ASSUME Cause, StepOf, CommandStep
  PROVE  StepOf'
<1> USE DEF Cause, StepOf
<1>1. CASE StopExpBegin
  BY <1>1 DEF StopExpBegin, StopExp, Goto
<1>2. CASE StopAllBegin
  BY <1>2 DEF StopAllBegin, StopExp, Goto
<1>3. CASE StopExpFlag
  BY <1>3 DEF StopExpFlag, AfterStopExp, Goto
<1>4. CASE TryStopNext
  BY <1>4 DEF TryStopNext, Goto
<1>5. CASE StopSeq
  BY <1>5 DEF StopSeq, Goto
<1>6. CASE StopCoadd
  BY <1>6 DEF StopCoadd, Goto
<1>7. CASE StopHardCoadd
  BY <1>7 DEF StopHardCoadd, Goto
<1>8. CASE StopCoaddFlags
  BY <1>8 DEF StopCoaddFlags, AfterStopCoadd, Goto
<1>9. CASE StopSampleUpTheRamp
  BY <1>9 DEF StopSampleUpTheRamp, Goto
<1>10. CASE StopHardSur
  BY <1>10 DEF StopHardSur, Goto
<1>11. CASE StopSurFlags
  BY <1>11 DEF StopSurFlags, Goto
<1>12. CASE AbortAllBegin
  BY <1>12 DEF AbortAllBegin, Goto
<1>13. CASE AbortAllTest
  BY <1>13 DEF AbortAllTest, Goto
<1>14. CASE AbortAllAgain
  BY <1>14 DEF AbortAllAgain, Goto
<1>15. CASE AbortAllDiscard
  BY <1>15 DEF AbortAllDiscard, Goto
<1>16. CASE AbortAllStop
  BY <1>16 DEF AbortAllStop, SequenceStopped, Goto
<1>17. CASE AbortAllReadout
  BY <1>17 DEF AbortAllReadout, Goto
<1>18. CASE AbortAllRead
  BY <1>18 DEF AbortAllRead, Goto
<1>19. CASE AbortCoadd
  BY <1>19 DEF AbortCoadd, Goto
<1>20. CASE AbortCoaddRead
  BY <1>20 DEF AbortCoaddRead, Goto
<1>21. CASE PauseExposure
  BY <1>21 DEF PauseExposure, Goto
<1>22. CASE ResumeExposure
  BY <1>22 DEF ResumeExposure, Goto
<1>23. CASE SetStatus
  BY <1>23 DEF SetStatus, Goto
<1>24. CASE SetNImagesLoad
  BY <1>24 DEF SetNImagesLoad, Goto
<1>25. CASE SetNImagesStore
  BY <1>25 DEF SetNImagesStore, Goto
<1> QED
  BY <1>1, <1>2, <1>3, <1>4, <1>5, <1>6, <1>7, <1>8, <1>9, <1>10, <1>11, <1>12, <1>13,
      <1>14, <1>15, <1>16, <1>17, <1>18, <1>19, <1>20, <1>21, <1>22, <1>23, <1>24, <1>25
      DEF CommandStep

\* A step of the command thread.
LEMMA CommandSequence ==
  ASSUME TypeInv, Cause, SequenceInv, CommandStep, UNCHANGED <<thread, ramp>>
  PROVE  SequenceInv'
<1>0. UNCHANGED <<asked, pc, ret, path, coadds_discarded, images_done, images_discarded>>
  BY CommandKeeps DEF thread, results, call, ramp
<1>1. StepOf'
  BY CommandSteps DEF SequenceInv
<1>2. StopsAsked'
  <2>1. CASE cmd \in Cuts
    BY <2>1, <1>0, StopIsAsked DEF StopsAsked, Cut
  <2>2. CASE cmd \notin Cuts
    BY <2>2, <1>0, CommandFlags DEF SequenceInv, StopsAsked, Cut
  <2> QED
    BY <2>1, <2>2
<1>3. DiscardsAsked'
  BY <1>0 DEF SequenceInv, DiscardsAsked, Aborted
<1>4. Balance' /\ Spoiled'
  <2>1. CASE SetNImagesStore
    <3>1. Changed'
      BY <2>1, <1>0 DEF SetNImagesStore, SequenceInv, StepOf, Cause, Changed
    <3> QED
      BY <3>1 DEF Balance, Spoiled
  <2>2. CASE ~SetNImagesStore
    <3>1. UNCHANGED <<npics, wanted>>
      BY <2>2, CommandKeeps
    <3> QED
      BY <3>1, <1>0 DEF SequenceInv, Balance, Spoiled, Changed, Cut, Total, EndsWell
  <2> QED
    BY <2>1, <2>2
<1> QED
  BY <1>1, <1>2, <1>3, <1>4 DEF SequenceInv

\* A step the acquisition thread makes on both paths.
LEMMA ThreadSequence ==
  ASSUME TypeInv, AbortInv, SequenceInv, ThreadStep, UNCHANGED ramp
  PROVE  SequenceInv'
<1> USE DEF images, results, call, ramp
<1>0. UNCHANGED <<npics, images_done, images_discarded, coadds_discarded, wanted, asked,
                  cmd, cstep, path>>
  BY ThreadKeeps DEF caller
<1>1. CASE LoopTest
  <2>1. pc = "loop" /\ pc' = IF npics # 0 /\ "stop_sequence" \notin flags THEN "body" ELSE "finish"
    BY <1>1 DEF LoopTest, MoreImages
  <2>2. flags' = flags
    BY <1>1 DEF LoopTest, shared
  <2>3. Balance'
    BY <1>0, <2>1, <2>2 DEF SequenceInv, StopsAsked, Balance, Changed, Cut, Total, EndsWell,
        SettingUp, BetweenImages, InImage, TypeInv, TypeOK, ThreadTypeOK, SharedTypeOK,
        ImagesTypeOK, RampTypeOK
  <2>4. StepOf' /\ StopsAsked' /\ DiscardsAsked'
    BY <1>0, <2>1, <2>2 DEF SequenceInv, StepOf, StopsAsked, DiscardsAsked, Cut, Aborted
  <2>5. Spoiled'
    BY <1>0, <2>1 DEF SequenceInv, Spoiled, Changed, EndsWell, SettingUp, BetweenImages, InImage
  <2> QED
    BY <2>3, <2>4, <2>5 DEF SequenceInv
<1>2. CASE RestoreExpTime
  BY <1>2, <1>0, QuietStep DEF RestoreExpTime, SequenceInv, StopsAsked, InImage
<1>3. CASE StartFails
  BY <1>3, <1>0, QuietStep DEF StartFails, Return, ClearAll, KeptByClearAll,
      SequenceInv, StopsAsked, InImage
<1>4. CASE ReadExpTimeEnter
  BY <1>4, <1>0, QuietStep DEF ReadExpTimeEnter, SequenceInv, StopsAsked, InImage
<1>5. CASE WaitExpReset
  BY <1>5, <1>0, QuietStep DEF WaitExpReset, SequenceInv, StopsAsked, InImage
<1>6. CASE PollExposure
  BY <1>6, <1>0, QuietStep DEF PollExposure, ClearAll, KeptByClearAll, SequenceInv,
      StopsAsked, InImage
<1>7. CASE ExposureTimeout
  BY <1>7, <1>0, QuietStep DEF ExposureTimeout, SequenceInv, StopsAsked, InImage
<1>8. CASE PollFails
  BY <1>8, <1>0, QuietStep DEF PollFails, thread, SequenceInv, StopsAsked, InImage
<1>9. CASE ExposureRead
  BY <1>9, <1>0, QuietStep DEF ExposureRead, shared, SequenceInv, StopsAsked, InImage
<1>10. CASE BeginFrame
  BY <1>10, <1>0, QuietStep DEF BeginFrame, SequenceInv, StopsAsked, InImage
<1>11. CASE NoBuffer
  BY <1>11, <1>0, QuietStep DEF NoBuffer, shared, SequenceInv, StopsAsked, InImage
<1>12. CASE FrameFails
  BY <1>12, <1>0, QuietStep DEF FrameFails, shared, SequenceInv, StopsAsked, InImage
<1>13. CASE GetExposeStatus
  BY <1>13, <1>0, QuietStep DEF GetExposeStatus, ClearAll, KeptByClearAll, SequenceInv,
      StopsAsked, InImage
<1> QED
  BY <1>1, <1>2, <1>3, <1>4, <1>5, <1>6, <1>7, <1>8, <1>9, <1>10, <1>11, <1>12, <1>13 DEF
      ThreadStep

\* The next image begins: one image fewer is left.
LEMMA NextImage ==
  ASSUME TypeInv, SequenceInv, pc = "body",
         UNCHANGED <<images_done, images_discarded, coadds_discarded, wanted, asked, cmd,
                     cstep, path>>,
         npics' = IF ContRead THEN npics ELSE (npics - 1) % UMod,
         flags' \subseteq flags,
         pc' \in {"forget", "reexp", "start"} \/ (pc' = "returned" /\ ret' # "OK")
  PROVE  SequenceInv'
<1>1. StepOf' /\ StopsAsked' /\ DiscardsAsked'
  BY DEF SequenceInv, StepOf, StopsAsked, DiscardsAsked, Cut, Aborted
<1>2. Balance'
  <2>1. npics \in 0 .. UMod - 1 /\ UMod \in Nat \ {0, 1}
    BY ConstantsAssumption DEF ConstantsAssumption, TypeInv, TypeOK, ThreadTypeOK, SharedTypeOK,
        ImagesTypeOK
  <2>2. npics # 0 /\ ~ContRead => npics' = npics - 1
    BY <2>1
  <2> QED
    BY <2>1, <2>2 DEF SequenceInv, Balance, Changed, Cut, Total, EndsWell, SettingUp,
        BetweenImages, InImage, TypeInv, TypeOK, ThreadTypeOK, SharedTypeOK, ImagesTypeOK, RampTypeOK
<1>3. Spoiled'
  BY DEF SequenceInv, Spoiled, Changed, EndsWell, SettingUp, BetweenImages, InImage
<1> QED
  BY <1>1, <1>2, <1>3 DEF SequenceInv

\* An image that was in progress is counted, as done, even though its readout was
\* aborted, or as discarded.
LEMMA ImageCounted ==
  ASSUME TypeInv, SequenceInv, pc \in InImage, pc' = "loop",
         UNCHANGED <<npics, flags, wanted, asked, cmd, cstep, path>>,
         \/ /\ images_done' = Bump(images_done) /\ coadds_discarded' = coadds_discarded
            /\ images_discarded' \in {images_discarded, Bump(images_discarded)}
         \/ /\ coadds_discarded' = Bump(coadds_discarded) /\ images_done' = images_done
            /\ path = "infrared" /\ Aborted
  PROVE  SequenceInv'
<1>1. StepOf' /\ StopsAsked' /\ DiscardsAsked'
  BY DEF SequenceInv, StepOf, StopsAsked, DiscardsAsked, Cut, Aborted
<1>2. Balance' /\ Spoiled'
  <2>1. CASE Changed \/ ContRead
    BY <2>1 DEF SequenceInv, Balance, Spoiled, Changed, Cut, Total, EndsWell, SettingUp,
        BetweenImages, InImage
  <2>2. CASE ~Changed /\ ~ContRead
    <3>1. /\ images_done \in Nat /\ coadds_discarded \in Nat /\ npics \in Nat
          /\ images_discarded \in Nat
          /\ wanted \in 0 .. UMod - 1 /\ UMod \in Nat \ {0, 1}
      BY ConstantsAssumption DEF ConstantsAssumption, TypeInv, TypeOK, ThreadTypeOK, SharedTypeOK,
          ImagesTypeOK, RampTypeOK
    <3>2. Total + 1 + npics = wanted
      BY <2>2 DEF SequenceInv, Balance
    <3>3. images_done + 1 < UMod /\ coadds_discarded + 1 < UMod
      BY <3>1, <3>2 DEF Total
    <3>4. Bump(images_done) = images_done + 1 /\ Bump(coadds_discarded) = coadds_discarded + 1
      BY <3>1, <3>3 DEF Bump
    <3>5. Total' + npics' = wanted'
      BY <3>1, <3>2, <3>4 DEF Total
    <3>6. Balance'
      BY <3>5, <2>2 DEF Balance, Changed, EndsWell, SettingUp, BetweenImages, InImage
    <3>7. path = "optical" => images_discarded' <= images_done'
      <4> SUFFICES ASSUME path = "optical" PROVE images_discarded' <= images_done'
        OBVIOUS
      <4>1. images_discarded <= images_done
        BY <2>2 DEF SequenceInv, Spoiled
      <4>2. Bump(images_discarded) = images_discarded + 1
        BY <3>1, <3>3, <4>1 DEF Bump
      <4> QED
        BY <3>1, <3>4, <4>1, <4>2
    <3>8. Spoiled'
      BY <3>7 DEF Spoiled
    <3> QED
      BY <3>6, <3>8
  <2> QED
    BY <2>1, <2>2
<1> QED
  BY <1>1, <1>2 DEF SequenceInv

LEMMA FailedStep ==
  ASSUME TypeInv, Failed, [Next]_vars
  PROVE  Failed'
<1> USE DEF Failed, results, call
<1>1. CASE CommandThreadStep \/ ControllerStep \/ IssueAny \/ UNCHANGED vars
  <2>1. UNCHANGED thread
    BY <1>1 DEF CommandThreadStep, ControllerStep, IssueAny, vars
  <2> QED
    BY <2>1 DEF thread
<1>2. CASE Enter
  BY <1>2 DEF Enter, EnterOptical, EnterInfrared, EnterExpose
<1>3. CASE ThreadStep
  BY <1>3, ConstantsAssumption
  DEF ConstantsAssumption, ThreadStep, LoopTest, RestoreExpTime, StartFails, ReadExpTimeEnter,
      WaitExpReset, PollExposure, ExposureTimeout, PollFails, ExposureRead, BeginFrame, NoBuffer,
      FrameFails, GetExposeStatus, Return, thread
<1>4. CASE OpticalStep
  BY <1>4
  DEF OpticalStep, SetExpTime, BeginImage, AfterStopRequests, StartExposure, BeginReadout,
      OpticalFrame, FrameRead, ImageRead, ImageEnds, ReadoutError, Finish, Return
<1>5. CASE InfraredStep
  BY <1>5
  DEF InfraredStep, SetUp, SetUpExpTime, SetUpCoadds, SetUpSur, SetUpFails, BeginCoaddedImage,
      ForgetRequests, AfterStopRequests, StartRamp, BeginCoadd, PreFramesRead, BeginSample, TryStopSur,
      TryStopCoadd, StopAccepted, Accepted, TryStopExp, ExpStopped, BeginRampReadout, SampleRead,
      RampError, AfterDiscard, CoaddDone, CoaddsDone, ImageDone, FinishRamps, InfraredFrame,
      FrameRead, Return
<1> QED
  BY <1>1, <1>2, <1>3, <1>4, <1>5 DEF Next, AcquisitionStep

\* A step of expose_optical().
LEMMA OpticalSequence ==
  ASSUME TypeInv, AbortInv, Failed, SequenceInv, OpticalStep, UNCHANGED ramp
  PROVE  SequenceInv'
<1> USE DEF images, results, call, ramp
<1>0. UNCHANGED <<coadds_discarded, wanted, asked, cmd, cstep, path>>
  BY OpticalKeeps DEF caller
<1>1. CASE SetExpTime
  BY <1>0, <1>1, QuietStep DEF SetExpTime, Return, ClearAll, KeptByClearAll, SequenceInv,
      StopsAsked, SettingUp, BetweenImages
<1>2. CASE BeginImage
  BY <1>0, <1>2, NextImage DEF BeginImage, Return, ClearAll, AfterStopRequests, KeptByClearAll
<1>3. CASE StartExposure
  BY <1>0, <1>3, QuietStep DEF StartExposure, SequenceInv, StopsAsked, InImage
<1>4. CASE BeginReadout
  BY <1>0, <1>4, QuietStep DEF BeginReadout, SequenceInv, StopsAsked, InImage
<1>5. CASE OpticalFrame
  BY <1>0, <1>5, QuietStep DEF OpticalFrame, FrameRead, SequenceInv, StopsAsked, InImage
<1>6. CASE ImageRead
  BY <1>0, <1>6, ImageCounted DEF ImageRead, ImageEnds, InImage
<1>7. CASE ReadoutError
  <2>1. CASE errno = "ECONNABORTED"
    BY <1>0, <1>7, <2>1, ImageCounted DEF ReadoutError, ImageEnds, InImage
  <2>2. CASE errno # "ECONNABORTED"
    BY <1>0, <1>7, <2>2, QuietStep DEF Failed, ReadoutError, Return, ClearAll, KeptByClearAll
  <2> QED
    BY <2>1, <2>2
<1>8. CASE Finish
  BY <1>0, <1>8, QuietStep DEF Finish, Return, KeptByClearAll, SequenceInv, StopsAsked
<1> QED
  BY <1>1, <1>2, <1>3, <1>4, <1>5, <1>6, <1>7, <1>8 DEF OpticalStep

\* A step of the infrared path of expose().
LEMMA InfraredSequence ==
  ASSUME TypeInv, AbortInv, Failed, SequenceInv, InfraredStep
  PROVE  SequenceInv'
<1> USE DEF images, results, call, ramp
<1>0. UNCHANGED <<wanted, asked, cmd, cstep, path>> /\ path = "infrared"
  BY InfraredKeeps
<1>1. CASE SetUp
  BY <1>1, <1>0, QuietStep DEF SetUp, SetUpExpTime, SetUpCoadds, SetUpSur, SequenceInv,
      StopsAsked, InImage, SettingUp, BetweenImages
<1>2. CASE SetUpFails
  BY <1>2, <1>0, QuietStep DEF SetUpFails, Return, ClearAll, KeptByClearAll,
      SequenceInv, StopsAsked, InImage, SettingUp, BetweenImages
<1>3. CASE BeginCoaddedImage
  BY <1>3, <1>0, NextImage DEF BeginCoaddedImage, Return, ClearAll, KeptByClearAll
<1>4. CASE ForgetRequests
  BY <1>4, <1>0, QuietStep DEF ForgetRequests, AfterStopRequests, SequenceInv,
      StopsAsked, InImage, SettingUp, BetweenImages
<1>5. CASE StartRamp
  BY <1>5, <1>0, QuietStep DEF StartRamp, SequenceInv, StopsAsked, InImage, SettingUp,
      BetweenImages
<1>6. CASE BeginCoadd
  BY <1>6, <1>0, QuietStep DEF BeginCoadd, shared, SequenceInv, StopsAsked, InImage,
      SettingUp, BetweenImages
<1>7. CASE PreFramesRead
  BY <1>7, <1>0, QuietStep DEF PreFramesRead, shared, SequenceInv, StopsAsked, InImage,
      SettingUp, BetweenImages
<1>8. CASE BeginSample
  BY <1>8, <1>0, QuietStep DEF BeginSample, shared, SequenceInv, StopsAsked, InImage,
      SettingUp, BetweenImages
<1>9. CASE TryStopSur
  BY <1>9, <1>0, QuietStep DEF TryStopSur, shared, SequenceInv, StopsAsked, InImage,
      SettingUp, BetweenImages
<1>10. CASE TryStopCoadd
  BY <1>10, <1>0, QuietStep DEF TryStopCoadd, shared, SequenceInv, StopsAsked, InImage,
      SettingUp, BetweenImages
<1>11. CASE StopAccepted
  BY <1>11, <1>0, QuietStep DEF StopAccepted, Accepted, SequenceInv, StopsAsked,
      InImage, SettingUp, BetweenImages
<1>12. CASE TryStopExp
  BY <1>12, <1>0, QuietStep DEF TryStopExp, Forgotten, SequenceInv, StopsAsked, InImage,
      SettingUp, BetweenImages
<1>13. CASE ExpStopped
  BY <1>13, <1>0, QuietStep DEF ExpStopped, Forgotten, SequenceInv, StopsAsked, InImage,
      SettingUp, BetweenImages
<1>14. CASE BeginRampReadout
  BY <1>14, <1>0, QuietStep DEF BeginRampReadout, Return, ClearAll, KeptByClearAll,
      SequenceInv, StopsAsked, InImage, SettingUp, BetweenImages
<1>15. CASE SampleRead
  BY <1>15, <1>0, QuietStep DEF SampleRead, shared, SequenceInv, StopsAsked, InImage,
      SettingUp, BetweenImages
<1>16. CASE RampError
  <2>1. CASE "discard_coadd" \in flags
    BY <1>0, <1>16, <2>1, ImageCounted DEF RampError, AfterDiscard, InImage, AbortInv
  <2>2. CASE "discard_coadd" \notin flags /\ errno = "ECONNABORTED"
    BY <1>0, <1>16, <2>2, QuietStep DEF RampError, SequenceInv, StopsAsked, InImage
  <2>3. CASE "discard_coadd" \notin flags /\ errno # "ECONNABORTED"
    BY <1>0, <1>16, <2>3, QuietStep DEF RampError, Failed, Return, ClearAll, KeptByClearAll
  <2> QED
    BY <2>1, <2>2, <2>3
<1>17. CASE CoaddDone
  BY <1>17, <1>0, QuietStep DEF CoaddDone, SequenceInv, StopsAsked, InImage, SettingUp,
      BetweenImages
<1>18. CASE CoaddsDone
  BY <1>18, <1>0, QuietStep DEF CoaddsDone, shared, SequenceInv, StopsAsked, InImage,
      SettingUp, BetweenImages
<1>19. CASE ImageDone
  BY <1>19, <1>0, ImageCounted DEF ImageDone, InImage
<1>20. CASE FinishRamps
  BY <1>20, <1>0, QuietStep DEF FinishRamps, Return, ClearAll, KeptByClearAll,
      SequenceInv, StopsAsked, InImage, SettingUp, BetweenImages
<1>21. CASE InfraredFrame
  BY <1>21, <1>0, QuietStep DEF InfraredFrame, FrameRead, SequenceInv, StopsAsked,
      InImage, SettingUp, BetweenImages
<1> QED
  BY <1>1, <1>2, <1>3, <1>4, <1>5, <1>6, <1>7, <1>8, <1>9, <1>10, <1>11, <1>12, <1>13,
      <1>14, <1>15, <1>16, <1>17, <1>18, <1>19, <1>20, <1>21 DEF InfraredStep

\* A sequence begins with all its images left and no request but the one that is
\* being served.
LEMMA EnterSequence ==
  ASSUME TypeInv, SequenceInv, Enter
  PROVE  SequenceInv'
<1>1. /\ pc' = "setexp" /\ images_done' = 0 /\ images_discarded' = 0 /\ coadds_discarded' = 0
      /\ wanted' = npics' /\ npics' = IF NImages = 0 THEN 1 ELSE NImages
      /\ flags' = KeptByClearAll(flags)
      /\ UNCHANGED <<cmd, cstep>>
  BY DEF Enter, EnterOptical, EnterInfrared, EnterExpose
<1>2. NImages \in Nat /\ npics' \in Nat /\ npics' # 0
  BY <1>1, ConstantsAssumption DEF ConstantsAssumption
<1>3. Balance' /\ Spoiled'
  BY <1>1, <1>2 DEF Balance, Spoiled, Total, EndsWell, SettingUp, BetweenImages, InImage
<1>4. StepOf' /\ StopsAsked' /\ DiscardsAsked'
  BY <1>1 DEF SequenceInv, StepOf, StopsAsked, DiscardsAsked, KeptByClearAll
<1> QED
  BY <1>3, <1>4 DEF SequenceInv

Inv == TypeInv /\ AbortInv /\ Failed /\ SequenceInv

LEMMA InvInit == Init => Inv
  BY TypeInvInit, AbortInvInit, SequenceInvInit DEF Inv, Failed, Init, ThreadInit

LEMMA InvStep == Inv /\ [Next]_vars => Inv'
<1> SUFFICES ASSUME Inv, [Next]_vars PROVE Inv'
  OBVIOUS
<1> USE DEF Inv
<1>1. TypeInv' /\ AbortInv' /\ Failed'
  BY TypeInvStep, AbortInvStep, FailedStep
<1>2. SequenceInv'
  <2>1. CASE CommandThreadStep /\ UNCHANGED ramp
    BY <2>1, CommandSequence DEF CommandThreadStep, AbortInv
  <2>2. CASE AcquisitionStep
    BY <2>2, ThreadSequence, OpticalSequence, InfraredSequence DEF AcquisitionStep
  <2>3. CASE Enter
    BY <2>3, EnterSequence
  <2>4. CASE ControllerStep /\ UNCHANGED ramp
    BY <2>4, QuietStep DEF ControllerStep, Tick, SequenceInv, StopsAsked, shared, images, caller,
        thread, results, call, ramp
  <2>5. CASE IssueAny /\ UNCHANGED ramp
    <3>1. /\ UNCHANGED <<shared, wanted, pc, ret, path, coadds_discarded>>
          /\ asked \subseteq asked'
          /\ cstep' = "begin"
      BY <2>5 DEF IssueAny, Issue, thread, results, call, ramp
    <3>2. (Changed => Changed') /\ (Cut => Cut') /\ (Aborted => Aborted')
      BY <3>1 DEF Changed, Cut, Aborted
    <3> QED
      BY <3>1, <3>2 DEF SequenceInv, StepOf, StopsAsked, DiscardsAsked, Balance, Spoiled, Total,
          EndsWell, shared, images
  <2>6. CASE UNCHANGED vars
    BY <2>6, QuietStep DEF vars, SequenceInv, StopsAsked, shared, images, caller, thread, results,
        call, ramp
  <2> QED
    BY <2>1, <2>2, <2>3, <2>4, <2>5, <2>6 DEF Next
<1> QED
  BY <1>1, <1>2

-----------------------------------------------------------------------------
\* Whatever stops of an exposure or a ramp, pauses and discards come between its
\* steps, a sequence nobody cut or changed accounts for all its images, and of
\* optical images for those whose readout was aborted among those done.
THEOREM AccountedFor == Spec => []ImagesAccounted
<1>1. Inv => ImagesAccounted
  <2> SUFFICES ASSUME Inv, Returned, ret = "OK",
                      asked \subseteq {"abort_coadd", "stop_exp", "stop_sur", "pause", "resume"}
               PROVE  /\ images_done + coadds_discarded = wanted
                      /\ path = "optical" => images_discarded <= images_done
    BY DEF ImagesAccounted
  <2>1. ~Changed /\ ~Cut
    BY DEF Changed, Cut, Cuts
  <2>2. ~ContRead /\ Total = wanted
    BY <2>1 DEF Inv, SequenceInv, Balance, EndsWell, Returned
  <2> QED
    BY <2>1, <2>2 DEF Inv, SequenceInv, Spoiled, EndsWell, Returned, Total
<1> QED
  BY <1>1, InvInit, InvStep, PTL DEF Spec

\* And one of which no image was discarded has as many as were asked for.
THEOREM SequencesAreWhole == Spec => []SequenceLength
<1>1. Inv => SequenceLength
  <2> SUFFICES ASSUME Inv, Returned, ret = "OK",
                      asked \subseteq {"stop_exp", "stop_sur", "pause", "resume"}
               PROVE  images_done = wanted
    BY DEF SequenceLength
  <2>1. ~Changed /\ ~Cut /\ ~Aborted
    BY DEF Changed, Cut, Cuts, Aborted
  <2>2. Total = wanted /\ coadds_discarded = 0
    BY <2>1 DEF Inv, SequenceInv, Balance, DiscardsAsked, EndsWell, Returned
  <2> QED
    BY <2>2 DEF Total, Inv, TypeInv, TypeOK, ThreadTypeOK, SharedTypeOK, ImagesTypeOK
<1> QED
  BY <1>1, InvInit, InvStep, PTL DEF Spec

-----------------------------------------------------------------------------
(* The images started and the images done. *)

LEMMA StartedStep ==
  ASSUME TypeInv, Failed, Started, [Next]_vars
  PROVE  Started'
<1> USE DEF Started, InImage, images, results, call
<1>1. CASE CommandThreadStep \/ ControllerStep \/ IssueAny \/ UNCHANGED vars
  <2>1. UNCHANGED thread /\ UNCHANGED <<images_done, images_started>>
    BY <1>1, CommandKeeps DEF CommandThreadStep, ControllerStep, Tick, IssueAny, Issue, vars, shared
  <2> QED
    BY <2>1 DEF thread, Bump
<1>2. CASE Enter
  BY <1>2 DEF Enter, EnterOptical, EnterInfrared, EnterExpose
<1>3. CASE ThreadStep
  <2>1. UNCHANGED <<images_done, images_started, path>>
    BY <1>3, ThreadKeeps
  <2>2. Bump(images_done)' = Bump(images_done)
    BY <2>1 DEF Bump
  <2> QED
    BY <1>3, <2>1, <2>2
    DEF ThreadStep, LoopTest, RestoreExpTime, StartFails, ReadExpTimeEnter, WaitExpReset,
      PollExposure, ExposureTimeout, PollFails, ExposureRead, BeginFrame, NoBuffer, FrameFails,
      GetExposeStatus, Return, thread
<1>4. CASE OpticalStep
  <2>1. CASE SetExpTime \/ BeginImage \/ BeginReadout \/ OpticalFrame \/ Finish
    <3>1. UNCHANGED <<images_done, images_started, path>>
      BY <2>1 DEF SetExpTime, BeginImage, BeginReadout, OpticalFrame, FrameRead, Finish
    <3>2. Bump(images_done)' = Bump(images_done)
      BY <3>1 DEF Bump
    <3> QED
      BY <2>1, <3>1, <3>2 DEF SetExpTime, BeginImage, AfterStopRequests, BeginReadout,
          OpticalFrame, FrameRead, Finish, Return
  <2>2. CASE StartExposure
    BY <2>2 DEF StartExposure, Bump
  <2>3. CASE ImageRead
    BY <2>3 DEF ImageRead, ImageEnds
  <2>4. CASE ReadoutError
    BY <2>4 DEF ReadoutError, ImageEnds, Failed, Return
  <2> QED
    BY <1>4, <2>1, <2>2, <2>3, <2>4 DEF OpticalStep
<1>5. CASE InfraredStep
  BY <1>5, InfraredKeeps
<1> QED
  BY <1>1, <1>2, <1>3, <1>4, <1>5 DEF Next, AcquisitionStep

\* expose_optical() returns OK only with every image it started done or counted as
\* aborted, whatever fails and whatever is asked of it.
THEOREM ImagesAreWhole == Spec => []WholeImages
<1>1. Init => Started
  BY DEF Init, ThreadInit, SharedInit, Started, InImage
<1>2. Inv /\ Started /\ [Next]_vars => (Inv /\ Started)'
  BY InvStep, StartedStep DEF Inv
<1>3. Started => WholeImages
  BY DEF Started, WholeImages, Returned
<1> QED
  BY <1>1, <1>2, <1>3, InvInit, PTL DEF Spec

-----------------------------------------------------------------------------
(* Expose implements Sequence. *)

LEMMA PromiseInit == Init => Promise!Init
  BY DEF Init, ThreadInit, SharedInit, RampInit, Promise!Init, SequencePhase

LEMMA PhaseIs ==
  /\ pc = "idle" => SequencePhase = "none"
  /\ pc = "returned" => SequencePhase = "returned"
  /\ pc \notin {"idle", "returned"} => SequencePhase = "running"
  BY DEF SequencePhase

LEMMA NextPhaseIs ==
  /\ pc' = "idle" => SequencePhase' = "none"
  /\ pc' = "returned" => SequencePhase' = "returned"
  /\ pc' \notin {"idle", "returned"} => SequencePhase' = "running"
  BY DEF SequencePhase

\* What the caller counts, and what was asked.
counts == <<wanted, images_done, coadds_discarded, asked>>

\* A step that counts nothing and does not return is none of Sequence.
LEMMA Unseen ==
  ASSUME UNCHANGED <<counts, images_discarded, ret>>,
         \/ pc' = pc
         \/ pc \notin {"idle", "returned"} /\ pc' \notin {"idle", "returned"}
  PROVE  UNCHANGED Promise!vars
  BY PhaseIs, NextPhaseIs DEF counts, Promise!vars, SequencePhase

\* A return of expose(), which may count the readout that failed as spoiled.
LEMMA PromisedReturn ==
  ASSUME Inv, UNCHANGED counts, pc \notin {"idle", "returned"}, pc' = "returned",
         \/ images_discarded' = images_discarded
         \/ images_discarded' = Bump(images_discarded) /\ ret' # "OK",
         \/ ret' = "OK" /\ pc = "finish"
         \/ ret' = "ECONNABORTED" /\ Aborted
         \/ ret' \in {"EIO", "ETIME", "ENOBUFS"}
  PROVE  Promise!Return
<1>1. ret' = "OK" => Promise!Asked(Cuts \cup {"set_nimages"}) \/ Promise!Accounted = wanted
  BY DEF Inv, SequenceInv, Balance, EndsWell, Changed, Cut, Total, Promise!Asked, Promise!Accounted
<1>2. ret' = "ECONNABORTED" => Promise!Asked(Aborts)
  BY DEF Aborted, Aborts, Promise!Asked
<1>3. images_discarded' = images_discarded \/ (Promise!Spoil /\ ret' # "OK")
  BY DEF Promise!Spoil, Bump
<1> QED
  BY <1>1, <1>2, <1>3, PhaseIs, NextPhaseIs DEF counts, Promise!Return

LEMMA BumpType ==
  ASSUME NEW n \in Nat
  PROVE  Bump(n) \in 0 .. UMod - 1
<1> DEFINE m == n + 1
<1>1. m \in Int
  OBVIOUS
<1> HIDE DEF m
<1>2. m % UMod \in 0 .. UMod - 1
  BY <1>1, Modulo
<1> QED
  BY <1>2 DEF Bump, m

\* An image is counted.
LEMMA PromisedImage ==
  ASSUME Inv, UNCHANGED <<wanted, asked, ret>>, pc \in InImage, pc' = "loop",
         \/ /\ images_done' = Bump(images_done) /\ coadds_discarded' = coadds_discarded
            /\ images_discarded' \in {images_discarded, Bump(images_discarded)}
         \/ /\ coadds_discarded' = Bump(coadds_discarded) /\ images_done' = images_done
            /\ images_discarded' = Bump(images_discarded)
            /\ Aborted
  PROVE  Promise!Count
<1>1. SequencePhase = "running" /\ SequencePhase' = "running"
  BY PhaseIs, NextPhaseIs DEF InImage
<1>2. /\ images_done \in Nat /\ coadds_discarded \in Nat /\ npics \in Nat
      /\ wanted \in 0 .. UMod - 1 /\ UMod \in Nat \ {0, 1}
  BY ConstantsAssumption DEF ConstantsAssumption, Inv, TypeInv, TypeOK, ThreadTypeOK, SharedTypeOK,
      ImagesTypeOK, RampTypeOK
<1>3. images_discarded' = Bump(images_discarded) => Promise!Spoil
  BY DEF Promise!Spoil, Bump
<1>4. CASE Promise!Open
  <2>1. Bump(images_done) \in 0 .. UMod - 1 /\ Bump(coadds_discarded) \in 0 .. UMod - 1
    BY <1>2, BumpType
  <2> QED
    BY <1>1, <1>3, <1>4, <2>1
    DEF Promise!Count, Promise!ImageDone, Promise!ImageDiscarded, Promise!Asked, Aborts, Aborted
<1>5. CASE ~Promise!Open
  <2>1. ~Changed /\ ~ContRead
    BY <1>5 DEF Promise!Open, Promise!Asked, Changed
  <2>2. images_done + coadds_discarded + 1 + npics = wanted
    BY <2>1, <1>2 DEF Inv, SequenceInv, Balance, Total
  <2>3. images_done + 1 < UMod /\ coadds_discarded + 1 < UMod
        /\ images_done + coadds_discarded < wanted
    BY <1>2, <2>2
  <2>4. Bump(images_done) = images_done + 1 /\ Bump(coadds_discarded) = coadds_discarded + 1
    BY <1>2, <2>3 DEF Bump
  <2> QED
    BY <1>1, <1>3, <1>5, <2>3, <2>4
    DEF Promise!Count, Promise!ImageDone, Promise!ImageDiscarded, Promise!Accounted,
        Promise!Asked, Aborts, Aborted
<1> QED
  BY <1>4, <1>5

\* Results are what readNframes() or read_exp_time() left.
LEMMA FailureIs ==
  ASSUME Inv, pc = "err", errno # "ECONNABORTED"
  PROVE  (pix = "ECONNABORTED" /\ Aborted) \/ pix \in {"EIO", "ETIME", "ENOBUFS"}
  BY DEF Inv, AbortInv, Failed, TypeInv, TypeOK, ThreadTypeOK, Results

LEMMA PromiseCommand ==
  ASSUME Inv, CommandStep, UNCHANGED <<thread, ramp>>
  PROVE  [Promise!Next]_Promise!vars
<1>0. UNCHANGED <<asked, pc, ret, coadds_discarded, images_done, images_discarded>>
  BY CommandKeeps DEF thread, results, call, ramp
<1>1. CASE SetNImagesStore
  <2>1. Promise!Asked({"set_nimages"})
    BY <1>1 DEF SetNImagesStore, Inv, AbortInv, Cause, SequenceInv, StepOf, Promise!Asked
  <2>2. wanted' \in 0 .. UMod - 1
    BY <1>1, ConstantsAssumption DEF ConstantsAssumption, SetNImagesStore
  <2> QED
    BY <2>1, <2>2, <1>0 DEF Promise!Next, Promise!Change, SequencePhase
<1>2. CASE ~SetNImagesStore
  BY <1>0, <1>2, CommandKeeps, Unseen DEF counts
<1> QED
  BY <1>1, <1>2

LEMMA PromiseThread ==
  ASSUME Inv, ThreadStep, UNCHANGED ramp
  PROVE  [Promise!Next]_Promise!vars
<1>0. UNCHANGED <<counts, images_discarded>>
  BY ThreadKeeps DEF counts, images, caller, ramp
<1>1. CASE StartFails
  BY <1>0, <1>1, PromisedReturn DEF StartFails, Return, Promise!Next
<1>2. CASE GetExposeStatus
  BY <1>0, <1>2, PhaseIs, NextPhaseIs
  DEF GetExposeStatus, counts, results, Promise!Next, Promise!Close
<1>3. CASE ~StartFails /\ ~GetExposeStatus
  <2>1. /\ ret' = ret
        /\ pc \notin {"idle", "returned"} /\ pc' \notin {"idle", "returned"}
    BY <1>3 DEF ThreadStep, LoopTest, RestoreExpTime, ReadExpTimeEnter, WaitExpReset,
      PollExposure, ExposureTimeout, PollFails, ExposureRead, BeginFrame, NoBuffer, FrameFails,
      thread, results
  <2> QED
    BY <1>0, <2>1, Unseen
<1> QED
  BY <1>1, <1>2, <1>3

LEMMA PromiseOptical ==
  ASSUME Inv, OpticalStep, UNCHANGED ramp
  PROVE  [Promise!Next]_Promise!vars
<1> USE DEF counts, images, results, call, caller, ramp
<1>1. CASE SetExpTime
  BY <1>1, Unseen, PromisedReturn DEF SetExpTime, Return, Promise!Next
<1>2. CASE BeginImage
  BY <1>2, Unseen, PromisedReturn
  DEF BeginImage, AbortRequested, AfterStopRequests, Inv, AbortInv, Return, Promise!Next
<1>3. CASE StartExposure
  BY <1>3, Unseen DEF StartExposure
<1>4. CASE BeginReadout
  BY <1>4, Unseen DEF BeginReadout
<1>5. CASE OpticalFrame
  BY <1>5, Unseen DEF OpticalFrame, FrameRead
<1>6. CASE ImageRead
  BY <1>6, PromisedImage DEF ImageRead, ImageEnds, InImage, Promise!Next
<1>7. CASE ReadoutError
  <2>1. CASE errno = "ECONNABORTED"
    BY <1>7, <2>1, PromisedImage DEF ReadoutError, ImageEnds, InImage, Promise!Next
  <2>2. CASE errno # "ECONNABORTED"
    <3>1. /\ UNCHANGED counts /\ pc = "err" /\ pc' = "returned" /\ ret' = pix
          /\ images_discarded' = Bump(images_discarded)
      BY <1>7, <2>2 DEF ReadoutError, Return
    <3>2. ret' # "OK"
      BY <3>1 DEF Inv, Failed
    <3> QED
      BY <3>1, <3>2, <2>2, PromisedReturn, FailureIs DEF Promise!Next
  <2> QED
    BY <2>1, <2>2
<1>8. CASE Finish
  BY <1>8, PromisedReturn DEF Finish, AbortRequested, Inv, AbortInv, Return, Promise!Next
<1> QED
  BY <1>1, <1>2, <1>3, <1>4, <1>5, <1>6, <1>7, <1>8 DEF OpticalStep

\* A readout the controller aborted is taken again with the coadds that are left.
LEMMA PromisedAgain ==
  ASSUME UNCHANGED <<counts, ret>>, pc = "err", pc' = "start",
         images_discarded' = Bump(images_discarded)
  PROVE  Promise!Count
  BY PhaseIs, NextPhaseIs DEF counts, Promise!Count, Promise!TakenAgain, Promise!Spoil, Bump

LEMMA PromiseInfrared ==
  ASSUME Inv, InfraredStep
  PROVE  [Promise!Next]_Promise!vars
<1> USE DEF counts, images, results, call, caller, ramp, shared
<1>1. CASE SetUp
  BY <1>1, Unseen DEF SetUp, SetUpExpTime, SetUpCoadds, SetUpSur
<1>2. CASE SetUpFails
  BY <1>2, PromisedReturn DEF SetUpFails, Return, Promise!Next
<1>3. CASE BeginCoaddedImage
  BY <1>3, Unseen, PromisedReturn
  DEF BeginCoaddedImage, AbortRequested, Inv, AbortInv, Return, Promise!Next
<1>4. CASE ForgetRequests
  BY <1>4, Unseen DEF ForgetRequests, AfterStopRequests
<1>5. CASE StartRamp
  BY <1>5, Unseen DEF StartRamp
<1>6. CASE BeginCoadd
  BY <1>6, Unseen DEF BeginCoadd
<1>7. CASE PreFramesRead
  BY <1>7, Unseen DEF PreFramesRead
<1>8. CASE BeginSample
  BY <1>8, Unseen DEF BeginSample
<1>9. CASE TryStopSur
  BY <1>9, Unseen DEF TryStopSur
<1>10. CASE TryStopCoadd
  BY <1>10, Unseen DEF TryStopCoadd
<1>11. CASE StopAccepted
  BY <1>11, Unseen DEF StopAccepted, Accepted
<1>12. CASE TryStopExp
  BY <1>12, Unseen DEF TryStopExp
<1>13. CASE ExpStopped
  BY <1>13, Unseen DEF ExpStopped
<1>14. CASE BeginRampReadout
  BY <1>14, Unseen, PromisedReturn
  DEF BeginRampReadout, AbortRequested, Inv, AbortInv, Return, Promise!Next
<1>15. CASE SampleRead
  BY <1>15, Unseen DEF SampleRead
<1>16. CASE RampError
  <2>1. CASE "discard_coadd" \in flags
    BY <1>16, <2>1, PromisedImage DEF RampError, AfterDiscard, InImage, Inv, AbortInv, Promise!Next
  <2>2. CASE "discard_coadd" \notin flags /\ errno = "ECONNABORTED"
    BY <1>16, <2>2, PromisedAgain DEF RampError, Promise!Next
  <2>3. CASE "discard_coadd" \notin flags /\ errno # "ECONNABORTED"
    <3>1. /\ UNCHANGED counts /\ pc = "err" /\ pc' = "returned" /\ ret' = pix
          /\ images_discarded' = Bump(images_discarded)
      BY <1>16, <2>3 DEF RampError, Return
    <3>2. ret' # "OK"
      BY <3>1 DEF Inv, Failed
    <3> QED
      BY <3>1, <3>2, <2>3, PromisedReturn, FailureIs DEF Promise!Next
  <2> QED
    BY <2>1, <2>2, <2>3
<1>17. CASE CoaddDone
  BY <1>17, Unseen DEF CoaddDone
<1>18. CASE CoaddsDone
  BY <1>18, Unseen DEF CoaddsDone
<1>19. CASE ImageDone
  BY <1>19, PromisedImage DEF ImageDone, InImage, Promise!Next
<1>20. CASE FinishRamps
  BY <1>20, PromisedReturn DEF FinishRamps, AbortRequested, Inv, AbortInv, Return,
      Promise!Next
<1>21. CASE InfraredFrame
  BY <1>21, Unseen DEF InfraredFrame, FrameRead
<1> QED
  BY <1>1, <1>2, <1>3, <1>4, <1>5, <1>6, <1>7, <1>8, <1>9, <1>10, <1>11, <1>12, <1>13,
      <1>14, <1>15, <1>16, <1>17, <1>18, <1>19, <1>20, <1>21 DEF InfraredStep

LEMMA PromiseNext == Inv /\ [Next]_vars => [Promise!Next]_Promise!vars
<1> SUFFICES ASSUME Inv, [Next]_vars PROVE [Promise!Next]_Promise!vars
  OBVIOUS
<1>1. CASE CommandThreadStep /\ UNCHANGED ramp
  BY <1>1, PromiseCommand DEF CommandThreadStep
<1>2. CASE AcquisitionStep
  BY <1>2, PromiseThread, PromiseOptical, PromiseInfrared DEF AcquisitionStep
<1>3. CASE Enter
  <2>1. /\ pc = "idle" /\ pc' = "setexp" /\ images_done' = 0 /\ coadds_discarded' = 0
        /\ images_discarded' = 0
        /\ wanted' = (IF NImages = 0 THEN 1 ELSE NImages)
        /\ asked' = (IF cmd = "none" THEN {} ELSE {cmd})
        /\ ret' = ret
    BY <1>3 DEF Enter, EnterOptical, EnterInfrared, EnterExpose, results
  <2>2. wanted' \in 0 .. UMod - 1
    BY <2>1, ConstantsAssumption DEF ConstantsAssumption
  <2>3. asked' \in SUBSET AllCommands
    BY <2>1 DEF Inv, TypeInv, TypeOK, ThreadTypeOK, SharedTypeOK, CallTypeOK
  <2> QED
    BY <2>1, <2>2, <2>3, PhaseIs, NextPhaseIs DEF Promise!Next, Promise!Begin
<1>4. CASE IssueAny /\ UNCHANGED ramp
  <2>1. PICK c \in Commands : Issue(c)
    BY <1>4 DEF IssueAny
  <2>2. c \in AllCommands /\ asked' = asked \cup {c}
    BY <2>1, ConstantsAssumption DEF ConstantsAssumption, Issue
  <2>3. UNCHANGED <<pc, ret, wanted, images_done, images_discarded, coadds_discarded>>
    BY <1>4, <2>1 DEF IssueAny, Issue, shared, images, thread, results, ramp
  <2> QED
    BY <2>2, <2>3 DEF Promise!Next, Promise!Ask, SequencePhase
<1>5. CASE (ControllerStep /\ UNCHANGED ramp) \/ UNCHANGED vars
  BY <1>5, Unseen DEF ControllerStep, Tick, vars, counts, shared, images, caller, thread, results, ramp
<1> QED
  BY <1>1, <1>2, <1>3, <1>4, <1>5 DEF Next

\* Refinement: a call of expose(), with every interleaving of the requests, is a
\* sequence as its caller understands it.
THEOREM SequenceKept == Spec => ImplementsSequence
<1>1. Spec => []Inv
  BY InvInit, InvStep, PTL DEF Spec
<1> QED
  BY <1>1, PromiseInit, PromiseNext, PTL DEF Spec, ImplementsSequence, Promise!Spec

-----------------------------------------------------------------------------
(* The exposure time. *)

\* A shortened exposure time is known as such until it is set again.
TimeInv ==
    pc \notin {"idle", "returned", "setexp", "reexp", "exp_stop"} /\ exposure_time # ExpTime
        => "stop_exposure" \in flags \/ cstep = "exp_flag"

LEMMA TimeStep ==
  ASSUME DriverFails = FALSE, Inv, TimeInv, [Next]_vars
  PROVE  TimeInv'
<1> USE DEF TimeInv
<1>1. CASE CommandThreadStep
  <2>1. CommandStep /\ pc' = pc /\ flags \subseteq flags'
    BY <1>1, CommandKeeps DEF CommandThreadStep, thread
  <2>2. CASE StopExpFlag
    BY <2>1, <2>2 DEF StopExpFlag, Raise
  <2>3. CASE ~StopExpFlag
    <3>1. cstep # "exp_flag" /\ (cstep' = "exp_flag" \/ exposure_time' = exposure_time)
      BY <2>1, <2>3 DEF CommandStep, StopExpBegin, StopAllBegin, StopExp, StopExpFlag, TryStopNext,
          StopSeq, StopCoadd, StopHardCoadd, StopCoaddFlags, StopSampleUpTheRamp, StopHardSur,
          StopSurFlags, AbortAllBegin, AbortAllTest, AbortAllAgain, AbortAllDiscard, AbortAllStop,
          AbortAllReadout, AbortAllRead, AbortCoadd, AbortCoaddRead, PauseExposure,
          ResumeExposure, SetStatus, SetNImagesLoad, SetNImagesStore, Goto, Raise, shared
    <3> QED
      BY <2>1, <3>1
  <2> QED
    BY <2>2, <2>3
<1>2. CASE ControllerStep \/ IssueAny \/ UNCHANGED vars
  <2>1. UNCHANGED <<pc, exposure_time, flags>> /\ (cstep' = cstep \/ cmd = "none")
    BY <1>2 DEF ControllerStep, Tick, IssueAny, Issue, vars, shared, caller, thread
  <2>2. cstep' = cstep \/ cstep # "exp_flag"
    BY <2>1 DEF Inv, AbortInv, Cause
  <2> QED
    BY <2>1, <2>2
<1>3. CASE Enter
  BY <1>3 DEF Enter, EnterOptical, EnterInfrared, EnterExpose
<1>4. CASE ThreadStep
  BY <1>4
  DEF ThreadStep, LoopTest, RestoreExpTime, DriverOutcomes, StartFails, ReadExpTimeEnter, WaitExpReset,
      PollExposure, ExposureTimeout, PollFails, ExposureRead, BeginFrame, NoBuffer, FrameFails,
      GetExposeStatus, ClearAll, KeptByClearAll, Return, shared, caller, thread
<1>5. CASE OpticalStep
  BY <1>5
  DEF OpticalStep, SetExpTime, BeginImage, AfterStopRequests, StartExposure, BeginReadout,
      OpticalFrame, FrameRead, ImageRead, ImageEnds, ReadoutError, Finish, ClearAll,
      KeptByClearAll, Return, caller
<1>6. CASE InfraredStep
  <2>0. cstep' = cstep
    BY <1>6, InfraredKeeps
  <2>1. CASE SetUp
    BY <2>1, <2>0 DEF SetUp, SetUpExpTime, SetUpCoadds, SetUpSur
  <2>2. CASE SetUpFails
    BY <2>2, <2>0 DEF SetUpFails, Return, ClearAll, KeptByClearAll
  <2>3. CASE BeginCoaddedImage
    BY <2>3, <2>0 DEF BeginCoaddedImage, Return, ClearAll, KeptByClearAll
  <2>4. CASE ForgetRequests
    BY <2>4, <2>0 DEF ForgetRequests, AfterStopRequests
  <2>5. CASE StartRamp
    BY <2>5, <2>0 DEF StartRamp
  <2>6. CASE BeginCoadd
    BY <2>6, <2>0 DEF BeginCoadd, shared
  <2>7. CASE PreFramesRead
    BY <2>7, <2>0 DEF PreFramesRead, shared
  <2>8. CASE BeginSample
    BY <2>8, <2>0 DEF BeginSample, shared
  <2>9. CASE TryStopSur
    BY <2>9, <2>0 DEF TryStopSur, shared
  <2>10. CASE TryStopCoadd
    BY <2>10, <2>0 DEF TryStopCoadd, shared
  <2>11. CASE StopAccepted
    BY <2>11, <2>0 DEF StopAccepted, Accepted
  <2>12. CASE TryStopExp
    BY <2>12, <2>0 DEF TryStopExp, Forgotten
  <2>13. CASE ExpStopped
    BY <2>13, <2>0 DEF ExpStopped, Forgotten
  <2>14. CASE BeginRampReadout
    BY <2>14, <2>0 DEF BeginRampReadout, Return, ClearAll, KeptByClearAll
  <2>15. CASE SampleRead
    BY <2>15, <2>0 DEF SampleRead, shared
  <2>16. CASE RampError
    BY <2>16, <2>0 DEF RampError, AfterDiscard, Return, ClearAll, KeptByClearAll
  <2>17. CASE CoaddDone
    BY <2>17, <2>0 DEF CoaddDone
  <2>18. CASE CoaddsDone
    BY <2>18, <2>0 DEF CoaddsDone, shared
  <2>19. CASE ImageDone
    BY <2>19, <2>0 DEF ImageDone
  <2>20. CASE FinishRamps
    BY <2>20, <2>0 DEF FinishRamps, Return, ClearAll, KeptByClearAll
  <2>21. CASE InfraredFrame
    BY <2>21, <2>0 DEF InfraredFrame, FrameRead
  <2> QED
    BY <1>6, <2>1, <2>2, <2>3, <2>4, <2>5, <2>6, <2>7, <2>8, <2>9, <2>10, <2>11, <2>12, <2>13,
        <2>14, <2>15, <2>16, <2>17, <2>18, <2>19, <2>20, <2>21 DEF InfraredStep
<1> QED
  BY <1>1, <1>2, <1>3, <1>4, <1>5, <1>6 DEF Next, AcquisitionStep

\* While the driver works, a shortened exposure time is never forgotten: whenever an
\* image starts with one, the request that will set it again is raised, or the call
\* that raises it is still in progress.
THEOREM ExposureTimeIsRestored ==
  ASSUME DriverFails = FALSE
  PROVE  Spec => []ExposureTimeRestored
<1>1. Init => TimeInv
  BY DEF Init, ThreadInit, SharedInit, TimeInv
<1>2. Inv /\ TimeInv /\ [Next]_vars => (Inv /\ TimeInv)'
  BY InvStep, TimeStep
<1>3. TimeInv => ExposureTimeRestored
  BY DEF TimeInv, ExposureTimeRestored
<1> QED
  BY <1>1, <1>2, <1>3, InvInit, PTL DEF Spec

-----------------------------------------------------------------------------
(* The detector status. *)

NoPause == asked \cap {"pause", "resume"} = {}
NoAbort == asked \cap Aborts = {}

\* In expose(), only a discard, by itself or on the way to an abort, leaves a status
\* other than idle at the end of an image.
StatusInv ==
    /\ cstep = "status" => cmd \in {"pause", "resume"}
    /\ NoPause =>
        /\ pc = "idle" => detstatus = "IDLE"
        /\ path = "optical" /\ pc = "returned" => detstatus = "IDLE"
        /\ path = "infrared" /\ pc \in SettingUp => detstatus = "IDLE"
        /\ path = "infrared" /\ NoAbort /\ pc \in {"loop", "finish", "returned"}
              => detstatus = "IDLE"
        /\ path = "infrared" /\ pc = "returned" /\ ret # "OK" => detstatus = "IDLE"

LEMMA StatusCommand ==
  ASSUME Inv, StatusInv, CommandStep, UNCHANGED <<thread, ramp>>
  PROVE  StatusInv'
<1>1. UNCHANGED <<pc, path, ret, asked>>
  BY CommandKeeps DEF thread, results, call
<1>2. cstep' = "status" => cmd' \in {"pause", "resume"}
  BY DEF CommandStep, StopExpBegin, StopAllBegin, StopExp, StopExpFlag, AfterStopExp, TryStopNext,
      StopSeq, StopCoadd, StopHardCoadd, StopCoaddFlags, AfterStopCoadd, StopSampleUpTheRamp,
      StopHardSur, StopSurFlags, AbortAllBegin, AbortAllTest, AbortAllAgain, AbortAllDiscard,
      AbortAllStop, AbortAllReadout, AbortAllRead, AbortCoadd, AbortCoaddRead, PauseExposure,
      ResumeExposure, SetStatus, SetNImagesLoad, SetNImagesStore, Goto
<1>3. detstatus' = detstatus \/ ~NoPause
  <2>1. CASE SetStatus
    BY <2>1 DEF SetStatus, StatusInv, Inv, AbortInv, Cause, NoPause
  <2>2. CASE ~SetStatus
    BY <2>2, CommandKeeps
  <2> QED
    BY <2>1, <2>2
<1> QED
  BY <1>1, <1>2, <1>3 DEF StatusInv, NoPause, NoAbort

LEMMA StatusStep ==
  ASSUME Inv, StatusInv, [Next]_vars
  PROVE  StatusInv'
<1> USE DEF StatusInv, SettingUp
<1>1. CASE CommandThreadStep /\ UNCHANGED ramp
  BY <1>1, StatusCommand DEF CommandThreadStep
<1>2. CASE ControllerStep \/ UNCHANGED vars
  BY <1>2 DEF ControllerStep, Tick, vars, shared, caller, thread, results, call, NoPause, NoAbort
<1>3. CASE IssueAny
  <2>1. UNCHANGED <<pc, path, ret, detstatus>> /\ cstep' = "begin"
        /\ (NoPause' => NoPause) /\ (NoAbort' => NoAbort)
    BY <1>3 DEF IssueAny, Issue, shared, thread, results, call, NoPause, NoAbort
  <2> QED
    BY <2>1
<1>4. CASE Enter
  BY <1>4 DEF Enter, EnterOptical, EnterInfrared, EnterExpose
<1>5. CASE ThreadStep
  <2>1. UNCHANGED <<asked, cmd, cstep, path>>
    BY <1>5, ThreadKeeps DEF caller
  <2>2. (NoPause' <=> NoPause) /\ (NoAbort' <=> NoAbort)
    BY <2>1 DEF NoPause, NoAbort
  <2>3. CASE LoopTest
    BY <2>3, <2>1, <2>2 DEF LoopTest, MoreImages, shared, results
  <2>4. CASE RestoreExpTime
    BY <2>4, <2>1, <2>2 DEF RestoreExpTime, results
  <2>5. CASE StartFails
    BY <2>5, <2>1, <2>2 DEF StartFails, Return, ClearAll, results
  <2>6. CASE ReadExpTimeEnter
    BY <2>6, <2>1, <2>2 DEF ReadExpTimeEnter, results
  <2>7. CASE WaitExpReset
    BY <2>7, <2>1, <2>2 DEF WaitExpReset, results
  <2>8. CASE PollExposure
    BY <2>8, <2>1, <2>2 DEF PollExposure, ClearAll, results
  <2>9. CASE ExposureTimeout
    BY <2>9, <2>1, <2>2 DEF ExposureTimeout, results
  <2>10. CASE PollFails
    BY <2>10, <2>1, <2>2 DEF PollFails, thread, results
  <2>11. CASE ExposureRead
    BY <2>11, <2>1, <2>2 DEF ExposureRead, shared, results
  <2>12. CASE BeginFrame
    BY <2>12, <2>1, <2>2 DEF BeginFrame, results
  <2>13. CASE NoBuffer
    BY <2>13, <2>1, <2>2 DEF NoBuffer, shared, results
  <2>14. CASE FrameFails
    BY <2>14, <2>1, <2>2 DEF FrameFails, shared, results
  <2>15. CASE GetExposeStatus
    BY <2>15, <2>1, <2>2 DEF GetExposeStatus, ClearAll, results
  <2> QED
    BY <1>5, <2>3, <2>4, <2>5, <2>6, <2>7, <2>8, <2>9, <2>10, <2>11, <2>12, <2>13, <2>14,
        <2>15 DEF ThreadStep
<1>6. CASE OpticalStep
  <2>1. UNCHANGED <<asked, cmd, cstep, path>> /\ path = "optical"
    BY <1>6, OpticalKeeps DEF caller
  <2>2. NoPause' <=> NoPause
    BY <2>1 DEF NoPause
  <2>3. CASE SetExpTime
    BY <2>3, <2>1, <2>2 DEF SetExpTime, Return, ClearAll
  <2>4. CASE BeginImage
    BY <2>4, <2>1, <2>2 DEF BeginImage, Return, ClearAll, AfterStopRequests
  <2>5. CASE StartExposure
    BY <2>5, <2>1, <2>2 DEF StartExposure
  <2>6. CASE BeginReadout
    BY <2>6, <2>1, <2>2 DEF BeginReadout
  <2>7. CASE OpticalFrame
    BY <2>7, <2>1, <2>2 DEF OpticalFrame, FrameRead
  <2>8. CASE ImageRead
    BY <2>8, <2>1, <2>2 DEF ImageRead, ImageEnds, MoreFrames
  <2>9. CASE ReadoutError
    BY <2>9, <2>1, <2>2 DEF ReadoutError, Return, ClearAll, ImageEnds
  <2>10. CASE Finish
    BY <2>10, <2>1, <2>2 DEF Finish, Return
  <2> QED
    BY <1>6, <2>3, <2>4, <2>5, <2>6, <2>7, <2>8, <2>9, <2>10 DEF OpticalStep
<1>7. CASE InfraredStep
  <2>1. UNCHANGED <<asked, cmd, cstep, path>> /\ path = "infrared"
    BY <1>7, InfraredKeeps
  <2>2. (NoPause' <=> NoPause) /\ (NoAbort' <=> NoAbort)
    BY <2>1 DEF NoPause, NoAbort
  <2>3. "discard_coadd" \in flags => ~NoAbort
    BY DEF Inv, AbortInv, Aborted, NoAbort, Aborts
  <2>4. CASE SetUp
    BY <2>4, <2>1, <2>2, <2>3 DEF SetUp, SetUpExpTime, SetUpCoadds, SetUpSur
  <2>5. CASE SetUpFails
    BY <2>5, <2>1, <2>2, <2>3 DEF SetUpFails, Return, ClearAll
  <2>6. CASE BeginCoaddedImage
    BY <2>6, <2>1, <2>2, <2>3 DEF BeginCoaddedImage, Return, ClearAll
  <2>7. CASE ForgetRequests
    BY <2>7, <2>1, <2>2, <2>3 DEF ForgetRequests, AfterStopRequests
  <2>8. CASE StartRamp
    BY <2>8, <2>1, <2>2, <2>3 DEF StartRamp
  <2>9. CASE BeginCoadd
    BY <2>9, <2>1, <2>2, <2>3 DEF BeginCoadd, shared
  <2>10. CASE PreFramesRead
    BY <2>10, <2>1, <2>2, <2>3 DEF PreFramesRead, shared
  <2>11. CASE BeginSample
    BY <2>11, <2>1, <2>2, <2>3 DEF BeginSample, shared
  <2>12. CASE TryStopSur
    BY <2>12, <2>1, <2>2, <2>3 DEF TryStopSur, shared
  <2>13. CASE TryStopCoadd
    BY <2>13, <2>1, <2>2, <2>3 DEF TryStopCoadd, shared
  <2>14. CASE StopAccepted
    BY <2>14, <2>1, <2>2 DEF StopAccepted, Accepted
  <2>15. CASE TryStopExp
    BY <2>15, <2>1, <2>2, <2>3 DEF TryStopExp
  <2>16. CASE ExpStopped
    BY <2>16, <2>1, <2>2, <2>3 DEF ExpStopped
  <2>17. CASE BeginRampReadout
    BY <2>17, <2>1, <2>2, <2>3 DEF BeginRampReadout, Return, ClearAll
  <2>18. CASE SampleRead
    BY <2>18, <2>1, <2>2, <2>3 DEF SampleRead, shared
  <2>19. CASE RampError
    BY <2>19, <2>1, <2>2, <2>3 DEF RampError, AfterDiscard, Return, ClearAll
  <2>20. CASE CoaddDone
    BY <2>20, <2>1, <2>2, <2>3 DEF CoaddDone
  <2>21. CASE CoaddsDone
    BY <2>21, <2>1, <2>2, <2>3 DEF CoaddsDone, shared
  <2>22. CASE ImageDone
    BY <2>22, <2>1, <2>2, <2>3 DEF ImageDone
  <2>23. CASE FinishRamps
    BY <2>23, <2>1, <2>2, <2>3 DEF FinishRamps, Return, ClearAll
  <2>24. CASE InfraredFrame
    BY <2>24, <2>1, <2>2, <2>3 DEF InfraredFrame, FrameRead
  <2> QED
    BY <1>7, <2>4, <2>5, <2>6, <2>7, <2>8, <2>9, <2>10, <2>11, <2>12, <2>13, <2>14, <2>15,
        <2>16, <2>17, <2>18, <2>19, <2>20, <2>21, <2>22, <2>23, <2>24 DEF InfraredStep
<1> QED
  BY <1>1, <1>2, <1>3, <1>4, <1>5, <1>6, <1>7 DEF Next, AcquisitionStep

\* Whatever fails and whatever is asked for but a pause or a resume, the detector
\* status is idle once expose() has returned, except between an OK return of infrared
\* images one of which may have been discarded and get_expose_status().
THEOREM StatusIsCleared == Spec => []IdleAfterReturn
<1>1. Init => StatusInv
  BY DEF Init, ThreadInit, SharedInit, StatusInv, SettingUp
<1>2. Inv /\ StatusInv /\ [Next]_vars => (Inv /\ StatusInv)'
  BY InvStep, StatusStep
<1>3. Inv /\ StatusInv => IdleAfterReturn
  BY DEF Inv, TypeInv, TypeOK, ThreadTypeOK, StatusInv, IdleAfterReturn, Running, Returned, NoPause,
      NoAbort
<1> QED
  BY <1>1, <1>2, <1>3, InvInit, PTL DEF Spec

-----------------------------------------------------------------------------
(* The coadds of an image. *)

\* A coadd is left, in progress or done.
CoaddInv ==
    /\ errno # "ECONNABORTED"
    /\ path = "infrared" =>
        /\ pc \in InCoadd => coadds_done + ncoadds + 1 = NCoadds
        /\ pc = "forget" => ncoadds = NCoadds
        /\ pc \in {"reexp", "start", "coadd"} => coadds_done + ncoadds = NCoadds
        /\ pc = "image_done" /\ "stop_coadding" \notin flags => coadds_done = NCoadds
    /\ path = "optical" => pc \notin {"forget", "coadd", "sur", "image_done"}

LEMMA CoaddStep ==
  ASSUME "ECONNABORTED" \notin ReadErrors, Inv, CoaddInv, [Next]_vars
  PROVE  CoaddInv'
<1> USE DEF CoaddInv, InCoadd
<1>0. /\ ncoadds \in Nat /\ coadds_done \in Nat /\ NCoadds \in Nat
      /\ path \in {"optical", "infrared"}
  BY FramesAssumption DEF FramesAssumption, Inv, TypeInv, TypeOK, ThreadTypeOK, RampTypeOK
<1>1. CASE CommandThreadStep /\ UNCHANGED ramp
  <2>1. flags \subseteq flags' /\ UNCHANGED <<pc, path, errno, ramp>>
    BY <1>1, CommandKeeps DEF CommandThreadStep, thread, results, call
  <2> QED
    BY <2>1 DEF ramp
<1>2. CASE ((ControllerStep \/ IssueAny) /\ UNCHANGED ramp) \/ UNCHANGED vars
  BY <1>2 DEF ControllerStep, Tick, IssueAny, Issue, vars, shared, thread, results, call, ramp
<1>3. CASE Enter
  BY <1>3 DEF Enter, EnterOptical, EnterInfrared, EnterExpose, results
<1>4. CASE ThreadStep /\ UNCHANGED ramp
  <2> USE <1>0, <1>4 DEF results, call, ramp
  <2>1. CASE LoopTest
    BY <2>1 DEF LoopTest, MoreImages, shared
  <2>2. CASE RestoreExpTime
    BY <2>2 DEF RestoreExpTime
  <2>3. CASE StartFails
    BY <2>3 DEF StartFails, Return, ClearAll, KeptByClearAll
  <2>4. CASE ReadExpTimeEnter
    BY <2>4 DEF ReadExpTimeEnter
  <2>5. CASE WaitExpReset
    BY <2>5 DEF WaitExpReset
  <2>6. CASE PollExposure
    BY <2>6 DEF PollExposure, ClearAll, KeptByClearAll
  <2>7. CASE ExposureTimeout
    BY <2>7 DEF ExposureTimeout
  <2>8. CASE PollFails
    BY <2>8 DEF PollFails, thread
  <2>9. CASE ExposureRead
    BY <2>9 DEF ExposureRead, shared
  <2>10. CASE BeginFrame
    BY <2>10 DEF BeginFrame
  <2>11. CASE NoBuffer
    BY <2>11 DEF NoBuffer, shared
  <2>12. CASE FrameFails
    BY <2>12 DEF FrameFails, shared
  <2>13. CASE GetExposeStatus
    BY <2>13 DEF GetExposeStatus, ClearAll, KeptByClearAll
  <2> QED
    BY <1>4, <2>1, <2>2, <2>3, <2>4, <2>5, <2>6, <2>7, <2>8, <2>9, <2>10, <2>11, <2>12, <2>13
        DEF ThreadStep
<1>5. CASE OpticalStep /\ UNCHANGED ramp
  <2> USE <1>0, <1>5 DEF results, call, ramp
  <2>1. CASE SetExpTime
    BY <2>1 DEF SetExpTime, Return
  <2>2. CASE BeginImage
    BY <2>2 DEF BeginImage, Return, AfterStopRequests
  <2>3. CASE StartExposure
    BY <2>3 DEF StartExposure
  <2>4. CASE BeginReadout
    BY <2>4 DEF BeginReadout
  <2>5. CASE OpticalFrame
    BY <2>5 DEF OpticalFrame, FrameRead
  <2>6. CASE ImageRead
    BY <2>6 DEF ImageRead, ImageEnds
  <2>7. CASE ReadoutError
    BY <2>7 DEF ReadoutError, Return, ImageEnds
  <2>8. CASE Finish
    BY <2>8 DEF Finish, Return
  <2> QED
    BY <1>5, <2>1, <2>2, <2>3, <2>4, <2>5, <2>6, <2>7, <2>8 DEF OpticalStep
<1>6. CASE InfraredStep
  <2> USE <1>0 DEF results, call
  <2>1. CASE SetUp
    BY <2>1 DEF SetUp, SetUpExpTime, SetUpCoadds, SetUpSur, ramp
  <2>2. CASE SetUpFails
    BY <2>2 DEF SetUpFails, Return, ramp
  <2>3. CASE BeginCoaddedImage
    BY <2>3 DEF BeginCoaddedImage, Return, ramp
  <2>4. CASE ForgetRequests
    BY <2>4 DEF ForgetRequests, AfterStopRequests, ramp
  <2>5. CASE StartRamp
    BY <2>5 DEF StartRamp, ramp
  <2>6. CASE BeginCoadd
    BY <2>6 DEF BeginCoadd, shared, MoreCoadds
  <2>7. CASE PreFramesRead
    BY <2>7 DEF PreFramesRead, shared, ramp
  <2>8. CASE BeginSample
    BY <2>8 DEF BeginSample, shared, ramp
  <2>9. CASE TryStopSur
    BY <2>9 DEF TryStopSur, shared, ramp
  <2>10. CASE TryStopCoadd
    BY <2>10 DEF TryStopCoadd, shared, ramp
  <2>11. CASE StopAccepted
    BY <2>11 DEF StopAccepted, Accepted, ramp
  <2>12. CASE TryStopExp
    BY <2>12 DEF TryStopExp, ramp
  <2>13. CASE ExpStopped
    BY <2>13 DEF ExpStopped, ramp
  <2>14. CASE BeginRampReadout
    BY <2>14 DEF BeginRampReadout, Return, ramp
  <2>15. CASE SampleRead
    BY <2>15 DEF SampleRead, shared, ramp
  <2>16. CASE RampError
    BY <2>16 DEF RampError, AfterDiscard, Return, ramp
  <2>17. CASE CoaddDone
    BY <2>17 DEF CoaddDone
  <2>18. CASE CoaddsDone
    BY <2>18 DEF CoaddsDone, shared, MoreCoadds, ramp
  <2>19. CASE ImageDone
    BY <2>19 DEF ImageDone, ramp
  <2>20. CASE FinishRamps
    BY <2>20 DEF FinishRamps, Return, ramp
  <2>21. CASE InfraredFrame
    BY <2>21 DEF InfraredFrame, FrameRead, ramp
  <2> QED
    BY <1>6, <2>1, <2>2, <2>3, <2>4, <2>5, <2>6, <2>7, <2>8, <2>9, <2>10, <2>11, <2>12, <2>13,
        <2>14, <2>15, <2>16, <2>17, <2>18, <2>19, <2>20, <2>21 DEF InfraredStep
<1> QED
  BY <1>1, <1>2, <1>3, <1>4, <1>5, <1>6 DEF Next, AcquisitionStep

\* Where no readout is aborted by the controller, an infrared image that is counted
\* has all its coadds, whatever else is asked for or fails.
THEOREM ImagesHaveTheirCoadds ==
  ASSUME "ECONNABORTED" \notin ReadErrors
  PROVE  Spec => []CoaddsComplete
<1>1. Init => CoaddInv
  BY DEF Init, ThreadInit, SharedInit, CoaddInv, InCoadd
<1>2. Inv /\ CoaddInv /\ [Next]_vars => (Inv /\ CoaddInv)'
  BY InvStep, CoaddStep
<1>3. Inv /\ CoaddInv => CoaddsComplete
  BY DEF Inv, TypeInv, TypeOK, ThreadTypeOK, CoaddInv, CoaddsComplete
<1> QED
  BY <1>1, <1>2, <1>3, InvInit, PTL DEF Spec

-----------------------------------------------------------------------------
(* The controller after the last image. *)

\* Exposures are polled and their frames are read after them, nobody pauses, and no
\* readout is aborted by the controller.
Polled == Postex > 0
NoPausing == Commands \cap {"pause", "resume"} = {}
Unaborted == "ECONNABORTED" \notin ReadErrors

Working == ctl \in {"expo", "readout"}
Polling == {"rt_enter", "rt_wait", "rt_loop", "rt_done"}
Trying == {"try_sur", "sur_stop", "try_coadd", "coadd_stop", "try_exp", "exp_stop"}
Resting == SettingUp \cup {"loop", "body", "forget", "reexp", "start", "image_done", "finish"}
PartRead == pc = "frame" /\ left = 0

\* In expose_optical(), the frames the library has to read are those the controller
\* still delivers.
FramesTogether ==
    /\ pc \in Resting /\ images_started > 0 => ctl = "idle" \/ pc \in {"reexp", "start"}
    /\ pc = "returned" /\ ret = "OK" /\ images_started > 0 => ctl = "idle"
    /\ pc \in Polling => Working /\ due = NReads
    /\ pc \in {"frame", "reading"} /\ left > 0 => Working /\ due = left
    /\ PartRead => ctl = "idle"
    /\ pc \notin Trying \cup {"setcoadds", "setsur", "coadd", "sur", "image_done"}

\* In expose(), nothing was aborted and no part of the ramp ended under a stop that was
\* being carried out.
Timely == path = "infrared" /\ NoAbort /\ ~late

\* What the controller was told is what the flags say, but for the thread that has done
\* the one and not yet the other.
Told ==
    /\ pc = "setsur" => told.coadds = NCoadds
    /\ pc \notin SettingUp \cup {"idle", "returned", "err"} =>
        /\ told.sur = IF "stop_sur" \in flags \/ cstep = "sur_flag" \/ pc = "sur_stop"
                      THEN 0 ELSE NSur
        /\ told.coadds = IF \/ "stop_coadding" \in flags \/ pc = "coadd_stop"
                            \/ cstep \in {"coadd_seq", "coadd_flag"}
                         THEN 1 ELSE NCoadds

\* From the end of one part of the ramp until the library has begun the next exposure, no
\* command is stopping anything, and the status is not that of an exposure.
Settled ==
    /\ pc \in Resting \cup Trying \cup {"coadd", "sur", "rt_enter"} \/ PartRead => ~Deciding
    /\ pc \notin (Polling \ {"rt_enter"}) \cup {"err", "idle", "returned"} => detstatus # "EXPO"

\* A stop of the coadding is one of the sequence, too, so that no image begins with it.
StopsTogether ==
    /\ pc \in SettingUp => "stop_sur" \notin flags /\ "stop_coadding" \notin flags
    /\ pc \in {"body", "forget", "reexp", "start"} => "stop_coadding" \notin flags
    /\ pc \notin {"idle", "returned"} /\ ("stop_coadding" \in flags \/ cstep = "coadd_flag")
        => "stop_sequence" \in flags
    /\ pc \in {"forget", "reexp", "start"} => ncoadds = NCoadds

At(c, s) == at = [coadd |-> c, sample |-> s]
Coadd == NCoadds - ncoadds
Sample == NSur - nsur

\* The controller has gone on with the part that the library will go on with.
NextTogether ==
    \/ MoreSamples /\ Working /\ due = NPost /\ At(Coadd, Sample + 1)
    \/ ~MoreSamples /\ MoreCoadds /\ ctl = "readout" /\ due = NPre /\ At(Coadd + 1, 0)
    \/ ~MoreSamples /\ ~MoreCoadds /\ ctl = "idle"

\* The library and the controller are in the same part of the same coadd.
Together ==
    /\ pc \in Resting /\ images_started > 0 => ctl = "idle"
    /\ pc = "returned" /\ ret = "OK" /\ images_started > 0 => ctl = "idle"
    /\ pc = "coadd" /\ MoreCoadds => ctl = "readout" /\ due = NPre /\ At(Coadd + 1, 0)
    /\ pc = "coadd" /\ ~MoreCoadds => ctl = "idle"
    /\ pc = "sur" \/ PartRead => NextTogether
    /\ pc \in Trying \cup Polling => Working /\ due = NPost /\ At(Coadd, Sample)
    /\ pc \in {"frame", "reading"} /\ left > 0 /\ phase = "pre" =>
          ctl = "readout" /\ due = left /\ At(Coadd, 0) /\ nsur = NSur
    /\ pc \in {"frame", "reading"} /\ left > 0 /\ phase = "post" =>
          Working /\ due = left /\ At(Coadd, Sample)

OrphanInv ==
    /\ asked \subseteq Commands
    /\ path = "optical" /\ NoAbort => FramesTogether
    /\ Timely => Told /\ Settled /\ StopsTogether /\ Together

\* The types the steps below need.
LEMMA RampTypes ==
  ASSUME Inv
  PROVE  /\ ncoadds \in Nat /\ nsur \in Nat /\ left \in Nat /\ due \in Nat
         /\ phase \in {"pre", "post"} /\ images_started \in Nat
         /\ told \in [coadds : Nat, sur : Nat] /\ at \in [coadd : Nat, sample : Nat]
         /\ NCoadds \in Nat \ {0} /\ NSur \in Nat \ {0} /\ NPre \in Nat \ {0}
         /\ NPost \in Nat \ {0} /\ NReads \in Nat \ {0}
         /\ ncoadds <= NCoadds
  BY FramesAssumption, NReadsAssumption, ConstantsAssumption
  DEF FramesAssumption, NReadsAssumption, ConstantsAssumption, Inv, TypeInv, TypeOK,
      ThreadTypeOK, SharedTypeOK, DeviceTypeOK, ImagesTypeOK, RampTypeOK

LEMMA NoDiscardFlag ==
  ASSUME Inv, NoAbort
  PROVE  "discard_coadd" \notin flags /\ ~AbortRequested
  BY DEF Inv, AbortInv, Aborted, NoAbort, Aborts, AbortRequested

\* What a call of the command thread other than an abort, a pause or a resume does.
LEMMA CommandEffects ==
  ASSUME NoPausing, NoAbort, Inv, StatusInv, asked \subseteq Commands, CommandStep
  PROVE  /\ ctl' = ctl /\ detstatus' = detstatus
         /\ Deciding' => Deciding \/ detstatus = "EXPO"
         /\ "stop_sur" \in flags' => "stop_sur" \in flags \/ Deciding
         /\ "stop_coadding" \in flags' => "stop_coadding" \in flags \/ cstep = "coadd_flag"
         /\ cstep' = "coadd_flag" => "stop_sequence" \in flags'
<1>1. cmd \notin {"abort_all", "abort_coadd", "pause", "resume"}
  BY DEF Inv, AbortInv, Cause, NoAbort, Aborts, NoPausing
<1>2. /\ cstep \notin {"abort_test", "discard", "stop", "abort_again", "discard_again",
                       "stop_again", "abort_readout", "abort_read", "discard_read",
                       "stop_read", "coadd_read"}
      /\ cmd = "none" <=> cstep = "none"
  BY <1>1 DEF Inv, AbortInv, Cause
<1> USE DEF Deciding
<1>3. CASE StopExpBegin
  BY <1>3, <1>1, <1>2 DEF StopExpBegin, StopExp, Goto, shared, device
<1>4. CASE StopAllBegin
  BY <1>4, <1>1, <1>2 DEF StopAllBegin, StopExp, Goto, shared, device
<1>5. CASE StopExpFlag
  BY <1>5, <1>1, <1>2 DEF StopExpFlag, AfterStopExp, Goto, Raise, device
<1>6. CASE TryStopNext
  BY <1>6, <1>1, <1>2 DEF TryStopNext, Goto, Raise, device
<1>7. CASE StopSeq
  BY <1>7, <1>1, <1>2 DEF StopSeq, Goto, Raise, device
<1>8. CASE StopCoadd
  BY <1>8, <1>2 DEF StopCoadd, Goto, shared, Exposing, device
<1>9. CASE StopHardCoadd
  BY <1>9, <1>1, <1>2 DEF StopHardCoadd, Goto, shared, device
<1>10. CASE StopCoaddFlags
  BY <1>10, <1>1, <1>2 DEF StopCoaddFlags, AfterStopCoadd, Goto, Raise, device
<1>11. CASE StopSampleUpTheRamp
  BY <1>11, <1>2 DEF StopSampleUpTheRamp, Goto, shared, Exposing, device
<1>12. CASE StopHardSur
  BY <1>12, <1>1, <1>2 DEF StopHardSur, Goto, shared, device
<1>13. CASE StopSurFlags
  BY <1>13, <1>1, <1>2 DEF StopSurFlags, Goto, Raise, device
<1>14. CASE AbortAllBegin
  BY <1>14, <1>1, <1>2 DEF AbortAllBegin, Goto, shared, device
<1>15. CASE AbortAllTest
  BY <1>15, <1>1, <1>2 DEF AbortAllTest, AfterAEX, Goto, shared, device
<1>16. CASE AbortAllAgain
  BY <1>16, <1>1, <1>2 DEF AbortAllAgain, AfterAEX, Goto, shared, device
<1>17. CASE AbortAllDiscard
  BY <1>17, <1>2 DEF AbortAllDiscard, Goto, Raise
<1>18. CASE AbortAllStop
  BY <1>18, <1>1, <1>2 DEF AbortAllStop, SequenceStopped, Goto, Raise, AfterStopCoadd,
      device
<1>19. CASE AbortAllReadout
  BY <1>19, <1>1, <1>2 DEF AbortAllReadout, AfterAEX, Goto, shared, AfterStopCoadd,
      device
<1>20. CASE AbortAllRead
  BY <1>20, <1>1, <1>2 DEF AbortAllRead, AfterAbortRead, Goto, shared, AfterStopCoadd,
      device
<1>21. CASE AbortCoadd
  BY <1>21, <1>1, <1>2 DEF AbortCoadd, Goto, Raise, device
<1>22. CASE AbortCoaddRead
  BY <1>22, <1>1, <1>2 DEF AbortCoaddRead, AfterAbortRead, Goto, shared, AfterStopCoadd,
      device
<1>23. CASE PauseExposure
  BY <1>23, <1>1, <1>2 DEF PauseExposure, Goto, shared, device
<1>24. CASE ResumeExposure
  BY <1>24, <1>1, <1>2 DEF ResumeExposure, Goto, shared, device
<1>25. CASE SetStatus
  BY <1>25, <1>1 DEF SetStatus, StatusInv
<1>26. CASE SetNImagesLoad
  BY <1>26, <1>1, <1>2 DEF SetNImagesLoad, Goto, shared, device
<1>27. CASE SetNImagesStore
  BY <1>27, <1>1, <1>2 DEF SetNImagesStore, Goto, device
<1> QED
  BY <1>3, <1>4, <1>5, <1>6, <1>7, <1>8, <1>9, <1>10, <1>11, <1>12, <1>13, <1>14, <1>15,
      <1>16, <1>17, <1>18, <1>19, <1>20, <1>21, <1>22, <1>23, <1>24, <1>25, <1>26, <1>27
      DEF CommandStep

\* A stop tells the controller and raises the flag.
LEMMA CommandTold ==
  ASSUME Inv, Told, pc \notin SettingUp \/ ~Deciding, CommandStep, UNCHANGED thread
  PROVE  Told'
<1>0. told \in [coadds : Nat, sur : Nat] /\ pc' = pc
  BY RampTypes DEF thread
<1> USE DEF Told, SettingUp, Deciding
<1>1. CASE StopExpBegin
  BY <1>1, <1>0 DEF StopExpBegin, StopExp, Goto, shared, device
<1>2. CASE StopAllBegin
  BY <1>2, <1>0 DEF StopAllBegin, StopExp, Goto, shared, device
<1>3. CASE StopExpFlag
  BY <1>3, <1>0 DEF StopExpFlag, AfterStopExp, Goto, Raise, device
<1>4. CASE TryStopNext
  BY <1>4, <1>0 DEF TryStopNext, Goto, Raise, device
<1>5. CASE StopSeq
  BY <1>5, <1>0 DEF StopSeq, Goto, Raise, device
<1>6. CASE StopCoadd
  BY <1>6, <1>0 DEF StopCoadd, Goto, shared, device
<1>7. CASE StopHardCoadd
  BY <1>7, <1>0 DEF StopHardCoadd, Goto, shared, TellCoadds
<1>8. CASE StopCoaddFlags
  BY <1>8, <1>0 DEF StopCoaddFlags, AfterStopCoadd, Goto, Raise, device
<1>9. CASE StopSampleUpTheRamp
  BY <1>9, <1>0 DEF StopSampleUpTheRamp, Goto, shared, device
<1>10. CASE StopHardSur
  BY <1>10, <1>0 DEF StopHardSur, Goto, shared, TellSur
<1>11. CASE StopSurFlags
  BY <1>11, <1>0 DEF StopSurFlags, Goto, Raise, device
<1>12. CASE AbortAllBegin
  BY <1>12, <1>0 DEF AbortAllBegin, Goto, shared, device
<1>13. CASE AbortAllTest
  BY <1>13, <1>0 DEF AbortAllTest, AfterAEX, Goto, shared
<1>14. CASE AbortAllAgain
  BY <1>14, <1>0 DEF AbortAllAgain, AfterAEX, Goto, shared
<1>15. CASE AbortAllDiscard
  BY <1>15, <1>0 DEF AbortAllDiscard, Goto, Raise, device
<1>16. CASE AbortAllStop
  BY <1>16, <1>0 DEF AbortAllStop, SequenceStopped, Goto, Raise, device
<1>17. CASE AbortAllReadout
  BY <1>17, <1>0 DEF AbortAllReadout, AfterAEX, Goto, shared
<1>18. CASE AbortAllRead
  BY <1>18, <1>0 DEF AbortAllRead, AfterAbortRead, Goto, shared
<1>19. CASE AbortCoadd
  BY <1>19, <1>0 DEF AbortCoadd, Goto, Raise, device
<1>20. CASE AbortCoaddRead
  BY <1>20, <1>0 DEF AbortCoaddRead, AfterAbortRead, Goto, shared
<1>21. CASE PauseExposure
  BY <1>21, <1>0 DEF PauseExposure, Goto, shared
<1>22. CASE ResumeExposure
  BY <1>22, <1>0 DEF ResumeExposure, Goto, shared
<1>23. CASE SetStatus
  BY <1>23, <1>0 DEF SetStatus, Goto, device
<1>24. CASE SetNImagesLoad
  BY <1>24, <1>0 DEF SetNImagesLoad, Goto, shared, device
<1>25. CASE SetNImagesStore
  BY <1>25, <1>0 DEF SetNImagesStore, Goto, device
<1> QED
  BY <1>1, <1>2, <1>3, <1>4, <1>5, <1>6, <1>7, <1>8, <1>9, <1>10, <1>11, <1>12, <1>13,
      <1>14, <1>15, <1>16, <1>17, <1>18, <1>19, <1>20, <1>21, <1>22, <1>23, <1>24, <1>25
      DEF CommandStep

LEMMA OrphanCommand ==
  ASSUME NoPausing, Inv, StatusInv, OrphanInv, CommandStep, UNCHANGED <<thread, ramp>>
  PROVE  OrphanInv'
<1>1. /\ UNCHANGED <<asked, late, due, at, images_started, pc, left, ret, path, phase,
                     ncoadds, nsur>>
      /\ flags \subseteq flags'
  BY CommandKeeps DEF thread, results, call, ramp
<1>2. (NoAbort' <=> NoAbort) /\ (Timely' <=> Timely)
  BY <1>1 DEF NoAbort, Timely
<1>3. asked' \subseteq Commands
  BY <1>1 DEF OrphanInv
<1>4. path = "optical" /\ NoAbort => FramesTogether'
  BY <1>1, CommandEffects DEF OrphanInv, FramesTogether, Working, PartRead
<1>5. ASSUME Timely
      PROVE  Told' /\ Settled' /\ StopsTogether' /\ Together'
  <2>0. NoAbort /\ Told /\ Settled /\ StopsTogether /\ Together
    BY <1>5 DEF OrphanInv, Timely
  <2>1. /\ ctl' = ctl /\ detstatus' = detstatus
        /\ Deciding' => Deciding \/ detstatus = "EXPO"
        /\ "stop_sur" \in flags' => "stop_sur" \in flags \/ Deciding
        /\ "stop_coadding" \in flags' => "stop_coadding" \in flags \/ cstep = "coadd_flag"
        /\ cstep' = "coadd_flag" => "stop_sequence" \in flags'
    BY <2>0, CommandEffects DEF OrphanInv
  <2>2. Told'
    <3>1. pc \notin SettingUp \/ ~Deciding
      BY <2>0 DEF Settled, Resting
    <3> QED
      BY <2>0, <3>1, CommandTold
  <2>3. Settled'
    BY <1>1, <2>0, <2>1 DEF Settled, PartRead, Resting, SettingUp, Trying, Polling
  <2>4. StopsTogether'
    BY <1>1, <2>0, <2>1 DEF StopsTogether, Settled, Resting, SettingUp, Deciding
  <2>5. ~Deciding => (MoreSamples' <=> MoreSamples) /\ (MoreCoadds' <=> MoreCoadds)
    BY <1>1, <2>1 DEF MoreSamples, MoreCoadds, Deciding
  <2>6. Together'
    <3>1. pc \in {"coadd", "sur"} \/ PartRead => ~Deciding
      BY <2>0 DEF Settled
    <3> QED
      BY <1>1, <2>0, <2>1, <2>5, <3>1 DEF Together, NextTogether, Working, PartRead, At, Coadd,
          Sample
  <2> QED
    BY <2>2, <2>3, <2>4, <2>6
<1> QED
  BY <1>2, <1>3, <1>4, <1>5, <1>1 DEF OrphanInv

LEMMA OrphanOthers ==
  ASSUME NoPausing, Inv, OrphanInv,
         \/ (ControllerStep \/ IssueAny) /\ UNCHANGED ramp
         \/ Enter \/ UNCHANGED vars
  PROVE  OrphanInv'
<1>1. CASE Enter
  <2>1. /\ pc' = "setexp" /\ images_started' = 0 /\ flags' = KeptByClearAll(flags)
        /\ asked' = (IF cmd = "none" THEN {} ELSE {cmd}) /\ left' = 0
        /\ cstep' = cstep /\ late' = Deciding
        /\ (path' = "infrared" => detstatus' = "IDLE")
    BY <1>1 DEF Enter, EnterOptical, EnterInfrared, EnterExpose
  <2>2. asked' \subseteq Commands
    BY <2>1 DEF OrphanInv, Inv, AbortInv, Cause
  <2>3. FramesTogether' /\ Told' /\ Together'
    BY <2>1 DEF FramesTogether, Told, Together, PartRead, Resting, SettingUp, Trying, Polling
  <2>4. ~late' => ~Deciding'
    BY <2>1 DEF Deciding
  <2>5. Timely' => Settled' /\ StopsTogether'
    BY <2>1, <2>4 DEF Timely, Settled, StopsTogether, Deciding, PartRead, Resting, SettingUp,
        Trying, Polling, KeptByClearAll
  <2> QED
    BY <2>2, <2>3, <2>5 DEF OrphanInv
<1>2. CASE ((ControllerStep \/ IssueAny) /\ UNCHANGED ramp) \/ UNCHANGED vars
  <2>1. /\ UNCHANGED <<images_started, detstatus, flags, pc, left, ret, path, phase, ncoadds, nsur,
                       due, told, at, late>>
        /\ (NoAbort' => NoAbort) /\ asked' \subseteq asked \cup Commands
        /\ ctl' = ctl \/ (ctl = "expo" /\ Working')
        /\ cstep' = cstep \/ (cstep = "none" /\ cstep' = "begin")
    <3>1. CASE ControllerStep /\ UNCHANGED ramp
      BY <3>1 DEF ControllerStep, Tick, shared, images, caller, thread, results, call, ramp,
          NoAbort, Working
    <3>2. CASE IssueAny /\ UNCHANGED ramp
      BY <3>2 DEF IssueAny, Issue, shared, images, device, thread, results, call, ramp, NoAbort,
          Inv, AbortInv, Cause
    <3>3. CASE UNCHANGED vars
      BY <3>3 DEF vars, shared, images, device, caller, thread, results, call, ramp, NoAbort
    <3> QED
      BY <1>2, <3>1, <3>2, <3>3
  <2>2. /\ (Deciding' <=> Deciding) /\ (Timely' => Timely) /\ (Working => Working')
        /\ (MoreSamples' <=> MoreSamples) /\ (MoreCoadds' <=> MoreCoadds)
    BY <2>1 DEF Deciding, MoreSamples, MoreCoadds, Timely, Working
  <2>3. NoAbort /\ path = "optical" => FramesTogether'
    BY <2>1, <2>2 DEF OrphanInv, FramesTogether, PartRead
  <2>4. Timely => Told' /\ Settled' /\ StopsTogether'
    BY <2>1, <2>2 DEF OrphanInv, Told, Settled, StopsTogether, PartRead
  <2>5. Timely => Together'
    BY <2>1, <2>2 DEF OrphanInv, Together, NextTogether, PartRead, At, Coadd, Sample, Working
  <2> QED
    BY <2>1, <2>2, <2>3, <2>4, <2>5 DEF OrphanInv
<1> QED
  BY <1>1, <1>2

LEMMA OrphanThread ==
  ASSUME Inv, OrphanInv, ThreadStep, UNCHANGED ramp
  PROVE  OrphanInv'
<1>1. /\ UNCHANGED <<asked, late, cstep, path, images_started, phase, ncoadds, nsur>>
      /\ (NoAbort' <=> NoAbort) /\ (Timely' <=> Timely) /\ (Deciding' <=> Deciding)
  BY ThreadKeeps DEF images, caller, ramp, NoAbort, Timely, Deciding
<1>2. NoAbort => ~AbortRequested
  BY NoDiscardFlag
<1>3. asked' \subseteq Commands
  BY <1>1 DEF OrphanInv
<1>4. left \in Nat
  BY RampTypes
<1>5. NoAbort /\ path = "optical" => FramesTogether'
  <2> SUFFICES ASSUME NoAbort, path = "optical" PROVE FramesTogether'
    OBVIOUS
  <2> USE <1>1, <1>2, <1>4 DEF OrphanInv, FramesTogether, PartRead, Resting, SettingUp, Trying,
          Polling, Working
  <2>1. CASE LoopTest
    BY <2>1 DEF LoopTest, MoreImages, shared, results, device
  <2>2. CASE RestoreExpTime
    BY <2>2 DEF RestoreExpTime, results, device
  <2>3. CASE StartFails
    BY <2>3 DEF StartFails, Return, ClearAll, results, device
  <2>4. CASE ReadExpTimeEnter
    BY <2>4 DEF ReadExpTimeEnter, results, device
  <2>5. CASE WaitExpReset
    BY <2>5 DEF WaitExpReset, results, device
  <2>6. CASE PollExposure
    BY <2>6 DEF PollExposure, ClearAll, results, device
  <2>7. CASE ExposureTimeout
    BY <2>7 DEF ExposureTimeout, results, device
  <2>8. CASE PollFails
    BY <2>8 DEF PollFails, thread, results, device
  <2>9. CASE ExposureRead
    BY <2>9 DEF ExposureRead, shared, results, device
  <2>10. CASE BeginFrame
    BY <2>10 DEF BeginFrame, results, device
  <2>11. CASE NoBuffer
    BY <2>11 DEF NoBuffer, shared, results, device
  <2>12. CASE FrameFails
    BY <2>12 DEF FrameFails, shared, results, device
  <2>13. CASE GetExposeStatus
    BY <2>13 DEF GetExposeStatus, ClearAll, results, device
  <2> QED
    BY <2>1, <2>2, <2>3, <2>4, <2>5, <2>6, <2>7, <2>8, <2>9, <2>10, <2>11, <2>12, <2>13
        DEF ThreadStep
<1>6. ASSUME Timely PROVE Told' /\ Settled' /\ StopsTogether' /\ Together'
  <2>0. NoAbort /\ ~AbortRequested /\ Told /\ Settled /\ StopsTogether /\ Together
    BY <1>6, <1>2 DEF OrphanInv, Timely
  <2> USE <1>1, <2>0, <1>4 DEF Told, Settled, StopsTogether, PartRead, Resting, SettingUp, Trying,
          Polling, KeptByClearAll
  <2>1. CASE LoopTest
    <3>1. Told' /\ Settled' /\ StopsTogether'
      BY <2>1 DEF LoopTest, MoreImages, shared, results, device
    <3>2. Together'
      BY <2>1 DEF LoopTest, MoreImages, shared, results, device, Together, NextTogether,
          Working, At, Coadd, Sample, MoreSamples, MoreCoadds
    <3> QED
      BY <3>1, <3>2
  <2>2. CASE RestoreExpTime
    <3>1. Told' /\ Settled' /\ StopsTogether'
      BY <2>2 DEF RestoreExpTime, results, device
    <3>2. Together'
      BY <2>2 DEF RestoreExpTime, results, device, Together, NextTogether, Working, At,
          Coadd, Sample, MoreSamples, MoreCoadds
    <3> QED
      BY <3>1, <3>2
  <2>3. CASE StartFails
    <3>1. Told' /\ Settled' /\ StopsTogether'
      BY <2>3 DEF StartFails, Return, ClearAll, results, device
    <3>2. Together'
      BY <2>3 DEF StartFails, Return, ClearAll, results, device, Together, NextTogether,
          Working, At, Coadd, Sample, MoreSamples, MoreCoadds
    <3> QED
      BY <3>1, <3>2
  <2>4. CASE ReadExpTimeEnter
    <3>1. Told' /\ Settled' /\ StopsTogether'
      BY <2>4 DEF ReadExpTimeEnter, results, device
    <3>2. Together'
      BY <2>4 DEF ReadExpTimeEnter, results, device, Together, NextTogether, Working,
          At, Coadd, Sample, MoreSamples, MoreCoadds
    <3> QED
      BY <3>1, <3>2
  <2>5. CASE WaitExpReset
    <3>1. Told' /\ Settled' /\ StopsTogether'
      BY <2>5 DEF WaitExpReset, results, device
    <3>2. Together'
      BY <2>5 DEF WaitExpReset, results, device, Together, NextTogether, Working, At,
          Coadd, Sample, MoreSamples, MoreCoadds
    <3> QED
      BY <3>1, <3>2
  <2>6. CASE PollExposure
    <3>1. Told' /\ Settled' /\ StopsTogether'
      BY <2>6 DEF PollExposure, ClearAll, results, device
    <3>2. Together'
      BY <2>6 DEF PollExposure, ClearAll, results, device, Together, NextTogether,
          Working, At, Coadd, Sample, MoreSamples, MoreCoadds
    <3> QED
      BY <3>1, <3>2
  <2>7. CASE ExposureTimeout
    <3>1. Told' /\ Settled' /\ StopsTogether'
      BY <2>7 DEF ExposureTimeout, results, device
    <3>2. Together'
      BY <2>7 DEF ExposureTimeout, results, device, Together, NextTogether, Working, At,
          Coadd, Sample, MoreSamples, MoreCoadds
    <3> QED
      BY <3>1, <3>2
  <2>8. CASE PollFails
    <3>1. Told' /\ Settled' /\ StopsTogether'
      BY <2>8 DEF PollFails, thread, results, device
    <3>2. Together'
      BY <2>8 DEF PollFails, thread, results, device, Together, NextTogether, Working,
          At, Coadd, Sample, MoreSamples, MoreCoadds
    <3> QED
      BY <3>1, <3>2
  <2>9. CASE ExposureRead
    <3>1. Told' /\ Settled' /\ StopsTogether'
      BY <2>9 DEF ExposureRead, shared, results, device
    <3>2. Together'
      BY <2>9 DEF ExposureRead, shared, results, device, Together, NextTogether,
          Working, At, Coadd, Sample, MoreSamples, MoreCoadds
    <3> QED
      BY <3>1, <3>2
  <2>10. CASE BeginFrame
    <3>1. Told' /\ Settled' /\ StopsTogether'
      BY <2>10 DEF BeginFrame, results, device
    <3>2. Together'
      BY <2>10 DEF BeginFrame, results, device, Together, NextTogether, Working, At,
          Coadd, Sample, MoreSamples, MoreCoadds
    <3> QED
      BY <3>1, <3>2
  <2>11. CASE NoBuffer
    <3>1. Told' /\ Settled' /\ StopsTogether'
      BY <2>11 DEF NoBuffer, shared, results, device
    <3>2. Together'
      BY <2>11 DEF NoBuffer, shared, results, device, Together, NextTogether, Working,
          At, Coadd, Sample, MoreSamples, MoreCoadds
    <3> QED
      BY <3>1, <3>2
  <2>12. CASE FrameFails
    <3>1. Told' /\ Settled' /\ StopsTogether'
      BY <2>12 DEF FrameFails, shared, results, device
    <3>2. Together'
      BY <2>12 DEF FrameFails, shared, results, device, Together, NextTogether, Working,
          At, Coadd, Sample, MoreSamples, MoreCoadds
    <3> QED
      BY <3>1, <3>2
  <2>13. CASE GetExposeStatus
    <3>1. Told' /\ Settled' /\ StopsTogether'
      BY <2>13 DEF GetExposeStatus, ClearAll, results, device
    <3>2. Together'
      BY <2>13 DEF GetExposeStatus, ClearAll, results, device, Together, NextTogether,
          Working, At, Coadd, Sample, MoreSamples, MoreCoadds
    <3> QED
      BY <3>1, <3>2
  <2> QED
    BY <2>1, <2>2, <2>3, <2>4, <2>5, <2>6, <2>7, <2>8, <2>9, <2>10, <2>11, <2>12, <2>13
    DEF ThreadStep
<1> QED
  BY <1>1, <1>3, <1>5, <1>6 DEF OrphanInv

LEMMA OrphanOptical ==
  ASSUME Inv, CoaddInv, OrphanInv, OpticalStep, UNCHANGED ramp
  PROVE  OrphanInv'
<1>1. /\ UNCHANGED <<asked, path>> /\ (NoAbort' <=> NoAbort) /\ path = "optical" /\ ~Timely'
  BY OpticalKeeps DEF caller, NoAbort, Timely
<1>2. asked' \subseteq Commands
  BY <1>1 DEF OrphanInv
<1>3. NoAbort => FramesTogether'
  <2> SUFFICES ASSUME NoAbort PROVE FramesTogether'
    OBVIOUS
  <2>0. ~AbortRequested /\ left \in Nat /\ due \in Nat /\ NReads \in Nat \ {0} /\ FramesTogether
    BY <1>1, NoDiscardFlag, RampTypes DEF OrphanInv
  <2>00. /\ errno # "ECONNABORTED" /\ (pc = "err" => pix # "OK")
         /\ (pc = "reading" => left > 0)
    BY DEF CoaddInv, Inv, Failed, TypeInv, Counts
  <2> USE <1>1, <2>0, <2>00 DEF FramesTogether, PartRead, Resting, SettingUp, Trying,
          Polling, Working
  <2>1. CASE SetExpTime
    BY <2>1 DEF SetExpTime, Return, images, device, results
  <2>2. CASE BeginImage
    BY <2>2 DEF BeginImage, Return, AfterStopRequests, images, device, results
  <2>3. CASE StartExposure
    BY <2>3 DEF StartExposure, images, device, results
  <2>4. CASE BeginReadout
    BY <2>4 DEF BeginReadout, images, device, results
  <2>5. CASE OpticalFrame
    BY <2>5 DEF OpticalFrame, FrameRead, images, device, results
  <2>6. CASE ImageRead
    BY <2>6 DEF ImageRead, ImageEnds, MoreFrames, images, device, results
  <2>7. CASE ReadoutError
    BY <2>7 DEF ReadoutError, Return, ImageEnds, images, device, results
  <2>8. CASE Finish
    BY <2>8 DEF Finish, Return, images, device, results
  <2> QED
    BY <2>1, <2>2, <2>3, <2>4, <2>5, <2>6, <2>7, <2>8 DEF OpticalStep
<1> QED
  BY <1>1, <1>2, <1>3 DEF OrphanInv

\* The end of a part of the ramp: the controller goes on with what the library goes on
\* with, because no command is between telling the one and the other.
LEMMA PartEndsTogether ==
  ASSUME Inv, CoaddInv, path = "infrared", pc = "reading", ~Deciding, Told, PartEnds,
         ctl = "readout", At(Coadd, Sample), UNCHANGED <<flags, told, ramp>>
  PROVE  NextTogether'
<1>1. /\ ncoadds \in Nat /\ nsur \in Nat /\ NCoadds \in Nat /\ NSur \in Nat
      /\ told.sur = IF "stop_sur" \in flags THEN 0 ELSE NSur
      /\ told.coadds = IF "stop_coadding" \in flags THEN 1 ELSE NCoadds
  BY RampTypes DEF Told, SettingUp, Deciding
<1>2. at.coadd = Coadd /\ at.sample = Sample
  BY DEF At
<1>3. Coadd \in Nat \ {0} /\ Sample \in Int
  <2>1. coadds_done + ncoadds + 1 = NCoadds /\ coadds_done \in Nat
    BY DEF CoaddInv, InCoadd, Inv, TypeInv, TypeOK, RampTypeOK
  <2> QED
    BY <1>1, <2>1 DEF Coadd, Sample
<1>4. (MoreSamples <=> Sample < told.sur) /\ (MoreCoadds <=> Coadd < told.coadds)
  BY <1>1, <1>3, RampTypes DEF MoreSamples, MoreCoadds, Coadd, Sample, Inv, TypeInv, TypeOK, RampTypeOK
<1>5. /\ UNCHANGED <<ncoadds, nsur>>
      /\ (MoreSamples' <=> MoreSamples) /\ (MoreCoadds' <=> MoreCoadds)
  BY DEF ramp, MoreSamples, MoreCoadds
<1>6. CASE NextExposure
  <2>1. at' = [coadd |-> Coadd, sample |-> Sample + 1]
    BY <1>6, RampTypes DEF NextExposure, At
  <2> QED
    BY <1>2, <1>4, <1>5, <1>6, <2>1 DEF NextExposure, NextTogether, Working, At, Coadd, Sample
<1>7. CASE NextCoadd
  BY <1>1, <1>2, <1>3, <1>4, <1>5, <1>7 DEF NextCoadd, NextTogether, At, Coadd, Sample
<1>8. CASE RampEnds
  BY <1>1, <1>2, <1>3, <1>4, <1>5, <1>8 DEF RampEnds, NextTogether
<1> QED
  BY <1>6, <1>7, <1>8 DEF PartEnds

LEMMA OrphanInfrared ==
  ASSUME Polled, Inv, CoaddInv, OrphanInv, InfraredStep
  PROVE  OrphanInv'
<1>0. ~late' => ~late
  BY InfraredKeeps
<1>1. /\ UNCHANGED <<asked, cstep, path>> /\ (NoAbort' <=> NoAbort) /\ path = "infrared"
      /\ (Timely' => Timely) /\ (Deciding' <=> Deciding)
  BY <1>0, InfraredKeeps DEF NoAbort, Timely, Deciding
<1>2. asked' \subseteq Commands
  BY <1>1 DEF OrphanInv
<1>3. ASSUME Timely' PROVE Told' /\ Settled' /\ StopsTogether' /\ Together'
  <2>0. NoAbort /\ ~AbortRequested /\ Told /\ Settled /\ StopsTogether /\ Together
        /\ "discard_coadd" \notin flags
    BY <1>1, <1>3, NoDiscardFlag DEF OrphanInv, Timely
  <2>00. /\ errno # "ECONNABORTED" /\ (pc = "err" => pix # "OK")
         /\ (pc = "reading" => left > 0)
         /\ Prevex = NPre /\ Postex = NPost
    BY FramesAssumption DEF CoaddInv, Inv, Failed, TypeInv, Counts, Polled, Prevex, Postex, FramesAssumption
  <2> USE <1>1, <2>0, <2>00, RampTypes DEF Told, Settled, StopsTogether, PartRead, Resting, SettingUp,
          Trying, Polling, KeptByClearAll
  <2>1. CASE SetUp
    <3>1. Told' /\ Settled' /\ StopsTogether'
      BY <2>1 DEF SetUp, SetUpExpTime, SetUpCoadds, SetUpSur, Deciding, TellCoadds,
          TellSur, images, device, results, ramp
    <3>2. Together'
      BY <2>1 DEF SetUp, SetUpExpTime, SetUpCoadds, SetUpSur, Deciding, TellCoadds,
          TellSur, images, device, results, ramp, Together, NextTogether, Working, At,
          Coadd, Sample, MoreSamples, MoreCoadds
    <3> QED
      BY <3>1, <3>2
  <2>2. CASE SetUpFails
    <3>1. Told' /\ Settled' /\ StopsTogether'
      BY <2>2 DEF SetUpFails, Return, ClearAll, images, device, results, ramp
    <3>2. Together'
      BY <2>2 DEF SetUpFails, Return, ClearAll, images, device, results, ramp, Together,
          NextTogether, Working, At, Coadd, Sample, MoreSamples, MoreCoadds
    <3> QED
      BY <3>1, <3>2
  <2>3. CASE BeginCoaddedImage
    <3>1. Told' /\ Settled' /\ StopsTogether'
      BY <2>3 DEF BeginCoaddedImage, Return, ClearAll, images, device, results, ramp
    <3>2. Together'
      BY <2>3 DEF BeginCoaddedImage, Return, ClearAll, images, device, results, ramp,
          Together, NextTogether, Working, At, Coadd, Sample, MoreSamples, MoreCoadds
    <3> QED
      BY <3>1, <3>2
  <2>4. CASE ForgetRequests
    <3>1. Told' /\ Settled' /\ StopsTogether'
      BY <2>4 DEF ForgetRequests, AfterStopRequests, images, device, results, ramp
    <3>2. Together'
      BY <2>4 DEF ForgetRequests, AfterStopRequests, images, device, results, ramp,
          Together, NextTogether, Working, At, Coadd, Sample, MoreSamples, MoreCoadds
    <3> QED
      BY <3>1, <3>2
  <2>5. CASE StartRamp
    <3>1. Told' /\ Settled' /\ StopsTogether'
      BY <2>5 DEF StartRamp, images, device, results, ramp
    <3>2. Together'
      BY <2>5 DEF StartRamp, images, device, results, ramp, Together, NextTogether,
          Working, At, Coadd, Sample, MoreSamples, MoreCoadds
    <3> QED
      BY <3>1, <3>2
  <2>6. CASE BeginCoadd
    <3>1. Told' /\ Settled' /\ StopsTogether'
      BY <2>6 DEF BeginCoadd, shared, images, device, results, ramp
    <3>2. Together'
      BY <2>6 DEF BeginCoadd, shared, images, device, results, ramp, Together,
          NextTogether, Working, At, Coadd, Sample, MoreSamples, MoreCoadds
    <3> QED
      BY <3>1, <3>2
  <2>7. CASE PreFramesRead
    <3>1. Told' /\ Settled' /\ StopsTogether'
      BY <2>7 DEF PreFramesRead, shared, MoreFrames, images, device, results, ramp
    <3>2. Together'
      BY <2>7 DEF PreFramesRead, shared, MoreFrames, images, device, results, ramp,
          Together, NextTogether, Working, At, Coadd, Sample, MoreSamples, MoreCoadds
    <3> QED
      BY <3>1, <3>2
  <2>8. CASE BeginSample
    <3>1. Told' /\ Settled' /\ StopsTogether'
      BY <2>8 DEF BeginSample, shared, images, device, results, ramp
    <3>2. Together'
      BY <2>8 DEF BeginSample, shared, images, device, results, ramp, Together,
          NextTogether, Working, At, Coadd, Sample, MoreSamples, MoreCoadds
    <3> QED
      BY <3>1, <3>2
  <2>9. CASE TryStopSur
    <3>1. Told' /\ Settled' /\ StopsTogether'
      BY <2>9 DEF TryStopSur, shared, TellSur, images, device, results, ramp
    <3>2. Together'
      BY <2>9 DEF TryStopSur, shared, TellSur, images, device, results, ramp, Together,
          NextTogether, Working, At, Coadd, Sample, MoreSamples, MoreCoadds
    <3> QED
      BY <3>1, <3>2
  <2>10. CASE TryStopCoadd
    <3>1. Told' /\ Settled' /\ StopsTogether'
      BY <2>10 DEF TryStopCoadd, shared, TellCoadds, images, device, results, ramp
    <3>2. Together'
      BY <2>10 DEF TryStopCoadd, shared, TellCoadds, images, device, results, ramp,
          Together, NextTogether, Working, At, Coadd, Sample, MoreSamples, MoreCoadds
    <3> QED
      BY <3>1, <3>2
  <2>11. CASE StopAccepted
    <3>1. Told' /\ Settled' /\ StopsTogether'
      BY <2>11 DEF StopAccepted, Accepted, images, device, results, ramp
    <3>2. Together'
      BY <2>11 DEF StopAccepted, Accepted, images, device, results, ramp, Together,
          NextTogether, Working, At, Coadd, Sample, MoreSamples, MoreCoadds
    <3> QED
      BY <3>1, <3>2
  <2>12. CASE TryStopExp
    <3>1. Told' /\ Settled' /\ StopsTogether'
      BY <2>12 DEF TryStopExp, Forgotten, images, device, results, ramp
    <3>2. Together'
      BY <2>12 DEF TryStopExp, Forgotten, images, device, results, ramp, Together,
          NextTogether, Working, At, Coadd, Sample, MoreSamples, MoreCoadds
    <3> QED
      BY <3>1, <3>2
  <2>13. CASE ExpStopped
    <3>1. Told' /\ Settled' /\ StopsTogether'
      BY <2>13 DEF ExpStopped, Forgotten, images, device, results, ramp
    <3>2. Together'
      BY <2>13 DEF ExpStopped, Forgotten, images, device, results, ramp, Together,
          NextTogether, Working, At, Coadd, Sample, MoreSamples, MoreCoadds
    <3> QED
      BY <3>1, <3>2
  <2>14. CASE BeginRampReadout
    <3>1. Told' /\ Settled' /\ StopsTogether'
      BY <2>14 DEF BeginRampReadout, Return, ClearAll, images, device, results, ramp
    <3>2. Together'
      BY <2>14 DEF BeginRampReadout, Return, ClearAll, images, device, results, ramp,
          Together, NextTogether, Working, At, Coadd, Sample, MoreSamples, MoreCoadds
    <3> QED
      BY <3>1, <3>2
  <2>15. CASE SampleRead
    <3>1. Told' /\ Settled' /\ StopsTogether'
      BY <2>15 DEF SampleRead, shared, MoreFrames, images, device, results, ramp
    <3>2. Together'
      BY <2>15 DEF SampleRead, shared, MoreFrames, images, device, results, ramp,
          Together, NextTogether, Working, At, Coadd, Sample, MoreSamples, MoreCoadds
    <3> QED
      BY <3>1, <3>2
  <2>16. CASE RampError
    <3>1. Told' /\ Settled' /\ StopsTogether'
      BY <2>16 DEF RampError, AfterDiscard, Return, ClearAll, images, device, results,
          ramp
    <3>2. Together'
      BY <2>16 DEF RampError, AfterDiscard, Return, ClearAll, images, device, results,
          ramp, Together, NextTogether, Working, At, Coadd, Sample, MoreSamples,
          MoreCoadds
    <3> QED
      BY <3>1, <3>2
  <2>17. CASE CoaddDone
    <3>1. Told' /\ Settled' /\ StopsTogether'
      BY <2>17 DEF CoaddDone, images, device, results, ramp
    <3>2. Together'
      BY <2>17 DEF CoaddDone, images, device, results, ramp, Together, NextTogether,
          Working, At, Coadd, Sample, MoreSamples, MoreCoadds
    <3> QED
      BY <3>1, <3>2
  <2>18. CASE CoaddsDone
    <3>1. Told' /\ Settled' /\ StopsTogether'
      BY <2>18 DEF CoaddsDone, shared, images, device, results, ramp
    <3>2. Together'
      BY <2>18 DEF CoaddsDone, shared, images, device, results, ramp, Together,
          NextTogether, Working, At, Coadd, Sample, MoreSamples, MoreCoadds
    <3> QED
      BY <3>1, <3>2
  <2>19. CASE ImageDone
    <3>1. Told' /\ Settled' /\ StopsTogether'
      BY <2>19 DEF ImageDone, images, device, results, ramp
    <3>2. Together'
      BY <2>19 DEF ImageDone, images, device, results, ramp, Together, NextTogether,
          Working, At, Coadd, Sample, MoreSamples, MoreCoadds
    <3> QED
      BY <3>1, <3>2
  <2>20. CASE FinishRamps
    <3>1. Told' /\ Settled' /\ StopsTogether'
      BY <2>20 DEF FinishRamps, Return, ClearAll, images, device, results, ramp
    <3>2. Together'
      BY <2>20 DEF FinishRamps, Return, ClearAll, images, device, results, ramp,
          Together, NextTogether, Working, At, Coadd, Sample, MoreSamples, MoreCoadds
    <3> QED
      BY <3>1, <3>2
  <2>21. CASE InfraredFrame
    <3>1. /\ pc = "reading" /\ ctl = "readout" /\ pc' = "frame" /\ left' = left - 1
          /\ UNCHANGED <<detstatus, flags, told, images_started, ramp>>
          /\ PartFrame \/ PartEnds
      BY <2>21 DEF InfraredFrame, FrameRead, images
    <3>2. Told' /\ StopsTogether'
      BY <3>1 DEF ramp
    <3>3. At(Coadd, Sample) /\ due = left
      BY <3>1 DEF Together, Sample
    <3>4. CASE PartFrame
      <4>1. due > 1 /\ UNCHANGED <<ctl, at>> /\ due' = due - 1
        BY <3>4 DEF PartFrame
      <4>2. left' > 0
        BY <3>3, <4>1, <3>1
      <4>3. Settled'
        BY <3>1, <4>2
      <4>4. Together'
        BY <3>1, <3>3, <4>1, <4>2 DEF Together, Working, At, Coadd, Sample, ramp
      <4> QED
        BY <3>2, <4>3, <4>4
    <3>5. CASE PartEnds
      <4>1. ~Deciding
        BY <3>5, <1>3 DEF PartEnds, Timely
      <4>2. left' = 0
        BY <3>1, <3>3, <3>5 DEF PartEnds
      <4>3. Settled'
        BY <3>1, <4>1, <4>2
      <4>4. NextTogether'
        BY <3>1, <3>3, <3>5, <4>1, PartEndsTogether
      <4>5. Together'
        BY <3>1, <4>2, <4>4 DEF Together
      <4> QED
        BY <3>2, <4>3, <4>5
    <3> QED
      BY <3>1, <3>4, <3>5
  <2> QED
    BY <2>1, <2>2, <2>3, <2>4, <2>5, <2>6, <2>7, <2>8, <2>9, <2>10, <2>11, <2>12, <2>13,
       <2>14, <2>15, <2>16, <2>17, <2>18, <2>19, <2>20, <2>21 DEF InfraredStep
<1> QED
  BY <1>1, <1>2, <1>3 DEF OrphanInv

LEMMA OrphanStep ==
  ASSUME NoPausing, Polled, Inv, CoaddInv, StatusInv, OrphanInv, [Next]_vars
  PROVE  OrphanInv'
<1>1. CASE CommandThreadStep /\ UNCHANGED ramp
  BY <1>1, OrphanCommand DEF CommandThreadStep
<1>2. CASE AcquisitionStep
  BY <1>2, OrphanThread, OrphanOptical, OrphanInfrared DEF AcquisitionStep
<1>3. CASE Enter \/ ((ControllerStep \/ IssueAny) /\ UNCHANGED ramp) \/ UNCHANGED vars
  BY <1>3, OrphanOthers
<1> QED
  BY <1>1, <1>2, <1>3 DEF Next

\* When expose() returns OK, nothing is left running in the controller: however many
\* images, coadds, samples and calls, whatever fails and whatever is stopped, each stop
\* in steps of its own, as long as no part of the ramp ended in between.  It is not
\* proved of a sequence that is paused, nor where the controller aborts a readout by
\* itself or exposures are too short to be polled.
THEOREM NothingIsLeftRunning ==
  ASSUME NoPausing, Polled, Unaborted
  PROVE  Spec => []NoOrphanExposure
<1>1. Init => CoaddInv /\ StatusInv /\ OrphanInv
  <2> SUFFICES ASSUME Init PROVE CoaddInv /\ StatusInv /\ OrphanInv
    OBVIOUS
  <2>1. CoaddInv /\ StatusInv
    BY DEF Init, ThreadInit, SharedInit, CoaddInv, InCoadd, StatusInv, SettingUp
  <2>2. OrphanInv
    BY DEF Init, ThreadInit, SharedInit, OrphanInv, FramesTogether, Timely, PartRead, Resting,
        SettingUp, Trying, Polling
  <2> QED
    BY <2>1, <2>2
<1>2. Inv /\ CoaddInv /\ StatusInv /\ OrphanInv /\ [Next]_vars
        => (Inv /\ CoaddInv /\ StatusInv /\ OrphanInv)'
  BY InvStep, CoaddStep, StatusStep, OrphanStep DEF Unaborted
<1>3. Inv /\ OrphanInv => NoOrphanExposure
  BY DEF Inv, TypeInv, TypeOK, ThreadTypeOK, OrphanInv, FramesTogether, Together, Timely,
      NoOrphanExposure, Returned, NoAbort
<1> QED
  BY <1>1, <1>2, <1>3, InvInit, PTL DEF Spec
=============================================================================

---------------------------- MODULE OpticalExpose ----------------------------
(***************************************************************************)
(* The acquisition thread inside expose_optical(), the path of expose()    *)
(* for optical detectors: expose, then read, once per image.               *)
(***************************************************************************)
EXTENDS AcquisitionThread

CONSTANT NReads     \* num_postex: frames read per image

ASSUME NReadsAssumption == NReads \in Nat \ {0}

EnterOptical == EnterExpose("optical", IF ExpTime > 0 THEN "EXPO" ELSE "READ")

SetExpTime ==
    /\ path = "optical"
    /\ pc = "setexp"
    /\ \/ /\ exposure_time' = ExpTime
          /\ pc' = "loop"
          /\ UNCHANGED <<detstatus, flags, exp_prog, fm, ret>>
       \/ /\ FALSE \in DriverOutcomes
          /\ fm' = "ERROR"
          /\ ClearAll
          /\ Return("EIO")
          /\ UNCHANGED exposure_time
    /\ UNCHANGED <<images, device, caller, left, pix, errno, call>>

\* The stop may have been raised since LoopTest.
BeginImage ==
    /\ path = "optical"
    /\ pc = "body"
    /\ npics' = IF ContRead THEN npics ELSE (npics - 1) % UMod
    /\ IF AbortRequested
       THEN ClearAll /\ Return("ECONNABORTED")
       ELSE /\ flags' = flags \ {"stop_exposure"}
            /\ pc' = AfterStopRequests
            /\ UNCHANGED <<detstatus, exp_prog, ret>>
    /\ UNCHANGED <<exposure_time, onpics, images_done, images_started,
                   images_discarded, fm, device, caller, left, pix, errno, call>>

StartExposure ==
    /\ path = "optical"
    /\ pc = "start"
    /\ ctl' = "expo"
    /\ elapsed' = 0
    /\ due' = NReads
    /\ images_started' = Bump(images_started)
    /\ pc' = "rt_enter"
    /\ UNCHANGED <<detstatus, flags, exposure_time, exp_prog, npics, onpics,
                   images_done, images_discarded, fm, told, at, caller, left, results,
                   call>>

\* After the last frame of the image the controller is idle.
OpticalFrame ==
    /\ path = "optical"
    /\ FrameRead
    /\ due' = due - 1
    /\ ctl' = IF due = 1 THEN "idle" ELSE ctl
    /\ UNCHANGED <<elapsed, told, at, caller>>

BeginReadout ==
    /\ path = "optical"
    /\ pc = "rt_done"
    /\ exp_prog' = exposure_time
    /\ detstatus' = "READ"
    /\ left' = NReads
    /\ pc' = "frame"
    /\ UNCHANGED <<flags, exposure_time, images, fm, device, caller, results, call>>

\* Mutant of ImageEnds: the image is not counted.
ImageUncounted ==
    /\ images_done' = images_done
    /\ exp_prog' = 0
    /\ pc' = "loop"

ImageEnds ==
    /\ images_done' = Bump(images_done)
    /\ exp_prog' = 0
    /\ pc' = "loop"

ImageRead ==
    /\ path = "optical"
    /\ pc = "frame" /\ ~MoreFrames
    /\ ImageEnds
    /\ UNCHANGED <<detstatus, flags, exposure_time, npics, onpics, images_started,
                   images_discarded, fm, device, caller, left, results, call>>

\* opt_err: the image is discarded; after an aborted readout it counts as done all
\* the same and the sequence goes on, any other failure ends it.
ReadoutError ==
    /\ path = "optical"
    /\ pc = "err"
    /\ images_discarded' = Bump(images_discarded)
    /\ IF errno = "ECONNABORTED"
       THEN /\ fm' = "ABORTED"
            /\ ImageEnds
            /\ UNCHANGED <<detstatus, flags, ret>>
       ELSE /\ fm' = "ERROR"
            /\ ClearAll
            /\ Return(pix)
            /\ UNCHANGED images_done
    /\ UNCHANGED <<exposure_time, npics, onpics, images_started, device, caller,
                   left, pix, errno, call>>

Finish ==
    /\ path = "optical"
    /\ pc = "finish"
    /\ fm' = "RDENDED"
    /\ detstatus' = "IDLE"
    /\ exp_prog' = 0
    /\ flags' = IF AbortRequested THEN KeptByClearAll(flags) ELSE flags
    /\ Return(IF AbortRequested THEN "ECONNABORTED" ELSE "OK")
    /\ UNCHANGED <<exposure_time, images, device, caller, left, pix, errno, call>>

OpticalStep ==
    \/ SetExpTime \/ BeginImage \/ StartExposure \/ BeginReadout
    \/ OpticalFrame \/ ImageRead \/ ReadoutError \/ Finish
=============================================================================

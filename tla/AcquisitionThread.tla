-------------------------- MODULE AcquisitionThread --------------------------
(***************************************************************************)
(* What the acquisition thread does the same way in expose_optical() and   *)
(* in expose(): read_exp_time(), readNframes(), the start of an exposure   *)
(* and what follows the return of expose().  pc names the statement the    *)
(* thread is about to run; the steps are cut where the thread calls the    *)
(* driver, sleeps or reads a global another thread writes.  Tests that     *)
(* follow one another are one step where what another thread stores        *)
(* between them could as well be stored before or after all of them.       *)
(***************************************************************************)
EXTENDS DetectorState

CONSTANT Detectors   \* "optical": num_prevex is 0; "infrared": it is not

ASSUME DetectorsAssumption == Detectors \subseteq {"optical", "infrared"}

VARIABLES
    path,    \* the kind of detector of the call of expose()
    pc,      \* acquisition thread
    left,    \* frames readNframes() still has to read
    pix,     \* result of read_exp_time() or readNframes()
    errno,   \* errno of the acquisition thread
    ret,     \* value expose() returned
    runs     \* calls of expose() made (bounded by MaxRuns)

results == <<pix, errno, ret>>
call == <<runs, path>>
thread == <<pc, left, results, call>>

Results == {"OK", "ECONNABORTED", "EIO", "ETIME", "ENOBUFS"}
PCs == {"idle", "setexp", "setcoadds", "setsur", "loop", "body", "forget", "reexp",
        "start", "coadd", "sur", "try_sur", "sur_stop", "try_coadd", "coadd_stop", "try_exp",
        "exp_stop", "rt_enter", "rt_wait", "rt_loop", "rt_done", "frame", "reading", "err",
        "coadd_done", "image_done", "finish", "returned"}

ThreadTypeOK ==
    /\ SharedTypeOK
    /\ path \in {"optical", "infrared"}
    /\ pc \in PCs
    /\ left \in Nat
    /\ pix \in Results
    /\ errno \in Results
    /\ ret \in Results
    /\ runs \in Nat

ThreadInit ==
    /\ SharedInit
    /\ path = "optical"
    /\ pc = "idle"
    /\ left = 0
    /\ pix = "OK"
    /\ errno = "OK"
    /\ ret = "OK"
    /\ runs = 0

Return(r) ==
    /\ pc' = "returned"
    /\ ret' = r

Running == pc \notin {"idle", "returned"}
Returned == pc = "returned"

\* Entry of expose() or expose_optical() up to the call of set_exp_time().
EnterExpose(detector, status) ==
    /\ pc = "idle"
    /\ runs < MaxRuns
    /\ detector \in Detectors
    /\ path' = detector
    /\ runs' = runs + 1
    /\ flags' = KeptByClearAll(flags)
    /\ exp_prog' = 0
    /\ detstatus' = status
    /\ images_done' = 0 /\ images_started' = 0 /\ images_discarded' = 0
    /\ onpics' = NImages
    /\ npics' = IF NImages = 0 THEN 1 ELSE NImages
    /\ fm' = "IDLE"
    /\ asked' = IF cmd = "none" THEN {} ELSE {cmd}
    /\ wanted' = npics'
    /\ late' = Deciding
    /\ pc' = "setexp" /\ left' = 0 /\ pix' = "OK"
    /\ UNCHANGED <<exposure_time, device, cmd, cstep, loaded, calls, errno, ret>>

\* Mutants of MoreImages: a stop is not looked at; an image too few.
MoreImagesStopped == npics # 0
MoreImagesButOne == npics > 1 /\ "stop_sequence" \notin flags

MoreImages == npics # 0 /\ "stop_sequence" \notin flags

LoopTest ==
    /\ pc = "loop"
    /\ pc' = IF MoreImages THEN "body" ELSE "finish"
    /\ UNCHANGED <<shared, device, caller, left, results, call>>

\* Mutant of AfterStopRequests: the shortened exposure time stays in force.
KeepShortExposure == "start"

AfterStopRequests == IF "stop_exposure" \in flags THEN "reexp" ELSE "start"

\* After a stop_exp() the exposure time of the call is set again; a failure is
\* ignored.
RestoreExpTime ==
    /\ pc = "reexp"
    /\ \E ok \in DriverOutcomes :
          exposure_time' = IF ok THEN ExpTime ELSE exposure_time
    /\ pc' = "start"
    /\ UNCHANGED <<detstatus, flags, exp_prog, images, fm, device, caller, left,
                   results, call>>

\* start_exposure() failed twice: abort_exposure(), reset_pci() and return.
StartFails ==
    /\ pc = "start"
    /\ FALSE \in DriverOutcomes
    /\ ctl' = "idle"
    /\ fm' = "ERROR"
    /\ ClearAll
    /\ Return("EIO")
    /\ UNCHANGED <<exposure_time, images, elapsed, due, told, at, caller, left, pix,
                   errno, call>>

-----------------------------------------------------------------------------
(* read_exp_time(): poll the elapsed time until Break is left of it. *)

ReadExpTimeEnter ==
    /\ pc = "rt_enter"
    /\ IF exposure_time > Break
       THEN detstatus' = "EXPO" /\ exp_prog' = 0 /\ pc' = "rt_wait"
       ELSE pc' = "rt_done" /\ UNCHANGED <<detstatus, exp_prog>>
    /\ UNCHANGED <<flags, exposure_time, images, fm, device, caller, left, results,
                   call>>

\* Wait for the controller to report less than the end of the exposure; after
\* 2000 polls that do not, the exposure is given up.
WaitExpReset ==
    /\ pc = "rt_wait"
    /\ IF elapsed < exposure_time - Break
       THEN pc' = "rt_loop" /\ UNCHANGED <<fm, pix, errno>>
       ELSE pc' = "err" /\ fm' = "ABORTED" /\ pix' = "ETIME" /\ errno' = "ETIME"
    /\ UNCHANGED <<detstatus, flags, exposure_time, exp_prog, images, device,
                   caller, left, ret, call>>

MoreExposure == exp_prog < exposure_time - Break /\ exp_prog >= 0

\* One poll.  Requests are looked at only while the status is ST_EXPO: paused,
\* the loop sleeps.
PollExposure ==
    /\ pc = "rt_loop" /\ MoreExposure /\ detstatus = "EXPO"
    /\ IF AbortRequested
       THEN /\ fm' = "CO_ABORTED"
            /\ ClearAll
            /\ pc' = "err" /\ pix' = "ECONNABORTED"
       ELSE /\ exp_prog' = elapsed
            /\ UNCHANGED <<detstatus, flags, fm, pc, pix>>
    /\ UNCHANGED <<exposure_time, images, device, caller, left, errno, ret, call>>

\* 2000 polls without progress: the controller is not exposing any more.
ExposureTimeout ==
    /\ pc = "rt_loop" /\ MoreExposure /\ detstatus = "EXPO"
    /\ ~AbortRequested
    /\ ctl # "expo" /\ elapsed = exp_prog
    /\ fm' = "ABORTED" /\ pix' = "ETIME" /\ errno' = "ETIME"
    /\ pc' = "err"
    /\ UNCHANGED <<detstatus, flags, exposure_time, exp_prog, images, device,
                   caller, left, ret, call>>

\* A poll the driver fails leaves no progress; the tenth leaves a negative one,
\* which ends the loop as the end of the exposure does.
PollFails ==
    /\ pc = "rt_loop" /\ MoreExposure /\ detstatus = "EXPO"
    /\ FALSE \in DriverOutcomes
    /\ ~AbortRequested
    /\ exp_prog' \in {0, -1}
    /\ UNCHANGED <<detstatus, flags, exposure_time, images, fm, device, caller,
                   thread>>

ExposureRead ==
    /\ pc = "rt_loop" /\ ~MoreExposure
    /\ pc' = "rt_done"
    /\ UNCHANGED <<shared, device, caller, left, results, call>>

-----------------------------------------------------------------------------
(* readNframes(): one buffer per frame, then poll until it is complete. *)

MoreFrames == left > 0

BeginFrame ==
    /\ pc = "frame" /\ MoreFrames
    /\ fm' = "READING"
    /\ pc' = "reading"
    /\ UNCHANGED <<detstatus, flags, exposure_time, exp_prog, images, device,
                   caller, left, results, call>>

\* chk_buffer() found no buffer in its five seconds.
NoBuffer ==
    /\ pc = "frame" /\ MoreFrames
    /\ ctl' = AfterAbortRead(ctl)
    /\ pix' = "ENOBUFS"
    /\ pc' = "err"
    /\ UNCHANGED <<shared, elapsed, due, told, at, caller, left, errno, ret, call>>

\* The controller delivers a frame and the thread has it complete.
FrameRead ==
    /\ pc = "reading" /\ ctl = "readout"
    /\ fm' = "OK"
    /\ left' = left - 1
    /\ pc' = "frame"
    /\ UNCHANGED <<detstatus, flags, exposure_time, exp_prog, images, results, call>>

\* No progress for 3000 polls, or the driver reports a failure; one that
\* reports an aborted readout leaves ECONNABORTED in errno.
FrameFails ==
    /\ pc = "reading"
    /\ \E e \in ReadErrors :
          /\ e = "ECONNABORTED" => ctl = "rdaborted"
          /\ e = "EIO" => FALSE \in DriverOutcomes
          /\ e = "ETIME" => /\ ctl # "readout"
                            /\ ctl = "expo" => elapsed + Break < exposure_time
          /\ ctl' = IF e = "ETIME" THEN AfterAbortRead(ctl) ELSE ctl
          /\ pix' = e /\ errno' = e
    /\ pc' = "err"
    /\ UNCHANGED <<shared, elapsed, due, told, at, caller, left, ret, call>>

\* get_expose_status(): the exposure loop reads the stop flags once expose()
\* has returned, and clears everything.
GetExposeStatus ==
    /\ pc = "returned"
    /\ ClearAll
    /\ pc' = "idle"
    /\ UNCHANGED <<exposure_time, images, fm, device, caller, left, results, call>>

ThreadStep ==
    \/ LoopTest \/ RestoreExpTime \/ StartFails
    \/ ReadExpTimeEnter \/ WaitExpReset \/ PollExposure \/ ExposureTimeout
    \/ PollFails \/ ExposureRead \/ BeginFrame \/ NoBuffer \/ FrameFails
    \/ GetExposeStatus

CommandThreadStep == CommandStep /\ UNCHANGED thread

ControllerStep == Tick /\ UNCHANGED thread

IssueAny == \E c \in Commands : Issue(c) /\ UNCHANGED thread
=============================================================================

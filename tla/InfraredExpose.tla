--------------------------- MODULE InfraredExpose ---------------------------
(***************************************************************************)
(* The acquisition thread inside expose() for infrared detectors: an image *)
(* is NCoadds coadds, a coadd is NPre frames, then NSur times an exposure  *)
(* followed by NPost frames.  Both the library and the controller count    *)
(* coadds and samples; a stop has to reach both in the same part.           *)
(***************************************************************************)
EXTENDS AcquisitionThread

CONSTANTS NPre, NPost,   \* num_prevex, num_postex
          NCoadds,       \* num_coadds
          NSur           \* num_sur: samples up the ramp

ASSUME FramesAssumption ==
    /\ NPre \in Nat \ {0} /\ NPost \in Nat \ {0}
    /\ NCoadds \in Nat \ {0} /\ NSur \in Nat \ {0}

VARIABLES
    phase,            \* the call of readNframes(): before or after the exposure
    ncoadds, nsur,    \* coadds and samples left
    coadds_done,
    coadds_discarded

ramp == <<phase, ncoadds, nsur, coadds_done, coadds_discarded>>
\* An exposure shorter than Break is not polled: all frames are read at once.
Prevex == IF ExpTime < Break THEN NPre + NPost ELSE NPre
Postex == IF ExpTime < Break THEN 0 ELSE NPost

RampTypeOK ==
    /\ phase \in {"pre", "post"}
    /\ ncoadds \in 0 .. NCoadds
    /\ nsur \in 0 .. NSur
    /\ coadds_done \in 0 .. NCoadds
    /\ coadds_discarded \in 0 .. UMod - 1

RampInit ==
    /\ phase = "pre"
    /\ ncoadds = 0
    /\ nsur = 0
    /\ coadds_done = 0
    /\ coadds_discarded = 0

EnterInfrared ==
    /\ EnterExpose("infrared", "IDLE")
    /\ coadds_done' = 0

\* set_exp_time(), set_num_coadds() and set_num_sur(), one after the other.
SetUpExpTime ==
    /\ pc = "setexp"
    /\ exposure_time' = ExpTime
    /\ pc' = "setcoadds"
    /\ UNCHANGED told

SetUpCoadds ==
    /\ pc = "setcoadds"
    /\ TellCoadds(NCoadds)
    /\ pc' = "setsur"
    /\ UNCHANGED exposure_time

SetUpSur ==
    /\ pc = "setsur"
    /\ TellSur(NSur)
    /\ pc' = "loop"
    /\ UNCHANGED exposure_time

SetUp ==
    /\ path = "infrared"
    /\ SetUpExpTime \/ SetUpCoadds \/ SetUpSur
    /\ UNCHANGED <<detstatus, flags, exp_prog, images, fm, ctl, elapsed, due, at,
                   caller, left, results, call, ramp>>

SetUpFails ==
    /\ path = "infrared"
    /\ pc \in {"setexp", "setcoadds", "setsur"}
    /\ FALSE \in DriverOutcomes
    /\ fm' = "ERROR"
    /\ ClearAll
    /\ Return("EIO")
    /\ UNCHANGED <<exposure_time, images, device, caller, left, pix, errno, call,
                   ramp>>

BeginCoaddedImage ==
    /\ path = "infrared"
    /\ pc = "body"
    /\ npics' = IF ContRead THEN npics ELSE (npics - 1) % UMod
    /\ ncoadds' = NCoadds
    /\ IF AbortRequested
       THEN ClearAll /\ Return("ECONNABORTED")
       ELSE pc' = "forget" /\ UNCHANGED <<flags, detstatus, exp_prog, ret>>
    /\ UNCHANGED <<exposure_time, onpics, images_done, images_started,
                   images_discarded, fm, device, caller, left, pix, errno, call,
                   phase, nsur, coadds_done, coadds_discarded>>

\* A discard that comes after the test for an abort is forgotten.
ForgetRequests ==
    /\ path = "infrared"
    /\ pc = "forget"
    /\ flags' = flags \ {"discard_coadd", "stop_exposure"}
    /\ coadds_done' = 0
    /\ pc' = AfterStopRequests
    /\ UNCHANGED <<detstatus, exposure_time, exp_prog, images, fm, device, caller,
                   left, results, call, phase, ncoadds, nsur, coadds_discarded>>

\* new_image: the controller resets the array and begins the first coadd.
StartRamp ==
    /\ path = "infrared"
    /\ pc = "start"
    /\ detstatus' = "RESET"
    /\ ctl' = "readout" /\ due' = NPre /\ at' = [coadd |-> 1, sample |-> 0]
    /\ late' = (late \/ Deciding)
    /\ images_started' = Bump(images_started)
    /\ pc' = "coadd"
    /\ UNCHANGED <<flags, exposure_time, exp_prog, npics, onpics, images_done,
                   images_discarded, fm, elapsed, told, cmd, cstep, loaded, calls,
                   asked, wanted, left, results, call, ramp>>

\* What the controller goes on with after the last frame of a part of the ramp: the
\* next exposure, the next coadd, or nothing, by what it was told.
NextExposure ==
    /\ at.sample < told.sur
    /\ ctl' = "expo" /\ elapsed' = 0 /\ due' = NPost
    /\ at' = [at EXCEPT !.sample = at.sample + 1]

NextCoadd ==
    /\ at.sample >= told.sur /\ at.coadd < told.coadds
    /\ due' = NPre /\ at' = [coadd |-> at.coadd + 1, sample |-> 0]
    /\ UNCHANGED <<ctl, elapsed>>

RampEnds ==
    /\ at.sample >= told.sur /\ at.coadd >= told.coadds
    /\ ctl' = "idle" /\ due' = 0 /\ at' = [coadd |-> 0, sample |-> 0]
    /\ UNCHANGED elapsed

PartFrame ==
    /\ due > 1
    /\ due' = due - 1
    /\ UNCHANGED <<ctl, elapsed, at, late>>

PartEnds ==
    /\ due = 1
    /\ NextExposure \/ NextCoadd \/ RampEnds
    /\ late' = (late \/ Deciding)

InfraredFrame ==
    /\ path = "infrared"
    /\ FrameRead
    /\ PartFrame \/ PartEnds
    /\ UNCHANGED <<told, cmd, cstep, loaded, calls, asked, wanted, ramp>>

\* Mutants of MoreCoadds: coadds without end, a coadd too few.
MoreCoaddsForever == "stop_coadding" \notin flags
MoreCoaddsButOne == ncoadds > 1 /\ "stop_coadding" \notin flags

MoreCoadds == ncoadds # 0 /\ "stop_coadding" \notin flags
MoreSamples == nsur # 0 /\ "stop_sur" \notin flags

BeginCoadd ==
    /\ path = "infrared"
    /\ pc = "coadd" /\ MoreCoadds
    /\ ncoadds' = ncoadds - 1
    /\ nsur' = NSur
    /\ phase' = "pre"
    /\ left' = Prevex
    /\ pc' = "frame"
    /\ UNCHANGED <<shared, device, caller, results, call, coadds_done,
                   coadds_discarded>>

PreFramesRead ==
    /\ path = "infrared"
    /\ pc = "frame" /\ ~MoreFrames /\ phase = "pre"
    /\ pc' = "sur"
    /\ UNCHANGED <<shared, device, caller, left, results, call, ramp>>

BeginSample ==
    /\ path = "infrared"
    /\ pc = "sur" /\ MoreSamples
    /\ nsur' = nsur - 1
    /\ pc' = "try_sur"
    /\ UNCHANGED <<shared, device, caller, left, results, call, phase, ncoadds,
                   coadds_done, coadds_discarded>>

\* Before each exposure of the ramp the stops that could not be honoured at once
\* are tried again: a command to the controller, then, if it was accepted, the
\* flag the loops look at.
TryStopSur ==
    /\ path = "infrared"
    /\ pc = "try_sur"
    /\ \/ "try_stop_sur" \in flags /\ TellSur(0) /\ pc' = "sur_stop"
       \/ /\ "try_stop_sur" \in flags => FALSE \in DriverOutcomes
          /\ pc' = "try_coadd"
          /\ UNCHANGED told
    /\ UNCHANGED <<shared, ctl, elapsed, due, at, caller, left, results, call, ramp>>

TryStopCoadd ==
    /\ path = "infrared"
    /\ pc = "try_coadd"
    /\ \/ "try_stop_coadding" \in flags /\ TellCoadds(1) /\ pc' = "coadd_stop"
       \/ /\ "try_stop_coadding" \in flags => FALSE \in DriverOutcomes
          /\ pc' = "try_exp"
          /\ UNCHANGED told
    /\ UNCHANGED <<shared, ctl, elapsed, due, at, caller, left, results, call, ramp>>

Accepted ==
    \/ /\ pc = "sur_stop"
       /\ flags' = (flags \ {"try_stop_sur"}) \cup {"stop_sur"}
       /\ pc' = "try_coadd"
    \/ /\ pc = "coadd_stop"
       /\ flags' = (flags \ {"try_stop_coadding"})
                     \cup {"stop_coadding", "stop_sequence"}
       /\ pc' = "try_exp"

StopAccepted ==
    /\ path = "infrared"
    /\ Accepted
    /\ UNCHANGED <<detstatus, exposure_time, exp_prog, images, fm, device, caller,
                   left, results, call, ramp>>

\* stop_exp() returns the stop time, which is OK, and makes the thread forget
\* try_stop_next_exp, only if it is zero.
Forgotten == IF exposure_time = 0 THEN {"try_stop_next_exp"} ELSE {}

TryStopExp ==
    LET shorter == /\ "try_stop_next_exp" \in flags
                   /\ exp_prog + StopTime < exposure_time
    IN
    /\ path = "infrared"
    /\ pc = "try_exp"
    /\ \/ /\ shorter
          /\ exposure_time' = exp_prog + StopTime
          /\ pc' = "exp_stop"
          /\ UNCHANGED flags
       \/ /\ shorter => FALSE \in DriverOutcomes
          /\ flags' = flags \ Forgotten
          /\ pc' = "rt_enter"
          /\ UNCHANGED exposure_time
    /\ UNCHANGED <<detstatus, exp_prog, images, fm, device, caller, left, results,
                   call, ramp>>

ExpStopped ==
    /\ path = "infrared"
    /\ pc = "exp_stop"
    /\ flags' = (flags \ Forgotten) \cup {"stop_exposure"}
    /\ pc' = "rt_enter"
    /\ UNCHANGED <<detstatus, exposure_time, exp_prog, images, fm, device, caller,
                   left, results, call, ramp>>

BeginRampReadout ==
    /\ path = "infrared"
    /\ pc = "rt_done"
    /\ IF AbortRequested
       THEN /\ fm' = "CO_ABORTED"
            /\ ClearAll
            /\ Return("ECONNABORTED")
            /\ UNCHANGED <<left, phase>>
       ELSE /\ exp_prog' = ExpTime
            /\ detstatus' = "READ"
            /\ left' = Postex
            /\ phase' = "post"
            /\ pc' = "frame"
            /\ UNCHANGED <<flags, fm, ret>>
    /\ UNCHANGED <<exposure_time, images, device, caller, pix, errno, call, ncoadds,
                   nsur, coadds_done, coadds_discarded>>

SampleRead ==
    /\ path = "infrared"
    /\ pc = "frame" /\ ~MoreFrames /\ phase = "post"
    /\ pc' = "sur"
    /\ UNCHANGED <<shared, device, caller, left, results, call, ramp>>

\* Mutant of AfterDiscard: a discarded image is also counted as done.
AfterDiscardDone == "image_done"

\* new_coadd: the next image.
AfterDiscard == "loop"

\* err: a discard goes on with the next image, an aborted readout starts the
\* image again with the coadds that were left, any other failure returns.
RampError ==
    /\ path = "infrared"
    /\ pc = "err"
    /\ images_discarded' = Bump(images_discarded)
    /\ \/ /\ "discard_coadd" \in flags
          /\ fm' = "CO_ABORTED"
          /\ coadds_discarded' = Bump(coadds_discarded)
          /\ pc' = AfterDiscard
          /\ UNCHANGED <<detstatus, exp_prog, flags, ret>>
       \/ /\ "discard_coadd" \notin flags
          /\ errno = "ECONNABORTED"
          /\ fm' = "ABORTED"
          /\ pc' = "start"
          /\ UNCHANGED <<detstatus, exp_prog, flags, ret, coadds_discarded>>
       \/ /\ "discard_coadd" \notin flags
          /\ errno # "ECONNABORTED"
          /\ fm' = "ERROR"
          /\ ClearAll
          /\ Return(pix)
          /\ UNCHANGED coadds_discarded
    /\ UNCHANGED <<exposure_time, npics, onpics, images_done, images_started, device,
                   caller, left, pix, errno, call, phase, ncoadds, nsur, coadds_done>>

CoaddDone ==
    /\ path = "infrared"
    /\ pc = "sur" /\ ~MoreSamples
    /\ coadds_done' = coadds_done + 1
    /\ detstatus' = "IDLE" /\ exp_prog' = 0
    /\ pc' = "coadd"
    /\ UNCHANGED <<flags, exposure_time, images, fm, device, caller, left, results,
                   call, phase, ncoadds, nsur, coadds_discarded>>

CoaddsDone ==
    /\ path = "infrared"
    /\ pc = "coadd" /\ ~MoreCoadds
    /\ pc' = "image_done"
    /\ UNCHANGED <<shared, device, caller, left, results, call, ramp>>

ImageDone ==
    /\ path = "infrared"
    /\ pc = "image_done"
    /\ images_done' = Bump(images_done)
    /\ detstatus' = "IDLE" /\ exp_prog' = 0
    /\ pc' = "loop"
    /\ UNCHANGED <<flags, exposure_time, npics, onpics, images_started,
                   images_discarded, fm, device, caller, left, results, call, ramp>>

\* Unlike expose_optical(), expose() leaves the status as it is.
FinishRamps ==
    /\ path = "infrared"
    /\ pc = "finish"
    /\ fm' = "RDENDED"
    /\ IF AbortRequested
       THEN ClearAll /\ Return("ECONNABORTED")
       ELSE Return("OK") /\ UNCHANGED <<detstatus, exp_prog, flags>>
    /\ UNCHANGED <<exposure_time, images, device, caller, left, pix, errno, call,
                   ramp>>

InfraredStep ==
    \/ SetUp \/ SetUpFails \/ BeginCoaddedImage \/ ForgetRequests \/ StartRamp \/ BeginCoadd
    \/ PreFramesRead \/ BeginSample \/ TryStopSur \/ TryStopCoadd \/ StopAccepted
    \/ TryStopExp \/ ExpStopped \/ BeginRampReadout \/ SampleRead \/ RampError
    \/ CoaddDone \/ CoaddsDone \/ ImageDone \/ FinishRamps \/ InfraredFrame
=============================================================================

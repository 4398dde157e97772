------------------------------- MODULE Expose -------------------------------
(***************************************************************************)
(* A call of expose(), for optical or infrared detectors, beside the       *)
(* command thread and the detector controller.                             *)
(***************************************************************************)
EXTENDS OpticalExpose, InfraredExpose

vars == <<shared, device, caller, thread, ramp>>

TypeOK == ThreadTypeOK /\ RampTypeOK

Init == ThreadInit /\ RampInit

\* The locals of the call begin anew.
Enter ==
    /\ \/ EnterOptical /\ UNCHANGED coadds_done
       \/ EnterInfrared
    /\ coadds_discarded' = 0
    /\ phase' = "pre" /\ ncoadds' = 0 /\ nsur' = 0

AcquisitionStep ==
    \/ (ThreadStep \/ OpticalStep) /\ UNCHANGED ramp
    \/ InfraredStep

Next ==
    \/ Enter
    \/ AcquisitionStep
    \/ ControllerStep /\ UNCHANGED ramp
    \/ IssueAny /\ UNCHANGED ramp
    \/ CommandThreadStep /\ UNCHANGED ramp

Spec == Init /\ [][Next]_vars

\* The acquisition thread and the controller are always scheduled, and a call
\* the command thread has begun goes on; nobody has to issue one.
Fairness ==
    /\ WF_vars(AcquisitionStep)
    /\ WF_vars(ControllerStep /\ UNCHANGED ramp)
    /\ WF_vars(CommandThreadStep /\ UNCHANGED ramp)

FairSpec == Spec /\ Fairness

-----------------------------------------------------------------------------
\* expose_optical() returns OK only when every image it started was read out or
\* was counted as aborted: a stop never leaves an image behind.
WholeImages ==
    Returned /\ ret = "OK" /\ path = "optical" => images_done = images_started

\* "Reads npics complete coadded images": an image expose() counts has all its
\* coadds, unless the coadding was stopped.
CoaddsComplete ==
    pc = "image_done" /\ "stop_coadding" \notin flags => coadds_done = NCoadds

\* A sequence nobody stopped or aborted accounts for every image: each one asked
\* for is done or was given up with its coadds, however stops of the exposure or of
\* the ramp, pauses and discards interleave with it.  An optical image whose readout
\* was aborted is counted both as discarded and as done: no image is only discarded.
ImagesAccounted ==
    Returned /\ ret = "OK"
        /\ asked \subseteq {"abort_coadd", "stop_exp", "stop_sur", "pause", "resume"}
        => /\ images_done + coadds_discarded = wanted
           /\ path = "optical" => images_discarded <= images_done

\* A sequence nobody resized, cut short or discarded an image of has the number of
\* images asked for, whatever was asked of the sequence before it.
SequenceLength ==
    Returned /\ ret = "OK"
        /\ asked \subseteq {"stop_exp", "stop_sur", "pause", "resume"}
        => images_done = wanted

\* Changing the number of images while a sequence runs never yields more images
\* than the larger of the two numbers asked for.
ResizeBounded ==
    Returned /\ asked \subseteq {"set_nimages"} => images_done <= IF wanted > NImages THEN wanted ELSE NImages

\* The calls of the command thread, by what they mean for a sequence.
Cuts == {"stop_all", "stop_seq", "stop_coadd", "abort_all"}
Aborts == {"abort_all", "abort_coadd"}

\* When expose() returns OK and nothing was aborted, the controller has nothing
\* left running or waiting to be read out, whatever was stopped: the two count
\* coadds and samples apart, and a stop reaches them one after the other.  (A stop
\* that finds the detector exposing and is still between the two when that part of
\* the ramp ends does leave it running; late tells those apart.)
NoOrphanExposure ==
    Returned /\ ret = "OK" /\ images_started > 0 /\ asked \cap Aborts = {} /\ ~late
        => ctl \in {"idle", "rdaborted"}

SequencePhase ==
    CASE pc = "idle" -> "none"
      [] pc = "returned" -> "returned"
      [] OTHER -> "running"

Promise == INSTANCE Sequence WITH
    Requests <- AllCommands, Changes <- {"set_nimages"}, Endless <- ContRead,
    Failures <- {"EIO", "ETIME", "ENOBUFS"}, Numbers <- 0 .. UMod - 1,
    phase <- SequencePhase, done <- images_done, discarded <- coadds_discarded,
    spoiled <- images_discarded,
    requests <- asked, result <- ret, Modulus <- UMod

\* A sequence as expose() runs it, beside every request, is one as the exposure
\* loop understands it: images are counted one by one and only while it runs, it
\* ends early or as aborted only when that was asked for.
ImplementsSequence == Promise!Spec

\* expose() reports a sequence as aborted only if it was aborted or one of its
\* images was discarded.
AbortHasCause ==
    Returned /\ ret = "ECONNABORTED" =>
        "abort_all" \in asked \/ "abort_coadd" \in asked

\* The status is idle once the call has returned, unless a pause or a resume set
\* it afterwards.  Of infrared images, expose() returns OK with another status when
\* the last was discarded, by a call for that or by the first of the two flags of an
\* abort; then it is idle once get_expose_status() has cleared it.
IdleAfterReturn ==
    ~Running /\ asked \cap {"pause", "resume"} = {}
        /\ ~(Returned /\ ret = "OK" /\ path = "infrared" /\ asked \cap Aborts # {})
        => detstatus = "IDLE"

\* The exposure time of a call is in force whenever an image starts, unless a
\* stop_exp() that shortened it has still to be honoured.
ExposureTimeRestored ==
    pc = "start" /\ exposure_time # ExpTime =>
        "stop_exposure" \in flags \/ cstep = "exp_flag"

\* A raised stop ends the sequence, even a continuous one.
StopEnds == ("stop_sequence" \in flags /\ Running) ~> ~Running

\* abort_all() called during a sequence ends it.
AbortEnds == (cmd = "abort_all" /\ cstep = "begin" /\ Running) ~> ~Running
=============================================================================

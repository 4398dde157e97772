---------------------------- MODULE DetectorState ----------------------------
(***************************************************************************)
(* The globals of astroIIILib.c that the acquisition thread (inside        *)
(* expose() or expose_optical()) shares with the command thread, the       *)
(* exported calls of the command thread, and the detector controller as    *)
(* the library sees it through the driver.                                 *)
(*                                                                         *)
(* A command is a sequence of steps: what the code does between two driver *)
(* calls, or between two accesses of a global that the other thread also   *)
(* writes, is one step, and the acquisition thread may run between steps.  *)
(* Times are counted in units of EXP_TIME_BREAK.                           *)
(***************************************************************************)
EXTENDS Integers

CONSTANTS
    ExpTime,       \* exposure time passed to expose()
    Break,         \* EXP_TIME_BREAK
    StopTime,      \* STOP_TIME
    NImages,       \* number of images passed to expose()
    Resizes,       \* the values set_nimages() is called with
    UMod,          \* npics and the image counters are modulo UMod
    ContRead,      \* cont_read: npics is not decremented
    SupportAbort,  \* support_abort: abort_read() reaches the driver
    ReadErrors,    \* the errno values a failing driver read leaves
    DriverFails,   \* commands to the controller may fail
    Commands,      \* the calls the command thread makes
    MaxCalls,      \* bound: commands per run of the model
    MaxRuns        \* bound: calls of expose() per run of the model

AllCommands == {"stop_all", "stop_seq", "stop_exp", "stop_coadd", "stop_sur",
                "abort_all", "abort_coadd", "pause", "resume", "set_nimages"}

ASSUME ConstantsAssumption ==
    /\ ExpTime \in Nat /\ Break \in Nat /\ StopTime \in Nat \ {0}
    /\ UMod \in Nat \ {0, 1} /\ NImages \in 0 .. UMod - 1
    /\ Resizes \subseteq 0 .. UMod - 1
    /\ ContRead \in BOOLEAN /\ SupportAbort \in BOOLEAN /\ DriverFails \in BOOLEAN
    /\ ReadErrors \subseteq {"ECONNABORTED", "EIO", "ETIME"}
    /\ Commands \subseteq AllCommands
    /\ MaxCalls \in Nat /\ MaxRuns \in Nat

VARIABLES
    detstatus,       \* what get_imstatus() reports as detector status
    flags,           \* the stop, try_stop and discard globals that are set
    exposure_time,   \* global set by set_exp_time()
    exp_prog,        \* elapsed exposure time as last polled
    npics,           \* images left
    onpics,          \* images asked for when expose() was called
    images_done,
    images_started,
    images_discarded,
    fm,              \* status of frame[fmi], the frame being written
    ctl,             \* what the controller is doing
    elapsed,         \* the exposure time the controller has counted
    due,             \* frames of the present part the controller still delivers
    told,            \* the coadds and samples the controller was told to take
    at,              \* the coadd and the sample of it the controller has begun
    cmd, cstep,      \* command thread: call in progress and its next step
    loaded,          \* command thread: npics as set_nimages() loaded it
    calls,           \* commands issued (bounded by MaxCalls)
    asked,           \* history: commands issued since expose() was entered
    wanted,          \* history: the number of images last asked for
    late             \* history: a part of the ramp ended while a command was
                     \* about to stop it

images == <<npics, onpics, images_done, images_started, images_discarded>>
shared == <<detstatus, flags, exposure_time, exp_prog, images, fm>>
device == <<ctl, elapsed, due, told, at>>
caller == <<cmd, cstep, loaded, calls, asked, wanted, late>>

Flags == {"stop_sequence", "stop_exposure", "stop_coadding", "stop_sur",
          "try_stop_coadding", "try_stop_sur", "try_stop_next_exp",
          "discard_coadd"}
DetStatus == {"IDLE", "RESET", "EXPO", "READ", "PAUSED"}
FrameStatus == {"IDLE", "READING", "ABORTED", "OK", "ERROR", "RDENDED",
                "CO_ABORTED"}
Controller == {"idle", "expo", "paused", "readout", "rdaborted"}
Steps == {"none", "begin", "exp_flag", "try_next", "seq",
          "coadd", "coadd_hard", "coadd_seq", "coadd_flag", "coadd_try",
          "sur", "sur_hard", "sur_flag", "sur_try",
          "abort_test", "discard", "stop", "abort_again", "discard_again",
          "stop_again", "abort_readout", "abort_read", "discard_read",
          "stop_read", "coadd_read", "status", "store"}

StatusTypeOK ==
    /\ detstatus \in DetStatus
    /\ flags \subseteq Flags
    /\ fm \in FrameStatus
    /\ ctl \in Controller

DeviceTypeOK ==
    /\ due \in Nat
    /\ told \in [coadds : Nat, sur : Nat]
    /\ at \in [coadd : Nat, sample : Nat]

TimesTypeOK ==
    /\ exposure_time \in Nat
    /\ exp_prog \in Int /\ exp_prog >= -1
    /\ elapsed \in Nat

ImagesTypeOK ==
    /\ npics \in 0 .. UMod - 1
    /\ onpics \in 0 .. UMod - 1
    /\ images_done \in 0 .. UMod - 1
    /\ images_started \in 0 .. UMod - 1
    /\ images_discarded \in 0 .. UMod - 1
    /\ loaded \in 0 .. UMod - 1
    /\ wanted \in 0 .. UMod - 1

CallTypeOK ==
    /\ cmd \in AllCommands \cup {"none"}
    /\ cstep \in Steps
    /\ calls \in Nat
    /\ asked \subseteq AllCommands
    /\ late \in BOOLEAN

SharedTypeOK ==
    StatusTypeOK /\ TimesTypeOK /\ DeviceTypeOK /\ ImagesTypeOK /\ CallTypeOK

SharedInit ==
    /\ detstatus = "IDLE"
    /\ flags = {}
    /\ exposure_time = 0
    /\ exp_prog = 0
    /\ npics = 0
    /\ onpics = 0
    /\ images_done = 0
    /\ images_started = 0
    /\ images_discarded = 0
    /\ fm = "IDLE"
    /\ ctl = "idle"
    /\ elapsed = 0
    /\ due = 0
    /\ told = [coadds |-> 0, sur |-> 0]
    /\ at = [coadd |-> 0, sample |-> 0]
    /\ cmd = "none"
    /\ cstep = "none"
    /\ loaded = 0
    /\ calls = 0
    /\ asked = {}
    /\ wanted = 0
    /\ late = FALSE

-----------------------------------------------------------------------------
(* Helpers of the library used by both threads. *)

\* Mutant of KeptByClearAll: the stops of one call survive into the next.
KeepsEveryRequest(f) == f

\* The flags that clear_all() leaves: it does not touch stop_exposure.
KeptByClearAll(f) == f \cap {"stop_exposure"}

\* Mutant of ClearAll: the status is not reset.
ClearAllButStatus ==
    /\ detstatus' = detstatus
    /\ exp_prog' = 0
    /\ flags' = KeptByClearAll(flags)

\* clear_all(): status to idle, progress to zero, every request forgotten.
ClearAll ==
    /\ detstatus' = "IDLE"
    /\ exp_prog' = 0
    /\ flags' = KeptByClearAll(flags)

\* Mutant of SequenceStopped: abort_all() forgets to stop the sequence.
SequenceGoesOn == {}

\* What abort_all() raises after discard_coadd, in a store of its own.
SequenceStopped == {"stop_sequence"}

\* Mutant of Exposing: a stop goes to the controller whatever it is doing.
AtAnyTime == TRUE

\* The status in which a stop goes to the controller at once.
Exposing == detstatus = "EXPO"

\* Mutant of AbortRequested: every stop is taken for an abort.
StopRequested == "stop_sequence" \in flags

\* The test of expose() that takes a discard and a stop for an abort.
AbortRequested == "discard_coadd" \in flags /\ "stop_sequence" \in flags

\* abort_exposure(): AEX ends an exposure; in readout it does nothing.
AfterAEX == IF ctl \in {"expo", "paused"} THEN "idle" ELSE ctl

\* abort_read(): the driver's abort_readout(), if the detector supports it.
AfterAbortRead(c) == IF SupportAbort /\ c = "readout" THEN "rdaborted" ELSE c

\* A machine counter goes up by one.
Bump(n) == (n + 1) % UMod

\* An outcome of a command sent to the controller: TRUE when it worked.
DriverOutcomes == IF DriverFails THEN BOOLEAN ELSE {TRUE}

-----------------------------------------------------------------------------
(* The controller: an exposure it was told to start runs for exposure_time *)
(* and is then read out.  How often it exposes in a coadd and how many      *)
(* coadds it takes is what it was last told.                                *)

Tick ==
    /\ ctl = "expo"
    /\ IF elapsed < exposure_time
       THEN elapsed' = elapsed + 1 /\ ctl' = ctl
       ELSE elapsed' = elapsed /\ ctl' = "readout"
    /\ UNCHANGED <<shared, due, told, at, caller>>

\* set_num_coadds() and set_num_sur(), as far as the controller heeds them.
TellCoadds(n) == told' = [told EXCEPT !.coadds = n]
TellSur(n) == told' = [told EXCEPT !.sur = n]

-----------------------------------------------------------------------------
(* The command thread. *)

Issue(c) ==
    /\ cmd = "none"
    /\ calls < MaxCalls
    /\ cmd' = c
    /\ cstep' = "begin"
    /\ calls' = calls + 1
    /\ asked' = asked \cup {c}
    /\ UNCHANGED <<shared, device, loaded, wanted, late>>

Goto(s) ==
    /\ cstep' = s
    /\ cmd' = IF s = "none" THEN "none" ELSE cmd
    /\ UNCHANGED <<calls, asked, late>>

\* A command that has found the detector exposing, and has not yet done all it
\* decided to do about it.
Deciding == cstep \in {"coadd_hard", "coadd_seq", "coadd_flag", "sur_hard",
                       "sur_flag"}

Raise(f) ==
    /\ flags' = flags \cup f
    /\ UNCHANGED <<detstatus, exposure_time, exp_prog, images, fm>>

\* stop_exp(), also called by stop_all() while exposing: asks the controller
\* for an exposure of what has elapsed plus StopTime.
StopExp(next) ==
    LET stop_time == exp_prog + StopTime IN
    \/ /\ stop_time < exposure_time
       /\ exposure_time' = stop_time
       /\ Goto("exp_flag")
       /\ UNCHANGED <<detstatus, flags, exp_prog, images, fm>>
    \/ /\ stop_time >= exposure_time \/ FALSE \in DriverOutcomes
       /\ Goto(next)
       /\ UNCHANGED shared

AfterStopExp == IF cmd = "stop_all" THEN "seq" ELSE "none"

StopExpBegin ==
    /\ cstep = "begin" /\ cmd = "stop_exp"
    /\ StopExp("none")
    /\ UNCHANGED <<device, loaded, wanted>>

StopAllBegin ==
    /\ cstep = "begin" /\ cmd = "stop_all"
    /\ IF Exposing
       THEN StopExp("seq")
       ELSE Goto("try_next") /\ UNCHANGED shared
    /\ UNCHANGED <<device, loaded, wanted>>

StopExpFlag ==
    /\ cstep = "exp_flag"
    /\ Raise({"stop_exposure"})
    /\ Goto(AfterStopExp)
    /\ UNCHANGED <<device, loaded, wanted>>

TryStopNext ==
    /\ cstep = "try_next"
    /\ Raise({"try_stop_next_exp"})
    /\ Goto("seq")
    /\ UNCHANGED <<device, loaded, wanted>>

StopSeq ==
    /\ cstep = "seq" \/ (cstep = "begin" /\ cmd = "stop_seq")
    /\ Raise({"stop_sequence"})
    /\ Goto(IF cmd = "stop_all" THEN "coadd" ELSE "none")
    /\ UNCHANGED <<device, loaded, wanted>>

\* stop_coadd(): what it read in detstatus decides, also when the controller has
\* gone on since.
StopCoadd ==
    /\ cstep = "coadd" \/ (cstep = "begin" /\ cmd = "stop_coadd")
    /\ Goto(IF Exposing THEN "coadd_hard" ELSE "coadd_try")
    /\ UNCHANGED <<shared, device, loaded, wanted>>

\* stop_hard_coadd()
StopHardCoadd ==
    /\ cstep = "coadd_hard"
    /\ \/ TellCoadds(1) /\ Goto("coadd_seq")
       \/ FALSE \in DriverOutcomes /\ Goto("coadd_try") /\ UNCHANGED told
    /\ UNCHANGED <<shared, ctl, elapsed, due, at, loaded, wanted>>

AfterStopCoadd == IF cmd = "stop_all" THEN "sur" ELSE "none"

StopCoaddFlags ==
    /\ \/ cstep = "coadd_seq" /\ Raise({"stop_sequence"}) /\ Goto("coadd_flag")
       \/ cstep = "coadd_flag" /\ Raise({"stop_coadding"}) /\ Goto(AfterStopCoadd)
       \/ cstep = "coadd_try" /\ Raise({"try_stop_coadding"}) /\ Goto(AfterStopCoadd)
    /\ UNCHANGED <<device, loaded, wanted>>

StopSampleUpTheRamp ==
    /\ cstep = "sur" \/ (cstep = "begin" /\ cmd = "stop_sur")
    /\ Goto(IF Exposing THEN "sur_hard" ELSE "sur_try")
    /\ UNCHANGED <<shared, device, loaded, wanted>>

\* stop_hard_sur()
StopHardSur ==
    /\ cstep = "sur_hard"
    /\ \/ TellSur(0) /\ Goto("sur_flag")
       \/ FALSE \in DriverOutcomes /\ Goto("sur_try") /\ UNCHANGED told
    /\ UNCHANGED <<shared, ctl, elapsed, due, at, loaded, wanted>>

StopSurFlags ==
    /\ \/ cstep = "sur_flag" /\ Raise({"stop_sur"})
       \/ cstep = "sur_try" /\ Raise({"try_stop_sur"})
    /\ Goto("none")
    /\ UNCHANGED <<device, loaded, wanted>>

\* abort_all(): the status of the controller, then that of the library.
AbortAllBegin ==
    /\ cstep = "begin" /\ cmd = "abort_all"
    /\ Goto(IF ctl \in {"readout", "rdaborted"} THEN "abort_again" ELSE "abort_test")
    /\ UNCHANGED <<shared, device, loaded, wanted>>

AbortAllTest ==
    /\ cstep = "abort_test"
    /\ IF Exposing
       THEN ctl' = AfterAEX /\ Goto("discard")
       ELSE ctl' = ctl /\ Goto("abort_again")
    /\ UNCHANGED <<shared, elapsed, due, told, at, loaded, wanted>>

\* The statements after the unbraced test of ST_PAUSED run whatever the status is.
AbortAllAgain ==
    /\ cstep = "abort_again"
    /\ ctl' = AfterAEX
    /\ Goto("discard_again")
    /\ UNCHANGED <<shared, elapsed, due, told, at, loaded, wanted>>

AbortAllDiscard ==
    /\ \/ cstep = "discard" /\ Goto("stop")
       \/ cstep = "discard_again" /\ Goto("stop_again")
       \/ cstep = "discard_read" /\ Goto("stop_read")
    /\ Raise({"discard_coadd"})
    /\ UNCHANGED <<device, loaded, wanted>>

AbortAllStop ==
    /\ \/ cstep = "stop" /\ Goto("abort_again")
       \/ cstep = "stop_again" /\ Goto("abort_readout")
       \/ cstep = "stop_read" /\ Goto("none")
    /\ Raise(SequenceStopped)
    /\ UNCHANGED <<device, loaded, wanted>>

AbortAllReadout ==
    /\ cstep = "abort_readout"
    /\ IF detstatus = "READ"
       THEN ctl' = AfterAEX /\ Goto("abort_read")
       ELSE ctl' = ctl /\ Goto("none")
    /\ UNCHANGED <<shared, elapsed, due, told, at, loaded, wanted>>

AbortAllRead ==
    /\ cstep = "abort_read"
    /\ \/ ctl' = AfterAbortRead(ctl) /\ Goto(IF SupportAbort THEN "discard_read" ELSE "none")
       \/ FALSE \in DriverOutcomes /\ ctl' = ctl /\ Goto("none")
    /\ UNCHANGED <<shared, elapsed, due, told, at, loaded, wanted>>

AbortCoadd ==
    /\ cstep = "begin" /\ cmd = "abort_coadd"
    /\ Raise({"discard_coadd"})
    /\ Goto("coadd_read")
    /\ UNCHANGED <<device, loaded, wanted>>

AbortCoaddRead ==
    /\ cstep = "coadd_read"
    /\ ctl' = AfterAbortRead(ctl)
    /\ Goto("none")
    /\ UNCHANGED <<shared, elapsed, due, told, at, loaded, wanted>>

PauseExposure ==
    /\ cstep = "begin" /\ cmd = "pause"
    /\ \E ok \in DriverOutcomes :
          /\ ctl' = IF ok /\ ctl = "expo" THEN "paused" ELSE ctl
          /\ Goto(IF ok THEN "status" ELSE "none")
    /\ UNCHANGED <<shared, elapsed, due, told, at, loaded, wanted>>

ResumeExposure ==
    /\ cstep = "begin" /\ cmd = "resume"
    /\ \E ok \in DriverOutcomes :
          /\ ctl' = IF ok /\ ctl = "paused" THEN "expo" ELSE ctl
          /\ Goto(IF ok THEN "status" ELSE "none")
    /\ UNCHANGED <<shared, elapsed, due, told, at, loaded, wanted>>

SetStatus ==
    /\ cstep = "status"
    /\ detstatus' = IF cmd = "pause" THEN "PAUSED" ELSE "EXPO"
    /\ Goto("none")
    /\ UNCHANGED <<flags, exposure_time, exp_prog, images, fm, device, loaded,
                   wanted>>

\* set_nimages(): a load, an addition and a store of npics, which the
\* acquisition thread decrements meanwhile; onpics is never updated.
SetNImagesLoad ==
    /\ cstep = "begin" /\ cmd = "set_nimages"
    /\ loaded' = npics
    /\ Goto("store")
    /\ UNCHANGED <<shared, device, wanted>>

Resized(n) == (loaded + (n - onpics)) % UMod

SetNImagesStore ==
    /\ cstep = "store"
    /\ \E n \in Resizes :
          /\ npics' = Resized(n)
          /\ wanted' = n
    /\ Goto("none")
    /\ UNCHANGED <<detstatus, flags, exposure_time, exp_prog, onpics, images_done,
                   images_started, images_discarded, fm, device, loaded>>

CommandStep ==
    \/ StopExpBegin \/ StopAllBegin \/ StopExpFlag \/ TryStopNext \/ StopSeq
    \/ StopCoadd \/ StopHardCoadd \/ StopCoaddFlags
    \/ StopSampleUpTheRamp \/ StopHardSur \/ StopSurFlags
    \/ AbortAllBegin \/ AbortAllTest \/ AbortAllAgain
    \/ AbortAllDiscard \/ AbortAllStop \/ AbortAllReadout \/ AbortAllRead
    \/ AbortCoadd \/ AbortCoaddRead
    \/ PauseExposure \/ ResumeExposure \/ SetStatus
    \/ SetNImagesLoad \/ SetNImagesStore
=============================================================================

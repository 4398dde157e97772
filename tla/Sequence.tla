------------------------------ MODULE Sequence ------------------------------
(***************************************************************************)
(* What expose() promises the exposure loop that calls it.  A sequence     *)
(* takes the images it was asked for, one after the other; each is done    *)
(* or was discarded with its coadds, and counted once.  Beside that, the   *)
(* readouts that were spoiled are counted: one that was aborted may be      *)
(* done all the same, or be taken again.  The sequence ends early only if  *)
(* it was cut, is reported as aborted only if it was, and once it has      *)
(* ended nothing is counted any more.  Of an endless sequence, and of one   *)
(* whose number of images is changed meanwhile, the counts promise nothing. *)
(***************************************************************************)
EXTENDS Integers

CONSTANTS
    Requests,     \* what may be asked of a sequence
    Cuts,         \* the requests that may end it early
    Aborts,       \* the requests that may discard an image
    Changes,      \* the requests that change the number of images
    Failures,     \* results that say that the hardware failed
    Numbers,      \* the numbers of images there can be
    Modulus,      \* spoiled readouts are counted modulo Modulus
    Endless       \* sequences go on until they are cut

VARIABLES
    phase,        \* no sequence, one running, one whose result is still to be read
    wanted,       \* images asked for
    done, discarded,
    spoiled,      \* readouts that failed or were aborted
    requests,     \* what was asked of it
    result

vars == <<phase, wanted, done, discarded, spoiled, requests, result>>

Asked(kind) == requests \cap kind # {}
Accounted == done + discarded
Spoil == spoiled' = (spoiled + 1) % Modulus
Open == Endless \/ Asked(Changes)

Init ==
    /\ phase = "none" /\ wanted = 0 /\ done = 0 /\ discarded = 0 /\ spoiled = 0
    /\ requests = {} /\ result = "OK"

\* A request that is being served when the sequence begins is asked of it, too.
Begin ==
    /\ phase = "none"
    /\ phase' = "running"
    /\ wanted' \in Numbers
    /\ done' = 0 /\ discarded' = 0 /\ spoiled' = 0
    /\ requests' \in SUBSET Requests
    /\ UNCHANGED result

Ask ==
    /\ \E r \in Requests : requests' = requests \cup {r}
    /\ UNCHANGED <<phase, wanted, done, discarded, spoiled, result>>

Change ==
    /\ Asked(Changes)
    /\ wanted' \in Numbers
    /\ UNCHANGED <<phase, done, discarded, spoiled, requests, result>>

ImageDone ==
    /\ IF Open THEN done' \in Numbers
       ELSE Accounted < wanted /\ done' = done + 1
    /\ Spoil \/ UNCHANGED spoiled
    /\ UNCHANGED discarded

ImageDiscarded ==
    /\ Asked(Aborts)
    /\ IF Open THEN discarded' \in Numbers
       ELSE Accounted < wanted /\ discarded' = discarded + 1
    /\ Spoil
    /\ UNCHANGED done

\* An aborted readout is taken again.
TakenAgain ==
    /\ Spoil
    /\ UNCHANGED <<done, discarded>>

Count ==
    /\ phase = "running"
    /\ ImageDone \/ ImageDiscarded \/ TakenAgain
    /\ UNCHANGED <<phase, wanted, requests, result>>

Return ==
    /\ phase = "running"
    /\ \/ /\ result' = "OK"
          /\ Asked(Cuts \cup Changes) \/ Accounted = wanted
          /\ UNCHANGED spoiled
       \/ /\ result' = "ECONNABORTED"
          /\ Asked(Aborts)
          /\ Spoil \/ UNCHANGED spoiled
       \/ /\ result' \in Failures
          /\ Spoil \/ UNCHANGED spoiled
    /\ phase' = "returned"
    /\ UNCHANGED <<wanted, done, discarded, requests>>

\* The exposure loop has read the result.
Close ==
    /\ phase = "returned"
    /\ phase' = "none"
    /\ UNCHANGED <<wanted, done, discarded, spoiled, requests, result>>

Next == Begin \/ Ask \/ Change \/ Count \/ Return \/ Close

Spec == Init /\ [][Next]_vars
=============================================================================

----------------------------- MODULE DhsSender -----------------------------
(***************************************************************************)
(* DRV_DHS: images are sent to the data handling system over TCP, each as  *)
(* a header and its pixels, by one caller at a time.  A connection may     *)
(* break at any time, and the library finds out only when a write fails.   *)
(* The process does not die of a broken connection (it ignores SIGPIPE).   *)
(***************************************************************************)
EXTENDS Integers, Sequences

CONSTANTS
    Size,               \* pixels of an image, in what a write() takes at least
    ntries,
    MaxImages, MaxSockets   \* bounds

ASSUME SenderAssumption ==
    Size \in Nat \ {0} /\ ntries \in Nat /\ MaxImages \in Nat /\ MaxSockets \in Nat

Free == 0
Stdin == -1
Descriptors == 0 .. MaxSockets + 1      \* 0 is the standard input of the process
Sockets == 1 .. MaxSockets

VARIABLES
    connected, sockfd,
    open,       \* what a descriptor stands for: a socket, Stdin or nothing
    sockets,    \* sockets there have been
    link,       \* of each socket: up, full (the receiver does not read), broken without
                \* being noticed, or dead
    stream,     \* of each socket: what was accepted, as runs of one image
    pc,         \* the statement DHS_SendPixelData() is at
    images,     \* images sent or being sent; the last is the current one
    nsent, errcnt,
    stat        \* what the caller was told of each image

library == <<connected, sockfd, open, sockets>>
call == <<pc, images, nsent, errcnt, stat>>
vars == <<library, link, stream, call>>

Links == {"up", "full", "broken", "dead"}
Results == {"none", "done", "error", "unsent"}
Runs == [image : 1 .. MaxImages, header : BOOLEAN, from : 0 .. Size, to : 0 .. Size]

TypeOK ==
    /\ connected \in BOOLEAN /\ sockfd \in Descriptors
    /\ open \in [Descriptors -> Sockets \cup {Free, Stdin}] /\ sockets \in 0 .. MaxSockets
    /\ link \in [Sockets -> Links]
    /\ stream \in [Sockets -> Seq(Runs)]
    /\ pc \in {"idle", "header", "data"} /\ images \in 0 .. MaxImages
    /\ nsent \in 0 .. Size /\ errcnt \in Nat
    /\ stat \in [1 .. MaxImages -> Results]

Init ==
    /\ connected = FALSE /\ sockfd = 0 /\ sockets = 0
    /\ open = [d \in Descriptors |-> IF d = 0 THEN Stdin ELSE Free]
    /\ link = [s \in Sockets |-> "dead"] /\ stream = [s \in Sockets |-> <<>>]
    /\ pc = "idle" /\ images = 0 /\ nsent = 0 /\ errcnt = 0
    /\ stat = [i \in 1 .. MaxImages |-> "none"]

-----------------------------------------------------------------------------
(* Connecting. *)

\* Mutant of Closed: the descriptor is forgotten but not closed.
Forgotten(table, d) == table

\* DHS_close() closes whatever sockfd is, the standard input when there is no connection.
Closed(table, d) == [table EXCEPT ![d] = Free]

\* The lowest descriptor that is free.
IsNext(table, d) == table[d] = Free /\ \A e \in Descriptors : table[e] = Free => d <= e

\* socket() and connect(); nobody looks whether it succeeded.
Connected(table) ==
    /\ sockets < MaxSockets
    /\ sockets' = sockets + 1 /\ connected' = TRUE
    /\ \E d \in Descriptors :
          IsNext(table, d) /\ sockfd' = d /\ open' = [table EXCEPT ![d] = sockets + 1]
    /\ \E answer \in {"up", "dead"} : link' = [link EXCEPT ![sockets + 1] = answer]

\* DHS_connect()
Connect ==
    IF connected /\ sockfd # 0 THEN UNCHANGED <<library, link>>
    ELSE Connected(IF sockfd # 0 THEN Closed(open, sockfd) ELSE open)

Open ==
    /\ pc = "idle" /\ Connect
    /\ UNCHANGED <<stream, call>>

Close ==
    /\ pc = "idle"
    /\ connected' = FALSE /\ sockfd' = 0 /\ open' = Closed(open, sockfd)
    /\ UNCHANGED <<sockets, link, stream, call>>

-----------------------------------------------------------------------------
(* Sending. *)

socket == open[sockfd]

\* istat is not initialised: when it happens to be negative nothing is sent.
SendNothing ==
    /\ pc = "idle" /\ images < MaxImages
    /\ images' = images + 1 /\ stat' = [stat EXCEPT ![images + 1] = "unsent"]
    /\ UNCHANGED <<library, link, stream, pc, nsent, errcnt>>

Send ==
    /\ pc = "idle" /\ images < MaxImages
    /\ images' = images + 1 /\ nsent' = 0 /\ errcnt' = 1
    /\ IF connected THEN UNCHANGED <<library, link>> ELSE Connect
    /\ pc' = "header"
    /\ UNCHANGED <<stream, stat>>

Accepts == link[socket] \in {"up", "broken"}
Dies == link' = [link EXCEPT ![socket] = "dead"]

\* What write() takes may be all there was room for.
Fills == link[socket] = "up" /\ link' = [link EXCEPT ![socket] = "full"]

\* A write fails only if its connection has; of the header nobody looks at the result.
SendHeader ==
    /\ pc = "header" /\ pc' = "data"
    /\ \/ /\ Accepts /\ (Fills \/ UNCHANGED link)
          /\ stream' = [stream EXCEPT ![socket] =
                Append(@, [image |-> images, header |-> TRUE, from |-> 0, to |-> 0])]
       \/ link[socket] \in {"broken", "dead"} /\ Dies /\ UNCHANGED stream
    /\ UNCHANGED <<library, images, nsent, errcnt, stat>>

\* The runs of a stream after n more pixels of the current image.
Extended(runs, n) ==
    LET last == runs[Len(runs)]
    IN  IF runs # <<>> /\ last.image = images /\ last.to = nsent
        THEN [runs EXCEPT ![Len(runs)].to = nsent + n]
        ELSE Append(runs, [image |-> images, header |-> FALSE, from |-> nsent, to |-> nsent + n])

\* Mutant of Rest: what has been sent is not taken off.
RestOfAll == 1 .. Size

\* What one write() may take.
Rest == 1 .. Size - nsent

\* Mutant of AllSent: the last write is not waited for.
NearlySent(n) == n >= Size - 1

AllSent(n) == n >= Size

WritePixels ==
    /\ pc = "data" /\ Accepts /\ (Fills \/ UNCHANGED link)
    /\ \E n \in Rest :
          /\ stream' = [stream EXCEPT ![socket] = Extended(@, n)]
          /\ nsent' = nsent + n
    /\ IF AllSent(nsent')
       THEN pc' = "idle" /\ stat' = [stat EXCEPT ![images] = "done"]
       ELSE UNCHANGED <<pc, stat>>
    /\ UNCHANGED <<library, images, errcnt>>

\* Mutant of GivesUp: one more try.
GivesUpLater(n) == n > ntries

\* Mutant of GivesUp: never.
Insists(n) == FALSE

GivesUp(n) == n >= ntries

\* The connection is closed; a new one would be given the rest of the image.  With two
\* tries there is none, since the failure counts as the second.
WriteFails ==
    /\ pc = "data" /\ link[socket] \in {"broken", "dead"}
    /\ errcnt' = errcnt + 1
    /\ IF GivesUp(errcnt')
       THEN /\ connected' = FALSE /\ sockfd' = 0 /\ open' = Closed(open, sockfd)
            /\ pc' = "idle" /\ stat' = [stat EXCEPT ![images] = "error"]
            /\ UNCHANGED <<sockets, link>>
       ELSE Connected(Closed(open, sockfd)) /\ UNCHANGED <<pc, stat>>
    /\ UNCHANGED <<stream, images, nsent>>

\* The receiver reads what has come.
Drain ==
    /\ \E s \in Sockets : link[s] = "full" /\ link' = [link EXCEPT ![s] = "up"]
    /\ UNCHANGED <<library, stream, call>>

\* The receiver goes away, or the network does.
Break ==
    /\ \E s \in Sockets : link[s] \in {"up", "full"} /\ link' = [link EXCEPT ![s] = "broken"]
    /\ UNCHANGED <<library, stream, call>>

-----------------------------------------------------------------------------
Sender == SendHeader \/ WritePixels \/ WriteFails

Next == Open \/ Close \/ SendNothing \/ Send \/ Sender \/ Drain \/ Break

Spec == Init /\ [][Next]_vars

\* A write() that can go on does: there is room for data, or the connection has failed.
\* The receiver need not read.
FairSpec == Spec /\ WF_vars(Sender)

-----------------------------------------------------------------------------
\* Whatever breaks, the receiver can read every stream: the pixels of an image follow its
\* header and are complete, except for the image a stream ends with.
StreamsReadable ==
    \A s \in Sockets : \A k \in DOMAIN stream[s] :
        LET run == stream[s][k]
        IN  run.header /\ run.from = 0 /\ (k < Len(stream[s]) => run.to = Size)

\* An image DHS_sendPixels() reports as sent was accepted as a whole once; any other
\* was not, so that it may be sent again.
SentOnce ==
    \A i \in 1 .. MaxImages :
        LET whole(s, k) ==
                LET run == stream[s][k] IN run.image = i /\ run.from = 0 /\ run.to = Size
        IN  /\ stat[i] = "done" <=> \E s \in Sockets : \E k \in DOMAIN stream[s] : whole(s, k)
            /\ \A s, t \in Sockets : \A k \in DOMAIN stream[s], l \in DOMAIN stream[t] :
                   whole(s, k) /\ whole(t, l) => s = t /\ k = l

\* There is one connection at most and sockfd is its descriptor, as long as
\* DHS_close() was not called without one.  (It then closes the standard input, the next
\* connection gets descriptor 0, which DHS_connect() takes for none.)
OneConnection ==
    open[0] = Stdin =>
        {d \in Descriptors : open[d] \in Sockets} = IF connected THEN {sockfd} ELSE {}

\* write() waits for a receiver that is connected and does not read; there is no timeout.
Blocked == pc # "idle" /\ link[socket] = "full"

\* Sending an image ends, however often the connection breaks, unless one write() waits
\* for the receiver for ever.
SendEnds == [](pc # "idle" => <>(pc = "idle" \/ []Blocked))
=============================================================================

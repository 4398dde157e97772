----------------------------- MODULE DhsProofs -----------------------------
(***************************************************************************)
(* Proofs about DhsSender, for images of any size and any number of images *)
(* and connections.                                                        *)
(***************************************************************************)
EXTENDS DhsSender, TLAPS

USE SenderAssumption DEF SenderAssumption, Links

-----------------------------------------------------------------------------
(* The inductive invariant. *)

\* A descriptor stands for one socket, and one that was connected.
SocketInv ==
    /\ connected => open[sockfd] \in 1 .. sockets
    /\ ~connected => sockfd = 0
    /\ \A d \in Descriptors : open[d] \in Sockets => open[d] <= sockets
    /\ \A d, e \in Descriptors : open[d] \in Sockets /\ open[d] = open[e] => d = e
    /\ \A s \in Sockets : s > sockets => stream[s] = <<>>

CallInv ==
    /\ pc # "idle" => connected /\ images > 0 /\ errcnt = 1 /\ stat[images] = "none"
    /\ pc = "header" => nsent = 0
    /\ pc = "data" => nsent < Size
    /\ \A i \in 1 .. MaxImages : i > images => stat[i] = "none"

IsOpen(s) == \E d \in Descriptors : open[d] = s
Growing(s) == pc = "data" /\ s = socket

\* A stream ends with the image that is being sent or with a whole one, unless it was closed.
Ends(s) ==
    LET last == stream[s][Len(stream[s])]
        current == last.image = images /\ last.to = nsent
    IN  /\ IsOpen(s) /\ stream[s] # <<>> => last.to = Size \/ (Growing(s) /\ current)
        /\ Growing(s) /\ link[s] # "dead" => stream[s] # <<>> /\ current

RunInv(s, k) ==
    LET run == stream[s][k]
    IN  /\ run.header /\ run.from = 0 /\ run.image <= images
        /\ k < Len(stream[s]) => run.to = Size
        /\ pc = "header" => run.image # images

StreamInv == \A s \in Sockets : Ends(s) /\ \A k \in DOMAIN stream[s] : RunInv(s, k)

\* No image is begun twice.
Unique ==
    \A s, t \in Sockets : \A k \in DOMAIN stream[s], l \in DOMAIN stream[t] :
        stream[s][k].image = stream[t][l].image => s = t /\ k = l

Whole(i, s, k) == stream[s][k].image = i /\ stream[s][k].to = Size

Reported ==
    \A i \in 1 .. MaxImages :
        stat[i] = "done" <=> \E s \in Sockets : \E k \in DOMAIN stream[s] : Whole(i, s, k)

Inv == TypeOK /\ SocketInv /\ CallInv /\ StreamInv /\ Unique /\ Reported

-----------------------------------------------------------------------------
(* Sequences of runs. *)

LEMMA RunTypes ==
  /\ \A r \in Runs : r.image \in 1 .. MaxImages /\ r.header \in BOOLEAN
                   /\ r.from \in 0 .. Size /\ r.to \in 0 .. Size
  /\ \A i \in 1 .. MaxImages, h \in BOOLEAN, f, t \in 0 .. Size :
        [image |-> i, header |-> h, from |-> f, to |-> t] \in Runs
  /\ \A r \in Runs, t \in 0 .. Size : [r EXCEPT !.to = t] \in Runs
  BY DEF Runs

LEMMA Streams ==
  ASSUME TypeOK, NEW s \in Sockets
  PROVE  /\ stream[s] \in Seq(Runs) /\ Len(stream[s]) \in Nat
         /\ DOMAIN stream[s] = 1 .. Len(stream[s])
         /\ \A k \in DOMAIN stream[s] : stream[s][k] \in Runs
         /\ stream[s] # <<>> => Len(stream[s]) \in DOMAIN stream[s]
  BY DEF TypeOK

Grow(runs, t) == [runs EXCEPT ![Len(runs)].to = t]

\* The last run of a stream grows.
LEMMA Grown ==
  ASSUME NEW r \in Seq(Runs), r # <<>>, NEW t \in 0 .. Size
  PROVE  LET g == Grow(r, t) IN
         /\ g \in Seq(Runs) /\ Len(g) = Len(r) /\ DOMAIN g = DOMAIN r
         /\ \A k \in DOMAIN r : /\ g[k].image = r[k].image /\ g[k].header = r[k].header
                                /\ g[k].from = r[k].from
                                /\ k # Len(r) => g[k] = r[k]
         /\ g[Len(r)].to = t
<1> DEFINE g == Grow(r, t)
<1>1. DOMAIN r = 1 .. Len(r) /\ Len(r) \in Nat /\ \A k \in 1 .. Len(r) : r[k] \in Runs
  OBVIOUS
<1>2. Len(r) \in 1 .. Len(r)
  BY <1>1
<1>3. /\ DOMAIN g = 1 .. Len(r)
      /\ \A k \in 1 .. Len(r) : g[k] = IF k = Len(r) THEN [r[k] EXCEPT !.to = t] ELSE r[k]
  BY <1>1, <1>2 DEF Grow
<1>4. \A k \in 1 .. Len(r) : g[k] \in Runs
  BY <1>1, <1>3, RunTypes
<1>5. g = [k \in 1 .. Len(r) |-> g[k]]
  BY <1>1, <1>3 DEF Grow
<1> HIDE DEF g
<1>6. g \in Seq(Runs) /\ Len(g) = Len(r)
  BY <1>1, <1>3, <1>4, <1>5
<1>7. \A k \in 1 .. Len(r) : /\ g[k].image = r[k].image /\ g[k].header = r[k].header
                             /\ g[k].from = r[k].from
  BY <1>1, <1>3 DEF Runs
<1>8. g[Len(r)].to = t
  BY <1>1, <1>2, <1>3 DEF Runs
<1> QED
  BY <1>1, <1>3, <1>6, <1>7, <1>8 DEF g

LEMMA Appended ==
  ASSUME NEW r \in Seq(Runs), NEW e \in Runs, NEW g, g = Append(r, e)
  PROVE  /\ g \in Seq(Runs) /\ Len(g) = Len(r) + 1 /\ DOMAIN g = 1 .. Len(r) + 1
         /\ \A k \in 1 .. Len(r) : g[k] = r[k]
         /\ g[Len(r) + 1] = e /\ g # <<>>
  OBVIOUS

-----------------------------------------------------------------------------
(* The steps. *)

LEMMA InitInv == Init => Inv
<1> SUFFICES ASSUME Init PROVE Inv
  OBVIOUS
<1>1. TypeOK
  BY DEF Init, TypeOK, Descriptors, Sockets, Free, Stdin, Results
<1>2. SocketInv
  BY DEF Init, SocketInv, Descriptors, Sockets, Free, Stdin
<1>3. CallInv
  BY DEF Init, CallInv
<1>4. \A s \in Sockets : stream[s] = <<>> /\ DOMAIN stream[s] = {}
  BY DEF Init
<1>5. StreamInv
  BY <1>4 DEF Init, StreamInv, Ends, Growing
<1>6. Unique /\ Reported
  BY <1>4 DEF Init, Unique, Reported
<1> QED
  BY <1>1, <1>2, <1>3, <1>5, <1>6 DEF Inv

\* A new socket is the only one of its descriptor.
LEMMA ConnectedInv ==
  ASSUME Inv, NEW table, table \in {open, Closed(open, sockfd)}, Connected(table),
         UNCHANGED stream
  PROVE  /\ connected' /\ sockfd' \in Descriptors
         /\ open' \in [Descriptors -> Sockets \cup {Free, Stdin}]
         /\ sockets' \in 0 .. MaxSockets /\ sockets' = sockets + 1
         /\ link' \in [Sockets -> Links]
         /\ SocketInv'
         /\ open'[sockfd'] = sockets + 1
         /\ \A d \in Descriptors : d # sockfd' => open'[d] \in {open[d], Free}
         /\ \A s \in Sockets : s # sockets + 1 => link'[s] = link[s]
<1> USE DEF Inv
<1>1. PICK d \in Descriptors : /\ IsNext(table, d) /\ sockfd' = d
                              /\ open' = [table EXCEPT ![d] = sockets + 1]
  BY DEF Connected
<1>2. table \in [Descriptors -> Sockets \cup {Free, Stdin}]
  BY DEF Closed, TypeOK
<1>3. \A e \in Descriptors : table[e] \in {open[e], Free}
  BY DEF Closed, TypeOK
<1>4. sockets + 1 \in Sockets /\ sockets' = sockets + 1 /\ connected' /\ sockets \in Nat
  BY DEF Connected, TypeOK, Sockets
<1>5. open' \in [Descriptors -> Sockets \cup {Free, Stdin}]
  BY <1>1, <1>2, <1>4
<1>6. open'[d] = sockets + 1 /\ \A e \in Descriptors : e # d => open'[e] = table[e]
  BY <1>1, <1>2
<1>7. link' \in [Sockets -> Links]
      /\ \A s \in Sockets : s # sockets + 1 => link'[s] = link[s]
  BY <1>4 DEF Connected, TypeOK
<1>8. \A e \in Descriptors : e # d /\ open'[e] \in Sockets =>
        open'[e] = open[e] /\ open[e] <= sockets
  BY <1>3, <1>6 DEF SocketInv, Free, Sockets
<1>9. \A e \in Descriptors : open'[e] \in Sockets => open'[e] <= sockets'
  BY <1>4, <1>6, <1>8 DEF Sockets
<1>10. \A e, f \in Descriptors : open'[e] \in Sockets /\ open'[e] = open'[f] => e = f
  <2> SUFFICES ASSUME NEW e \in Descriptors, NEW f \in Descriptors, open'[e] \in Sockets,
                      open'[e] = open'[f]
               PROVE  e = f
    OBVIOUS
  <2>1. CASE e = d
    BY <2>1, <1>4, <1>6, <1>8 DEF Sockets
  <2>2. CASE f = d
    BY <2>2, <1>4, <1>6, <1>8 DEF Sockets
  <2>3. CASE e # d /\ f # d
    BY <2>3, <1>8 DEF SocketInv
  <2> QED
    BY <2>1, <2>2, <2>3
<1>11. SocketInv'
  BY <1>1, <1>4, <1>6, <1>9, <1>10 DEF SocketInv, Sockets
<1> QED
  BY <1>1, <1>3, <1>4, <1>5, <1>6, <1>7, <1>11 DEF Sockets

\* What connecting between two images, or not having to, leaves.
LEMMA ConnectInv ==
  ASSUME Inv, pc = "idle", Connect \/ UNCHANGED <<library, link>>, UNCHANGED stream
  PROVE  /\ connected' \in BOOLEAN /\ sockfd' \in Descriptors
         /\ open' \in [Descriptors -> Sockets \cup {Free, Stdin}]
         /\ sockets' \in 0 .. MaxSockets
         /\ link' \in [Sockets -> Links]
         /\ SocketInv'
         /\ \A s \in Sockets : IsOpen(s)' /\ stream[s] # <<>> => stream[s][Len(stream[s])].to = Size
         /\ ~connected /\ Connect => connected'
<1> USE DEF Inv
<1>1. \A s \in Sockets : IsOpen(s) /\ stream[s] # <<>> => stream[s][Len(stream[s])].to = Size
  BY DEF StreamInv, Ends, Growing
<1>2. CASE UNCHANGED <<library, link>>
  <2>1. SocketInv'
    BY <1>2 DEF SocketInv, library
  <2>2. \A s \in Sockets : IsOpen(s)' => IsOpen(s)
    BY <1>2 DEF IsOpen, library
  <2> QED
    BY <1>1, <1>2, <2>1, <2>2 DEF TypeOK, library, Connect, Connected
<1>3. CASE Connect /\ ~UNCHANGED <<library, link>>
  <2>1. PICK table \in {open, Closed(open, sockfd)} : Connected(table)
    BY <1>3 DEF Connect
  <2>2. /\ connected' /\ sockfd' \in Descriptors
        /\ open' \in [Descriptors -> Sockets \cup {Free, Stdin}]
        /\ sockets' \in 0 .. MaxSockets
        /\ link' \in [Sockets -> Links]
        /\ SocketInv'
        /\ open'[sockfd'] = sockets + 1
        /\ \A d \in Descriptors : d # sockfd' => open'[d] \in {open[d], Free}
    BY <2>1, ConnectedInv
  <2>3. \A s \in Sockets : IsOpen(s)' => IsOpen(s) \/ s = sockets + 1
    BY <2>2 DEF IsOpen, Free, Sockets
  <2>4. \A s \in Sockets : s = sockets + 1 => stream[s] = <<>>
    BY DEF SocketInv, TypeOK, Sockets
  <2> QED
    BY <1>1, <2>2, <2>3, <2>4
<1> QED
  BY <1>2, <1>3

\* Nothing that the streams depend on has changed.
LEMMA StreamsKept ==
  ASSUME Inv, UNCHANGED <<stream, stat>>, images' \in Nat, images' >= images,
         pc' = "header" => images' > images, pc' # "data",
         \A s \in Sockets : IsOpen(s)' /\ stream[s] # <<>> => stream[s][Len(stream[s])].to = Size
  PROVE  StreamInv' /\ Unique' /\ Reported'
<1> USE DEF Inv
<1>1. \A s \in Sockets : Ends(s)'
  BY DEF Ends, Growing
<1>2. \A s \in Sockets : \A k \in DOMAIN stream[s] : RunInv(s, k)'
  <2> SUFFICES ASSUME NEW s \in Sockets, NEW k \in DOMAIN stream[s] PROVE RunInv(s, k)'
    OBVIOUS
  <2>1. RunInv(s, k) /\ stream[s][k].image \in Nat /\ images \in Nat
    BY Streams, RunTypes DEF StreamInv, TypeOK
  <2> QED
    BY <2>1 DEF RunInv
<1>3. Unique' /\ Reported'
  BY DEF Unique, Reported, Whole
<1> QED
  BY <1>1, <1>2, <1>3 DEF StreamInv

LEMMA OpenInv == ASSUME Inv, Open PROVE Inv'
<1> USE DEF Inv
<1>1. pc = "idle" /\ Connect /\ UNCHANGED <<stream, call>>
  BY DEF Open
<1>2. TypeOK'
  BY <1>1, ConnectInv DEF TypeOK, call
<1>3. SocketInv' /\ CallInv'
  BY <1>1, ConnectInv DEF CallInv, call
<1>4. StreamInv' /\ Unique' /\ Reported'
  BY <1>1, ConnectInv, StreamsKept DEF TypeOK, call
<1> QED
  BY <1>2, <1>3, <1>4

\* A connection that is closed is one socket less.
LEMMA ClosedInv ==
  ASSUME Inv, connected' = FALSE, sockfd' = 0, open' = Closed(open, sockfd), UNCHANGED sockets,
         \A s \in Sockets : s > sockets => stream'[s] = <<>>
  PROVE  /\ open' \in [Descriptors -> Sockets \cup {Free, Stdin}] /\ SocketInv'
         /\ \A s \in Sockets : IsOpen(s)' => IsOpen(s) /\ (connected => s # socket)
<1> USE DEF Inv
<1>1. /\ open' \in [Descriptors -> Sockets \cup {Free, Stdin}]
      /\ open'[sockfd] = Free /\ \A d \in Descriptors : d # sockfd => open'[d] = open[d]
  BY DEF Closed, TypeOK
<1>2. \A d \in Descriptors : open'[d] \in Sockets => open'[d] = open[d] /\ d # sockfd
  BY <1>1 DEF Free, Sockets
<1>3. SocketInv'
  BY <1>2 DEF SocketInv
<1>4. \A s \in Sockets : IsOpen(s)' => IsOpen(s)
  BY <1>2 DEF IsOpen
<1>5. ASSUME NEW s \in Sockets, IsOpen(s)', connected PROVE s # socket
  BY <1>2, <1>5 DEF IsOpen, socket, SocketInv, TypeOK
<1> QED
  BY <1>1, <1>3, <1>4, <1>5

LEMMA CloseInv == ASSUME Inv, Close PROVE Inv'
<1> USE DEF Inv
<1>1. /\ pc = "idle" /\ connected' = FALSE /\ sockfd' = 0 /\ open' = Closed(open, sockfd)
      /\ UNCHANGED <<sockets, link, stream, call>>
  BY DEF Close
<1>2. /\ open' \in [Descriptors -> Sockets \cup {Free, Stdin}] /\ SocketInv'
      /\ \A s \in Sockets : IsOpen(s)' => IsOpen(s)
  BY <1>1, ClosedInv DEF SocketInv
<1>8. connected' \in BOOLEAN
  BY <1>1
<1>9. sockfd' \in Descriptors
  BY <1>1 DEF Descriptors
<1>6. TypeOK'
  BY <1>1, <1>2, <1>8, <1>9 DEF TypeOK, call
<1>7. CallInv'
  BY <1>1 DEF CallInv, call
<1>3. TypeOK' /\ CallInv'
  BY <1>6, <1>7
<1>4. \A s \in Sockets : IsOpen(s)' /\ stream[s] # <<>> => stream[s][Len(stream[s])].to = Size
  BY <1>1, <1>2 DEF StreamInv, Ends, Growing
<1>5. StreamInv' /\ Unique' /\ Reported'
  BY <1>1, <1>4, StreamsKept DEF TypeOK, call
<1> QED
  BY <1>2, <1>3, <1>5

LEMMA SendNothingInv == ASSUME Inv, SendNothing PROVE Inv'
<1> USE DEF Inv
<1>1. /\ pc = "idle" /\ images < MaxImages /\ images' = images + 1
      /\ stat' = [stat EXCEPT ![images + 1] = "unsent"]
      /\ UNCHANGED <<library, link, stream, pc, nsent, errcnt>>
  BY DEF SendNothing
<1>2. TypeOK' /\ SocketInv'
  BY <1>1 DEF TypeOK, SocketInv, library, Results
<1>3. CallInv'
  BY <1>1 DEF CallInv, TypeOK
<1>4. \A s \in Sockets : \A k \in DOMAIN stream[s] :
        RunInv(s, k) /\ stream[s][k].image \in Nat /\ images \in Nat
  BY Streams, RunTypes DEF StreamInv, TypeOK
<1>5. \A s \in Sockets : Ends(s)'
  BY <1>1 DEF StreamInv, Ends, IsOpen, Growing, library
<1>6. StreamInv' /\ Unique'
  BY <1>1, <1>4, <1>5 DEF StreamInv, RunInv, Unique
<1>7. Reported'
  <2> SUFFICES ASSUME NEW i \in 1 .. MaxImages
               PROVE  stat'[i] = "done"
                        <=> \E s \in Sockets : \E k \in DOMAIN stream[s] : Whole(i, s, k)
    BY <1>1 DEF Reported, Whole
  <2>1. CASE i = images + 1
    BY <2>1, <1>1, <1>4 DEF RunInv, Whole, TypeOK
  <2>2. CASE i # images + 1
    BY <2>2, <1>1 DEF Reported, TypeOK
  <2> QED
    BY <2>1, <2>2
<1> QED
  BY <1>2, <1>3, <1>6, <1>7

LEMMA SendInv == ASSUME Inv, Send PROVE Inv'
<1> USE DEF Inv
<1>1. /\ pc = "idle" /\ images < MaxImages /\ images' = images + 1 /\ nsent' = 0 /\ errcnt' = 1
      /\ pc' = "header" /\ UNCHANGED <<stream, stat>>
      /\ IF connected THEN UNCHANGED <<library, link>> ELSE Connect
  BY DEF Send
<1>2. connected'
  BY <1>1, ConnectInv DEF library
<1>3. TypeOK'
  BY <1>1, ConnectInv DEF TypeOK
<1>4. SocketInv' /\ CallInv'
  BY <1>1, <1>2, ConnectInv DEF CallInv, TypeOK
<1>5. StreamInv' /\ Unique' /\ Reported'
  BY <1>1, ConnectInv, StreamsKept DEF TypeOK
<1> QED
  BY <1>3, <1>4, <1>5

\* What the invariant says of the connection an image is sent over.
LEMMA SocketIsOpen ==
  ASSUME Inv, pc # "idle"
  PROVE  /\ connected /\ socket \in Sockets /\ socket <= sockets /\ IsOpen(socket)
         /\ images \in 1 .. MaxImages
  BY DEF Inv, CallInv, SocketInv, IsOpen, TypeOK, Sockets, socket

LEMMA LinkKept ==
  ASSUME TypeOK, Fills \/ UNCHANGED link
  PROVE  /\ link' \in [Sockets -> Links]
         /\ \A s \in Sockets : link'[s] # "dead" => link[s] # "dead"
  BY DEF TypeOK, Fills

LEMMA SendHeaderInv == ASSUME Inv, SendHeader PROVE Inv'
<1> USE DEF Inv
<1>1. pc = "header" /\ pc' = "data" /\ UNCHANGED <<library, images, nsent, errcnt, stat>>
  BY DEF SendHeader
<1>2. socket' = socket /\ socket \in Sockets /\ images \in 1 .. MaxImages
      /\ socket <= sockets /\ \A s \in Sockets : IsOpen(s)' <=> IsOpen(s)
  BY <1>1, SocketIsOpen DEF socket, library, IsOpen
<1>3. CallInv'
  BY <1>1 DEF CallInv, library
<1>4. CASE Accepts /\ (Fills \/ UNCHANGED link)
                   /\ stream' = [stream EXCEPT ![socket] =
                         Append(@, [image |-> images, header |-> TRUE, from |-> 0, to |-> 0])]
  <2> DEFINE e == [image |-> images, header |-> TRUE, from |-> 0, to |-> 0]
             r == stream[socket]
  <2>1. e \in Runs
    BY <1>2 DEF Runs
  <2>2. r \in Seq(Runs) /\ Len(r) \in Nat /\ DOMAIN r = 1 .. Len(r)
    BY <1>2, Streams
  <2>3. stream'[socket] = Append(r, e) /\ \A s \in Sockets : s # socket => stream'[s] = stream[s]
    BY <1>2, <1>4 DEF TypeOK
  <2> HIDE DEF e, r
  <2>4. /\ stream'[socket] \in Seq(Runs) /\ Len(stream'[socket]) = Len(r) + 1
        /\ DOMAIN stream'[socket] = 1 .. Len(r) + 1
        /\ \A k \in 1 .. Len(r) : stream'[socket][k] = r[k]
        /\ stream'[socket][Len(r) + 1] = e /\ stream'[socket] # <<>>
    BY <2>1, <2>2, <2>3, Appended
  <2>5. stream' \in [Sockets -> Seq(Runs)]
    BY <1>4, <2>3, <2>4 DEF TypeOK
  <2>6. TypeOK'
    BY <1>1, <1>4, <2>5, LinkKept DEF TypeOK, library
  <2>7. SocketInv'
    <3>1. UNCHANGED <<open, connected, sockfd, sockets>>
      BY <1>1 DEF library
    <3>2. \A s \in Sockets : s > sockets => s # socket /\ stream'[s] = stream[s]
      BY <1>2, <2>3 DEF TypeOK, Sockets
    <3>3. SocketInv
      OBVIOUS
    <3> QED
      BY <3>1, <3>2, <3>3 DEF SocketInv
  <2>8. e.image = images /\ e.header /\ e.from = 0 /\ e.to = 0
    BY DEF e
  <2>9. \A s \in Sockets : \A k \in DOMAIN stream[s] :
          RunInv(s, k) /\ stream[s][k].image # images
    BY <1>1 DEF StreamInv, RunInv
  <2>10. \A s \in Sockets : Ends(s)'
    <3> SUFFICES ASSUME NEW s \in Sockets PROVE Ends(s)'
      OBVIOUS
    <3>1. CASE s = socket
      <4>1. stream'[s][Len(stream'[s])] = e /\ nsent' = 0 /\ images' = images
        BY <3>1, <1>1, <2>4 DEF CallInv
      <4> QED
        BY <3>1, <4>1, <1>1, <1>2, <2>4, <2>8 DEF Ends, Growing
    <3>2. CASE s # socket
      BY <3>2, <1>1, <1>2, <2>3 DEF StreamInv, Ends, Growing
    <3> QED
      BY <3>1, <3>2
  <2>11. r # <<>> => r[Len(r)].to = Size /\ Len(r) \in DOMAIN r
    BY <1>1, <1>2, <2>2, SocketIsOpen DEF StreamInv, Ends, Growing, r
  <2>12. \A s \in Sockets : \A k \in DOMAIN stream'[s] : RunInv(s, k)'
    <3> SUFFICES ASSUME NEW s \in Sockets, NEW k \in DOMAIN stream'[s] PROVE RunInv(s, k)'
      OBVIOUS
    <3>1. CASE s # socket
      BY <3>1, <1>1, <2>3, <2>9 DEF RunInv
    <3>2. CASE s = socket /\ k = Len(r) + 1
      BY <3>2, <1>1, <1>2, <2>4, <2>8 DEF RunInv
    <3>3. CASE s = socket /\ k \in 1 .. Len(r)
      <4>1. RunInv(s, k) /\ stream'[s][k] = stream[s][k]
        BY <3>3, <2>2, <2>4, <2>9 DEF r
      <4>2. k = Len(r) => stream[s][k].to = Size
        BY <3>3, <2>2, <2>11 DEF r
      <4> QED
        BY <3>3, <4>1, <4>2, <1>1, <2>2, <2>4 DEF RunInv, r
    <3> QED
      BY <3>1, <3>2, <3>3, <2>2, <2>4
  <2>13. Unique'
    <3> SUFFICES ASSUME NEW s \in Sockets, NEW t \in Sockets,
                        NEW k \in DOMAIN stream'[s], NEW l \in DOMAIN stream'[t],
                        stream'[s][k].image = stream'[t][l].image
                 PROVE  s = t /\ k = l
      BY DEF Unique
    <3>1. ASSUME NEW u \in Sockets, NEW m \in DOMAIN stream'[u]
          PROVE  \/ u = socket /\ m = Len(r) + 1 /\ stream'[u][m].image = images
                 \/ /\ m \in DOMAIN stream[u] /\ stream'[u][m] = stream[u][m]
                    /\ stream'[u][m].image # images
      <4>1. CASE u # socket
        BY <4>1, <2>3, <2>9
      <4>2. CASE u = socket /\ m = Len(r) + 1
        BY <4>2, <2>4, <2>8
      <4>3. CASE u = socket /\ m \in 1 .. Len(r)
        <5>1. m \in DOMAIN stream[u] /\ stream'[u][m] = stream[u][m]
          BY <4>3, <2>2, <2>4 DEF r
        <5> QED
          BY <5>1, <2>9
      <4>4. u = socket => m \in 1 .. Len(r) \/ m = Len(r) + 1
        BY <2>2, <2>4
      <4> QED
        BY <4>1, <4>2, <4>3, <4>4
    <3> QED
      BY <3>1 DEF Unique
  <2>14. Reported'
    <3> SUFFICES ASSUME NEW i \in 1 .. MaxImages
                 PROVE  (\E s \in Sockets : \E k \in DOMAIN stream[s] : Whole(i, s, k))
                          <=> \E s \in Sockets : \E k \in DOMAIN stream'[s] : Whole(i, s, k)'
      BY <1>1 DEF Reported
    <3>1. ASSUME NEW s \in Sockets, NEW k \in DOMAIN stream[s], Whole(i, s, k)
          PROVE  k \in DOMAIN stream'[s] /\ Whole(i, s, k)'
      <4>1. CASE s # socket
        BY <3>1, <4>1, <2>3 DEF Whole
      <4>2. CASE s = socket
        BY <3>1, <4>2, <2>2, <2>4 DEF Whole, r
      <4> QED
        BY <4>1, <4>2
    <3>2. ASSUME NEW s \in Sockets, NEW k \in DOMAIN stream'[s], Whole(i, s, k)'
          PROVE  k \in DOMAIN stream[s] /\ Whole(i, s, k)
      BY <3>2, <2>2, <2>3, <2>4, <2>8 DEF Whole, r
    <3> QED
      BY <3>1, <3>2
  <2> QED
    BY <1>3, <2>6, <2>7, <2>10, <2>12, <2>13, <2>14 DEF StreamInv
<1>5. CASE link[socket] \in {"broken", "dead"} /\ Dies /\ UNCHANGED stream
  <2>1. TypeOK' /\ SocketInv' /\ link'[socket] = "dead"
    BY <1>1, <1>2, <1>5 DEF TypeOK, SocketInv, library, Dies
  <2>2. \A s \in Sockets : Ends(s)'
    BY <1>1, <1>2, <1>5, <2>1 DEF StreamInv, Ends, Growing
  <2>3. StreamInv' /\ Unique' /\ Reported'
    BY <1>1, <1>5, <2>2 DEF StreamInv, RunInv, Unique, Reported, Whole
  <2> QED
    BY <1>3, <2>1, <2>3
<1> QED
  BY <1>4, <1>5 DEF SendHeader

LEMMA WritePixelsInv == ASSUME Inv, WritePixels PROVE Inv'
<1> USE DEF Inv
<1> DEFINE r == stream[socket]
           g == stream'[socket]
<1>1. /\ pc = "data" /\ Accepts /\ UNCHANGED <<library, images, errcnt>>
      /\ IF AllSent(nsent')
         THEN pc' = "idle" /\ stat' = [stat EXCEPT ![images] = "done"]
         ELSE UNCHANGED <<pc, stat>>
  BY DEF WritePixels
<1>19. /\ link' \in [Sockets -> Links]
       /\ \A s \in Sockets : link'[s] # "dead" => link[s] # "dead"
  BY LinkKept DEF WritePixels
<1>2. socket' = socket /\ socket \in Sockets /\ images \in 1 .. MaxImages
      /\ socket <= sockets /\ \A s \in Sockets : IsOpen(s)' <=> IsOpen(s)
  BY <1>1, SocketIsOpen DEF socket, library, IsOpen
<1>3. r \in Seq(Runs) /\ Len(r) \in Nat /\ DOMAIN r = 1 .. Len(r)
  BY <1>2, Streams
<1>4. r # <<>> /\ r[Len(r)].image = images /\ r[Len(r)].to = nsent /\ Len(r) \in DOMAIN r
  BY <1>1, <1>2, <1>3 DEF StreamInv, Ends, Growing, Accepts
<1>5. PICK n \in Rest : stream' = [stream EXCEPT ![socket] = Extended(@, n)] /\ nsent' = nsent + n
  BY DEF WritePixels
<1>6. /\ nsent' \in 1 .. Size /\ nsent' \in 0 .. Size /\ nsent \in 0 .. Size
      /\ nsent' = nsent + n
  BY <1>5 DEF Rest, TypeOK
<1>7. g = Grow(r, nsent') /\ \A s \in Sockets : s # socket => stream'[s] = stream[s]
  BY <1>2, <1>4, <1>5, <1>6 DEF TypeOK, Extended, Grow
<1> HIDE DEF r, g
<1>8. /\ g \in Seq(Runs) /\ Len(g) = Len(r) /\ DOMAIN g = DOMAIN r
      /\ \A k \in DOMAIN r : /\ g[k].image = r[k].image /\ g[k].header = r[k].header
                             /\ g[k].from = r[k].from
                             /\ k # Len(r) => g[k] = r[k]
      /\ g[Len(r)].to = nsent'
  BY <1>3, <1>4, <1>6, <1>7, Grown
<1>9. stream' \in [Sockets -> Seq(Runs)]
  BY <1>5, <1>7, <1>8 DEF TypeOK, g
<1>10. stat' \in [1 .. MaxImages -> Results]
       /\ \A i \in 1 .. MaxImages : i # images => stat'[i] = stat[i]
  BY <1>1, <1>2 DEF TypeOK, Results
<1>11. TypeOK'
  BY <1>1, <1>6, <1>9, <1>10, <1>19 DEF TypeOK, library
<1>12. SocketInv'
  <2>1. \A s \in Sockets : s > sockets => s # socket /\ stream'[s] = stream[s]
    BY <1>2, <1>7 DEF TypeOK, Sockets
  <2> QED
    BY <1>1, <2>1 DEF SocketInv, library
<1>13. CallInv'
  BY <1>1, <1>2, <1>6, <1>10 DEF CallInv, library, AllSent
<1>14. \A s \in Sockets : Ends(s)'
  <2> SUFFICES ASSUME NEW s \in Sockets PROVE Ends(s)'
    OBVIOUS
  <2>1. CASE s = socket
    <3>1. /\ stream'[s] # <<>> /\ stream'[s][Len(stream'[s])].image = images'
          /\ stream'[s][Len(stream'[s])].to = nsent'
      BY <2>1, <1>1, <1>3, <1>4, <1>8 DEF g
    <3>2. pc' = "data" \/ nsent' = Size
      BY <1>1, <1>6 DEF AllSent
    <3> QED
      BY <2>1, <3>1, <3>2, <1>2 DEF Ends, Growing
  <2>2. CASE s # socket
    BY <2>2, <1>1, <1>2, <1>7, <1>19 DEF StreamInv, Ends, Growing
  <2> QED
    BY <2>1, <2>2
<1>15. \A s \in Sockets : \A k \in DOMAIN stream'[s] :
         /\ k \in DOMAIN stream[s] /\ Len(stream'[s]) = Len(stream[s])
         /\ stream'[s][k].image = stream[s][k].image /\ stream'[s][k].header = stream[s][k].header
         /\ stream'[s][k].from = stream[s][k].from
         /\ ~(s = socket /\ k = Len(r)) => stream'[s][k] = stream[s][k]
  <2> SUFFICES ASSUME NEW s \in Sockets, NEW k \in DOMAIN stream'[s]
               PROVE  /\ k \in DOMAIN stream[s] /\ Len(stream'[s]) = Len(stream[s])
                      /\ stream'[s][k].image = stream[s][k].image
                      /\ stream'[s][k].header = stream[s][k].header
                      /\ stream'[s][k].from = stream[s][k].from
                      /\ ~(s = socket /\ k = Len(r)) => stream'[s][k] = stream[s][k]
    OBVIOUS
  <2>1. CASE s = socket
    BY <2>1, <1>8 DEF g, r
  <2>2. CASE s # socket
    BY <2>2, <1>7
  <2> QED
    BY <2>1, <2>2
<1>16. \A s \in Sockets : \A k \in DOMAIN stream'[s] : RunInv(s, k)'
  <2> SUFFICES ASSUME NEW s \in Sockets, NEW k \in DOMAIN stream'[s] PROVE RunInv(s, k)'
    OBVIOUS
  <2>1. RunInv(s, k) /\ k \in DOMAIN stream[s]
    BY <1>15 DEF StreamInv
  <2>2. k < Len(stream[s]) => ~(s = socket /\ k = Len(r))
    BY <1>3 DEF r
  <2> QED
    BY <2>1, <2>2, <1>1, <1>15 DEF RunInv
<1>17. Unique'
  BY <1>15 DEF Unique
<1>18. Reported'
  <2> SUFFICES ASSUME NEW i \in 1 .. MaxImages
               PROVE  stat'[i] = "done"
                        <=> \E s \in Sockets : \E k \in DOMAIN stream'[s] : Whole(i, s, k)'
    BY DEF Reported
  <2>1. CASE i # images
    <3>1. \A s \in Sockets : \A k \in DOMAIN stream'[s] : Whole(i, s, k)' <=> Whole(i, s, k)
      BY <2>1, <1>4, <1>15 DEF Whole, r
    <3>2. \A s \in Sockets : DOMAIN stream'[s] = DOMAIN stream[s]
      BY <1>7, <1>8 DEF g, r
    <3> QED
      BY <2>1, <3>1, <3>2, <1>10 DEF Reported
  <2>2. CASE i = images /\ nsent' = Size
    <3>1. stat'[i] = "done"
      BY <2>2, <1>1, <1>2 DEF AllSent, TypeOK
    <3>2. \E k \in DOMAIN g : g[k].image = i /\ g[k].to = Size
      BY <2>2, <1>4, <1>8
    <3> QED
      BY <3>1, <3>2, <1>2 DEF Whole, g
  <2>3. CASE i = images /\ nsent' # Size
    <3>1. stat'[i] # "done" /\ stat[i] # "done"
      BY <2>3, <1>1, <1>6 DEF CallInv, AllSent
    <3>2. ASSUME NEW s \in Sockets, NEW k \in DOMAIN stream'[s], Whole(i, s, k)' PROVE FALSE
      <4>1. CASE s = socket /\ k = Len(r)
        BY <4>1, <3>2, <2>3, <1>8 DEF Whole, g
      <4>2. CASE ~(s = socket /\ k = Len(r))
        BY <4>2, <3>1, <3>2, <1>15 DEF Reported, Whole
      <4> QED
        BY <4>1, <4>2
    <3> QED
      BY <3>1, <3>2
  <2> QED
    BY <2>1, <2>2, <2>3
<1> QED
  BY <1>11, <1>12, <1>13, <1>14, <1>16, <1>17, <1>18 DEF StreamInv

\* With two tries a connection that fails is not followed by another.
LEMMA WriteFailsInv == ASSUME ntries <= 2, Inv, WriteFails PROVE Inv'
<1> USE DEF Inv
<1>1. /\ pc = "data" /\ pc' = "idle" /\ connected' = FALSE /\ sockfd' = 0
      /\ open' = Closed(open, sockfd) /\ stat' = [stat EXCEPT ![images] = "error"]
      /\ errcnt' = 2 /\ UNCHANGED <<sockets, link, stream, images, nsent>>
  BY DEF WriteFails, GivesUp, CallInv
<1>2. connected /\ images \in 1 .. MaxImages
  BY <1>1, SocketIsOpen
<1>3. /\ open' \in [Descriptors -> Sockets \cup {Free, Stdin}] /\ SocketInv'
      /\ \A s \in Sockets : IsOpen(s)' => IsOpen(s) /\ s # socket
  BY <1>1, <1>2, ClosedInv DEF SocketInv
<1>4. connected' \in BOOLEAN
  BY <1>1
<1>5. sockfd' \in Descriptors
  BY <1>1 DEF Descriptors
<1>6. TypeOK'
  BY <1>1, <1>2, <1>3, <1>4, <1>5 DEF TypeOK, Results
<1>7. CallInv'
  BY <1>1, <1>2 DEF CallInv, TypeOK
<1>8. \A s \in Sockets : Ends(s)'
  BY <1>1, <1>3 DEF StreamInv, Ends, Growing
<1>9. StreamInv' /\ Unique'
  BY <1>1, <1>8 DEF StreamInv, RunInv, Unique
<1>10. Reported'
  BY <1>1, <1>2 DEF Reported, Whole, CallInv, TypeOK
<1> QED
  BY <1>3, <1>6, <1>7, <1>9, <1>10

LEMMA BreakInv == ASSUME Inv, Break \/ Drain PROVE Inv'
<1> USE DEF Inv
<1>1. UNCHANGED <<library, stream, call>>
  BY DEF Break, Drain
<1>2. link' \in [Sockets -> Links]
      /\ \A s \in Sockets : link'[s] # "dead" => link[s] # "dead"
  BY DEF Break, Drain, TypeOK
<1>3. TypeOK' /\ SocketInv' /\ CallInv'
  BY <1>1, <1>2 DEF TypeOK, SocketInv, CallInv, library, call
<1>4. \A s \in Sockets : Ends(s)'
  BY <1>1, <1>2 DEF StreamInv, Ends, Growing, IsOpen, socket, library, call
<1>5. StreamInv' /\ Unique' /\ Reported'
  BY <1>1, <1>4 DEF StreamInv, RunInv, Unique, Reported, Whole, call
<1> QED
  BY <1>3, <1>5

LEMMA StutterInv == ASSUME Inv, UNCHANGED vars PROVE Inv'
<1> USE DEF Inv
<1>1. UNCHANGED <<library, link, stream, call>>
  BY DEF vars
<1>2. TypeOK' /\ SocketInv' /\ CallInv'
  BY <1>1 DEF TypeOK, SocketInv, CallInv, library, call
<1>3. \A s \in Sockets : Ends(s)'
  BY <1>1 DEF StreamInv, Ends, Growing, IsOpen, socket, library, call
<1>4. StreamInv' /\ Unique' /\ Reported'
  BY <1>1, <1>3 DEF StreamInv, RunInv, Unique, Reported, Whole, call
<1> QED
  BY <1>2, <1>4

LEMMA Invariance == ASSUME ntries <= 2 PROVE Spec => []Inv
<1>1. Inv /\ [Next]_vars => Inv'
  BY OpenInv, CloseInv, SendNothingInv, SendInv, SendHeaderInv, WritePixelsInv, WriteFailsInv,
     BreakInv, StutterInv DEF Next, Sender
<1> QED
  BY <1>1, InitInv, PTL DEF Spec

-----------------------------------------------------------------------------
(* Theorems. *)

\* DHS_SendPixelData() never gives write() more pixels than the image has left, and counts
\* none beyond its size.
THEOREM TypeCorrect == ASSUME ntries <= 2 PROVE Spec => []TypeOK
<1>1. Inv => TypeOK
  BY DEF Inv
<1> QED
  BY <1>1, Invariance, PTL

\* What the receiver gets of DHS_SendPixelData() can be read, whatever breaks and whenever:
\* every image follows its header, and only the last of a connection may be cut off.  With
\* more than two tries it would not hold, as the rest of an image would follow on a new
\* connection without its header.
THEOREM ReadableStreams == ASSUME ntries <= 2 PROVE Spec => []StreamsReadable
<1>1. Inv => StreamsReadable
  BY DEF Inv, StreamInv, RunInv, StreamsReadable
<1> QED
  BY <1>1, Invariance, PTL

\* An image that DHS_sendPixels() reports as sent was accepted as a whole, and once; one that
\* it reports as failed was not, so that the caller may send it again.
THEOREM ImagesSentOnce == ASSUME ntries <= 2 PROVE Spec => []SentOnce
<1>1. ASSUME Inv PROVE SentOnce
  <2>1. \A s \in Sockets : \A k \in DOMAIN stream[s] : stream[s][k].from = 0
    BY <1>1 DEF Inv, StreamInv, RunInv
  <2> QED
    BY <1>1, <2>1 DEF Inv, SentOnce, Reported, Unique, Whole
<1> QED
  BY <1>1, Invariance, PTL

-----------------------------------------------------------------------------
(* Descriptors. *)

OpenSockets(table) == {d \in Descriptors : table[d] \in Sockets}

\* Without the standard input descriptor 0 is never it again; with it, connecting and
\* closing give and take one descriptor.
LEMMA ConnectedOnce ==
  ASSUME TypeOK, SocketInv, OneConnection,
         NEW table, table \in {open, Closed(open, sockfd)},
         table = open => ~connected \/ sockfd = 0,
         Connected(table)
  PROVE  OneConnection'
<1> USE DEF TypeOK, Closed, Free, Stdin
<1>1. PICK d \in Descriptors : /\ IsNext(table, d) /\ sockfd' = d
                              /\ open' = [table EXCEPT ![d] = sockets + 1]
  BY DEF Connected
<1>2. /\ connected' /\ sockets + 1 \in Sockets /\ Stdin \notin Sockets /\ Free \notin Sockets
      /\ 0 \in Descriptors /\ Stdin \notin Nat
  BY DEF Connected, Sockets, Descriptors
<1>3. table \in [Descriptors -> Sockets \cup {Free, Stdin}]
  OBVIOUS
<1>4. SUFFICES ASSUME open'[0] = Stdin PROVE OpenSockets(open') = {sockfd'}
  BY <1>2 DEF OneConnection, OpenSockets
<1>5. table[0] = Stdin
  BY <1>1, <1>2, <1>3, <1>4
<1>6. OpenSockets(table) = {}
  <2>1. CASE table = open
    BY <1>2, <1>5, <2>1 DEF OneConnection, OpenSockets, SocketInv, Sockets
  <2>2. CASE table # open
    <3>1. table = [open EXCEPT ![sockfd] = Free] /\ sockfd # 0 /\ open[0] = Stdin
      BY <1>2, <1>5, <2>2
    <3>2. connected /\ OpenSockets(open) = {sockfd}
      BY <3>1 DEF OneConnection, OpenSockets, SocketInv
    <3> QED
      BY <1>2, <3>1, <3>2 DEF OpenSockets
  <2> QED
    BY <2>1, <2>2
<1> QED
  BY <1>1, <1>2, <1>3, <1>6 DEF OpenSockets

LEMMA ClosedOnce ==
  ASSUME TypeOK, SocketInv, OneConnection,
         connected' = FALSE, open' = Closed(open, sockfd)
  PROVE  OneConnection'
<1> USE DEF TypeOK, Closed, Free, Stdin
<1>1. Stdin \notin Sockets /\ Free \notin Sockets /\ 0 \in Descriptors
  BY DEF Sockets, Descriptors
<1>2. SUFFICES ASSUME open'[0] = Stdin PROVE OpenSockets(open') = {}
  BY DEF OneConnection, OpenSockets
<1>3. sockfd # 0 /\ open[0] = Stdin
  BY <1>1, <1>2
<1>4. connected /\ OpenSockets(open) = {sockfd}
  BY <1>3 DEF OneConnection, OpenSockets, SocketInv
<1> QED
  BY <1>1, <1>4 DEF OpenSockets

\* DHS_connect() and DHS_close() leave one connection at most, and sockfd is its
\* descriptor, unless descriptor 0 was closed.
THEOREM OneConnectionAtATime == ASSUME ntries <= 2 PROVE Spec => []OneConnection
<1>1. Init => OneConnection
  BY DEF Init, OneConnection, Descriptors, Sockets, Free, Stdin
<1>2. ASSUME Inv, OneConnection, [Next]_vars PROVE OneConnection'
  <2> USE <1>2 DEF Inv
  <2>1. CASE UNCHANGED library
    BY <2>1 DEF OneConnection, library
  <2>2. CASE Connect
    BY <2>1, <2>2, ConnectedOnce DEF Connect
  <2>3. CASE Close
    BY <2>3, ClosedOnce DEF Close
  <2>4. CASE WriteFails
    <3>1. open[sockfd] \in Sockets /\ sockfd \in Descriptors
      BY <2>4 DEF WriteFails, CallInv, SocketInv, TypeOK, Sockets
    <3>2. Closed(open, sockfd) # open
      BY <3>1 DEF Closed, Free, TypeOK, Sockets
    <3>3. CASE GivesUp(errcnt')
      BY <2>4, <3>3, ClosedOnce DEF WriteFails
    <3>4. CASE ~GivesUp(errcnt')
      BY <2>4, <3>2, <3>4, ConnectedOnce DEF WriteFails
    <3> QED
      BY <3>3, <3>4
  <2>5. CASE Open \/ Send
    BY <2>1, <2>2, <2>5 DEF Open, Send, library
  <2>6. CASE SendNothing \/ SendHeader \/ WritePixels \/ Drain \/ Break \/ UNCHANGED vars
    BY <2>1, <2>6 DEF SendNothing, SendHeader, WritePixels, Drain, Break, vars, library
  <2> QED
    BY <2>3, <2>4, <2>5, <2>6 DEF Next, Sender
<1> QED
  BY <1>1, <1>2, Invariance, PTL DEF Spec
=============================================================================

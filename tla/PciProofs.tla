----------------------------- MODULE PciProofs -----------------------------
(***************************************************************************)
(* Proofs about PciCommands, for any number of threads and of calls.       *)
(***************************************************************************)
EXTENDS PciCommands, TLAPS

USE CallersAssumption DEF CallersAssumption

-----------------------------------------------------------------------------
(* The parts of a message. *)

LEMMA CommandTypes ==
  /\ Nothing \in Commands
  /\ \A id \in 0 .. MaxCalls : Whole(id) \in Commands
  /\ \A h, w \in 0 .. MaxCalls : [head |-> h, words |-> w] \in Commands
  /\ \A r \in Commands : r.head \in 0 .. MaxCalls /\ r.words \in 0 .. MaxCalls
  BY DEF Nothing, Commands, Whole

LEMMA MessageTypes ==
  /\ \A st \in Replies, by \in Commands : Word(st, by) \in WordTypes
  /\ \A st \in Replies, by \in Commands, n \in Nat : Flags(st, by, n) \in FlagTypes
  /\ \A w \in WordTypes : w.st \in Replies /\ w.by \in Commands
  /\ \A f \in FlagTypes : f.st \in Replies /\ f.by \in Commands /\ f.n \in Nat
  BY DEF Word, WordTypes, Flags, FlagTypes

LEMMA BufferTypes ==
  /\ \A w \in WordTypes, id \in 0 .. MaxCalls : [head |-> w, words |-> id] \in Buffers
  /\ \A b \in Buffers : b.head \in WordTypes /\ b.words \in 0 .. MaxCalls
  /\ \A b \in Buffers, w \in WordTypes : [b EXCEPT !.head = w] \in Buffers
  /\ \A b \in Buffers, id \in 0 .. MaxCalls : [b EXCEPT !.words = id] \in Buffers
  BY DEF Buffers

LEMMA ConstantTypes == NoFlags \in FlagTypes /\ NoCopy \in Buffers /\ Word("none", Nothing) \in WordTypes
                       /\ Word("error", Nothing) \in WordTypes
<1>1. {"none", "error"} \subseteq Replies
  BY DEF Replies
<1> QED
  BY <1>1, CommandTypes, MessageTypes, BufferTypes DEF NoFlags, NoCopy

LEMMA QueueTypes ==
  ASSUME NEW S, NEW s \in Seq(S)
  PROVE  /\ <<>> \in Seq(S)
         /\ \A x \in S : Append(s, x) \in Seq(S) /\ Append(s, x) # <<>>
         /\ s # <<>> => Head(s) \in S /\ Tail(s) \in Seq(S)
  OBVIOUS

-----------------------------------------------------------------------------
(* Types. *)

LEMMA InitTypes == Init => TypeOK
<1> SUFFICES ASSUME Init PROVE TypeOK
  OBVIOUS
<1>1. CallersOK
  BY ConstantTypes DEF Init, CallersOK, Labels
<1>2. BoardOK
  BY ConstantTypes, CommandTypes DEF Init, BoardOK
<1> QED
  BY <1>1, <1>2 DEF Init, TypeOK, LockOK

\* A statement of one thread keeps the lock right: it runs while nobody else has it.
LEMMA LockStep ==
  ASSUME TypeOK, NEW c \in Callers, Step(c)
  PROVE  LockOK'
<1> USE DEF TypeOK, CallersOK, LockOK, Goto, Locked, Proceed, Fails, Labels
<1>1. CASE FillHead(c) \/ FillWords(c) \/ StoreReply(c) \/ ReadReply(c)
  BY <1>1 DEF FillHead, FillWords, StoreReply, ReadReply
<1>2. CASE EnterIoctl(c) \/ WriteCommand(c) \/ SetHCVR(c) \/ CheckReplyFlags(c)
  BY <1>2 DEF EnterIoctl, WriteCommand, SetHCVR, CheckReplyFlags
<1>3. CASE ClearSeenFlags(c) \/ ReadReplyValue(c) \/ GetProgress(c) \/ ReadOutput(c)
  BY <1>3 DEF ClearSeenFlags, ReadReplyValue, GetProgress, ReadOutput
<1>4. CASE Leave(c)
  BY <1>4 DEF Leave, Unlocks
<1> QED
  BY <1>1, <1>2, <1>3, <1>4 DEF Step

LEMMA StepTypes ==
  ASSUME TypeOK, NEW c \in Callers, Step(c)
  PROVE  CallersOK' /\ BoardOK'
<1> USE CommandTypes, MessageTypes, BufferTypes, ConstantTypes
    DEF TypeOK, CallersOK, BoardOK, Goto, Locked, Proceed, Fails, Labels, board
<1>1. CASE FillHead(c)
  BY <1>1 DEF FillHead, Replies
<1>2. CASE FillWords(c)
  BY <1>2 DEF FillWords
<1>3. CASE EnterIoctl(c)
  <2>1. flags' \in FlagTypes /\ crowded' \subseteq Callers /\ UNCHANGED <<seen, since>>
    BY <1>3 DEF EnterIoctl, ClearsFlags
  <2>2. pc' \in [Callers -> Labels] /\ bkl' \in Callers \cup {Nobody}
    BY <1>3 DEF EnterIoctl
  <2>3. copy' \in [Callers -> Buffers]
    BY <1>3 DEF EnterIoctl
  <2> QED
    BY <1>3, <2>1, <2>2, <2>3 DEF EnterIoctl
<1>4. CASE WriteCommand(c)
  <2> DEFINE command == [head |-> copy[c].head.by.head, words |-> copy[c].words]
             words == IF copy[c].head.st = "none" THEN input ELSE Append(input, command)
  <2>1. copy[c] \in Buffers
    OBVIOUS
  <2>2. command \in Commands
    BY <2>1
  <2>3. words \in Seq(Commands) /\ (words # <<>> => Head(words) \in Commands /\ Tail(words) \in Seq(Commands))
    <3>1. words \in Seq(Commands)
      BY <2>2, QueueTypes
    <3> HIDE DEF words
    <3> QED
      BY <3>1, QueueTypes
  <2>4. words # <<>> => Append(pending, Head(words)) \in Seq(Commands)
    BY <2>3, QueueTypes
  <2>5. /\ \/ words # <<>> /\ pending' = Append(pending, Head(words)) /\ input' = Tail(words)
           \/ pending' = pending /\ input' \in {input, words}
        /\ UNCHANGED seen
    BY <1>4 DEF WriteCommand
  <2>6. pc' \in [Callers -> Labels] /\ bkl' \in Callers \cup {Nobody}
    BY <1>4 DEF WriteCommand
  <2>7. input' \in Seq(Commands) /\ pending' \in Seq(Commands)
    BY <2>3, <2>4, <2>5
  <2>8. since' \in [Callers -> Nat] /\ crowded' \subseteq Callers
    <3>1. Sent(c) \/ UNCHANGED <<since, crowded>>
      BY <1>4 DEF WriteCommand
    <3> QED
      BY <3>1 DEF Sent
  <2> HIDE DEF words
  <2> QED
    BY <1>4, <2>5, <2>6, <2>7, <2>8 DEF WriteCommand
<1>5. CASE SetHCVR(c)
  <2>1. Append(pending, Whole(mine[c])) \in Seq(Commands)
    BY QueueTypes
  <2>2. pending' \in Seq(Commands) /\ UNCHANGED seen
    BY <1>5, <2>1 DEF SetHCVR
  <2>3. pc' \in [Callers -> Labels] /\ bkl' \in Callers \cup {Nobody}
    BY <1>5 DEF SetHCVR
  <2>4. since' \in [Callers -> Nat] /\ crowded' \subseteq Callers
    BY <1>5 DEF SetHCVR, Sent
  <2> QED
    BY <1>5, <2>2, <2>3, <2>4 DEF SetHCVR
<1>6. CASE CheckReplyFlags(c)
  BY <1>6 DEF CheckReplyFlags, Replies
<1>7. CASE ClearSeenFlags(c)
  BY <1>7 DEF ClearSeenFlags
<1>8. CASE ReadReplyValue(c)
  <2>1. Append(asked, 0) \in Seq(0 .. MaxCalls)
    BY QueueTypes
  <2>2. asked' \in Seq(0 .. MaxCalls) /\ UNCHANGED seen
    BY <1>8, <2>1 DEF ReadReplyValue
  <2>3. pc' \in [Callers -> Labels] /\ bkl' \in Callers \cup {Nobody}
    BY <1>8 DEF ReadReplyValue
  <2> QED
    BY <1>8, <2>2, <2>3, QueueTypes DEF ReadReplyValue
<1>9. CASE GetProgress(c)
  <2>1. Append(asked, mine[c]) \in Seq(0 .. MaxCalls)
    BY QueueTypes
  <2>2. asked' \in Seq(0 .. MaxCalls) /\ UNCHANGED seen
    BY <1>9, <2>1 DEF GetProgress
  <2>3. pc' \in [Callers -> Labels] /\ bkl' \in Callers \cup {Nobody}
    BY <1>9 DEF GetProgress
  <2> QED
    BY <1>9, <2>2, <2>3 DEF GetProgress
<1>10. CASE ReadOutput(c)
  <2>1. output # <<>> => Head(output) \in Commands /\ Tail(output) \in Seq(Commands)
    BY QueueTypes
  <2>v. "value" \in Replies
    BY DEF Replies
  <2>f. output # <<>> => Flags("value", Head(output), 0) \in FlagTypes
    BY <2>1, <2>v
  <2>o. output' \in Seq(Commands)
    BY <1>10, <2>1 DEF ReadOutput
  <2>s. seen' \in [Callers -> FlagTypes]
    <3>1. CASE output # <<>> /\ seen' = [seen EXCEPT ![c] = Flags("value", Head(output), 0)]
      <4>1. seen \in [Callers -> FlagTypes]
        OBVIOUS
      <4> QED
        BY <2>f, <3>1, <4>1
    <3>2. CASE UNCHANGED seen
      BY <3>2
    <3> QED
      BY <1>10, <3>1, <3>2 DEF ReadOutput
  <2>2. output' \in Seq(Commands) /\ seen' \in [Callers -> FlagTypes]
    BY <2>o, <2>s
  <2>3. pc' \in [Callers -> Labels] /\ bkl' \in Callers \cup {Nobody}
    BY <1>10 DEF ReadOutput
  <2> QED
    BY <1>10, <2>2, <2>3 DEF ReadOutput
<1>11. CASE Leave(c)
  BY <1>11 DEF Leave, Unlocks, Reply
<1>12. CASE StoreReply(c)
  BY <1>12 DEF StoreReply, Stored, Reply
<1>13. CASE ReadReply(c)
  BY <1>13 DEF ReadReply
<1> QED
  BY <1>1, <1>2, <1>3, <1>4, <1>5, <1>6, <1>7, <1>8, <1>9, <1>10, <1>11, <1>12, <1>13
  DEF Step

LEMMA TypeStep == TypeOK /\ [Next]_vars => TypeOK'
<1> SUFFICES ASSUME TypeOK, [Next]_vars PROVE TypeOK'
  OBVIOUS
<1>1. CASE \E c \in Callers : Step(c)
  BY <1>1, LockStep, StepTypes DEF TypeOK
<1> USE CommandTypes, MessageTypes, BufferTypes, ConstantTypes
    DEF TypeOK, CallersOK, BoardOK, LockOK
<1>2. CASE \E c \in Callers, k \in Kinds : Begin(c, k)
  <2>1. PICK c \in Callers, k \in Kinds : Begin(c, k)
    BY <1>2
  <2>2. kind' \in Seq(Kinds) /\ Len(kind) \in Nat /\ Len(kind') = Len(kind) + 1
    BY <2>1 DEF Begin
  <2>3. /\ pc' \in [Callers -> Labels] /\ result' \in [Callers -> WordTypes]
        /\ UNCHANGED <<cmd_data, bkl, copy, seen, since, crowded, board>>
    BY <2>1 DEF Begin, Goto, Labels
  <2>4. mine' \in [Callers -> 0 .. MaxCalls]
    BY <2>1, <2>2 DEF Begin
  <2>5. clean' \subseteq Callers /\ LockOK'
    BY <2>1 DEF Begin, Goto
  <2> QED
    BY <2>2, <2>3, <2>4, <2>5, <2>1 DEF Begin, board
<1>3. CASE Answer
  <2>1. Head(pending) \in Commands /\ Tail(pending) \in Seq(Commands)
    BY <1>3, QueueTypes DEF Answer
  <2>2. {"ERR", "RDR", "DON"} \subseteq Replies
    BY DEF Replies
  <2>3. value' \in Commands /\ answers' \in Nat
    BY <1>3, <2>1 DEF Answer
  <2>4. flags' \in FlagTypes
    <3>1. PICK st \in {"ERR", "RDR", "DON"} : flags' = Flags(st, Head(pending), answers + 1)
      BY <1>3 DEF Answer
    <3>2. st \in Replies /\ answers + 1 \in Nat
      BY <2>2
    <3> QED
      BY <2>1, <3>1, <3>2, MessageTypes
  <2> QED
    BY <1>3, <2>1, <2>3, <2>4 DEF Answer, caller
<1>4. CASE Output
  <2>1. Head(asked) \in 0 .. MaxCalls /\ Tail(asked) \in Seq(0 .. MaxCalls)
    BY <1>4, QueueTypes DEF Output
  <2>2. output' \in Seq(Commands)
    BY <1>4, <2>1, QueueTypes DEF Output
  <2> QED
    BY <1>4, <2>1, <2>2 DEF Output, caller
<1>5. CASE Upset
  <2>1. {"ROUT", "BUSY"} \subseteq Replies
    BY DEF Replies
  <2>2. pending # <<>> => Head(pending) \in Commands
    BY QueueTypes
  <2>f. /\ Flags("ROUT", Nothing, 0) \in FlagTypes
        /\ pending # <<>> => Flags("BUSY", Head(pending), 0) \in FlagTypes
    BY <2>1, <2>2
  <2>3. flags' \in FlagTypes
    BY <1>5, <2>f DEF Upset
  <2> QED
    BY <1>5, <2>3 DEF Upset, caller
<1>6. CASE EndReadout
  BY <1>6 DEF EndReadout, caller
<1>7. CASE UNCHANGED vars
  BY <1>7 DEF vars, caller, board
<1> QED
  BY <1>1, <1>2, <1>3, <1>4, <1>5, <1>6, <1>7 DEF Next

\* The driver leaves its data in shape and holds the lock only inside an ioctl(),
\* whatever the threads and the board do.
THEOREM TypeCorrect == Spec => []TypeOK
<1> QED
  BY InitTypes, TypeStep, PTL DEF Spec

-----------------------------------------------------------------------------
(* No answer is older than the command it is taken for. *)

Answered == {"DON", "RDR", "ERR"}
Asking == {"do", "get", "reset"}
Before == {"ready", "head", "words", "enter"}   \* the flags are not cleared yet
Writing == {"input", "vector"}                  \* they are, the command is not written yet
Looking == Labels \ (Before \cup Writing \cup {"fails"})

\* Calls are numbered as they are made.
NumbersInv == \A c \in Callers : mine[c] \in 0 .. Len(kind)

\* A caller clears the flags with no command under way, and they show no answer until
\* its own is written; after that they show an answer only if it was given later.
FreshOf(c) ==
    /\ since[c] <= answers
    /\ pc[c] \in Writing /\ Is(c, Asking) /\ c \notin crowded =>
          pending = <<>> /\ flags.st \notin Answered
    /\ pc[c] \in Looking /\ Is(c, Asking) /\ c \notin crowded /\ flags.st \in Answered =>
          flags.n > since[c]
    /\ Is(c, Asking) /\ c \notin crowded /\ seen[c].st \in Answered => seen[c].n > since[c]
    /\ pc[c] \in Before \cup Writing => seen[c].st \notin Answered

FreshInv == \A c \in Callers : FreshOf(c)

LEMMA NumbersStep == TypeOK /\ NumbersInv /\ [Next]_vars => NumbersInv'
<1> SUFFICES ASSUME TypeOK, NumbersInv, [Next]_vars PROVE NumbersInv'
  OBVIOUS
<1>1. CASE \E c \in Callers, k \in Kinds : Begin(c, k)
  BY <1>1 DEF Begin, NumbersInv, TypeOK, CallersOK
<1>2. CASE UNCHANGED <<mine, kind>>
  BY <1>2 DEF NumbersInv
<1>3. CASE \E c \in Callers : Step(c)
  BY <1>2, <1>3 DEF Step, FillHead, FillWords, EnterIoctl, WriteCommand, SetHCVR,
     CheckReplyFlags, ClearSeenFlags, ReadReplyValue, GetProgress, ReadOutput, Leave,
     StoreReply, ReadReply
<1>4. CASE Answer \/ Output \/ Upset \/ EndReadout \/ UNCHANGED vars
  BY <1>2, <1>4 DEF Answer, Output, Upset, EndReadout, caller, vars
<1> QED
  BY <1>1, <1>3, <1>4 DEF Next

\* A call that has begun keeps its number and its kind.
LEMMA KindKept ==
  ASSUME TypeOK, NumbersInv, NEW c \in Callers, NEW k \in Kinds, Begin(c, k)
  PROVE  /\ \A d \in Callers : d # c => mine'[d] = mine[d] /\ \A ks : Is(d, ks)' <=> Is(d, ks)
         /\ \A ks : Is(c, ks)' <=> k \in ks
<1>1. kind \in Seq(Kinds) /\ kind' = Append(kind, k) /\ mine' = [mine EXCEPT ![c] = Len(kind) + 1]
  BY DEF Begin, TypeOK, CallersOK
<1>2. mine \in [Callers -> 0 .. MaxCalls]
  BY DEF TypeOK, CallersOK
<1>3. \A d \in Callers : mine[d] # 0 => kind'[mine[d]] = kind[mine[d]]
  BY <1>1 DEF NumbersInv
<1>4. kind'[Len(kind) + 1] = k /\ Len(kind) + 1 # 0
  BY <1>1
<1> QED
  BY <1>1, <1>2, <1>3, <1>4 DEF Is

\* A statement leaves the number and the kind of every call alone, and what the other
\* threads have seen.
LEMMA CallKept ==
  ASSUME TypeOK, NEW c \in Callers, Step(c)
  PROVE  /\ UNCHANGED <<mine, kind>>
         /\ \A d \in Callers : d # c => pc'[d] = pc[d] /\ seen'[d] = seen[d] /\ since'[d] = since[d]
<1> USE DEF TypeOK, CallersOK, Goto, Proceed, Fails
<1>1. CASE FillHead(c) \/ FillWords(c) \/ StoreReply(c) \/ ReadReply(c)
  BY <1>1 DEF FillHead, FillWords, StoreReply, ReadReply
<1>2. CASE EnterIoctl(c)
  BY <1>2 DEF EnterIoctl
<1>3. CASE WriteCommand(c) \/ SetHCVR(c)
  <2>1. Sent(c) \/ UNCHANGED since
    BY <1>3 DEF WriteCommand, SetHCVR
  <2>2. /\ UNCHANGED <<mine, kind, seen>>
        /\ \/ pc' = [pc EXCEPT ![c] = "flags"]
           \/ pc' = [pc EXCEPT ![c] = "fails"]
    BY <1>3 DEF WriteCommand, SetHCVR
  <2> QED
    BY <2>1, <2>2 DEF Sent
<1>6. CASE CheckReplyFlags(c)
  BY <1>6 DEF CheckReplyFlags
<1>4. CASE ClearSeenFlags(c) \/ ReadReplyValue(c) \/ GetProgress(c) \/ ReadOutput(c)
  BY <1>4 DEF ClearSeenFlags, ReadReplyValue, GetProgress, ReadOutput
<1>5. CASE Leave(c)
  BY <1>5 DEF Leave
<1> QED
  BY <1>1, <1>2, <1>3, <1>4, <1>5, <1>6 DEF Step

\* A caller that clears its flags before another command is written is crowded; nobody
\* else becomes so, and nobody leaves the crowd by what another does.
LEMMA OthersCrowd ==
  ASSUME TypeOK, NEW c \in Callers, Step(c), NEW d \in Callers, d # c
  PROVE  /\ d \in crowded => d \in crowded'
         /\ pc[d] \notin Writing => (d \in crowded' => d \in crowded)
         /\ pc[d] \in Writing /\ d \notin crowded' => pending' = pending
<1>1. CASE UNCHANGED <<crowded, pending>>
  BY <1>1
<1>2. CASE EnterIoctl(c)
  BY <1>2 DEF EnterIoctl
<1>3. CASE WriteCommand(c)
  BY <1>3 DEF WriteCommand, Sent, Writing
<1>4. CASE SetHCVR(c)
  BY <1>4 DEF SetHCVR, Sent, Writing
<1> QED
  BY <1>1, <1>2, <1>3, <1>4 DEF Step, FillHead, FillWords, CheckReplyFlags, ClearSeenFlags,
     ReadReplyValue, GetProgress, ReadOutput, Leave, StoreReply, ReadReply, board

\* What a statement does to the flags does not make another thread take an old answer.
LEMMA FreshOthers ==
  ASSUME TypeOK, FreshInv, NEW c \in Callers, Step(c), NEW d \in Callers, d # c
  PROVE  FreshOf(d)'
<1>1. flags' \in {NoFlags, flags} /\ UNCHANGED answers
  BY DEF Step, FillHead, FillWords, EnterIoctl, ClearsFlags, WriteCommand, SetHCVR,
     CheckReplyFlags, ClearSeenFlags, ReadReplyValue, GetProgress, ReadOutput, Leave,
     StoreReply, ReadReply, board
<1>2. NoFlags.st \notin Answered
  BY DEF NoFlags, Flags, Answered
<1>3. Is(d, Asking)' <=> Is(d, Asking)
  BY CallKept DEF Is
<1>4. pc'[d] = pc[d] /\ seen'[d] = seen[d] /\ since'[d] = since[d]
  BY CallKept
<1> QED
  BY <1>1, <1>2, <1>3, <1>4, OthersCrowd DEF FreshInv, FreshOf

\* Nor does it make the thread itself take one.
LEMMA FreshOwn ==
  ASSUME TypeOK, FreshInv, NEW c \in Callers, Step(c)
  PROVE  FreshOf(c)'
<1>0. Is(c, Asking)' <=> Is(c, Asking)
  BY CallKept DEF Is
<1>n. NoFlags.st \notin Answered /\ Flags("TOUT", Nothing, 0).st \notin Answered
      /\ \A r : Flags("value", r, 0).st \notin Answered
  BY DEF NoFlags, Flags, Answered
<1>t. /\ pc \in [Callers -> Labels] /\ seen \in [Callers -> FlagTypes]
      /\ since \in [Callers -> Nat] /\ answers \in Nat
  BY DEF TypeOK, CallersOK, BoardOK
<1>f. FreshOf(c)
  BY DEF FreshInv
<1> USE DEF Goto, Proceed, Fails, Locked, FreshOf, Before, Writing, Looking, Labels, board
<1>1. CASE FillHead(c) \/ FillWords(c)
  BY <1>0, <1>t, <1>f, <1>1 DEF FillHead, FillWords
<1>2. CASE EnterIoctl(c)
  <2>1. since'[c] <= answers' /\ seen' = seen /\ pending' = pending
    BY <1>t, <1>f, <1>2 DEF EnterIoctl
  <2>2. pc'[c] = "fails" \/ (pc'[c] \in {"input", "vector"} /\ flags' = NoFlags
                              /\ (c \notin crowded' => pending = <<>>))
    BY <1>t, <1>2 DEF EnterIoctl, ClearsFlags
  <2>3. seen[c].st \notin Answered
    BY <1>f, <1>2 DEF EnterIoctl
  <2> QED
    BY <1>n, <2>1, <2>2, <2>3
<1>3. CASE WriteCommand(c) \/ SetHCVR(c)
  <2>1. UNCHANGED <<seen, flags, answers>> /\ pc[c] \in {"input", "vector"}
    BY <1>3 DEF WriteCommand, SetHCVR
  <2>2. \/ pc'[c] = "flags" /\ since'[c] = answers /\ (c \in crowded' <=> c \in crowded)
        \/ pc'[c] = "fails" /\ since' = since /\ crowded' = crowded
    BY <1>t, <1>3 DEF WriteCommand, SetHCVR, Sent
  <2> QED
    BY <1>0, <1>t, <1>f, <2>1, <2>2
<1>4. CASE CheckReplyFlags(c)
  <2>1. seen'[c] \in {flags, Flags("TOUT", Nothing, 0)} /\ pc'[c] \in {"out", "unflag"}
    BY <1>t, <1>4 DEF CheckReplyFlags
  <2> QED
    BY <1>0, <1>n, <1>t, <1>f, <1>4, <2>1 DEF CheckReplyFlags
<1>5. CASE ClearSeenFlags(c)
  BY <1>0, <1>n, <1>t, <1>f, <1>5 DEF ClearSeenFlags
<1>6. CASE ReadReplyValue(c) \/ GetProgress(c)
  <2>1. pc[c] \in {"value", "ask"} /\ pc'[c] \in {"output", "fails"}
    BY <1>t, <1>6 DEF ReadReplyValue, GetProgress
  <2>2. UNCHANGED <<flags, seen, since, crowded, answers>>
    BY <1>6 DEF ReadReplyValue, GetProgress
  <2> QED
    BY <1>0, <1>f, <2>1, <2>2
<1>7. CASE ReadOutput(c)
  <2>1. pc[c] = "output" /\ pc'[c] \in {"out", "fails"} /\ UNCHANGED <<flags, since, crowded, answers>>
    BY <1>t, <1>7 DEF ReadOutput
  <2>2. seen'[c] = seen[c] \/ seen'[c] = Flags("value", Head(output), 0)
    BY <1>t, <1>7 DEF ReadOutput
  <2> QED
    BY <1>0, <1>n, <1>f, <2>1, <2>2
<1>8. CASE Leave(c)
  <2>1. /\ pc'[c] \in {"ready", "store", "read"}
        /\ seen'[c] = IF pc'[c] = "ready" THEN NoFlags ELSE seen[c]
        /\ UNCHANGED <<flags, since, crowded, answers>>
    BY <1>t, <1>8 DEF Leave
  <2>2. pc[c] = "fails" => pc'[c] = "ready"
    BY <1>t, <1>8 DEF Leave
  <2>3. pc[c] \in {"out", "fails"}
    BY <1>8 DEF Leave
  <2> QED
    BY <1>0, <1>n, <1>f, <2>1, <2>2, <2>3
<1>9. CASE StoreReply(c) \/ ReadReply(c)
  BY <1>0, <1>n, <1>t, <1>f, <1>9 DEF StoreReply, ReadReply
<1> QED
  BY <1>1, <1>2, <1>3, <1>4, <1>5, <1>6, <1>7, <1>8, <1>9 DEF Step

LEMMA FreshStep == TypeOK /\ NumbersInv /\ FreshInv /\ [Next]_vars => FreshInv'
<1> SUFFICES ASSUME TypeOK, NumbersInv, FreshInv, [Next]_vars, NEW d \in Callers
             PROVE  FreshOf(d)'
  BY DEF FreshInv
<1>t. /\ pc \in [Callers -> Labels] /\ seen \in [Callers -> FlagTypes]
      /\ since \in [Callers -> Nat] /\ answers \in Nat
  BY DEF TypeOK, CallersOK, BoardOK
<1>f. FreshOf(d)
  BY DEF FreshInv
<1>1. CASE \E c \in Callers : Step(c)
  BY <1>1, FreshOthers, FreshOwn
<1>2. CASE \E c \in Callers, k \in Kinds : Begin(c, k)
  <2>1. PICK c \in Callers, k \in Kinds : Begin(c, k)
    BY <1>2
  <2>2. UNCHANGED <<seen, since, crowded, flags, pending, answers>>
    BY <2>1 DEF Begin, board
  <2>3. CASE d # c
    <3>1. pc'[d] = pc[d]
      BY <1>t, <2>1, <2>3 DEF Begin, Goto
    <3>2. Is(d, Asking)' <=> Is(d, Asking)
      BY <2>1, <2>3, KindKept
    <3> QED
      BY <1>f, <2>2, <3>1, <3>2 DEF FreshOf
  <2>4. CASE d = c
    <3>1. pc[d] = "ready" /\ seen[d].st \notin Answered
      BY <1>f, <2>1, <2>4 DEF Begin, FreshOf, Before
    <3>2. Is(d, Asking)' <=> k \in Asking
      BY <2>1, <2>4, KindKept
    <3>3. k \in Asking => pc'[d] \in {"head", "enter"}
      BY <1>t, <2>1, <2>4 DEF Begin, Goto, Asking
    <3>4. k \in Asking => pc'[d] \notin Looking \cup Writing
      BY <3>3 DEF Looking, Before, Writing
    <3> QED
      BY <1>f, <2>2, <3>1, <3>2, <3>4 DEF FreshOf
  <2> QED
    BY <2>3, <2>4
<1>3. CASE /\ UNCHANGED <<pc, mine, seen, kind, since, crowded>> /\ answers' >= answers
           /\ flags'.st \in Answered => flags'.n > answers \/ flags' = flags
           /\ pending = <<>> => pending' = <<>> /\ (flags'.st \in Answered => flags' = flags)
  <2>1. Is(d, Asking)' <=> Is(d, Asking)
    BY <1>3 DEF Is
  <2>2. flags'.st \in Answered /\ flags'.n > answers => flags'.n > since[d]
    <3>1. flags' \in FlagTypes
      BY TypeStep DEF TypeOK, BoardOK
    <3>2. flags'.n \in Nat
      BY <3>1, MessageTypes
    <3> QED
      BY <1>t, <1>f, <3>2 DEF FreshOf
  <2>3. answers' \in Nat /\ since[d] <= answers'
    <3>1. answers' \in Nat
      BY TypeStep DEF TypeOK, BoardOK
    <3> QED
      BY <1>t, <1>f, <1>3, <3>1 DEF FreshOf
  <2> QED
    BY <1>f, <1>3, <2>1, <2>2, <2>3 DEF FreshOf
<1>4. CASE Answer
  BY <1>3, <1>4, <1>t DEF Answer, caller, Flags
<1>5. CASE Output
  BY <1>3, <1>5, <1>t DEF Output, caller
<1>6. CASE Upset
  BY <1>3, <1>6, <1>t DEF Upset, caller, Flags, Answered
<1>7. CASE EndReadout
  BY <1>3, <1>7, <1>t DEF EndReadout, caller, NoFlags, Flags, Answered
<1>8. CASE UNCHANGED vars
  BY <1>3, <1>8, <1>t DEF vars, caller, board
<1> QED
  BY <1>1, <1>2, <1>4, <1>5, <1>6, <1>7, <1>8 DEF Next

\* What a thread takes for the answer to its command was given after the command was
\* written, however many calls have timed out before, unless a command was under way when
\* the thread cleared the flags, or another thread wrote one before it wrote its own.
THEOREM AnswersAreFresh == Spec => []AnswerIsFresh
<1>1. Init => NumbersInv /\ FreshInv
  BY DEF Init, NumbersInv, FreshInv, FreshOf, Is, NoFlags, Flags, Answered, Writing, Looking, Before
<1>2. TypeOK /\ FreshInv => AnswerIsFresh
  BY DEF AnswerIsFresh, FreshInv, FreshOf, Asking, Answered
<1> QED
  BY <1>1, <1>2, TypeCorrect, NumbersStep, FreshStep, PTL DEF Spec

-----------------------------------------------------------------------------
(* A call that meets no other gets the answer to its own command. *)

Serving == {"do", "get", "reset", "progress"}
Early == {"head", "words", "enter", "input", "vector", "ask"}   \* nothing is sent yet
Telling == {"DON", "RDR", "value"}                              \* answers that can be returned

Own(c) == Whole(mine[c])
AllIn(q, S) == \A i \in 1 .. Len(q) : q[i] \in S

\* The requests for output that are answered with what is the caller's own.
Asks(c) == {mine[c]} \cup {a \in {0} : value = Own(c)}

Lone(c) == c \in clean /\ pc[c] # "ready" /\ Is(c, Serving)

AloneInv(c) == \A d \in Callers \ {c} : pc[d] = "ready"

\* The board has only what the caller gave it.
BoardOwn(c) ==
    /\ pc[c] \in Early => Resting
    /\ pc[c] \in {"input", "vector"} => flags.st \notin Telling
    /\ pc[c] \in {"flags", "unflag"} /\ flags.st \in Telling =>
          flags.by = Own(c) /\ (flags.st = "RDR" => value = Own(c))
    /\ pc[c] \in {"flags", "unflag", "value"} => asked = <<>> /\ output = <<>>
    /\ pc[c] = "value" => value = Own(c)
    /\ pc[c] = "output" => AllIn(asked, Asks(c)) /\ AllIn(output, {Own(c)})
    /\ AllIn(pending, {Own(c)})

\* The shared buffer, the copy of the driver and the reply are of the caller's command.
CallerOwn(c) ==
    /\ pc[c] = "words" => cmd_data.head = Word("header", Own(c))
    /\ pc[c] = "enter" /\ ~Is(c, {"reset"}) =>
          cmd_data.head = Word("header", Own(c)) /\ cmd_data.words = mine[c]
    /\ pc[c] = "input" => copy[c].head = Word("header", Own(c)) /\ copy[c].words = mine[c]
    /\ pc[c] = "unflag" /\ seen[c].st = "RDR" => value = Own(c)
    /\ pc[c] \in {"unflag", "out", "store"} /\ seen[c].st \in Telling => seen[c].by = Own(c)
    /\ pc[c] = "read" /\ cmd_data.head.st \in Telling => cmd_data.head.by = Own(c)

LoneInv == \A c \in Callers : Lone(c) => AloneInv(c) /\ BoardOwn(c) /\ CallerOwn(c)

OwnInv == LoneInv /\ OwnReply

LEMMA QueueIn ==
  ASSUME NEW T, NEW q \in Seq(T), NEW S
  PROVE  /\ AllIn(<<>>, S)
         /\ AllIn(q, S) => \A x \in S : AllIn(Append(q, x), S)
         /\ AllIn(q, S) /\ q # <<>> => Head(q) \in S /\ AllIn(Tail(q), S)
         /\ \A U : AllIn(q, S) /\ S \subseteq U => AllIn(q, U)
<1>1. AllIn(<<>>, S)
  BY DEF AllIn
<1>2. ASSUME AllIn(q, S), NEW x \in S PROVE AllIn(Append(q, x), S)
  BY <1>2 DEF AllIn
<1>3. ASSUME AllIn(q, S), q # <<>> PROVE Head(q) \in S /\ AllIn(Tail(q), S)
  <2>1. Len(q) \in Nat \ {0} /\ Head(q) = q[1] /\ Len(Tail(q)) = Len(q) - 1
    BY <1>3
  <2>2. \A i \in 1 .. Len(q) - 1 : Tail(q)[i] = q[i + 1]
    BY <1>3
  <2>3. Head(q) \in S
    BY <1>3, <2>1 DEF AllIn
  <2>4. ASSUME NEW i \in 1 .. Len(Tail(q)) PROVE Tail(q)[i] \in S
    <3>1. i \in 1 .. Len(q) - 1 /\ i + 1 \in 1 .. Len(q)
      BY <2>1
    <3> QED
      BY <1>3, <2>2, <3>1 DEF AllIn
  <2> QED
    BY <2>3, <2>4 DEF AllIn
<1>4. \A U : AllIn(q, S) /\ S \subseteq U => AllIn(q, U)
  BY DEF AllIn
<1> QED
  BY <1>1, <1>2, <1>3, <1>4

\* What the types say of one caller.
LEMMA OneCaller ==
  ASSUME TypeOK
  PROVE  /\ pc \in [Callers -> Labels] /\ mine \in [Callers -> 0 .. MaxCalls]
         /\ copy \in [Callers -> Buffers] /\ seen \in [Callers -> FlagTypes]
         /\ result \in [Callers -> WordTypes] /\ clean \subseteq Callers
         /\ input \in Seq(Commands) /\ pending \in Seq(Commands) /\ output \in Seq(Commands)
         /\ asked \in Seq(0 .. MaxCalls)
  BY DEF TypeOK, CallersOK, BoardOK

\* A thread that takes a step is inside a call.
LEMMA StepsInside ==
  ASSUME NEW c \in Callers, Step(c)
  PROVE  pc[c] # "ready" /\ UNCHANGED clean
  BY DEF Step, FillHead, FillWords, EnterIoctl, WriteCommand, SetHCVR, CheckReplyFlags,
     ClearSeenFlags, ReadReplyValue, GetProgress, ReadOutput, Leave, StoreReply, ReadReply, Locked

LEMMA OwnKept ==
  ASSUME TypeOK, NEW c \in Callers, Step(c)
  PROVE  Own(c)' = Own(c) /\ \A ks : Is(c, ks)' <=> Is(c, ks)
  BY CallKept DEF Own, Is

\* The statements before the command is sent.
LEMMA LoneFill ==
  ASSUME TypeOK, NEW c \in Callers, Lone(c), BoardOwn(c), CallerOwn(c), FillHead(c) \/ FillWords(c)
  PROVE  BoardOwn(c)' /\ CallerOwn(c)'
<1>1. Own(c)' = Own(c) /\ mine' = mine /\ UNCHANGED board /\ pc \in [Callers -> Labels]
  BY OneCaller DEF FillHead, FillWords, Own
<1>2. /\ FillHead(c) => pc[c] = "head" /\ pc'[c] = "words" /\ cmd_data'.head = Word("header", Own(c))
      /\ FillWords(c) => pc[c] = "words" /\ pc'[c] = "enter"
                         /\ cmd_data'.head = cmd_data.head /\ cmd_data'.words = mine[c]
  <2>1. cmd_data \in Buffers
    BY DEF TypeOK, CallersOK
  <2> QED
    BY <1>1, <2>1 DEF FillHead, FillWords, Goto, Own, Buffers
<1>3. pc[c] \in {"head", "words"} /\ pc'[c] \in {"words", "enter"}
  BY <1>2
<1>4. BoardOwn(c)'
  <2>1. Resting /\ Resting' /\ pending' = pending
    BY <1>1, <1>3 DEF BoardOwn, Early, Resting, board
  <2> QED
    BY <1>1, <1>3, <2>1 DEF BoardOwn, AllIn
<1>5. CallerOwn(c)'
  BY <1>1, <1>2, <1>3 DEF CallerOwn
<1> QED
  BY <1>4, <1>5

LEMMA LoneEnter ==
  ASSUME TypeOK, NEW c \in Callers, Lone(c), BoardOwn(c), CallerOwn(c), EnterIoctl(c)
  PROVE  BoardOwn(c)' /\ CallerOwn(c)'
<1>1. /\ Own(c)' = Own(c) /\ mine' = mine /\ kind' = kind /\ pc \in [Callers -> Labels] /\ pc[c] = "enter"
      /\ UNCHANGED <<input, pending, asked, output, value, cmd_data>>
  BY OneCaller DEF EnterIoctl, Own, Locked
<1>2. \/ pc'[c] \in {"input", "vector"} /\ flags' = NoFlags
      \/ pc'[c] = "fails"
  BY <1>1 DEF EnterIoctl, ClearsFlags, Proceed, Goto, Fails
<1>3. copy'[c] = IF Is(c, {"reset"}) THEN NoCopy ELSE cmd_data
  BY OneCaller DEF EnterIoctl
<1>4. BoardOwn(c)'
  <2>1. Resting /\ Resting' /\ AllIn(pending', {Own(c)'})
    BY <1>1 DEF BoardOwn, Early, Resting
  <2>2. NoFlags.st \notin Telling
    BY DEF NoFlags, Flags, Telling
  <2> QED
    BY <1>1, <1>2, <2>1, <2>2 DEF BoardOwn
<1>5. CallerOwn(c)'
  <2>1. pc'[c] = "input" => ~Is(c, {"reset"})
    BY <1>1 DEF EnterIoctl, Proceed, Goto, Fails
  <2>2. pc'[c] = "input" => copy'[c].head = Word("header", Own(c)) /\ copy'[c].words = mine[c]
    BY <1>1, <1>3, <2>1 DEF CallerOwn
  <2> QED
    BY <1>1, <1>2, <2>2 DEF CallerOwn
<1> QED
  BY <1>4, <1>5

\* The command is sent.
LEMMA LoneSend ==
  ASSUME TypeOK, NEW c \in Callers, Lone(c), BoardOwn(c), CallerOwn(c), WriteCommand(c) \/ SetHCVR(c)
  PROVE  BoardOwn(c)' /\ CallerOwn(c)'
<1>1. /\ Own(c)' = Own(c) /\ mine' = mine /\ pc \in [Callers -> Labels] /\ pc[c] \in {"input", "vector"}
      /\ UNCHANGED <<flags, asked, output, value, cmd_data>>
  BY OneCaller DEF WriteCommand, SetHCVR, Own, Locked
<1>2. pc'[c] \in {"flags", "fails"}
  BY <1>1 DEF WriteCommand, SetHCVR, Proceed, Goto, Fails
<1>3. input = <<>> /\ pending = <<>> /\ asked = <<>> /\ output = <<>> /\ flags.st \notin Telling
  BY <1>1 DEF BoardOwn, Early, Resting
<1>4. AllIn(pending', {Own(c)})
  <2>1. CASE pending' = pending
    BY <1>3, <2>1 DEF AllIn
  <2>2. CASE SetHCVR(c) /\ pending' # pending
    <3>1. pending' = Append(pending, Own(c))
      BY <2>2 DEF SetHCVR, Own
    <3> QED
      BY <1>3, <3>1 DEF AllIn
  <2>3. CASE WriteCommand(c) /\ pending' # pending
    <3> DEFINE command == [head |-> copy[c].head.by.head, words |-> copy[c].words]
    <3>0. pc[c] = "input"
      BY <2>3 DEF WriteCommand, Locked
    <3>h. copy[c].head.st = "header" /\ copy[c].head.by = Own(c) /\ copy[c].words = mine[c]
      BY <3>0 DEF CallerOwn, Word
    <3>1. pending' = Append(pending, Head(Append(input, command)))
      BY <2>3, <3>h DEF WriteCommand
    <3>2. command = Own(c)
      BY <3>h DEF Own, Whole
    <3>3. Head(Append(input, command)) = command
      BY <1>3
    <3> QED
      BY <1>3, <3>1, <3>2, <3>3 DEF AllIn
  <2> QED
    BY <2>1, <2>2, <2>3
<1>5. BoardOwn(c)'
  BY <1>1, <1>2, <1>3, <1>4 DEF BoardOwn, Early
<1>6. CallerOwn(c)'
  BY <1>1, <1>2 DEF CallerOwn
<1> QED
  BY <1>5, <1>6

\* The answer is waited for, and its flag cleared.
LEMMA LoneFlags ==
  ASSUME TypeOK, NEW c \in Callers, Lone(c), BoardOwn(c), CallerOwn(c),
         CheckReplyFlags(c) \/ ClearSeenFlags(c)
  PROVE  BoardOwn(c)' /\ CallerOwn(c)'
<1>1. /\ Own(c)' = Own(c) /\ mine' = mine /\ pc \in [Callers -> Labels] /\ pc[c] \in {"flags", "unflag"}
      /\ UNCHANGED <<input, pending, asked, output, value, cmd_data>> /\ flags' \in {NoFlags, flags}
  BY OneCaller DEF CheckReplyFlags, ClearSeenFlags, Own, Locked, board
<1>2. asked = <<>> /\ output = <<>> /\ AllIn(pending, {Own(c)})
      /\ (flags.st \in Telling => flags.by = Own(c) /\ (flags.st = "RDR" => value = Own(c)))
  BY <1>1 DEF BoardOwn
<1>3. NoFlags.st \notin Telling /\ Flags("TOUT", Nothing, 0).st \notin Telling
  BY DEF NoFlags, Flags, Telling
<1>4. CASE CheckReplyFlags(c)
  <2>1. /\ seen'[c] \in {flags, Flags("TOUT", Nothing, 0)} /\ pc'[c] \in {"out", "unflag"}
    BY <1>1, <1>4, OneCaller DEF CheckReplyFlags, Proceed, Goto
  <2>2. seen'[c].st \in Telling => seen'[c].by = Own(c) /\ (seen'[c].st = "RDR" => value = Own(c))
    BY <1>2, <1>3, <2>1
  <2>3. "RDR" \in Telling
    BY DEF Telling
  <2>4. BoardOwn(c)'
    BY <1>1, <1>2, <1>3, <2>1 DEF BoardOwn, Early
  <2>5. CallerOwn(c)'
    BY <1>1, <2>1, <2>2, <2>3 DEF CallerOwn
  <2> QED
    BY <2>4, <2>5
<1>5. CASE ClearSeenFlags(c)
  <2>1. /\ pc[c] = "unflag" /\ seen' = seen
        /\ pc'[c] = CASE seen[c].st = "BUSY" -> "flags" [] seen[c].st = "RDR" -> "value" [] OTHER -> "out"
    BY <1>1, <1>5 DEF ClearSeenFlags, Proceed, Goto, Locked
  <2>2. pc'[c] \in {"flags", "value", "out"} /\ (pc'[c] = "value" => seen[c].st = "RDR")
    BY <2>1
  <2>3. BoardOwn(c)'
    BY <1>1, <1>2, <1>3, <2>1, <2>2 DEF BoardOwn, CallerOwn, Early
  <2>4. CallerOwn(c)'
    BY <1>1, <2>1, <2>2 DEF CallerOwn
  <2> QED
    BY <2>3, <2>4
<1> QED
  BY <1>4, <1>5

\* A value or the progress is asked for and read.
LEMMA LoneValue ==
  ASSUME TypeOK, NEW c \in Callers, Lone(c), BoardOwn(c), CallerOwn(c),
         ReadReplyValue(c) \/ GetProgress(c) \/ ReadOutput(c)
  PROVE  BoardOwn(c)' /\ CallerOwn(c)'
<1>1. /\ Own(c)' = Own(c) /\ mine' = mine /\ pc \in [Callers -> Labels] /\ pc[c] \in {"value", "ask", "output"}
      /\ UNCHANGED <<input, pending, value, cmd_data>>
  BY OneCaller DEF ReadReplyValue, GetProgress, ReadOutput, Own, Locked
<1>2. AllIn(pending, {Own(c)}) /\ Asks(c)' = Asks(c)
  BY <1>1 DEF BoardOwn, Asks
<1>3. CASE ReadReplyValue(c) \/ GetProgress(c)
  <2>1. /\ pc[c] \in {"value", "ask"} /\ pc'[c] \in {"output", "fails"} /\ output' \in {<<>>, output}
        /\ asked' \in {asked, Append(asked, 0), Append(asked, mine[c])}
        /\ asked' = Append(asked, 0) => pc[c] = "value" \/ mine[c] = 0
    <3>1. CASE ReadReplyValue(c)
      BY <1>1, <3>1 DEF ReadReplyValue, Proceed, Goto, Fails, Locked
    <3>2. CASE GetProgress(c)
      <4>1. /\ pc[c] = "ask" /\ pc'[c] \in {"output", "fails"} /\ output' = output
            /\ asked' \in {asked, Append(asked, mine[c])}
        BY <1>1, <3>2 DEF GetProgress, Proceed, Goto, Fails, Locked
      <4>2. asked = <<>>
        BY <4>1 DEF BoardOwn, Early, Resting
      <4>3. Append(<<>>, mine[c]) = Append(<<>>, 0) => mine[c] = 0
        OBVIOUS
      <4>4. Append(<<>>, 0) # <<>>
        OBVIOUS
      <4> QED
        BY <4>1, <4>2, <4>3, <4>4
    <3> QED
      BY <1>3, <3>1, <3>2
  <2>2. asked = <<>> /\ output = <<>> /\ (pc[c] = "value" => value = Own(c))
    BY <2>1 DEF BoardOwn, Early, Resting
  <2>3. mine[c] # 0
    BY DEF Lone, Is
  <2>4. AllIn(asked', Asks(c)) /\ AllIn(output', {Own(c)})
    <3>1. AllIn(<<>>, Asks(c)) /\ AllIn(<<>>, {Own(c)})
      BY DEF AllIn
    <3>2. asked' # asked => asked' = Append(<<>>, mine[c]) \/ (asked' = Append(<<>>, 0) /\ value = Own(c))
      BY <2>1, <2>2, <2>3
    <3>3. mine[c] \in Asks(c) /\ (value = Own(c) => 0 \in Asks(c))
      BY DEF Asks
    <3>4. AllIn(Append(<<>>, mine[c]), Asks(c)) /\ (value = Own(c) => AllIn(Append(<<>>, 0), Asks(c)))
      BY <3>3 DEF AllIn
    <3> QED
      BY <2>1, <2>2, <3>1, <3>2, <3>4
  <2>5. BoardOwn(c)'
    BY <1>1, <1>2, <2>1, <2>4 DEF BoardOwn, Early
  <2>6. CallerOwn(c)'
    BY <1>1, <2>1 DEF CallerOwn
  <2> QED
    BY <2>5, <2>6
<1>4. CASE ReadOutput(c)
  <2>1. /\ pc[c] = "output"
        /\ \/ pc'[c] = "out" /\ output # <<>> /\ seen'[c] = Flags("value", Head(output), 0)
           \/ pc'[c] = "fails"
    BY <1>1, <1>4, OneCaller DEF ReadOutput, Proceed, Goto, Fails, Locked
  <2>2. AllIn(output, {Own(c)})
    BY <2>1 DEF BoardOwn
  <2>3. output # <<>> => Head(output) = Own(c)
    BY <2>2, OneCaller, QueueIn
  <2>4. BoardOwn(c)'
    BY <1>1, <1>2, <2>1 DEF BoardOwn, Early
  <2>5. CallerOwn(c)'
    BY <1>1, <2>1, <2>3 DEF CallerOwn, Flags
  <2> QED
    BY <2>4, <2>5
<1> QED
  BY <1>3, <1>4

\* The reply goes back.
LEMMA LoneReturn ==
  ASSUME TypeOK, NEW c \in Callers, Lone(c), BoardOwn(c), CallerOwn(c),
         Leave(c) \/ StoreReply(c) \/ ReadReply(c), pc'[c] # "ready"
  PROVE  BoardOwn(c)' /\ CallerOwn(c)'
<1>1. /\ Own(c)' = Own(c) /\ mine' = mine /\ pc \in [Callers -> Labels] /\ UNCHANGED board
      /\ AllIn(pending, {Own(c)}) /\ cmd_data \in Buffers
  BY OneCaller DEF Leave, StoreReply, ReadReply, Own, BoardOwn, TypeOK, CallersOK
<1>2. CASE Leave(c)
  <2>1. pc[c] = "out" /\ pc'[c] \in {"store", "read"} /\ seen' = seen /\ ~Is(c, {"progress"})
        /\ (pc'[c] = "read" => ~Is(c, {"reset", "abort"}))
    BY <1>1, <1>2 DEF Leave, Goto
  <2>2. pc'[c] = "read" => Is(c, {"do", "get"})
    BY <2>1 DEF Lone, Is, Serving
  <2>3. pc'[c] = "read" => cmd_data'.head.st = seen[c].st /\ cmd_data'.head.by = seen[c].by
    BY <1>2, <2>2 DEF Leave, Reply, Word
  <2>4. BoardOwn(c)'
    BY <1>1, <2>1 DEF BoardOwn, Early, board
  <2>5. CallerOwn(c)'
    BY <1>1, <2>1, <2>3 DEF CallerOwn
  <2> QED
    BY <2>4, <2>5
<1>3. CASE StoreReply(c)
  <2>1. pc[c] = "store" /\ pc'[c] = "read" /\ cmd_data'.head = Reply(c)
    BY <1>1, <1>3 DEF StoreReply, Stored, Goto, Buffers
  <2>2. BoardOwn(c)'
    BY <1>1, <2>1 DEF BoardOwn, Early, board
  <2>3. CallerOwn(c)'
    BY <1>1, <2>1 DEF CallerOwn, Reply, Word
  <2> QED
    BY <2>2, <2>3
<1>4. CASE ReadReply(c)
  BY <1>1, <1>4 DEF ReadReply, Goto
<1> QED
  BY <1>2, <1>3, <1>4

LEMMA LoneStep ==
  ASSUME TypeOK, LoneInv, NEW c \in Callers, Step(c), Lone(c)'
  PROVE  AloneInv(c)' /\ BoardOwn(c)' /\ CallerOwn(c)'
<1>1. Lone(c)
  BY StepsInside, OwnKept DEF Lone
<1>2. AloneInv(c) /\ BoardOwn(c) /\ CallerOwn(c)
  BY <1>1 DEF LoneInv
<1>3. AloneInv(c)'
  BY <1>2, CallKept DEF AloneInv
<1>4. pc'[c] # "ready"
  BY DEF Lone
<1>5. BoardOwn(c)' /\ CallerOwn(c)'
  BY <1>1, <1>2, <1>4, LoneFill, LoneEnter, LoneSend, LoneFlags, LoneValue, LoneReturn DEF Step
<1> QED
  BY <1>3, <1>5

\* A call that begins alone finds the board at rest; one that begins beside another
\* ends its being alone.
LEMMA LoneBegin ==
  ASSUME TypeOK, NumbersInv, NEW c \in Callers, NEW d \in Callers, NEW k \in Kinds, Begin(d, k), Lone(c)'
  PROVE  AloneInv(c)' /\ BoardOwn(c)' /\ CallerOwn(c)'
<1>1. /\ pc \in [Callers -> Labels] /\ UNCHANGED board /\ pc[d] = "ready"
      /\ clean' = {e \in clean \ {d} : pc[e] = "ready"}
                   \cup {e \in {d} : Resting /\ \A b \in Callers : pc[b] = "ready"}
      /\ \A e \in Callers : e # d => pc'[e] = pc[e]
  BY OneCaller DEF Begin, Goto
<1>2. c \in clean' /\ pc'[c] # "ready" /\ Is(c, Serving)'
  BY DEF Lone
<1>3. c = d
  BY <1>1, <1>2
<1>4. Resting /\ \A e \in Callers : pc[e] = "ready"
  BY <1>1, <1>2, <1>3
<1>5. k \in Serving /\ (Is(c, {"reset"})' <=> k = "reset")
  BY <1>2, <1>3, KindKept
<1>6. pc'[c] \in {"head", "enter", "ask"} /\ (pc'[c] = "enter" => k = "reset")
  <2>1. pc'[c] = CASE k \in {"do", "get"} -> "head" [] k = "reset" -> "enter"
                   [] k = "abort" -> "vector" [] k = "progress" -> "ask"
    BY <1>1, <1>3 DEF Begin, Goto
  <2> QED
    BY <1>5, <2>1 DEF Serving
<1>7. AloneInv(c)'
  BY <1>1, <1>3, <1>4 DEF AloneInv
<1>8. BoardOwn(c)'
  <2>1. Resting' /\ pending' = <<>>
    BY <1>1, <1>4 DEF Resting, board
  <2>2. AllIn(pending', {Own(c)'})
    BY <2>1 DEF AllIn
  <2> QED
    BY <1>6, <2>1, <2>2 DEF BoardOwn
<1>9. CallerOwn(c)'
  BY <1>5, <1>6 DEF CallerOwn
<1> QED
  BY <1>7, <1>8, <1>9

\* The board, when it acts, acts on what the caller gave it.
LEMMA LoneBoard ==
  ASSUME TypeOK, NEW c \in Callers, mine[c] # 0, BoardOwn(c), Answer \/ Output \/ Upset \/ EndReadout
  PROVE  BoardOwn(c)'
<1>1. /\ UNCHANGED <<pc, mine, input>> /\ Own(c)' = Own(c)
      /\ AllIn(pending, {Own(c)})
  BY DEF Answer, Output, Upset, EndReadout, caller, Own, BoardOwn
<1>n. NoFlags.st \notin Telling /\ Flags("ROUT", Nothing, 0).st \notin Telling
      /\ \A r : Flags("BUSY", r, 0).st \notin Telling
  BY DEF NoFlags, Flags, Telling
<1>2. CASE Answer
  <2>1. pending # <<>> /\ Head(pending) = Own(c) /\ AllIn(pending', {Own(c)})
    <3>1. pending # <<>> /\ pending' = Tail(pending) /\ pending \in Seq(Commands)
      BY <1>2, OneCaller DEF Answer
    <3> QED
      BY <1>1, <3>1, QueueIn
  <2>2. /\ UNCHANGED <<asked, output>> /\ value' \in {value, Own(c)}
    BY <1>2, <2>1 DEF Answer
  <2>3. flags'.by = Own(c) /\ (flags'.st = "RDR" => value' = Own(c))
    <3>1. PICK st \in {"ERR", IF kind[Head(pending).words] = "get" THEN "RDR" ELSE "DON"} :
            flags' = Flags(st, Head(pending), answers + 1)
      BY <1>2 DEF Answer
    <3>2. flags'.st = st /\ flags'.by = Own(c)
      BY <2>1, <3>1 DEF Flags
    <3>3. st = "RDR" => kind[Head(pending).words] = "get"
      OBVIOUS
    <3> QED
      BY <1>2, <2>1, <3>2, <3>3 DEF Answer
  <2>4. Asks(c) \subseteq Asks(c)'
    BY <1>1, <2>2 DEF Asks
  <2>5. pc[c] \notin Early
    BY <2>1 DEF BoardOwn, Resting
  <2>6. pc[c] \notin {"input", "vector"}
    BY <2>5 DEF Early
  <2>7. pc[c] = "output" => AllIn(asked, Asks(c)') /\ AllIn(output, {Own(c)})
    BY <2>4 DEF BoardOwn, AllIn
  <2> QED
    BY <1>1, <2>1, <2>2, <2>3, <2>5, <2>6, <2>7 DEF BoardOwn
<1>3. CASE Output
  <2>1. /\ asked # <<>> /\ asked' = Tail(asked) /\ UNCHANGED <<flags, pending, value>>
        /\ output' = Append(output, IF Head(asked) = 0 THEN value ELSE Whole(Head(asked)))
        /\ asked \in Seq(0 .. MaxCalls) /\ output \in Seq(Commands)
    BY <1>3, OneCaller DEF Output
  <2>2. pc[c] \notin Early \cup {"flags", "unflag", "value"}
    BY <2>1 DEF BoardOwn, Resting
  <2>3. Asks(c)' = Asks(c)
    BY <1>1, <2>1 DEF Asks
  <2>4. pc[c] = "output" => AllIn(asked', Asks(c)) /\ AllIn(output', {Own(c)})
    <3> SUFFICES ASSUME pc[c] = "output" PROVE AllIn(asked', Asks(c)) /\ AllIn(output', {Own(c)})
      OBVIOUS
    <3>1. AllIn(asked, Asks(c)) /\ AllIn(output, {Own(c)})
      BY DEF BoardOwn
    <3>2. Head(asked) \in Asks(c) /\ AllIn(asked', Asks(c))
      BY <2>1, <3>1, QueueIn
    <3>3. (IF Head(asked) = 0 THEN value ELSE Whole(Head(asked))) = Own(c)
      BY <3>2 DEF Asks, Own
    <3>4. output' = Append(output, Own(c))
      BY <2>1, <3>3
    <3>5. AllIn(output', {Own(c)})
      BY <2>1, <3>1, <3>4, QueueIn
    <3> QED
      BY <3>2, <3>5
  <2> QED
    BY <1>1, <2>1, <2>2, <2>3, <2>4 DEF BoardOwn
<1>4. CASE Upset \/ EndReadout
  <2>1. UNCHANGED <<pending, asked, output, value>> /\ (flags'.st \notin Telling)
    BY <1>4, <1>n DEF Upset, EndReadout
  <2>2. Resting' = Resting /\ Asks(c)' = Asks(c)
    BY <1>1, <2>1 DEF Resting, Asks
  <2> QED
    BY <1>1, <2>1, <2>2 DEF BoardOwn
<1> QED
  BY <1>2, <1>3, <1>4

LEMMA LoneOthers ==
  ASSUME LoneInv, TypeOK, NEW c \in Callers, Answer \/ Output \/ Upset \/ EndReadout \/ UNCHANGED vars,
         Lone(c)'
  PROVE  AloneInv(c)' /\ BoardOwn(c)' /\ CallerOwn(c)'
<1>1. UNCHANGED <<cmd_data, caller>>
  BY DEF Answer, Output, Upset, EndReadout, vars
<1>2. Lone(c)
  BY <1>1 DEF Lone, Is, caller
<1>3. AloneInv(c) /\ BoardOwn(c) /\ CallerOwn(c)
  BY <1>2 DEF LoneInv
<1>4. AloneInv(c)'
  BY <1>1, <1>3 DEF AloneInv, caller
<1>5. BoardOwn(c)'
  <2>1. CASE UNCHANGED vars
    BY <1>3, <2>1 DEF BoardOwn, vars, caller, board, Resting, Asks, Own
  <2> QED
    BY <1>2, <1>3, <2>1, LoneBoard DEF Lone, Is
<1>6. CallerOwn(c)'
  <2>1. pc' = pc /\ mine' = mine /\ copy' = copy /\ seen' = seen /\ cmd_data' = cmd_data
        /\ Own(c)' = Own(c) /\ (Is(c, {"reset"})' <=> Is(c, {"reset"}))
    BY <1>1 DEF caller, Own, Is
  <2>2. pc[c] = "unflag" /\ seen[c].st = "RDR" => value' = Own(c)
    <3>1. CASE Answer
      <4> SUFFICES ASSUME pc[c] = "unflag", seen[c].st = "RDR" PROVE value' = Own(c)
        OBVIOUS
      <4>1. Head(pending) = Own(c)
        BY <1>3, <3>1, OneCaller, QueueIn DEF Answer, BoardOwn
      <4> QED
        BY <1>3, <3>1, <4>1 DEF Answer, CallerOwn
    <3>2. CASE value' = value
      BY <1>3, <3>2 DEF CallerOwn
    <3> QED
      BY <3>1, <3>2 DEF Output, Upset, EndReadout, vars, board
  <2> QED
    BY <1>3, <2>1, <2>2 DEF CallerOwn
<1> QED
  BY <1>4, <1>5, <1>6

LEMMA LoneKept == TypeOK /\ NumbersInv /\ LoneInv /\ [Next]_vars => LoneInv'
<1> SUFFICES ASSUME TypeOK, NumbersInv, LoneInv, [Next]_vars, NEW c \in Callers, Lone(c)'
             PROVE  AloneInv(c)' /\ BoardOwn(c)' /\ CallerOwn(c)'
  BY DEF LoneInv
<1>1. ASSUME NEW d \in Callers, Step(d) PROVE AloneInv(c)' /\ BoardOwn(c)' /\ CallerOwn(c)'
  <2>1. CASE d = c
    BY <1>1, <2>1, LoneStep
  <2>2. CASE d # c
    <3>1. Lone(c)
      BY <1>1, <2>2, StepsInside, OwnKept, CallKept DEF Lone, Is
    <3>2. pc[d] = "ready"
      BY <2>2, <3>1 DEF LoneInv, AloneInv
    <3> QED
      BY <1>1, <3>2, StepsInside
  <2> QED
    BY <2>1, <2>2
<1>2. ASSUME NEW d \in Callers, NEW k \in Kinds, Begin(d, k)
      PROVE  AloneInv(c)' /\ BoardOwn(c)' /\ CallerOwn(c)'
  BY <1>2, LoneBegin
<1>3. CASE Answer \/ Output \/ Upset \/ EndReadout \/ UNCHANGED vars
  BY <1>3, LoneOthers
<1> QED
  BY <1>1, <1>2, <1>3 DEF Next

OwnReplyOf(c) ==
    pc[c] = "ready" /\ c \in clean /\ Is(c, Serving) /\ result[c].st \in {"DON", "value"}
    => result[c].by = Own(c)

\* The statement with which a call returns gives back what the invariant says of it.
LEMMA OwnReturn ==
  ASSUME TypeOK, LoneInv, NEW c \in Callers, Step(c)
  PROVE  OwnReplyOf(c)'
<1> SUFFICES ASSUME pc'[c] = "ready", c \in clean', Is(c, Serving)', result'[c].st \in {"DON", "value"}
             PROVE  result'[c].by = Own(c)'
  BY DEF OwnReplyOf
<1>1. Own(c)' = Own(c) /\ Lone(c) /\ pc \in [Callers -> Labels] /\ result \in [Callers -> WordTypes]
  BY OneCaller, OwnKept, StepsInside DEF Lone
<1>2. CallerOwn(c)
  BY <1>1 DEF LoneInv
<1>3. Leave(c) \/ ReadReply(c)
  BY <1>1 DEF Step, FillHead, FillWords, EnterIoctl, WriteCommand, SetHCVR, CheckReplyFlags,
     ClearSeenFlags, ReadReplyValue, GetProgress, ReadOutput, StoreReply, Goto, Proceed, Fails
<1>n. Word("error", Nothing).st \notin {"DON", "value"} /\ {"DON", "value"} \subseteq Telling
  BY DEF Word, Telling
<1>4. CASE Leave(c)
  <2>1. /\ pc[c] \in {"out", "fails"}
        /\ result'[c] = IF pc[c] = "fails" THEN Word("error", Nothing)
                        ELSE IF Is(c, {"progress"}) THEN Reply(c) ELSE result[c]
        /\ pc'[c] = IF pc[c] = "fails" \/ Is(c, {"progress"}) THEN "ready"
               ELSE IF Is(c, {"reset", "abort"}) THEN "store" ELSE "read"
    BY <1>1, <1>4 DEF Leave, Goto
  <2>2. pc[c] = "out"
    <3>1. pc[c] = "fails" => result'[c] = Word("error", Nothing)
      BY <2>1
    <3>2. pc[c] # "fails"
      BY <1>n, <3>1
    <3> QED
      BY <2>1, <3>2
  <2>r. result'[c] = Reply(c)
    <3>1. Is(c, {"progress"})
      BY <2>1, <2>2
    <3> QED
      BY <2>1, <2>2, <3>1
  <2>3. Reply(c).st = seen[c].st /\ Reply(c).by = seen[c].by
    BY DEF Reply, Word
  <2> QED
    BY <1>1, <1>2, <1>n, <2>2, <2>r, <2>3 DEF CallerOwn
<1>5. CASE ReadReply(c)
  <2>1. pc[c] = "read" /\ result'[c] \in {cmd_data.head, Word("error", Nothing)}
    BY <1>1, <1>5 DEF ReadReply
  <2> QED
    BY <1>1, <1>2, <1>n, <2>1 DEF CallerOwn
<1> QED
  BY <1>3, <1>4, <1>5

LEMMA OwnReplyStep == TypeOK /\ NumbersInv /\ OwnInv /\ [Next]_vars => OwnInv'
<1> SUFFICES ASSUME TypeOK, NumbersInv, OwnInv, [Next]_vars, NEW c \in Callers PROVE OwnReplyOf(c)'
  BY LoneKept DEF OwnInv, OwnReply, OwnReplyOf, Own, Serving
<1>0. OwnReplyOf(c) /\ LoneInv
  BY DEF OwnInv, OwnReply, OwnReplyOf, Own, Serving
<1>k. CASE /\ pc'[c] = pc[c] /\ result'[c] = result[c] /\ Own(c)' = Own(c)
           /\ (c \in clean' => c \in clean) /\ (Is(c, Serving)' <=> Is(c, Serving))
  BY <1>0, <1>k DEF OwnReplyOf
<1>1. ASSUME NEW d \in Callers, Step(d) PROVE OwnReplyOf(c)'
  <2>1. CASE d = c
    BY <1>0, <1>1, <2>1, OwnReturn
  <2>2. CASE d # c
    <3>1. result'[c] = result[c]
      BY <1>1, <2>2, OneCaller DEF Step, FillHead, FillWords, EnterIoctl, WriteCommand, SetHCVR,
         CheckReplyFlags, ClearSeenFlags, ReadReplyValue, GetProgress, ReadOutput, Leave,
         StoreReply, ReadReply
    <3>2. pc'[c] = pc[c] /\ Own(c)' = Own(c) /\ (Is(c, Serving)' <=> Is(c, Serving))
      BY <1>1, <2>2, CallKept DEF Own, Is
    <3> QED
      BY <1>k, <1>1, <3>1, <3>2, StepsInside
  <2> QED
    BY <2>1, <2>2
<1>2. ASSUME NEW d \in Callers, NEW k \in Kinds, Begin(d, k) PROVE OwnReplyOf(c)'
  <2>1. CASE d = c
    <3>1. result'[c] = Word("none", Nothing)
      BY <1>2, <2>1, OneCaller DEF Begin
    <3>2. Word("none", Nothing).st \notin {"DON", "value"}
      BY DEF Word
    <3> QED
      BY <3>1, <3>2 DEF OwnReplyOf
  <2>2. CASE d # c
    <3>1. result'[c] = result[c] /\ pc'[c] = pc[c] /\ (c \in clean' => c \in clean)
      BY <1>2, <2>2, OneCaller DEF Begin, Goto
    <3>2. Own(c)' = Own(c) /\ (Is(c, Serving)' <=> Is(c, Serving))
      BY <1>2, <2>2, KindKept DEF Own
    <3> QED
      BY <1>k, <3>1, <3>2
  <2> QED
    BY <2>1, <2>2
<1>3. CASE Answer \/ Output \/ Upset \/ EndReadout \/ UNCHANGED vars
  <2>1. UNCHANGED caller
    BY <1>3 DEF Answer, Output, Upset, EndReadout, vars
  <2> QED
    BY <1>k, <2>1 DEF caller, Own, Is
<1> QED
  BY <1>1, <1>2, <1>3 DEF Next

\* A call of do_command(), reset_ctrler(), reset_pci() or one for the progress that meets
\* no other call, at a board with nothing left to do, returns the answer to its own
\* command, however many threads there are, however often the board is busy or reads out,
\* and whatever earlier calls left in the shared buffer and in the flags.
THEOREM RepliesAreOwn == Spec => []OwnReply
<1>1. Init => OwnInv /\ NumbersInv
  <2> SUFFICES ASSUME Init PROVE OwnInv /\ NumbersInv
    OBVIOUS
  <2>1. clean = {} /\ mine = [c \in Callers |-> 0] /\ kind = <<>>
    BY DEF Init
  <2> QED
    BY <2>1 DEF OwnInv, LoneInv, Lone, OwnReply, NumbersInv
<1>2. OwnInv => OwnReply
  BY DEF OwnInv
<1> QED
  BY <1>1, <1>2, TypeCorrect, NumbersStep, OwnReplyStep, PTL DEF Spec
=============================================================================

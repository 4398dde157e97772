---------------------------- MODULE PciCommands ----------------------------
(***************************************************************************)
(* Commands to a controller behind a PCI board: genIIILib.c, called by     *)
(* several threads of the detector library, and the ioctl() of its kernel  *)
(* driver, astropci.c.  All threads share one buffer, cmd_data[]; an ioctl *)
(* runs under the big kernel lock, which is given up while it sleeps.  The *)
(* board answers in its own time, maybe after the driver has given up.     *)
(***************************************************************************)
EXTENDS Integers, Sequences

CONSTANTS
    Callers,        \* threads
    Nobody,         \* not a thread
    Kinds,          \* kinds of calls that are made
    MaxCalls,       \* bound: calls
    MaxUpsets       \* bound: how often the board is busy or reads out

ASSUME CallersAssumption ==
    /\ Nobody \notin Callers
    /\ Kinds \subseteq {"do", "get", "reset", "abort", "progress"}
    /\ MaxCalls \in Nat /\ MaxUpsets \in Nat

VARIABLES
    cmd_data,   \* head: a header or the reply, words: the command
    bkl,        \* the caller that holds the big kernel lock, or Nobody
    pc,         \* next statement of each caller
    mine,       \* the call a caller makes
    copy,       \* Cmd_data[] of its ioctl()
    seen,       \* reply of its ioctl(): the flags it saw, or the value it read
    result,     \* what the call returned
    kind,       \* history: the calls made, by number
    since,      \* history: answers given when the caller's command was written
    crowded,    \* history: callers that cleared the flags while another command was under way
    clean,      \* history: callers whose call met no other one, and a board at rest
    flags,      \* board: the reply flags of HSTR
    input,      \* board: words written and not yet taken
    pending,    \* board: commands under way
    asked,      \* board: requests for a word of output
    output,     \* board: the output FIFO
    value,      \* board: the value of the last answer that has one
    answers,    \* board: answers given
    upsets      \* board: times it was busy or began to read out (bounded by MaxUpsets)

caller == <<pc, mine, copy, seen, result, kind, since, crowded, clean>>
board == <<flags, input, pending, asked, output, value, answers, upsets>>
vars == <<cmd_data, bkl, caller, board>>

Calls == 1 .. MaxCalls
Commands == [head : 0 .. MaxCalls, words : 0 .. MaxCalls]   \* 0 is no call
Nothing == [head |-> 0, words |-> 0]
Whole(id) == [head |-> id, words |-> id]
Replies == {"none", "header", "DON", "RDR", "value", "ERR", "TOUT", "ROUT", "BUSY", "error"}
Word(st, by) == [st |-> st, by |-> by]
Flags(st, by, n) == [st |-> st, by |-> by, n |-> n]
NoCopy == [head |-> Word("none", Nothing), words |-> 0]
NoFlags == Flags("none", Nothing, 0)

Labels == {"ready", "head", "words", "enter", "input", "vector", "ask", "flags", "unflag",
           "value", "output", "out", "fails", "store", "read"}
WordTypes == [st : Replies, by : Commands]
Buffers == [head : WordTypes, words : 0 .. MaxCalls]
FlagTypes == [st : Replies, by : Commands, n : Nat]

CallersOK ==
    /\ cmd_data \in Buffers /\ bkl \in Callers \cup {Nobody}
    /\ pc \in [Callers -> Labels] /\ mine \in [Callers -> 0 .. MaxCalls]
    /\ copy \in [Callers -> Buffers] /\ seen \in [Callers -> FlagTypes]
    /\ result \in [Callers -> WordTypes]
    /\ kind \in Seq(Kinds) /\ Len(kind) <= MaxCalls
    /\ since \in [Callers -> Nat] /\ crowded \subseteq Callers /\ clean \subseteq Callers

BoardOK ==
    /\ flags \in FlagTypes
    /\ input \in Seq(Commands) /\ pending \in Seq(Commands) /\ output \in Seq(Commands)
    /\ asked \in Seq(0 .. MaxCalls)
    /\ value \in Commands /\ answers \in Nat /\ upsets \in 0 .. MaxUpsets

\* The lock is held only between two statements of an ioctl().
LockOK == \A c \in Callers : bkl = c => pc[c] \in {"vector", "unflag", "value", "out", "fails"}

TypeOK == CallersOK /\ BoardOK /\ LockOK

Init ==
    /\ cmd_data = NoCopy
    /\ bkl = Nobody
    /\ pc = [c \in Callers |-> "ready"] /\ mine = [c \in Callers |-> 0]
    /\ copy = [c \in Callers |-> NoCopy]
    /\ seen = [c \in Callers |-> NoFlags]
    /\ result = [c \in Callers |-> Word("none", Nothing)]
    /\ kind = <<>> /\ since = [c \in Callers |-> 0]
    /\ crowded = {} /\ clean = {}
    /\ flags = NoFlags /\ input = <<>> /\ pending = <<>> /\ asked = <<>> /\ output = <<>>
    /\ value = Nothing /\ answers = 0 /\ upsets = 0

-----------------------------------------------------------------------------
(* The library, before the ioctl(). *)

Goto(c, l) == pc' = [pc EXCEPT ![c] = l]
Is(c, kinds) == mine[c] # 0 /\ kind[mine[c]] \in kinds
Resting == input = <<>> /\ pending = <<>> /\ asked = <<>> /\ output = <<>>

\* do_command() (with or without a value to return), reset_ctrler() or reset_pci(),
\* abort_readout(), get_read_progress() or get_frames_progress() is called.
Begin(c, k) ==
    /\ pc[c] = "ready" /\ Len(kind) < MaxCalls
    /\ kind' = Append(kind, k)
    /\ mine' = [mine EXCEPT ![c] = Len(kind) + 1]
    /\ result' = [result EXCEPT ![c] = Word("none", Nothing)]
    /\ clean' = {d \in clean \ {c} : pc[d] = "ready"}
                 \cup {d \in {c} : Resting /\ \A e \in Callers : pc[e] = "ready"}
    /\ Goto(c, CASE k \in {"do", "get"} -> "head" [] k = "reset" -> "enter"
                 [] k = "abort" -> "vector" [] k = "progress" -> "ask")
    /\ UNCHANGED <<cmd_data, bkl, copy, seen, since, crowded, board>>

FillHead(c) ==
    /\ pc[c] = "head"
    /\ cmd_data' = [cmd_data EXCEPT !.head = Word("header", Whole(mine[c]))]
    /\ Goto(c, "words")
    /\ UNCHANGED <<bkl, mine, copy, seen, result, kind, since, crowded, clean, board>>

FillWords(c) ==
    /\ pc[c] = "words"
    /\ cmd_data' = [cmd_data EXCEPT !.words = mine[c]]
    /\ Goto(c, "enter")
    /\ UNCHANGED <<bkl, mine, copy, seen, result, kind, since, crowded, clean, board>>

-----------------------------------------------------------------------------
(* The driver. *)

\* A statement of an ioctl() runs while nobody else is in one, or all others sleep.
Locked(c, l) == pc[c] = l /\ bkl \in {c, Nobody}

\* wait_for_condition() may sleep: the lock is free while it waits.
Proceed(c, l) ==
    /\ Goto(c, l)
    /\ bkl' = IF l \in {"input", "flags", "output"} THEN Nobody ELSE c

Fails(c) == Proceed(c, "fails") /\ UNCHANGED seen

\* Mutant of ClearsFlags: the flags are not cleared.
ClearsNothing == UNCHANGED flags

\* The vector command CLEAR_REPLY_FLAGS
ClearsFlags == flags' = NoFlags

\* ASTROPCI_COMMAND and ASTROPCI_SET_HCVR begin. No command is sent while the board
\* reads out. A vector command that the board does not take in time is an error.
EnterIoctl(c) ==
    /\ Locked(c, "enter")
    /\ \/ /\ Is(c, {"reset"}) \/ flags.st # "ROUT"
          /\ ClearsFlags
          /\ crowded' = IF pending = <<>> THEN crowded \ {c} ELSE crowded \cup {c}
          /\ Proceed(c, IF Is(c, {"reset"}) THEN "vector" ELSE "input")
          /\ UNCHANGED seen
       \/ Fails(c) /\ UNCHANGED <<flags, crowded>>
    /\ copy' = [copy EXCEPT ![c] = IF Is(c, {"reset"}) THEN NoCopy ELSE cmd_data]
    /\ UNCHANGED <<cmd_data, mine, result, kind, since, clean,
                   input, pending, asked, output, value, answers, upsets>>

\* The command is written, while the others may still be waiting to write theirs.
Sent(c) ==
    /\ since' = [since EXCEPT ![c] = answers]
    /\ crowded' = crowded \cup {d \in Callers \ {c} : pc[d] \in {"input", "vector"}}

\* The words are written, as many as the low byte of the header says, then WRITE_COMMAND
\* makes the board take as many.  If it does not take WRITE_COMMAND, the words stay.
\* A header that is a reply by now has too many parameters, unless it is a failed
\* ioctl()'s reply, which is 0, or a value.
WriteCommand(c) ==
    /\ Locked(c, "input")
    /\ LET head == copy[c].head
           words == IF head.st = "none" THEN input
                    ELSE Append(input, [head |-> head.by.head, words |-> copy[c].words])
       IN  \/ /\ head.st \in {"header", "value", "none"} /\ words # <<>>
              /\ pending' = Append(pending, Head(words)) /\ input' = Tail(words)
              /\ Proceed(c, "flags") /\ UNCHANGED seen /\ Sent(c)
           \/ /\ head.st = "none" /\ input = <<>>
              /\ Proceed(c, "flags") /\ UNCHANGED <<seen, input, pending>> /\ Sent(c)
           \/ /\ head.st \in {"header", "value"}
              /\ Fails(c) /\ input' = words /\ UNCHANGED <<pending, since, crowded>>
           \/ Fails(c) /\ UNCHANGED <<input, pending, since, crowded>>
    /\ UNCHANGED <<cmd_data, mine, copy, result, kind, clean,
                   flags, asked, output, value, answers, upsets>>

\* ASTROPCI_SET_HCVR: the command is the vector.
SetHCVR(c) ==
    /\ Locked(c, "vector")
    /\ \/ /\ pending' = Append(pending, Whole(mine[c]))
          /\ Proceed(c, "flags") /\ UNCHANGED seen /\ Sent(c)
       \/ Fails(c) /\ UNCHANGED <<pending, since, crowded>>
    /\ UNCHANGED <<cmd_data, mine, copy, result, kind, clean,
                   flags, input, asked, output, value, answers, upsets>>

\* astropci_check_reply_flags() waits for a flag, or for SLEEP_MAX_WAIT.
CheckReplyFlags(c) ==
    /\ Locked(c, "flags")
    /\ seen' = [seen EXCEPT ![c] =
          IF flags.st = "none" THEN Flags("TOUT", Nothing, 0) ELSE flags]
    /\ Proceed(c, IF flags.st = "ROUT" THEN "out" ELSE "unflag")
    /\ UNCHANGED <<cmd_data, mine, copy, result, kind, since, crowded, clean, board>>

\* The flag is cleared, or a later one; whether the board took it is not tested.
ClearSeenFlags(c) ==
    /\ Locked(c, "unflag")
    /\ flags' \in {NoFlags, flags}
    /\ Proceed(c, CASE seen[c].st = "BUSY" -> "flags" [] seen[c].st = "RDR" -> "value"
                 [] OTHER -> "out")
    /\ UNCHANGED <<cmd_data, mine, copy, seen, result, kind, since, crowded, clean,
                   input, pending, asked, output, value, answers, upsets>>

\* Old output is thrown away before a value is asked for.
ReadReplyValue(c) ==
    /\ Locked(c, "value")
    /\ output' = <<>>
    /\ \/ asked' = Append(asked, 0) /\ Proceed(c, "output") /\ UNCHANGED seen
       \/ Fails(c) /\ UNCHANGED asked
    /\ UNCHANGED <<cmd_data, mine, copy, result, kind, since, crowded, clean,
                   flags, input, pending, value, answers, upsets>>

\* ASTROPCI_GET_PROGRESS, ASTROPCI_GET_FRAMES_READ: nothing is thrown away.
GetProgress(c) ==
    /\ Locked(c, "ask")
    /\ \/ asked' = Append(asked, mine[c]) /\ Proceed(c, "output") /\ UNCHANGED seen
       \/ Fails(c) /\ UNCHANGED asked
    /\ UNCHANGED <<cmd_data, mine, copy, result, kind, since, crowded, clean,
                   flags, input, pending, output, value, answers, upsets>>

ReadOutput(c) ==
    /\ Locked(c, "output")
    /\ \/ /\ output # <<>>
          /\ seen' = [seen EXCEPT ![c] = Flags("value", Head(output), 0)]
          /\ output' = Tail(output)
          /\ Proceed(c, "out")
       \/ output = <<>> /\ Fails(c) /\ UNCHANGED output
    /\ UNCHANGED <<cmd_data, mine, copy, result, kind, since, crowded, clean,
                   flags, input, pending, asked, value, answers, upsets>>

-----------------------------------------------------------------------------
(* The way back. *)

\* Mutant of Unlocks: the lock is kept.
StaysLocked == UNCHANGED bkl

Unlocks == bkl' = Nobody

Reply(c) == Word(seen[c].st, seen[c].by)

\* The ioctl() returns.  ASTROPCI_COMMAND copies reply and command back, even when it
\* failed; progress is returned at once.
Leave(c) ==
    /\ pc[c] \in {"out", "fails"} /\ Unlocks
    /\ cmd_data' = IF Is(c, {"do", "get"}) THEN [head |-> Reply(c), words |-> copy[c].words]
                   ELSE cmd_data
    /\ result' = [result EXCEPT ![c] =
          IF pc[c] = "fails" THEN Word("error", Nothing)
          ELSE IF Is(c, {"progress"}) THEN Reply(c) ELSE @]
    /\ Goto(c, IF pc[c] = "fails" \/ Is(c, {"progress"}) THEN "ready"
               ELSE IF Is(c, {"reset", "abort"}) THEN "store" ELSE "read")
    /\ copy' = [copy EXCEPT ![c] = NoCopy]
    /\ seen' = IF pc'[c] = "ready" THEN [seen EXCEPT ![c] = NoFlags] ELSE seen
    /\ UNCHANGED <<mine, kind, since, crowded, clean, board>>

\* Mutant of Stored: the reply is not stored.
NotStored(c) == UNCHANGED cmd_data

Stored(c) == cmd_data' = [cmd_data EXCEPT !.head = Reply(c)]

\* reset_ctrler(), reset_pci() and set_hcvr() go through cmd_data[] as well.
StoreReply(c) ==
    /\ pc[c] = "store"
    /\ Stored(c)
    /\ Goto(c, "read")
    /\ UNCHANGED <<bkl, mine, copy, seen, result, kind, since, crowded, clean, board>>

\* read_reply(): where DON is expected anything else is an error, where a value is,
\* anything but ERR and TOUT is taken for it.
ReadReply(c) ==
    /\ pc[c] = "read"
    /\ LET reply == cmd_data.head
           good == IF Is(c, {"get"}) THEN reply.st \notin {"ERR", "TOUT"} ELSE reply.st = "DON"
       IN  result' = [result EXCEPT ![c] = IF good THEN reply ELSE Word("error", Nothing)]
    /\ Goto(c, "ready")
    /\ seen' = [seen EXCEPT ![c] = NoFlags]
    /\ UNCHANGED <<cmd_data, bkl, mine, copy, kind, since, crowded, clean, board>>

-----------------------------------------------------------------------------
(* The board, and the controller behind it. *)

\* A command is answered, in its turn, with a value if it asks for one.  Of the commands
\* only an abort is looked at during a readout.
Answer ==
    /\ pending # <<>>
    /\ LET k == kind[Head(pending).words]
       IN  /\ flags.st = "ROUT" => k = "abort"
           /\ \E st \in {"ERR", IF k = "get" THEN "RDR" ELSE "DON"} :
                 flags' = Flags(st, Head(pending), answers + 1)
           /\ value' = IF k = "get" THEN Head(pending) ELSE value
    /\ pending' = Tail(pending) /\ answers' = answers + 1
    /\ UNCHANGED <<cmd_data, bkl, caller, input, asked, output, upsets>>

Output ==
    /\ asked # <<>>
    /\ output' = Append(output, IF Head(asked) = 0 THEN value ELSE Whole(Head(asked)))
    /\ asked' = Tail(asked)
    /\ UNCHANGED <<cmd_data, bkl, caller, flags, input, pending, value, answers, upsets>>

\* It is busy, or it begins to read out.
Upset ==
    /\ upsets < MaxUpsets /\ flags.st # "ROUT"
    /\ upsets' = upsets + 1
    /\ \/ flags' = Flags("ROUT", Nothing, 0)
       \/ pending # <<>> /\ flags' = Flags("BUSY", Head(pending), 0)
    /\ UNCHANGED <<cmd_data, bkl, caller, input, pending, asked, output, value, answers>>

EndReadout ==
    /\ flags.st = "ROUT"
    /\ flags' = NoFlags
    /\ UNCHANGED <<cmd_data, bkl, caller, input, pending, asked, output, value, answers, upsets>>

-----------------------------------------------------------------------------
Step(c) ==
    \/ FillHead(c) \/ FillWords(c) \/ EnterIoctl(c)
    \/ WriteCommand(c) \/ SetHCVR(c) \/ CheckReplyFlags(c) \/ ClearSeenFlags(c)
    \/ ReadReplyValue(c) \/ GetProgress(c) \/ ReadOutput(c)
    \/ Leave(c) \/ StoreReply(c) \/ ReadReply(c)

Next ==
    \/ \E c \in Callers : Step(c) \/ \E k \in Kinds : Begin(c, k)
    \/ Answer \/ Output \/ Upset \/ EndReadout

Spec == Init /\ [][Next]_vars

-----------------------------------------------------------------------------
\* A call that meets no other one, at a board that has nothing left to do and nothing
\* left to hand out, returns the answer to its own command, whatever went wrong before:
\* late answers, lost answers, overlapping calls.  An abort of the readout is excepted:
\* it does not clear the flags first.
OwnReply ==
    \A c \in Callers :
        pc[c] = "ready" /\ c \in clean /\ Is(c, {"do", "get", "reset", "progress"})
        /\ result[c].st \in {"DON", "value"} => result[c].by = Whole(mine[c])

\* The driver takes no answer for that of a command if it was given before the command was
\* written, unless an earlier command was still under way when it cleared the flags, or
\* another thread wrote one while it waited to write its own: CLEAR_REPLY_FLAGS forgets
\* every answer to a call that has given up, however many such calls there were.
AnswerIsFresh ==
    \A c \in Callers \ crowded :
        pc[c] # "ready" /\ Is(c, {"do", "get", "reset"}) /\ seen[c].st \in {"DON", "RDR", "ERR"}
            => seen[c].n > since[c]
=============================================================================

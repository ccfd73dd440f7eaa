---------------------------- MODULE AvThreadComm ----------------------------
(***************************************************************************)
(* A thread and its pair of sockets (av_thread.c), and the loops around    *)
(* write and read that carry the commands, in both directions              *)
(* (av_threadcomm.c).                                                      *)
(*                                                                         *)
(* Each end is used by one thread: 0 by the one that has set the other up  *)
(* and 1 by the other.  A stream knows nothing of commands: a write or a   *)
(* read may take any part of one.  A byte in a socket is here a record of  *)
(* the command it is part of and its place in it.                          *)
(***************************************************************************)
EXTENDS Integers, Sequences, Functions, SequencesExt

CONSTANTS
  Size,       \* sizeof(struct av_thread_cmd)
  Capacity,   \* bytes that a socket takes before a write has to wait
  MaxPending, \* bound: commands sent and not received, the exit command aside
  MaxSent,    \* bound: commands that an end begins to send
  Failures    \* what may fail in a run

ASSUME SizeAssumption == Size \in Nat \ {0} /\ MaxSent \in Nat
\* AvSip!ChannelsBounded bounds the commands in each of the sockets.
ASSUME CapacityAssumption ==
  /\ Capacity \in Nat /\ MaxPending \in Nat
  /\ (MaxPending + 1) * Size <= Capacity
ASSUME CommFailuresAssumption ==
  Failures \subseteq { "setup",   \* memory, socketpair or g_thread_try_new
                       "alloc",   \* the buffer for a command
                       "write",   \* write fails, with EINTR for one
                       "read" }   \* and so does read

Ends    == {0, 1}
Peer(e) == 1 - e

\* The commands of an end are told apart by their number.  0 ends a thread.
Exit     == 0
Commands == 0..MaxSent
Byte(c, i) == [cmd |-> c, pos |-> i]

VARIABLES
  life,     \* struct av_thread: "none", "up", "stopping", "down" or "failed"
  pc,       \* the two threads: "idle", "tx", "rx" or "ended"
  begun,    \* how many commands each has begun to send
  tx,       \* what it is writing, and how much remains
  pipe,     \* the bytes written at each end and not read at the other
  rx,       \* the bytes read so far of a command
  sent,     \* history: the commands written as a whole
  received, \* history: those of an end that were read at the other
  fault     \* a loop has left a command in parts: the rest is no commands

commVars == <<begun, tx, pipe, rx, sent, received>>
vars == <<life, pc, commVars, fault>>

Nothing == [cmd |-> Exit, left |-> 0]

Init ==
  /\ life = "none"
  /\ pc = [e \in Ends |-> "idle"]
  /\ begun = [e \in Ends |-> 0]
  /\ tx = [e \in Ends |-> Nothing]
  /\ pipe = [e \in Ends |-> <<>>]
  /\ rx = [e \in Ends |-> <<>>]
  /\ sent = [e \in Ends |-> <<>>]
  /\ received = [e \in Ends |-> <<>>]
  /\ fault = "none"

\* The threads that are there and may begin something.
Alive(e) ==
  /\ fault = "none"
  /\ IF e = 0 THEN life = "up" ELSE life \in {"up", "stopping"}
-----------------------------------------------------------------------------
(* The thread *)

\* av_thread_setup.
Setup ==
  /\ life = "none"
  /\ \/ life' = "up"
     \/ "setup" \in Failures /\ life' = "failed"
  /\ UNCHANGED <<pc, commVars, fault>>

\* The other thread ends by itself.
ThreadEnds ==
  /\ Alive(1)
  /\ pc[1] = "idle"
  /\ pc' = [pc EXCEPT ![1] = "ended"]
  /\ UNCHANGED <<life, commVars, fault>>

\* av_thread_teardown: g_thread_join, and then the sockets are closed: with an
\* end of file av_thread_rxcmd would never return.
Teardown ==
  /\ fault = "none"
  /\ life = "stopping" /\ pc[0] = "idle"
  /\ pc[1] = "ended"
  /\ life' = "down"
  /\ UNCHANGED <<pc, commVars, fault>>
-----------------------------------------------------------------------------
(* av_thread_txcmd *)

Pending(e) == Len(sent[e]) - Len(received[e])

TxBegins(e, c) ==
  /\ Alive(e)
  /\ pc[e] = "idle"
  /\ pc' = [pc EXCEPT ![e] = "tx"]
  /\ tx' = [tx EXCEPT ![e] = [cmd |-> c, left |-> Size]]
  /\ UNCHANGED <<pipe, rx, sent, received, fault>>

\* Any other command than the last.
TxCommand(e) ==
  /\ TxBegins(e, begun[e] + 1)
  /\ begun[e] < MaxSent
  /\ Pending(e) < MaxPending
  /\ begun' = [begun EXCEPT ![e] = @ + 1]
  /\ UNCHANGED life

\* Mutant of TxExit: other commands follow.
TxExitGoesOn ==
  /\ TxBegins(0, Exit)
  /\ UNCHANGED <<life, begun>>

\* Whoever has set the thread up tells it to exit, and will then wait for it.
TxExit ==
  /\ TxBegins(0, Exit)
  /\ life' = "stopping"
  /\ UNCHANGED begun

\* The next n bytes of the command that e is writing.
Piece(e, n) == [i \in 1..n |-> Byte(tx[e].cmd, Size - tx[e].left + i)]

\* Mutant of TxWrite: what a short write leaves is taken for written.
TxWriteShort(e) ==
  /\ fault = "none"
  /\ pc[e] = "tx"
  /\ \E n \in 1..tx[e].left :
       /\ Len(pipe[e]) + n <= Capacity
       /\ pipe' = [pipe EXCEPT ![e] = @ \o Piece(e, n)]
       /\ tx' = [tx EXCEPT ![e] = Nothing]
       /\ pc' = [pc EXCEPT ![e] = "idle"]
       /\ sent' = [sent EXCEPT ![e] = Append(@, tx[e].cmd)]
  /\ UNCHANGED <<life, begun, rx, received, fault>>

\* Mutant of TxWrite: each write is given the whole size.
TxWriteWholeSize(e) ==
  /\ fault = "none"
  /\ pc[e] = "tx"
  /\ \E n \in 1..Size :
       /\ Len(pipe[e]) + n <= Capacity
       /\ pipe' = [pipe EXCEPT ![e] = @ \o Piece(e, n)]
       /\ \/ /\ n # tx[e].left
             /\ tx' = [tx EXCEPT ![e].left = @ - n]
             /\ UNCHANGED <<pc, sent>>
          \/ /\ n = tx[e].left
             /\ tx' = [tx EXCEPT ![e] = Nothing]
             /\ pc' = [pc EXCEPT ![e] = "idle"]
             /\ sent' = [sent EXCEPT ![e] = Append(@, tx[e].cmd)]
  /\ UNCHANGED <<life, begun, rx, received, fault>>

\* write takes some of what remains; with the last of it the loop ends.
TxWrite(e) ==
  /\ fault = "none"
  /\ pc[e] = "tx"
  /\ \E n \in 1..tx[e].left :
       /\ Len(pipe[e]) + n <= Capacity
       /\ pipe' = [pipe EXCEPT ![e] = @ \o Piece(e, n)]
       /\ \/ /\ n < tx[e].left
             /\ tx' = [tx EXCEPT ![e].left = @ - n]
             /\ UNCHANGED <<pc, sent>>
          \/ /\ n = tx[e].left
             /\ tx' = [tx EXCEPT ![e] = Nothing]
             /\ pc' = [pc EXCEPT ![e] = "idle"]
             /\ sent' = [sent EXCEPT ![e] = Append(@, tx[e].cmd)]
  /\ UNCHANGED <<life, begun, rx, received, fault>>

\* Of a command, i bytes have come through: the stream goes on in the middle
\* of it, and what is received from now on is pointers made of parts.
LeftAfter(i) == IF i = 0 THEN fault ELSE "torn"

\* The loop ends before the command does; no caller looks at the result.
TxFails(e) ==
  /\ "write" \in Failures
  /\ fault = "none"
  /\ pc[e] = "tx"
  /\ tx' = [tx EXCEPT ![e] = Nothing]
  /\ pc' = [pc EXCEPT ![e] = "idle"]
  /\ fault' = LeftAfter(Size - tx[e].left)
  /\ UNCHANGED <<life, begun, pipe, rx, sent, received>>
-----------------------------------------------------------------------------
(* av_thread_rxcmd *)

\* poll has found something to read, and there is memory for it.
RxBegins(e) ==
  /\ Alive(e)
  /\ pc[e] = "idle"
  /\ pipe[Peer(e)] # <<>>
  /\ \/ pc' = [pc EXCEPT ![e] = "rx"]
     \/ "alloc" \in Failures /\ UNCHANGED pc
  /\ UNCHANGED <<life, commVars, fault>>

\* Mutant of RxEnds: the exit command is one like the others.
RxEndsGoesOn(e, bytes) ==
  /\ rx' = [rx EXCEPT ![e] = <<>>]
  /\ received' = [received EXCEPT ![Peer(e)] = Append(@, bytes[1].cmd)]
  /\ pc' = [pc EXCEPT ![e] = "idle"]

\* The buffer is full, and goes for a command; that to exit ends its receiver.
RxEnds(e, bytes) ==
  /\ rx' = [rx EXCEPT ![e] = <<>>]
  /\ received' = [received EXCEPT ![Peer(e)] = Append(@, bytes[1].cmd)]
  /\ pc' = [pc EXCEPT ![e] = IF bytes[1].cmd = Exit THEN "ended" ELSE "idle"]

\* Mutant of RxRead: each read is taken for a command.
RxReadOnce(e) ==
  /\ fault = "none"
  /\ pc[e] = "rx"
  /\ \E n \in 1..Len(pipe[Peer(e)]) :
       /\ n <= Size
       /\ pipe' = [pipe EXCEPT ![Peer(e)] = SubSeq(@, n + 1, Len(@))]
       /\ RxEnds(e, SubSeq(pipe[Peer(e)], 1, n))
  /\ UNCHANGED <<life, begun, tx, sent, fault>>

\* read returns some of what is missing; the loop ends with the last of it.
RxRead(e) ==
  /\ fault = "none"
  /\ pc[e] = "rx"
  /\ \E n \in 1..Len(pipe[Peer(e)]) :
       LET bytes == rx[e] \o SubSeq(pipe[Peer(e)], 1, n)
       IN /\ Len(bytes) <= Size
          /\ pipe' = [pipe EXCEPT ![Peer(e)] = SubSeq(@, n + 1, Len(@))]
          /\ \/ /\ Len(bytes) < Size
                /\ rx' = [rx EXCEPT ![e] = bytes]
                /\ UNCHANGED <<pc, received>>
             \/ /\ Len(bytes) = Size
                /\ RxEnds(e, bytes)
  /\ UNCHANGED <<life, begun, tx, sent, fault>>

\* The loop ends with no command; what it has read is lost.
RxFails(e) ==
  /\ "read" \in Failures
  /\ fault = "none"
  /\ pc[e] = "rx"
  /\ rx' = [rx EXCEPT ![e] = <<>>]
  /\ pc' = [pc EXCEPT ![e] = "idle"]
  /\ fault' = LeftAfter(Len(rx[e]))
  /\ UNCHANGED <<life, begun, tx, pipe, sent, received>>
-----------------------------------------------------------------------------
\* Nothing happens any more.
Over == (life \in {"down", "failed"} \/ fault # "none") /\ UNCHANGED vars

Transfer(e) == TxWrite(e) \/ RxBegins(e) \/ RxRead(e)

Next ==
  \/ Setup \/ ThreadEnds \/ Teardown \/ TxExit
  \/ \E e \in Ends : TxCommand(e) \/ Transfer(e) \/ TxFails(e) \/ RxFails(e)
  \/ Over

Spec == Init /\ [][Next]_vars

\* Both threads run and poll what they can read, and a blocking call returns
\* when it can: read does not fail every time.
FairSpec ==
  /\ Spec
  /\ WF_vars(Teardown)
  /\ \A e \in Ends : WF_vars(Transfer(e)) /\ SF_vars(RxRead(e))
-----------------------------------------------------------------------------
(* Properties *)

\* The type of every variable.
TypeOK ==
  /\ life \in {"none", "up", "stopping", "down", "failed"}
  /\ pc \in [Ends -> {"idle", "tx", "rx", "ended"}]
  /\ begun \in [Ends -> 0..MaxSent]
  /\ tx \in [Ends -> [cmd : Commands, left : 0..Size]]
  /\ \A e \in Ends : /\ Range(pipe[e]) \cup Range(rx[e]) \subseteq
                          [cmd : Commands, pos : 1..Size]
                     /\ Len(pipe[e]) <= Capacity /\ Len(rx[e]) < Size
  /\ sent \in [Ends -> Seq(Commands)]
  /\ received \in [Ends -> Seq(Commands)]
  /\ fault \in {"none", "torn"}

\* However the bytes are cut up, commands come out as they went in: what is
\* received is what was sent, in that order.
Fifo == INSTANCE FifoChannel
ImplementsFifo == Fifo!Spec

\* The bytes between the two loops, in the order in which they were written.
Stream(e) == rx[Peer(e)] \o pipe[e]

\* av_threadcomm.c:45 and :73 advance by what was written and read: between the
\* two loops are the commands that have not been received, end to end, and what
\* has been written of the last.
StreamOfCommands ==
  fault = "none" =>
    \A e \in Ends :
      LET whole == Size * Pending(e)
          part  == IF pc[e] = "tx" THEN Size - tx[e].left ELSE 0
          place(i) == ((i - 1) % Size) + 1
          owner(i) == IF i <= whole THEN sent[e][Len(received[e]) + ((i - 1) \div Size) + 1]
                                    ELSE tx[e].cmd
      IN /\ Len(Stream(e)) = whole + part
         /\ \A i \in DOMAIN Stream(e) : Stream(e)[i] = Byte(owner(i), place(i))

\* Two threads that write to each other do not wait for each other to read.
WritesDoNotWait ==
  \A e \in Ends : pc[e] = "tx" => Len(pipe[e]) < Capacity

\* What was sent is received, if its receiver goes on.
Receiving(e) == pc[Peer(e)] # "ended" /\ (e = 1 => life = "up")

CommandsArrive ==
  \A e \in Ends, c \in Commands :
    c \in Range(sent[e])
      ~> \/ c \in Range(received[e]) \/ ~Receiving(e)
         \/ fault # "none"

\* A thread that has been told to exit is joined in the end, also when it is
\* writing to the one that waits for it.
ToldThreadIsJoined ==
  Exit \in Range(sent[0])
    ~> life = "down" \/ fault # "none"
=============================================================================

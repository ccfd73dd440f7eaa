---------------------------- MODULE FifoChannel ----------------------------
(***************************************************************************)
(* What the rest of the program takes a pair of sockets for: commands go   *)
(* in one at a time, and come out whole and in the same order.             *)
(***************************************************************************)
EXTENDS Naturals, Sequences

CONSTANTS Ends,     \* each end has its own direction
          Commands

VARIABLES sent,     \* what each end has sent
          received  \* what of it has been received at the other

Init == sent = [e \in Ends |-> <<>>] /\ received = [e \in Ends |-> <<>>]

Send(e) ==
  /\ \E c \in Commands : sent' = [sent EXCEPT ![e] = Append(@, c)]
  /\ UNCHANGED received

Receive(e) ==
  /\ Len(received[e]) < Len(sent[e])
  /\ received' = [received EXCEPT ![e] = Append(@, sent[e][Len(@) + 1])]
  /\ UNCHANGED sent

Next == \E e \in Ends : Send(e) \/ Receive(e)

Spec == Init /\ [][Next]_<<sent, received>>
=============================================================================

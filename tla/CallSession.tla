---------------------------- MODULE CallSession ----------------------------
(***************************************************************************)
(* What the gateway promises about SIP calls: it takes one call at a time. *)
(* The current call may be dialled on the modem, once, and answered, again *)
(* and again, when anything has been dialled at all; it ends for good, and *)
(* only then may another be taken.                                         *)
(***************************************************************************)
CONSTANTS Calls, NoCall

VARIABLES
  current,    \* the call in progress, or NoCall
  ended,      \* the calls that were in progress
  dialled,    \* the calls whose number has been given to the modem
  answered    \* the calls answered with early media

vars == <<current, ended, dialled, answered>>

Init ==
  /\ current = NoCall
  /\ ended = {}
  /\ dialled = {}
  /\ answered = {}

Accept(c) ==
  /\ current = NoCall
  /\ c \notin ended
  /\ current' = c
  /\ UNCHANGED <<ended, dialled, answered>>

Dial ==
  /\ current # NoCall
  /\ current \notin dialled
  /\ dialled' = dialled \cup {current}
  /\ UNCHANGED <<current, ended, answered>>

Answer ==
  /\ current # NoCall
  /\ dialled # {}
  /\ answered' = answered \cup {current}
  /\ UNCHANGED <<current, ended, dialled>>

End ==
  /\ current # NoCall
  /\ ended' = ended \cup {current}
  /\ current' = NoCall
  /\ UNCHANGED <<dialled, answered>>

Next == (\E c \in Calls : Accept(c)) \/ Dial \/ Answer \/ End

Spec == Init /\ [][Next]_vars
=============================================================================

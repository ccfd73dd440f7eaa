------------------------- MODULE AvVoiceTypeProofs --------------------------
(***************************************************************************)
(* Type correctness of AvVoice, for any finite set of calls: how many      *)
(* references an AvModem can have, and how far the counter of its active   *)
(* calls can go down.                                                      *)
(***************************************************************************)
EXTENDS AvVoiceProofs

USE DEF vars, sipVars, mmVars
-----------------------------------------------------------------------------
(* The counter of active calls                                              *)

\* What av_mm_call_state_eval makes of it, and nothing else does.
Evaluated(n, s) ==
  CASE s = "ringing"    -> IF n = 0 THEN 1 ELSE n
    [] s = "terminated" -> n - 1
    [] OTHER            -> n

LEMMA StateEvalActive ==
  ASSUME NEW a \in AvModems, NEW c, NEW s \in CallStates
  PROVE  StateEval(a, c, s).active = Evaluated(a.active, s)
<1>1. CASE s = "ringing"
  BY <1>1 DEF StateEval, Evaluated, AvModems
<1>2. CASE s = "terminated"
  <2>1. StateEval(a, c, s) = Removed([a EXCEPT !.active = @ - 1], c)
    BY <1>2 DEF StateEval
  <2>2. StateEval(a, c, s).active = a.active - 1
    BY <2>1 DEF Removed, Unregistered, AvModems
  <2> QED BY <1>2, <2>2 DEF Evaluated
<1>3. CASE s = "other"
  BY <1>3 DEF StateEval, Evaluated
<1> QED BY <1>1, <1>2, <1>3 DEF CallStates

LEMMA RegisteredActive ==
  ASSUME NEW a \in AvModems, NEW c \in Calls, NEW s \in CallStates
  PROVE  Registered(a, c, s).active = Evaluated(a.active, s)
<1> DEFINE d == [a EXCEPT !.calls = Append(@, c), !.handled = @ \cup {c}, !.held[c] = @ + 1]
<1>1. Registered(a, c, s) = StateEval(d, c, s)
  BY DEF Registered
<1>2. d \in AvModems /\ d.active = a.active
  <2>1. /\ Append(a.calls, c) \in Seq(Calls) /\ a.handled \cup {c} \in SUBSET Calls
        /\ [a.held EXCEPT ![c] = @ + 1] \in [Calls -> Int]
    BY DEF AvModems
  <2> QED BY <2>1 DEF AvModems
<1> HIDE DEF d
<1> QED BY <1>1, <1>2, StateEvalActive

LEMMA OthersActive ==
  ASSUME NEW a \in AvModems
  PROVE  /\ \A c : Removed(a, c).active = a.active
         /\ \A told : Stopped(a, told).active = a.active
         /\ a.refs > 0 => \A told : Unreffed(a, told).active = a.active
         /\ \A set_up, watched : Started(a, set_up, watched).active = a.active
<1>1. ASSUME NEW c PROVE Removed(a, c).active = a.active
  BY DEF Removed, Unregistered, AvModems
<1>2. ASSUME NEW b \in AvModems, NEW told PROVE Stopped(b, told).active = b.active
  <2> DEFINE d == [ReleasedCalls(b) EXCEPT !.up = FALSE]
  <2>1. d.active = b.active
    BY DEF ReleasedCalls, AvModems
  <2>2. StoppedSip(d, told).active = d.active
    BY DEF StoppedSip, ReleasedCalls, AvModems
  <2> QED BY <2>1, <2>2 DEF Stopped
<1>3. ASSUME a.refs > 0, NEW told PROVE Unreffed(a, told).active = a.active
  <2> DEFINE d == [a EXCEPT !.refs = a.refs - 1]
  <2>0. a.refs - 1 \in Nat
    BY <1>3 DEF AvModems
  <2>1. d \in AvModems /\ d.active = a.active
    BY <2>0 DEF AvModems
  <2>2. Unreffed(a, told) = IF d.refs = 0 THEN Stopped(d, told) ELSE d
    BY DEF Unreffed, AvModems
  <2> HIDE DEF d
  <2> QED BY <1>2, <2>1, <2>2
<1>4. ASSUME NEW set_up, NEW watched PROVE Started(a, set_up, watched).active = a.active
  BY DEF Started, AvModems
<1> QED BY <1>1, <1>2, <1>3, <1>4
-----------------------------------------------------------------------------
(* The calls that are over                                                  *)

\* They have been there, and are neither listed nor to be listed any more.
Done == { c \in Calls : mm[c] # "unborn" /\ ~Asked(c, TRUE) /\ c \notin Range(avm.calls) }

\* What a step makes of the counter: it goes up from zero, or down for a call that
\* is over with this step.
CounterFollows ==
  \/ avm'.active = avm.active
  \/ avm.active = 0 /\ avm'.active = 1
  \/ avm'.active = avm.active - 1 /\ \E c \in Done' : c \notin Done

LEMMA FindCallDone ==
  ASSUME VoiceInv, NEW c \in Calls, NEW added \in BOOLEAN, FindCall(c, added),
         mm' \in [Calls -> CallStates \cup {"unborn", "deleted"}],
         \A d \in Calls \ {c} : mm'[d] = mm[d],
         mm'[c] # "unborn", added => mm[c] = "unborn"
  PROVE  Done \subseteq Done' /\ CounterFollows
<1>1. avm \in AvModems
  BY DEF VoiceInv, VoiceTyped
<1>2. avm'.active = avm.active /\ avm'.calls = avm.calls
  BY <1>1 DEF FindCall, AvModems
<1>3. ASSUME NEW d \in Calls, d # c \/ ~added PROVE Asked(d, TRUE)' => Asked(d, TRUE)
  <2>1. CASE listing' = Append(listing, Operation(c, added))
    BY <1>3, <2>1, OperationBegun
  <2>2. CASE UNCHANGED listing
    BY <2>2, OperationsKept
  <2> QED BY <2>1, <2>2 DEF FindCall
<1>4. ASSUME NEW d \in Done PROVE d \in Done'
  <2>1. d # c \/ ~added
    BY DEF Done
  <2>2. ~Asked(d, TRUE)'
    BY <1>3, <2>1 DEF Done
  <2> QED BY <1>2, <2>2 DEF Done
<1> QED BY <1>2, <1>4 DEF CounterFollows

LEMMA ListReadyDone ==
  ASSUME VoiceInv, NEW i \in 1..Len(listing), ListReady(i)
  PROVE  Done \subseteq Done' /\ CounterFollows
<1> DEFINE op == listing[i]
<1>1. /\ listing \in Seq(Operations) /\ avm \in AvModems
      /\ avm.refs = (IF stored THEN 1 ELSE 0) + Len(listing)
      /\ HoldsListed(avm) /\ HasItsThread(avm)
  BY DEF VoiceInv, VoiceTyped, ServiceShape, CallShape
<1>2. /\ op \in Operations /\ op.call \in Calls /\ op.added \in BOOLEAN
      /\ Asked(op.call, op.added)
  <2>1. op \in Operations
    BY <1>1
  <2>2. Asked(op.call, op.added)
    BY DEF Asked
  <2> QED BY <2>1, <2>2 DEF Operations
<1>3. PICK told \in May("command"), b \in Answered(op) : Becomes(Unreffed(b, told), told)
  BY DEF ListReady
<1>4. told \in BOOLEAN /\ listing' = RemoveAt(listing, i) /\ UNCHANGED mm
  BY DEF May, ListReady
<1>5. op.added => op.call \notin Range(avm.calls)
  BY <1>2 DEF VoiceInv, CallShape
<1>6. \A c \in Calls, added \in BOOLEAN :
        Asked(c, added)' <=> Asked(c, added) /\ ~(c = op.call /\ added = op.added)
  BY <1>4, OperationAnswered
<1> HIDE DEF op
<1>7. /\ b \in AvModems /\ HoldsListed(b) /\ SameService(avm, b)
      /\ \A c \in Calls \ {op.call} : c \in Range(b.calls) <=> c \in Range(avm.calls)
      /\ ~op.added => op.call \notin Range(b.calls)
  BY <1>1, <1>2, <1>3, <1>5, AnsweredAvm DEF VoiceInv
<1>8. b.refs > 0 /\ HasItsThread(b)
  <2>1. avm.refs > 0
    BY <1>1
  <2> QED BY <1>1, <1>7, <2>1 DEF SameService, HasItsThread
<1>9. avm' = Unreffed(b, told)
  BY <1>3 DEF Becomes
<1>10. Range(avm'.calls) \subseteq Range(b.calls) /\ avm'.active = b.active
  BY <1>4, <1>7, <1>8, <1>9, UnreffedAvm, OthersActive
<1>11. ASSUME NEW c \in Done PROVE c \in Done'
  <2>1. CASE c # op.call
    BY <1>4, <1>6, <1>7, <1>10, <2>1 DEF Done
  <2>2. CASE c = op.call
    <3>1. ~op.added
      BY <1>2, <2>2 DEF Done
    <3> QED BY <1>4, <1>6, <1>7, <1>10, <2>2, <3>1 DEF Done
  <2> QED BY <2>1, <2>2
<1>12. CASE op.added /\ op.found = "call"
  <2>1. PICK s \in StateSeen(op.call) : b = Registered(avm, op.call, s)
    BY <1>3, <1>12 DEF Answered
  <2>2. s \in CallStates
    BY DEF StateSeen
  <2>3. b.active = Evaluated(avm.active, s)
    BY <1>1, <1>2, <2>1, <2>2, RegisteredActive
  <2>4. Range(b.calls) = IF s = "terminated" THEN Range(avm.calls)
                                             ELSE Range(avm.calls) \cup {op.call}
    BY <1>1, <1>2, <1>5, <1>12, <2>1, <2>2, RegisteredAvm
  <2>5. CASE s = "terminated"
    <3>1. op.call \notin Range(avm'.calls) /\ mm[op.call] # "unborn"
      BY <1>2, <1>5, <1>10, <1>12, <2>4, <2>5 DEF VoiceInv, CallShape
    <3>2. op.call \in Done' /\ op.call \notin Done
      BY <1>2, <1>4, <1>6, <1>12, <3>1 DEF Done
    <3> QED BY <1>10, <1>11, <2>3, <2>5, <3>2 DEF Evaluated, CounterFollows
  <2>6. CASE s # "terminated"
    BY <1>10, <1>11, <2>3, <2>6 DEF Evaluated, CounterFollows
  <2> QED BY <2>5, <2>6
<1>13. CASE ~(op.added /\ op.found = "call")
  <2>1. b \in {avm, Removed(avm, op.call)}
    BY <1>3, <1>13 DEF Answered
  <2>2. b.active = avm.active
    BY <1>1, <2>1, OthersActive
  <2> QED BY <1>10, <1>11, <2>2 DEF CounterFollows
<1> QED BY <1>12, <1>13

\* A step that is not about a list of calls, and lists no call.
LEMMA DoneKept ==
  ASSUME VoiceInv, UNCHANGED listing, Range(avm'.calls) \subseteq Range(avm.calls),
         \A c \in Calls : mm[c] # "unborn" => mm'[c] # "unborn"
  PROVE  Done \subseteq Done'
<1>1. \A c \in Calls : Asked(c, TRUE)' <=> Asked(c, TRUE)
  BY OperationsKept
<1> QED BY <1>1 DEF Done

\* What is over stays so, and each call takes one from the counter at most.
LEMMA DoneStep == VoiceInv /\ [Next]_vars => Done \subseteq Done' /\ CounterFollows
<1> SUFFICES ASSUME VoiceInv, [Next]_vars PROVE Done \subseteq Done' /\ CounterFollows
  OBVIOUS
<1>t. /\ avm \in AvModems /\ stored \in BOOLEAN /\ listing \in Seq(Operations)
      /\ mm \in [Calls -> CallStates \cup {"unborn", "deleted"}]
      /\ HoldsListed(avm) /\ HasItsThread(avm)
      /\ avm.refs = (IF stored THEN 1 ELSE 0) + Len(listing)
      /\ Len(listing) \in Nat
      /\ CallStates \cap {"unborn", "deleted"} = {}
  BY DEF VoiceInv, VoiceTyped, ServiceShape, CallShape, CallStates
\* Most steps are about the SIP threads and the calls they ask for.
<1>q. ASSUME UNCHANGED <<avm, listing, mm>>
      PROVE  Done \subseteq Done' /\ CounterFollows
  BY <1>q, DoneKept DEF CounterFollows
\* The service starts or stops, or the AvModem loses a reference.
<1>s. ASSUME UNCHANGED <<listing, mm>>, avm'.active = avm.active,
             Range(avm'.calls) \subseteq Range(avm.calls)
      PROVE  Done \subseteq Done' /\ CounterFollows
  BY <1>s, DoneKept DEF CounterFollows
<1>1. CASE ModemRegistered
  <2>1. PICK set_up \in May("thread"), watched \in May("channel") :
          avm' = Started(avm, set_up, watched)
    BY <1>1 DEF ModemRegistered
  <2>2. /\ set_up \in BOOLEAN /\ watched \in BOOLEAN
        /\ avm.starts < MaxStarts /\ UNCHANGED <<listing, mm>>
    BY <1>1 DEF ModemRegistered, May
  <2>3. Range(avm'.calls) = Range(avm.calls)
    BY <1>t, <2>1, <2>2, StartedAvm DEF SameCalls
  <2>4. avm'.active = avm.active
    BY <1>t, <2>1, OthersActive
  <2> QED BY <1>s, <2>2, <2>3, <2>4
<1>2. CASE ModemUnregistered
  <2>1. PICK told \in May("command") : Becomes(Stopped(avm, told), told)
    BY <1>2 DEF ModemUnregistered
  <2>2. told \in BOOLEAN /\ UNCHANGED <<listing, mm>> /\ avm' = Stopped(avm, told)
    BY <1>2, <2>1 DEF ModemUnregistered, May, Becomes
  <2>3. Range(avm'.calls) \subseteq Range(avm.calls)
    BY <1>t, <2>2, StoppedAvm
  <2>4. avm'.active = avm.active
    BY <1>t, <2>2, OthersActive
  <2> QED BY <1>s, <2>2, <2>3, <2>4
<1>3. CASE ModemRemoved
  <2>1. PICK told \in May("command") : Becomes(Unreffed(avm, told), told)
    BY <1>3 DEF ModemRemoved
  <2>2. /\ told \in BOOLEAN /\ stored
        /\ UNCHANGED <<listing, mm>> /\ avm' = Unreffed(avm, told)
    BY <1>3, <2>1 DEF ModemRemoved, May, Becomes
  <2>3. avm.refs > 0
    BY <1>t, <2>2
  <2>4. Range(avm'.calls) \subseteq Range(avm.calls)
    BY <1>t, <2>2, <2>3, UnreffedAvm
  <2>5. avm'.active = avm.active
    BY <1>t, <2>2, <2>3, OthersActive
  <2> QED BY <1>s, <2>2, <2>4, <2>5
<1>4. ASSUME NEW c \in Calls, CallAdded(c) PROVE Done \subseteq Done' /\ CounterFollows
  <2>1. /\ FindCall(c, TRUE) /\ mm[c] = "unborn"
        /\ \E s \in CallStates : mm' = [mm EXCEPT ![c] = s]
    BY <1>4 DEF CallAdded, CallStates
  <2>2. /\ mm' \in [Calls -> CallStates \cup {"unborn", "deleted"}]
        /\ \A d \in Calls \ {c} : mm'[d] = mm[d]
        /\ mm'[c] # "unborn"
    BY <1>t, <2>1
  <2> QED BY <2>1, <2>2, FindCallDone
<1>5. ASSUME NEW c \in Calls, CallDeleted(c) PROVE Done \subseteq Done' /\ CounterFollows
  <2>1. FindCall(c, FALSE) /\ mm' = [mm EXCEPT ![c] = "deleted"]
    BY <1>5 DEF CallDeleted
  <2>2. /\ mm' \in [Calls -> CallStates \cup {"unborn", "deleted"}]
        /\ \A d \in Calls \ {c} : mm'[d] = mm[d]
        /\ mm'[c] # "unborn"
    BY <1>t, <2>1
  <2> QED BY <2>1, <2>2, FindCallDone
<1>6. ASSUME NEW c \in Calls, NEW s \in CallStates, CallChanged(c, s)
      PROVE  Done \subseteq Done' /\ CounterFollows
  <2>1. /\ mm' = [mm EXCEPT ![c] = s] /\ UNCHANGED listing
        /\ \/ avm' = avm
           \/ c \in avm.handled /\ avm' = StateEval(avm, c, s)
    BY <1>6 DEF CallChanged
  <2>2. mm'[c] = s /\ \A d \in Calls : mm[d] # "unborn" => mm'[d] # "unborn"
    BY <1>t, <2>1
  <2>3. CASE avm' = avm
    BY <2>1, <2>2, <2>3, DoneKept DEF CounterFollows
  <2>4. CASE c \in avm.handled /\ avm' = StateEval(avm, c, s)
    <3>1. c \in Range(avm.calls)
      BY <1>t, <2>4 DEF HoldsListed
    <3>2. Range(avm'.calls) = IF s = "terminated" THEN Range(avm.calls) \ {c}
                                                  ELSE Range(avm.calls)
      BY <1>t, <2>4, <3>1, StateEvalAvm
    <3>3. avm'.active = Evaluated(avm.active, s)
      BY <1>t, <2>4, StateEvalActive
    <3>4. Done \subseteq Done'
      BY <2>1, <2>2, <3>2, DoneKept
    <3>5. CASE s = "terminated"
      <4>1. ~Asked(c, TRUE)'
        BY <2>1, <3>1, OperationsKept DEF VoiceInv, CallShape
      <4>2. c \in Done' /\ c \notin Done
        BY <2>2, <3>1, <3>2, <3>5, <4>1 DEF Done
      <4> QED BY <3>3, <3>4, <3>5, <4>2 DEF Evaluated, CounterFollows
    <3>6. CASE s # "terminated"
      BY <3>3, <3>4, <3>6 DEF Evaluated, CounterFollows
    <3> QED BY <3>5, <3>6
  <2> QED BY <2>1, <2>3, <2>4
<1>7. ASSUME NEW i \in DOMAIN listing, ListMade(i) PROVE Done \subseteq Done' /\ CounterFollows
  <2>1. PICK f : listing' = [listing EXCEPT ![i].found = f]
    BY <1>7 DEF ListMade
  <2>2. i \in 1..Len(listing) /\ UNCHANGED <<avm, mm>>
    BY <1>t, <1>7 DEF ListMade
  <2> DEFINE op == [listing[i] EXCEPT !.found = f]
  <2>3. op.call = listing[i].call /\ op.added = listing[i].added
    <3>1. listing[i] \in Operations
      BY <1>t, <2>2
    <3> QED BY <3>1 DEF Operations
  <2>4. listing' = [listing EXCEPT ![i] = op]
    BY <2>1
  <2> HIDE DEF op
  <2>5. /\ Len(listing') = Len(listing)
        /\ \A j \in 1..Len(listing) : listing'[j] = IF j = i THEN op ELSE listing[j]
    BY <1>t, <2>2, <2>4
  <2>6. \A j \in 1..Len(listing) : /\ listing'[j].call = listing[j].call
                                   /\ listing'[j].added = listing[j].added
    BY <2>3, <2>5
  <2>7. \A c \in Calls : Asked(c, TRUE)' <=> Asked(c, TRUE)
    BY <2>5, <2>6 DEF Asked
  <2> QED BY <2>2, <2>7 DEF Done, CounterFollows
<1>8. ASSUME NEW i \in DOMAIN listing, ListReady(i) PROVE Done \subseteq Done' /\ CounterFollows
  <2>1. i \in 1..Len(listing)
    BY <1>t
  <2> QED BY <1>8, <2>1, ListReadyDone
<1>9. ASSUME NEW i \in DOMAIN listing, ListAsserted(i)
      PROVE  Done \subseteq Done' /\ CounterFollows
  BY <1>9, <1>q DEF ListAsserted
<1>10. CASE SipThread
  BY <1>10, <1>q DEF SipThread, SipReady, SipAsksForCall
<1>11. CASE SipEventReady \/ SipEventIncomingCall
  BY <1>11, <1>q DEF SipEventReady, SipEventIncomingCall
<1>12. ASSUME NEW d \in Dials, MMCallCreated(d) \/ MMCallStarted(d)
       PROVE  Done \subseteq Done' /\ CounterFollows
  BY <1>12, <1>q DEF MMCallCreated, MMCallStarted
<1>13. CASE UNCHANGED vars
  BY <1>13, <1>q
<1> QED
  BY <1>1, <1>2, <1>3, <1>4, <1>5, <1>6, <1>7, <1>8, <1>9, <1>10, <1>11, <1>12, <1>13
  DEF Next, ModemManager, ListOperation, SipEvent, Ended

\* The counter is one above zero at most, and one below for each call that is over.
ActiveShape ==
  /\ avm.active <= 1
  /\ avm.active >= -Cardinality(Done)

LEMMA ActiveStep ==
  ASSUME IsFiniteSet(Calls)
  PROVE  VoiceInv /\ ActiveShape /\ [Next]_vars => ActiveShape'
<1> SUFFICES ASSUME VoiceInv, ActiveShape, [Next]_vars PROVE ActiveShape'
  OBVIOUS
<1>1. Done \subseteq Done' /\ CounterFollows
  BY DoneStep
<1>2. Done' \subseteq Calls
  BY DEF Done
<1> DEFINE before == Done
           after  == Done'
<1> HIDE DEF before, after
<1>3. before \subseteq after /\ after \subseteq Calls
  BY <1>1, <1>2 DEF before, after
<1>4. IsFiniteSet(after) /\ IsFiniteSet(before)
  <2>1. IsFiniteSet(after)
    BY <1>3, FS_Subset
  <2> QED BY <1>3, <2>1, FS_Subset
<1>5. /\ Cardinality(before) \in Nat /\ Cardinality(after) \in Nat
      /\ Cardinality(before) <= Cardinality(after)
  BY <1>3, <1>4, FS_Subset, FS_CardinalityType
<1>6. ASSUME NEW c \in after, c \notin before
      PROVE  Cardinality(before) + 1 <= Cardinality(after)
  <2>1. before \cup {c} \subseteq after
    BY <1>3
  <2>2. IsFiniteSet(before \cup {c}) /\ Cardinality(before \cup {c}) = Cardinality(before) + 1
    BY <1>4, <1>6, FS_AddElement
  <2>3. Cardinality(before \cup {c}) <= Cardinality(after)
    BY <1>4, <2>1, FS_Subset
  <2> QED BY <2>2, <2>3
<1>7. /\ avm.active \in Int /\ avm.active <= 1
      /\ avm.active >= -Cardinality(before)
  BY DEF VoiceInv, VoiceTyped, AvModems, ActiveShape, before
<1>8. \/ avm'.active = avm.active
      \/ avm.active = 0 /\ avm'.active = 1
      \/ avm'.active = avm.active - 1 /\ \E c \in after : c \notin before
  BY <1>1 DEF CounterFollows, before, after
<1>9. avm'.active <= 1 /\ avm'.active >= -Cardinality(after)
  BY <1>5, <1>6, <1>7, <1>8
<1> QED BY <1>9 DEF ActiveShape, after

\* Of each call two operations are under way at most: that it was added, and that
\* it was deleted.
LEMMA OperationsBounded ==
  ASSUME IsFiniteSet(Calls), VoiceInv
  PROVE  Len(listing) <= 2 * Cardinality(Calls)
<1> DEFINE n == Len(listing)
           f == [i \in 1..n |-> <<listing[i].call, listing[i].added>>]
<1>1. listing \in Seq(Operations) /\ n \in Nat
  BY DEF VoiceInv, VoiceTyped
<1>2. \A i \in 1..n : listing[i].call \in Calls /\ listing[i].added \in BOOLEAN
  <2>1. \A i \in 1..n : listing[i] \in Operations
    BY <1>1
  <2> QED BY <2>1 DEF Operations
<1>3. \A i, j \in 1..n :
        listing[i].call = listing[j].call /\ listing[i].added = listing[j].added => i = j
  <2>1. \A i, j \in 1..n :
          listing[i].call = listing[j].call /\ listing[i].added = listing[j].added => i <= j
    BY <1>2 DEF VoiceInv, CallShape
  <2> QED BY <1>1, <2>1
<1>4. f \in Injection(1..n, Calls \X BOOLEAN)
  <2>1. f \in [1..n -> Calls \X BOOLEAN]
    BY <1>2
  <2>2. \A i, j \in DOMAIN f : f[i] = f[j] => i = j
    BY <1>3
  <2> QED BY <2>1, <2>2 DEF Injection, IsInjective
<1> HIDE DEF f
<1>5. IsFiniteSet(BOOLEAN) /\ Cardinality(BOOLEAN) = 2
  <2>1. BOOLEAN = {FALSE} \cup {TRUE}
    OBVIOUS
  <2>2. IsFiniteSet({FALSE}) /\ Cardinality({FALSE}) = 1
    BY FS_Singleton
  <2> DEFINE no == {FALSE}
  <2>3. TRUE \notin no /\ IsFiniteSet(no) /\ Cardinality(no) = 1
    BY <2>2
  <2> HIDE DEF no
  <2>4. IsFiniteSet(no \cup {TRUE}) /\ Cardinality(no \cup {TRUE}) = Cardinality(no) + 1
    BY <2>3, FS_AddElement
  <2>5. BOOLEAN = no \cup {TRUE}
    BY <2>1 DEF no
  <2>6. Cardinality(no \cup {TRUE}) = 2
    BY <2>3, <2>4
  <2> QED BY <2>4, <2>5, <2>6, Zenon
<1>6. /\ IsFiniteSet(Calls \X BOOLEAN)
      /\ Cardinality(Calls \X BOOLEAN) = Cardinality(Calls) * Cardinality(BOOLEAN)
  BY <1>5, FS_Product
<1>7. Cardinality(1..n) <= Cardinality(Calls \X BOOLEAN)
  BY <1>4, <1>6, FS_Injection
<1>8. Cardinality(1..n) = n
  <2> HIDE DEF n
  <2>1. 1 \in Int /\ n \in Int
    BY <1>1
  <2>2. Cardinality(1..n) = IF 1 > n THEN 0 ELSE n - 1 + 1
    BY <2>1, FS_Interval
  <2> QED BY <1>1, <2>2
<1>9. Cardinality(Calls) \in Nat
  BY FS_CardinalityType
<1> QED BY <1>5, <1>6, <1>7, <1>8, <1>9
-----------------------------------------------------------------------------
(* The SIP thread and what it asks for                                      *)

SipTyped ==
  /\ sip \in {"starting", "ready", "configured", "unconfigured"}
  /\ events \in {<<>>, <<"ready">>, <<"call">>}
  /\ dialling \in [Dials -> {"none", "creating", "starting", "ended"}]
  /\ fault \in {"none", "modem", "thread", "assert"}

\* An event that was received was the only one.
LEMMA Received ==
  ASSUME SipTyped, NEW event, Receives(event)
  PROVE  events' = <<>>
BY DEF SipTyped, Receives

LEMMA SipTypedStep == SipTyped /\ [Next]_vars => SipTyped'
<1> SUFFICES ASSUME SipTyped, [Next]_vars PROVE SipTyped'
  OBVIOUS
\* The service is stopped, or it is not.
<1>b. ASSUME NEW b, NEW told, Becomes(b, told), UNCHANGED dialling PROVE SipTyped'
  BY <1>b DEF Becomes, SipTyped
<1>1. CASE ModemRegistered
  BY <1>1 DEF ModemRegistered, SipTyped
<1>2. CASE ModemUnregistered
  BY <1>2, <1>b DEF ModemUnregistered
<1>3. CASE ModemRemoved
  BY <1>3, <1>b DEF ModemRemoved
<1>4. ASSUME NEW c \in Calls, CallAdded(c) \/ CallDeleted(c) PROVE SipTyped'
  BY <1>4 DEF CallAdded, CallDeleted, SipTyped
<1>5. ASSUME NEW c \in Calls, NEW s \in CallStates, CallChanged(c, s) PROVE SipTyped'
  BY <1>5 DEF CallChanged, SipTyped
<1>6. ASSUME NEW i \in DOMAIN listing, ListMade(i) PROVE SipTyped'
  BY <1>6 DEF ListMade, SipTyped
<1>7. ASSUME NEW i \in DOMAIN listing, ListReady(i) PROVE SipTyped'
  BY <1>7, <1>b DEF ListReady
<1>8. ASSUME NEW i \in DOMAIN listing, ListAsserted(i) PROVE SipTyped'
  BY <1>8 DEF ListAsserted, SipTyped
<1>9. CASE SipReady
  BY <1>9 DEF SipReady, SipTyped
<1>10. CASE SipAsksForCall
  BY <1>10 DEF SipAsksForCall, SipTyped
<1>11. CASE SipEventReady
  <2>1. events' = <<>>
    BY <1>11, Received DEF SipEventReady
  <2> QED BY <1>11, <2>1 DEF SipEventReady, SipTyped
<1>12. CASE SipEventIncomingCall
  <2>1. events' = <<>>
    BY <1>12, Received DEF SipEventIncomingCall
  <2>2. dialling' \in [Dials -> {"none", "creating", "starting", "ended"}]
    BY <1>12 DEF SipEventIncomingCall, SipTyped
  <2> QED BY <1>12, <2>1, <2>2 DEF SipEventIncomingCall, SipTyped
<1>13. ASSUME NEW d \in Dials, MMCallCreated(d) PROVE SipTyped'
  BY <1>13 DEF MMCallCreated, SipTyped
<1>14. ASSUME NEW d \in Dials, MMCallStarted(d) PROVE SipTyped'
  BY <1>14 DEF MMCallStarted, SipThreadUsed, SipTyped
<1>15. CASE UNCHANGED vars
  BY <1>15 DEF SipTyped
<1> QED
  BY <1>1, <1>2, <1>3, <1>4, <1>5, <1>6, <1>7, <1>8, <1>9, <1>10, <1>11, <1>12, <1>13,
     <1>14, <1>15
  DEF Next, ModemManager, ListOperation, SipThread, SipEvent, Ended
-----------------------------------------------------------------------------
(* The theorems                                                             *)

\* Every variable has its type, and with it: however often calls ring and end, an
\* AvModem has a reference for its storage and two for each call at most, and the
\* counter of its active calls is not above one, nor further below zero than there
\* are calls.
THEOREM TypeOKHolds == ASSUME IsFiniteSet(Calls) PROVE Spec => []TypeOK
<1>1. Init => ActiveShape /\ SipTyped
  <2> SUFFICES ASSUME Init PROVE ActiveShape /\ SipTyped
    OBVIOUS
  <2>1. avm.active = 0 /\ Done = {}
    BY DEF Init, Fresh, Done
  <2>2. Cardinality(Done) = 0
    BY <2>1, FS_EmptySet
  <2> QED BY <2>1, <2>2 DEF Init, ActiveShape, SipTyped
<1>2. VoiceInv /\ ActiveShape /\ [Next]_vars => ActiveShape'
  BY ActiveStep
<1>3. VoiceInv /\ ActiveShape /\ SipTyped => TypeOK
  <2> SUFFICES ASSUME VoiceInv, ActiveShape, SipTyped PROVE TypeOK
    OBVIOUS
  <2>1. /\ avm \in AvModems /\ listing \in Seq(Operations) /\ Len(listing) \in Nat
        /\ HoldsListed(avm) /\ HasItsThread(avm) /\ MaxStarts \in Nat
        /\ avm.refs = (IF stored THEN 1 ELSE 0) + Len(listing)
    BY VoiceBoundsAssumption DEF VoiceInv, VoiceTyped, ServiceShape, CallShape
  <2>2. Cardinality(Calls) \in Nat
    BY FS_CardinalityType
  <2>3. avm.refs \in 0..(1 + 2 * Cardinality(Calls))
    BY <2>1, <2>2, OperationsBounded
  <2>4. avm.active \in (-Cardinality(Calls))..1
    <3>1. Cardinality(Done) \in Nat /\ Cardinality(Done) <= Cardinality(Calls)
      <4>1. Done \subseteq Calls
        BY DEF Done
      <4> QED BY <4>1, FS_Subset, FS_CardinalityType
    <3>2. avm.active \in Int
      BY <2>1 DEF AvModems
    <3> QED BY <2>2, <3>1, <3>2 DEF ActiveShape
  <2>5. avm.held \in [Calls -> {0, 1}]
    <3>1. avm.held \in [Calls -> Int] /\ \A c \in Calls : avm.held[c] \in {0, 1}
      BY <2>1 DEF AvModems, HoldsListed
    <3> QED BY <3>1
  <2>6. avm.starts \in 0..MaxStarts
    <3>1. avm.starts \in Nat /\ avm.starts <= MaxStarts
      BY <2>1 DEF AvModems, HasItsThread
    <3> QED BY <2>1, <3>1
  <2>7. avm \in [ refs      : 0..(1 + 2 * Cardinality(Calls)),
                  up        : BOOLEAN,
                  calls     : Seq(Calls),
                  active    : (-Cardinality(Calls))..1,
                  handled   : SUBSET Calls,
                  held      : [Calls -> {0, 1}],
                  starts    : 0..MaxStarts,
                  threads   : [Threads -> {"none", "live", "untold", "freed"}],
                  sipthread : Threads \cup {NoThread},
                  source    : Threads \cup {NoThread} ]
    BY <2>1, <2>3, <2>4, <2>5, <2>6 DEF AvModems, ThreadStates
  <2>8. \A i \in DOMAIN listing : listing[i] \in Operations
    BY <2>1
  <2>9. stored \in BOOLEAN /\ unwatched \subseteq Calls
        /\ mm \in [Calls -> CallStates \cup {"unborn", "deleted"}]
    BY DEF VoiceInv, VoiceTyped
  <2> QED BY <2>7, <2>8, <2>9 DEF TypeOK, Operations, SipTyped
<1> QED BY <1>1, <1>2, <1>3, VoiceInvariant, SipTypedStep, PTL DEF Spec
=============================================================================

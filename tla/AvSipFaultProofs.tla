-------------------------- MODULE AvSipFaultProofs --------------------------
(***************************************************************************)
(* Where the program crashes, and how far the disagreements go that runs   *)
(* of AvSip show: when data of a call that is over is used, which crashes  *)
(* are left when no thread and no memory is wanting, and which calls an    *)
(* answer can be wrong about.                                              *)
(***************************************************************************)
EXTENDS AvSipOnceProofs

USE DEF vars, coreVars, chanVars, sipVars, netVars, histVars

-----------------------------------------------------------------------------
(* Where the program crashes                                                *)

\* The handlers that can end in undefined behaviour, each with its own.
Crashing ==
  \/ SipCoreCallInProgress /\ curCall = NoCall /\ fault' = "stage1_no_call"
  \/ InviteUnconfigured /\ fault' = "invite_unconfigured"
  \/ /\ InviteFails
     /\ \/ "alloc" \in Failures /\ fault' = "null_connection"
        \/ "thread" \in Failures /\ fault' = "null_audiothread"
        \/ {"thread", "exit"} \subseteq Failures /\ fault' = "event_double_free"
  \/ SipAudioRtpOk /\ fault' = "rtp_ok_no_call"
  \/ \E c \in Calls : AudioStart(c) /\ AstateInUse(c) /\ fault' = "astate_shared"
  \/ \E c \in Calls : (AudioRtpInit(c) \/ AudioSerialInit(c)) /\ fault' = "conn_after_free"
  \/ \E c \in Calls : CoreCallStarted(c) /\ fault' = "sipthread_after_free"

\* A fault is recorded once, by the handler that has it.
LEMMA FaultStep == [Next]_vars => UNCHANGED fault \/ (fault = "none" /\ Crashing)
<1> SUFFICES ASSUME [Next]_vars PROVE UNCHANGED fault \/ (fault = "none" /\ Crashing)
  OBVIOUS
<1>1. CASE SipInit \/ SipPoll \/ SipJoin \/ SipReceiveFails
  BY <1>1 DEF SipInit, SipPoll, SipJoin, SipReceiveFails
<1>2. CASE SipCoreExit \/ SipCoreRegister
  BY <1>2 DEF SipCoreExit, SipCoreRegister
<1>3. CASE fault = "none" /\ SipCoreCallInProgress
  BY <1>3 DEF SipCoreCallInProgress, Crash, Crashing
<1>4. CASE InviteDropped \/ InviteAccepted \/ EventIgnored \/ EventsDrained \/ SipAudioReady
  BY <1>4 DEF InviteDropped, InviteAccepted, EventIgnored, EventsDrained, SipAudioReady
<1>5. CASE fault = "none" /\ (InviteUnconfigured \/ InviteFails)
  BY <1>5 DEF InviteUnconfigured, InviteFails, Crash, Crashing
<1>6. CASE SipClose \/ EventEndsCall
  BY <1>6 DEF SipClose, EventEndsCall
<1>7. CASE fault = "none" /\ SipAudioRtpOk
  BY <1>7 DEF SipAudioRtpOk, Crash, Crashing
<1>8. CASE CoreReady \/ CoreIncomingCall \/ CoreStop \/ CoreJoin
  BY <1>8 DEF CoreReady, CoreIncomingCall, CoreStop, CoreJoin
<1>9. ASSUME NEW c \in Calls, AudioExit(c) \/ CoreCallCreated(c)
      PROVE  UNCHANGED fault
  BY <1>9 DEF AudioExit, CoreCallCreated
<1>14. ASSUME fault = "none", NEW c \in Calls, AudioStart(c)
       PROVE  UNCHANGED fault \/ Crashing
  <2>1. UNCHANGED fault \/ (AstateInUse(c) /\ fault' = "astate_shared")
    BY <1>14 DEF AudioStart, Crash
  <2> QED BY <1>14, <2>1 DEF Crashing
<1>10. ASSUME fault = "none", NEW c \in Calls, AudioRtpInit(c) \/ AudioSerialInit(c)
       PROVE  UNCHANGED fault \/ Crashing
  <2>1. UNCHANGED fault \/ fault' = "conn_after_free"
    BY <1>10 DEF AudioRtpInit, AudioSerialInit, Crash
  <2> QED BY <1>10, <2>1 DEF Crashing
<1>11. ASSUME fault = "none", NEW c \in Calls, CoreCallStarted(c)
       PROVE  UNCHANGED fault \/ Crashing
  <2>1. UNCHANGED fault \/ fault' = "sipthread_after_free"
    BY <1>11 DEF CoreCallStarted, Crash
  <2> QED BY <1>11, <2>1 DEF Crashing
<1>12. ASSUME NEW c \in Calls, NEW type \in EventTypes, NetworkEvent(c, type)
       PROVE  UNCHANGED fault
  BY <1>12 DEF NetworkEvent
<1>13. CASE UNCHANGED vars
  BY <1>13
<1> QED
  BY <1>1, <1>2, <1>3, <1>4, <1>5, <1>6, <1>7, <1>8, <1>9, <1>10, <1>11, <1>12, <1>13,
     <1>14
  DEF Next, Live, Resting, SipStep, CoreStep, AudioStep, CallbackStep

\* Data of a call that is over is used only when the thread of such a call could
\* not be told to exit.  AUDIO_EVENT_RTP_OK finds no call: its thread still runs, as
\* it has reported its port once and was not joined.  A freed connection is read:
\* its reader is not the thread of the call in progress.  Two threads share astate:
\* one of them is not.
LEMMA NoStaleCallDataStep ==
  Typed /\ AudioShape /\ DialShape /\ AudioOnce /\ NoStaleCallData /\ [Next]_vars
  => NoStaleCallData'
<1> SUFFICES ASSUME Typed, AudioShape, DialShape, AudioOnce, NoStaleCallData, [Next]_vars,
                    fault' \in {"conn_after_free", "rtp_ok_no_call", "astate_shared"}
             PROVE  (\E c \in Calls : Untold(c))'
  BY DEF NoStaleCallData
<1>t. /\ audioPc \in [Calls -> {"none", "start", "poll", "serial", "done"}]
      /\ fromAudio \in [Calls -> Seq(FromAudioMsgs)]
      /\ audiothread \in Calls \cup {NoCall}
  BY DEF Typed, TypeOK
<1>1. CASE fault' = fault
  <2>1. UNCHANGED vars
    BY <1>1 DEF Next, Live, Resting
  <2> QED BY <1>1, <2>1 DEF NoStaleCallData, Untold, Told
<1>2. CASE fault' # fault
  <2>1. fault = "none" /\ Crashing
    BY <1>2, FaultStep
  <2>q. ASSUME UNCHANGED <<audioPc, toAudio, curCall>>, \E c \in Calls : Untold(c)
        PROVE  (\E c \in Calls : Untold(c))'
    BY <2>q DEF Untold, Told
  <2>2. CASE SipAudioRtpOk /\ fault' = "rtp_ok_no_call"
    <3>1. /\ curCall = NoCall /\ UNCHANGED <<audioPc, toAudio, curCall>>
          /\ sipPc = "audio" /\ Head(fromAudio[audiothread]).msgtype = "AUDIO_EVENT_RTP_OK"
      BY <2>1, <2>2 DEF SipAudioRtpOk, AudioEvent, Crash
    <3>2. audiothread \in Calls /\ fromAudio[audiothread] # <<>>
      BY <1>t, <3>1 DEF Typed, Serving, AudioReadable
    <3>3. /\ Head(fromAudio[audiothread]) \in FromAudioMsgs
          /\ In(Head(fromAudio[audiothread]), fromAudio[audiothread])
      BY <1>t, <3>2, InTail, HeadTailType
    <3>4. Head(fromAudio[audiothread]) = RtpOk(audiothread)
      <4>1. Head(fromAudio[audiothread]).payload = audiothread
        BY <3>1, <3>2, <3>3 DEF DialShape
      <4> QED BY <3>1, <3>3, <4>1 DEF FromAudioMsgs, RtpOk, Msg
    <3>5. audioPc[audiothread] # "done"
      BY <3>1, <3>2, <3>3, <3>4, NoCallAssumption DEF AudioOnce
    <3>6. Untold(audiothread)
      BY <1>t, <3>1, <3>2, <3>5, NoCallAssumption, OtherThread DEF AudioShape
    <3> QED BY <2>q, <3>1, <3>2, <3>6
  <2>3. ASSUME NEW c \in Calls, AudioStart(c), AstateInUse(c), fault' = "astate_shared"
        PROVE  (\E d \in Calls : Untold(d))'
    <3>1. audioPc[c] = "start" /\ UNCHANGED <<audioPc, toAudio, curCall>>
      BY <2>1, <2>3 DEF AudioStart, Crash
    <3>2. PICK d \in Calls \ {c} : audioPc[d] \in {"poll", "serial"}
      BY <2>3 DEF AstateInUse
    <3>3. Untold(c) \/ Untold(d)
      BY <3>1, <3>2, OtherThread
    <3> QED BY <2>q, <3>1, <3>2, <3>3
  <2>4. ASSUME NEW c \in Calls, AudioRtpInit(c) \/ AudioSerialInit(c), fault' = "conn_after_free"
        PROVE  (\E d \in Calls : Untold(d))'
    <3>1. /\ AudioCommand(c, "CMD_AUDIO_INIT") \/ audioPc[c] = "serial"
          /\ audioPc[c] \notin {"none", "done"}
          /\ ~ConnectionAlive(c) /\ UNCHANGED <<audioPc, toAudio, curCall>>
      BY <2>1, <2>4 DEF AudioRtpInit, AudioSerialInit, AudioCommand, Crash
    <3>2. c # curCall
      BY <3>1, ConnectionIsAlive
    <3>3. Untold(c)
      BY <3>1, <3>2, OtherThread
    <3> QED BY <2>q, <3>1, <3>3
  <2> QED BY <2>1, <2>2, <2>3, <2>4 DEF Crashing
<1> QED BY <1>1, <1>2

\* No command or event outlives the call it was sent for, unless a thread of an
\* earlier call could not be told to exit.
THEOREM NoStaleCallDataHolds == Spec => []NoStaleCallData
<1>1. Init => NoStaleCallData
  BY DEF Init, NoStaleCallData
<1>2. Typed /\ AudioShape /\ DialShape /\ AudioOnce /\ NoStaleCallData /\ [Next]_vars
      => NoStaleCallData'
  BY NoStaleCallDataStep
<1> QED BY <1>1, <1>2, AudioOnceInvariant, PTL DEF Spec

\* No fault at all, or one of three.
FewCrashes ==
  fault \in {"none", "stage1_no_call", "invite_unconfigured", "sipthread_after_free"}

\* With memory for what is sent and with threads that start, three crashes are
\* left: an INVITE before the configuration (av_sip.c:135), and an MMCall that starts
\* when its SIP call is over (av_sip.c:584) or when the SIP thread has been stopped
\* (av_mm_call.c:147).  No clean-up path meets what was not set up.
THEOREM CrashesWithMemory ==
  ASSUME {"alloc", "exit", "thread"} \cap Failures = {}
  PROVE  Spec => []FewCrashes
<1> DEFINE MoreCrashes == FewCrashes \/ fault \in {"conn_after_free", "rtp_ok_no_call", "astate_shared"}
<1>1. Init => MoreCrashes
  BY DEF Init, FewCrashes
<1>2. MoreCrashes /\ [Next]_vars => MoreCrashes'
  <2> SUFFICES ASSUME MoreCrashes, [Next]_vars PROVE MoreCrashes'
    OBVIOUS
  <2>1. CASE UNCHANGED fault
    BY <2>1 DEF FewCrashes
  <2>2. CASE Crashing
    BY <2>2 DEF Crashing, FewCrashes
  <2> QED BY <2>1, <2>2, FaultStep
<1>3. MoreCrashes /\ NoStaleCallData => FewCrashes
  BY DEF NoStaleCallData, Untold
<1> QED BY <1>1, <1>2, <1>3, NoStaleCallDataHolds, PTL DEF Spec
-----------------------------------------------------------------------------
(* The command for a call that is over                                      *)

\* A call that is over is never taken up again.
LEMMA EndedStays ==
  Typed /\ AudioShape /\ EventShape /\ [Next]_vars => Ended \subseteq Ended'
<1> SUFFICES ASSUME Typed, AudioShape, EventShape, [Next]_vars, NEW e \in Ended
             PROVE  e \in Ended'
  OBVIOUS
<1>t. /\ audioPc \in [Calls -> {"none", "start", "poll", "serial", "done"}]
      /\ e \in Calls /\ audioPc[e] # "none" /\ e # curCall
  BY DEF Typed, TypeOK, Ended
<1>q. ASSUME UNCHANGED <<curCall, audioPc>> PROVE e \in Ended'
  BY <1>q DEF Ended
<1>1. CASE SipJoin
  <2>1. curCall' = NoCall /\ UNCHANGED audioPc
    BY <1>1 DEF SipJoin
  <2> QED BY <1>t, <2>1, NoCallAssumption DEF Ended
<1>2. CASE InviteAccepted
  <2> DEFINE c == Head(sipEvents).cid
  <2>1. sipEvents # <<>> /\ Head(sipEvents).type = "INVITE"
    BY <1>2 DEF InviteAccepted, IsFirstInvite, IsInvite
  <2>2. Head(sipEvents) \in Events /\ In(Head(sipEvents), sipEvents)
    BY <2>1, InTail, HeadTailType DEF Typed, TypeOK
  <2>3. audioPc[c] = "none"
    BY <2>1, <2>2 DEF EventShape
  <2>4. curCall' = c /\ audioPc' = [audioPc EXCEPT ![c] = "start"]
    BY <1>2 DEF InviteAccepted
  <2> QED BY <1>t, <2>3, <2>4 DEF Ended
<1>3. ASSUME NEW c \in Calls, AudioStep(c) PROVE e \in Ended'
  <2>1. /\ UNCHANGED curCall
        /\ UNCHANGED audioPc \/ \E pc \in {"poll", "serial", "done"} :
                                  audioPc' = [audioPc EXCEPT ![c] = pc]
    BY <1>3 DEF AudioStep, AudioStart, AudioRtpInit, AudioSerialInit, AudioExit, Crash
  <2>2. audioPc'[e] # "none"
    BY <1>t, <2>1
  <2> QED BY <1>t, <2>1, <2>2 DEF Ended
<1>4. CASE SipInit \/ SipPoll \/ SipReceiveFails
  BY <1>4, <1>q DEF SipInit, SipPoll, SipReceiveFails
<1>13. CASE SipClose \/ EventEndsCall
  <2>1. curCall' \in {curCall, NoCall} /\ UNCHANGED audioPc
    BY <1>13 DEF SipClose, EventEndsCall, CallEnd
  <2> QED BY <1>t, <2>1, NoCallAssumption DEF Ended
<1>5. CASE SipCoreExit \/ SipCoreRegister \/ SipCoreCallInProgress
  BY <1>5, <1>q DEF SipCoreExit, SipCoreRegister, SipCoreCallInProgress, Crash
<1>6. CASE InviteDropped \/ InviteUnconfigured \/ InviteFails
  BY <1>6, <1>q DEF InviteDropped, InviteUnconfigured, InviteFails, Crash
<1>7. CASE EventIgnored \/ EventsDrained
  BY <1>7, <1>q DEF EventIgnored, EventsDrained
<1>8. CASE SipAudioReady \/ SipAudioRtpOk
  BY <1>8, <1>q DEF SipAudioReady, SipAudioRtpOk, Crash
<1>9. CASE CoreStep \/ CoreStop
  BY <1>9, <1>q DEF CoreStep, CoreReady, CoreIncomingCall, CoreJoin, CoreStop
<1>10. ASSUME NEW c \in Calls, CallbackStep(c) PROVE e \in Ended'
  BY <1>10, <1>q DEF CallbackStep, CoreCallCreated, CoreCallStarted, Crash
<1>11. ASSUME NEW c \in Calls, NEW type \in EventTypes, NetworkEvent(c, type)
       PROVE  e \in Ended'
  BY <1>11, <1>q DEF NetworkEvent
<1>12. CASE UNCHANGED vars
  BY <1>12, <1>q
<1> QED
  BY <1>1, <1>2, <1>3, <1>4, <1>5, <1>6, <1>7, <1>8, <1>9, <1>10, <1>11, <1>12, <1>13
  DEF Next, Live, Resting, SipStep

\* Stage 1 is served for the call it names or for one that is over.
LEMMA Stage1Call ==
  ASSUME Typed, AudioShape, DialShape, SipCoreCallInProgress
  PROVE  /\ toSip # <<>>
         /\ Head(toSip).payload \in dialled
         /\ Head(toSip).payload # curCall => Head(toSip).payload \in Ended
<1>1. /\ toSip \in Seq(SipMsgs) /\ toSip # <<>> /\ dialled \subseteq Calls
      /\ audioPc \in [Calls -> {"none", "start", "poll", "serial", "done"}]
  BY DEF Typed, TypeOK, Serving, SipCoreCallInProgress
<1>2. In(Head(toSip), toSip) /\ Head(toSip) \in SipMsgs
  BY <1>1, InTail, HeadTailType
<1> DEFINE c == Head(toSip).payload
<1>3. c \in dialled
  BY <1>2 DEF DialShape, SipCoreCallInProgress
<1>4. audioPc[c] # "none"
  BY <1>3 DEF DialShape
<1> QED BY <1>1, <1>3, <1>4 DEF Ended

\* An answer is for the call that was dialled, or the dialled one is over; and a
\* crash for want of a call in progress names one that is over.
WrongCallIsOver ==
  /\ \A a \in answers : a.path \in dialled /\ (a.path # a.call => a.path \in Ended)
  /\ fault = "stage1_no_call" =>
       toSip # <<>> /\ Head(toSip).payload \in dialled \cap Ended

\* Every step keeps it: only stage 1 gives an answer or misses its call.
LEMMA WrongCallStep ==
  Typed /\ AudioShape /\ EventShape /\ DialShape /\ WrongCallIsOver /\ [Next]_vars
  => WrongCallIsOver'
<1> SUFFICES ASSUME Typed, AudioShape, EventShape, DialShape, WrongCallIsOver, [Next]_vars
             PROVE  WrongCallIsOver'
  OBVIOUS
<1>1. Ended \subseteq Ended'
  BY EndedStays
<1>2. CASE fault = "none" /\ SipCoreCallInProgress
  <2> DEFINE c == Head(toSip).payload
  <2>1. toSip # <<>> /\ c \in dialled /\ (c # curCall => c \in Ended)
    BY <1>2, Stage1Call
  <2>2. CASE curCall = NoCall
    <3>1. c # curCall
      BY <2>1, <2>2, NoCallAssumption DEF Typed, TypeOK
    <3>2. UNCHANGED <<toSip, dialled, answers>>
      BY <1>2, <2>2 DEF SipCoreCallInProgress, Crash
    <3> QED BY <1>1, <2>1, <3>1, <3>2 DEF WrongCallIsOver
  <2>3. CASE curCall # NoCall
    <3>1. /\ UNCHANGED <<fault, dialled>>
          /\ answers' \subseteq answers \cup {[call |-> curCall, path |-> c, port |-> localPort]}
      BY <1>2, <2>3 DEF SipCoreCallInProgress
    <3>2. ASSUME NEW a \in answers'
          PROVE  a.path \in dialled /\ (a.path # a.call => a.path \in Ended)
      <4>1. CASE a \in answers
        BY <4>1 DEF WrongCallIsOver
      <4>2. CASE a = [call |-> curCall, path |-> c, port |-> localPort]
        <5>1. a.path = c /\ a.call = curCall
          BY <4>2
        <5> QED BY <2>1, <5>1
      <4> QED BY <3>1, <4>1, <4>2
    <3>3. fault' = "none"
      BY <1>2, <3>1
    <3> QED BY <1>1, <3>1, <3>2, <3>3 DEF WrongCallIsOver
  <2> QED BY <2>2, <2>3
<1>3. ASSUME UNCHANGED answers, dialled \subseteq dialled', fault' # "stage1_no_call"
      PROVE  WrongCallIsOver'
  BY <1>1, <1>3 DEF WrongCallIsOver
<1>4. CASE UNCHANGED vars
  BY <1>1, <1>4 DEF WrongCallIsOver
<1>5. ASSUME Live, ~SipCoreCallInProgress
      PROVE  UNCHANGED answers /\ dialled \subseteq dialled'
  <2>1. CASE SipInit \/ SipPoll \/ SipJoin \/ SipClose \/ SipReceiveFails
    BY <2>1 DEF SipInit, SipPoll, SipJoin, SipClose, SipReceiveFails
  <2>2. CASE SipCoreExit \/ SipCoreRegister
    BY <2>2 DEF SipCoreExit, SipCoreRegister
  <2>3. CASE InviteDropped \/ InviteUnconfigured \/ InviteAccepted \/ InviteFails
    BY <2>3 DEF InviteDropped, InviteUnconfigured, InviteAccepted, InviteFails, Crash
  <2>4. CASE EventEndsCall \/ EventIgnored \/ EventsDrained
    BY <2>4 DEF EventEndsCall, EventIgnored, EventsDrained
  <2>5. CASE SipAudioReady \/ SipAudioRtpOk
    BY <2>5 DEF SipAudioReady, SipAudioRtpOk, Crash
  <2>6. CASE CoreStep \/ CoreStop
    BY <2>6 DEF CoreStep, CoreReady, CoreIncomingCall, CoreJoin, CoreStop
  <2>7. ASSUME NEW c \in Calls, AudioStep(c) PROVE UNCHANGED <<answers, dialled>>
    BY <2>7 DEF AudioStep, AudioStart, AudioRtpInit, AudioSerialInit, AudioExit, Crash
  <2>8. ASSUME NEW c \in Calls, CallbackStep(c) PROVE UNCHANGED <<answers, dialled>>
    BY <2>8 DEF CallbackStep, CoreCallCreated, CoreCallStarted, Crash
  <2>9. ASSUME NEW c \in Calls, NEW type \in EventTypes, NetworkEvent(c, type)
        PROVE  UNCHANGED <<answers, dialled>>
    BY <2>9 DEF NetworkEvent
  <2> QED BY <1>5, <2>1, <2>2, <2>3, <2>4, <2>5, <2>6, <2>7, <2>8, <2>9
      DEF Live, SipStep
<1>6. CASE Live /\ ~SipCoreCallInProgress
  <2>1. fault = "none"
    BY <1>6 DEF Live
  <2>2. fault' # "stage1_no_call"
    BY <1>6, <2>1, FaultStep DEF Crashing
  <2> QED BY <1>3, <1>5, <1>6, <2>2
<1> QED BY <1>2, <1>4, <1>6 DEF Next, Live, Resting

\* av_sip_core_msg does not look at the MMCall that SIP_CMD_CALL_IN_PROGRESS names.
\* When it answers another call, or has none to answer, then because the call whose
\* MMCall it is was dialled and is over.
THEOREM WrongCallIsOverHolds == Spec => []WrongCallIsOver
<1>1. Init => WrongCallIsOver
  BY DEF Init, WrongCallIsOver
<1>2. Typed /\ AudioShape /\ EventShape /\ DialShape /\ WrongCallIsOver /\ [Next]_vars
      => WrongCallIsOver'
  BY WrongCallStep
<1> QED BY <1>1, <1>2, DialInvariant, PTL DEF Spec
=============================================================================

---------------------------- MODULE AvSipProofs ----------------------------
(***************************************************************************)
(* Proofs about AvSip for any set of calls, any set of failures and any    *)
(* traffic.                                                                *)
(***************************************************************************)
EXTENDS AvSip, TLAPS

USE DEF vars, coreVars, chanVars, sipVars, netVars, histVars
-----------------------------------------------------------------------------
(* Type correctness *)

\* What a command can do to the channel it is posted to.
LEMMA PostedType ==
  ASSUME NEW S, NEW ch \in Seq(S), NEW m \in S, NEW res \in Posted(ch, m)
  PROVE  res \in Seq(S)
BY DEF Posted

\* The types of the commands and events built by the actions.
LEMMA MessageTypes ==
  /\ Msg("SIP_CMD_EXIT", NoCall) \in SipMsgs
  /\ Msg("SIP_CMD_REGISTER", NoCall) \in SipMsgs
  /\ \A c \in Calls : Msg("SIP_CMD_CALL_IN_PROGRESS", c) \in SipMsgs
  /\ Msg("SIP_EVENT_READY", NoCall) \in CoreMsgs
  /\ \A c \in Calls : Msg("SIP_EVENT_INCOMING_CALL", c) \in CoreMsgs
  /\ Msg("CMD_AUDIO_EXIT", NoCall) \in ToAudioMsgs
  /\ \A c \in Calls \cup {NoCall} : Msg("CMD_AUDIO_INIT", c) \in ToAudioMsgs
  /\ Msg("AUDIO_EVENT_READY", NoCall) \in FromAudioMsgs
  /\ \A c \in Calls : Msg("AUDIO_EVENT_RTP_OK", c) \in FromAudioMsgs
  /\ \A c \in Calls, t \in EventTypes : Event(t, c) \in Events
BY DEF SipMsgs, CoreMsgs, ToAudioMsgs, FromAudioMsgs, Events

\* The payloads that a message of a given type carries.
LEMMA PayloadTypes ==
  /\ \A m \in SipMsgs : m.msgtype = "SIP_CMD_CALL_IN_PROGRESS" => m.payload \in Calls
  /\ \A m \in CoreMsgs : m.msgtype = "SIP_EVENT_INCOMING_CALL" => m.payload \in Calls
  /\ \A m \in FromAudioMsgs : m.msgtype = "AUDIO_EVENT_RTP_OK" => m.payload \in Calls
  /\ \A e \in Events : e.cid \in Calls /\ e.type \in EventTypes /\ e = Event(e.type, e.cid)
BY DEF SipMsgs, CoreMsgs, FromAudioMsgs, Events, Event, Msg

\* A channel that is not empty has a head of its type and a tail of its own.
LEMMA HeadTailType ==
  ASSUME NEW S, NEW ch \in Seq(S), ch # <<>>
  PROVE  /\ Head(ch) \in S
         /\ Tail(ch) \in Seq(S)
         /\ Len(ch) > 0
OBVIOUS

\* A channel keeps its type when a message of that type is appended.
LEMMA AppendType ==
  ASSUME NEW S, NEW ch \in Seq(S), NEW m \in S
  PROVE  Append(ch, m) \in Seq(S)
OBVIOUS

\* What a channel of the audio threads becomes when one of them changes.
LEMMA ChannelUpdate ==
  ASSUME NEW S, NEW f \in [Calls -> Seq(S)], NEW c \in Calls, NEW ch \in Seq(S)
  PROVE  [f EXCEPT ![c] = ch] \in [Calls -> Seq(S)]
OBVIOUS

\* A thread that is about to serve a message finds one.
Serving ==
  /\ curCall # NoCall => audiothread = curCall
  /\ audiothread \notin {NoCall, curCall} => "exit" \in Failures
  /\ sipPc = "core" => toSip # <<>>
  /\ sipPc = "audio" => AudioReadable
  /\ sipPc \in {"join_events", "join_closing"} => curCall # NoCall
  /\ \A c \in Calls : audioPc[c] = "serial" =>
       toAudio[c] # <<>> /\ Head(toAudio[c]).msgtype = "CMD_AUDIO_INIT"

Typed == TypeOK /\ Serving

\* The end of a call keeps the types, and what any audio thread has in hand.
LEMMA CallEndType ==
  ASSUME Typed, curCall \in Calls, NEW pc \in {"join_events", "join_closing"},
         CallEnd(pc)
  PROVE  /\ toAudio' \in [Calls -> Seq(ToAudioMsgs)]
         /\ \/ sipPc' = pc /\ curCall' = curCall
            \/ sipPc' = sipPc /\ curCall' = NoCall /\ "exit" \in Failures
         /\ \A c \in Calls : toAudio[c] # <<>> =>
              toAudio'[c] # <<>> /\ Head(toAudio'[c]) = Head(toAudio[c])
<1> DEFINE exit == Msg("CMD_AUDIO_EXIT", NoCall)
<1> USE DEF Typed
<1>1. toAudio \in [Calls -> Seq(ToAudioMsgs)] /\ audiothread \in Calls
  BY NoCallAssumption DEF TypeOK, Serving
<1>2. exit \in ToAudioMsgs
  BY MessageTypes
<1>3. Append(toAudio[audiothread], exit) \in Seq(ToAudioMsgs)
  BY <1>1, <1>2, AppendType
<1> HIDE DEF exit
<1>4. CASE /\ toAudio' = [toAudio EXCEPT ![audiothread] = Append(@, exit)]
           /\ sipPc' = pc /\ curCall' = curCall
  <2>1. toAudio' \in [Calls -> Seq(ToAudioMsgs)]
    BY <1>1, <1>3, <1>4
  <2>2. ASSUME NEW c \in Calls, toAudio[c] # <<>>
        PROVE  toAudio'[c] # <<>> /\ Head(toAudio'[c]) = Head(toAudio[c])
    <3>1. toAudio[c] \in Seq(ToAudioMsgs)
      BY <1>1
    <3>2. CASE c = audiothread
      BY <3>1, <3>2, <2>2, <1>1, <1>2, <1>4
    <3>3. CASE c # audiothread
      BY <3>3, <2>2, <1>1, <1>4
    <3> QED BY <3>2, <3>3
  <2> QED BY <2>1, <2>2, <1>4
<1>5. CASE "exit" \in Failures /\ curCall' = NoCall /\ UNCHANGED <<toAudio, sipPc>>
  BY <1>1, <1>5
<1> QED BY <1>4, <1>5 DEF CallEnd, TellsAudioExit, exit

\* The end of the handling of an event keeps the types.
LEMMA FinishEventType ==
  ASSUME TypeOK, sipEvents # <<>>, NEW keep \in BOOLEAN, FinishEvent(keep)
  PROVE  keepEvent' \in BOOLEAN /\ kept' \subseteq Events /\ sipEvents' \in Seq(Events)
BY DEF FinishEvent, Keeping, TypeOK

\* The initial states are typed, and no message is being served in them.
LEMMA InitTyped == Init => Typed
<1> SUFFICES ASSUME Init PROVE Typed
  OBVIOUS
<1>1. /\ mmCall \in [Calls -> {"none", "creating", "starting", "started", "failed"}]
      /\ audioPc \in [Calls -> {"none", "start", "poll", "serial", "done"}]
  BY DEF Init
<1>2. /\ toSip \in Seq(SipMsgs)
      /\ toCore \in Seq(CoreMsgs)
      /\ sipEvents \in Seq(Events)
      /\ toAudio \in [Calls -> Seq(ToAudioMsgs)]
      /\ fromAudio \in [Calls -> Seq(FromAudioMsgs)]
  BY DEF Init
<1>3. TypeOK
  BY <1>1, <1>2 DEF Init, TypeOK
<1>4. Serving
  BY DEF Init, Serving
<1> QED
  BY <1>3, <1>4 DEF Typed

\* One channel of the audio threads receives a command, or loses its first one.
LEMMA PostedUpdate ==
  ASSUME NEW S, NEW f \in [Calls -> Seq(S)], NEW c \in Calls, NEW m \in S,
         NEW ch \in Posted(f[c], m)
  PROVE  [f EXCEPT ![c] = ch] \in [Calls -> Seq(S)]
<1>1. ch \in Seq(S)
  BY PostedType
<1> QED BY <1>1

\* A channel of the audio threads keeps its type when its head is taken.
LEMMA TailUpdate ==
  ASSUME NEW S, NEW f \in [Calls -> Seq(S)], NEW c \in Calls, f[c] # <<>>
  PROVE  [f EXCEPT ![c] = Tail(@)] \in [Calls -> Seq(S)]
<1>1. Tail(f[c]) \in Seq(S)
  BY HeadTailType
<1> QED BY <1>1

\* Every step keeps the types, given that the message it serves is there.
LEMMA TypeStep == Typed /\ [Next]_vars => TypeOK'
<1> SUFFICES ASSUME Typed, [Next]_vars PROVE TypeOK'
  OBVIOUS
<1>0. TypeOK /\ Serving
  BY DEF Typed
<1>1. CASE SipInit
  <2>1. toCore' \in Seq(CoreMsgs)
    BY <1>0, <1>1, MessageTypes, PostedType DEF TypeOK, SipInit
  <2> QED BY <1>0, <1>1, <2>1, ZenonT(30) DEF TypeOK, SipInit
<1>2. CASE SipPoll
  BY <1>0, <1>2, ZenonT(30) DEF TypeOK, SipPoll
<1>3. CASE SipJoin
  BY <1>0, <1>3 DEF TypeOK, SipJoin
<1>4. CASE SipClose
  <2>1. CASE curCall # NoCall /\ CallEnd("join_closing")
    <3>1. curCall \in Calls
      BY <1>0, <2>1 DEF TypeOK
    <3>2. /\ toAudio' \in [Calls -> Seq(ToAudioMsgs)]
          /\ sipPc' \in {sipPc, "join_closing"}
          /\ curCall' \in {curCall, NoCall}
      BY <1>0, <2>1, <3>1, CallEndType DEF Typed
    <3>3. kept' \subseteq Events
      BY <1>0, <1>4, <2>1 DEF TypeOK, SipClose, KeptOf
    <3> QED BY <1>0, <1>4, <2>1, <3>2, <3>3, SMTT(20) DEF TypeOK, SipClose
  <2>2. CASE curCall = NoCall
    BY <1>0, <1>4, <2>2 DEF TypeOK, SipClose
  <2> QED BY <1>4, <2>1, <2>2 DEF SipClose
<1>5. CASE SipCoreExit
  BY <1>0, <1>5 DEF TypeOK, Serving, SipCoreExit, LoopPc
<1>6. CASE SipCoreRegister
  <2>1. toSip' \in Seq(SipMsgs)
    BY <1>0, <1>6 DEF TypeOK, Serving, SipCoreRegister
  <2>2. configured' \in BOOLEAN /\ sipPc' \in {"poll", "closing"}
    BY <1>6 DEF SipCoreRegister, LoopPc, RegConf, Outcome
  <2> QED BY <1>0, <1>6, <2>1, <2>2, SMTT(20) DEF TypeOK, SipCoreRegister
<1>7. CASE SipCoreCallInProgress
  <2>1. CASE curCall = NoCall
    BY <1>0, <1>7, <2>1 DEF TypeOK, SipCoreCallInProgress, Crash
  <2>2. CASE curCall # NoCall
    <3>0. toSip \in Seq(SipMsgs) /\ toSip # <<>> /\ toSip' = Tail(toSip)
      BY <1>0, <1>7, <2>2 DEF TypeOK, Serving, SipCoreCallInProgress
    <3>1. Head(toSip) \in SipMsgs /\ toSip' \in Seq(SipMsgs)
      BY <3>0, HeadTailType
    <3>2. Head(toSip).payload \in Calls
      BY <1>7, <3>1, PayloadTypes DEF SipCoreCallInProgress
    <3>3. curCall \in Calls /\ localPort \in Calls \cup {NoCall}
      BY <1>0, <2>2 DEF TypeOK
    <3>4. answers' \subseteq [call : Calls, path : Calls, port : Calls \cup {NoCall}]
      BY <1>0, <1>7, <2>2, <3>2, <3>3 DEF TypeOK, SipCoreCallInProgress
    <3>5. sipPc' \in {"poll", "closing"}
      BY <1>7, <2>2 DEF SipCoreCallInProgress, LoopPc
    <3>6. UNCHANGED <<fault, coreVars, toCore, toAudio, fromAudio, sipVars,
                      audioPc, netVars, dialled>>
      BY <1>7, <2>2 DEF SipCoreCallInProgress
    <3> QED BY <1>0, <3>1, <3>4, <3>5, <3>6, SMTT(20) DEF TypeOK
  <2> QED BY <2>1, <2>2
<1>8. CASE InviteDropped
  <2>1. keepEvent' \in BOOLEAN /\ kept' \subseteq Events /\ sipEvents' \in Seq(Events)
    BY <1>0, <1>8, FinishEventType DEF InviteDropped, IsInvite
  <2> QED BY <1>0, <1>8, <2>1 DEF TypeOK, InviteDropped
<1>9. CASE InviteUnconfigured
  BY <1>0, <1>9 DEF TypeOK, InviteUnconfigured, Crash
<1>10. CASE InviteAccepted
  <2>1. keepEvent' \in BOOLEAN /\ kept' \subseteq Events /\ sipEvents' \in Seq(Events)
    BY <1>0, <1>10, FinishEventType DEF InviteAccepted, IsFirstInvite, IsInvite
  <2>2. Head(sipEvents) \in Events
    BY <1>0, <1>10 DEF TypeOK, InviteAccepted, IsFirstInvite, IsInvite
  <2>3. Head(sipEvents).cid \in Calls
    BY <2>2, PayloadTypes
  <2> QED BY <1>0, <1>10, <2>1, <2>3 DEF TypeOK, InviteAccepted
<1>11. CASE InviteFails
  BY <1>0, <1>11 DEF TypeOK, InviteFails, Crash
<1>12. CASE EventEndsCall
  <2>1. keepEvent' \in BOOLEAN /\ kept' \subseteq Events /\ sipEvents' \in Seq(Events)
    BY <1>0, <1>12 DEF EventEndsCall, TypeOK, KeptOf, Keeping
  <2>2. Head(sipEvents) \in Events
    BY <1>0, <1>12 DEF TypeOK, EventEndsCall
  <2>3. curCall \in Calls
    BY <1>12, <2>2, PayloadTypes DEF EventEndsCall, EndsCurrent
  <2>4. /\ toAudio' \in [Calls -> Seq(ToAudioMsgs)]
        /\ sipPc' \in {sipPc, "join_events"}
        /\ curCall' \in {curCall, NoCall}
    BY <1>0, <1>12, <2>3, CallEndType DEF Typed, EventEndsCall
  <2>5. /\ fault' = fault /\ corePc' = corePc /\ mmCall' = mmCall /\ toSip' = toSip
        /\ toCore' = toCore /\ fromAudio' = fromAudio /\ audiothread' = audiothread
        /\ configured' = configured /\ localPort' = localPort /\ audioPc' = audioPc
        /\ happened' = happened /\ dialled' = dialled /\ answers' = answers
    BY <1>12 DEF EventEndsCall, coreVars, histVars
  <2>6. sipPc' \in {"init", "poll", "core", "events", "audio", "join_events",
                    "join_closing", "closing", "done"}
    BY <1>0, <2>4 DEF TypeOK
  <2>7. curCall' \in Calls \cup {NoCall}
    BY <1>0, <2>4 DEF TypeOK
  <2> QED BY <1>0, <2>1, <2>4, <2>5, <2>6, <2>7, Zenon DEF TypeOK
<1>13. CASE EventIgnored
  <2>1. keepEvent' \in BOOLEAN /\ kept' \subseteq Events /\ sipEvents' \in Seq(Events)
    BY <1>0, <1>13, FinishEventType DEF EventIgnored, TypeOK
  <2> QED BY <1>0, <1>13, <2>1 DEF TypeOK, EventIgnored
<1>14. CASE EventsDrained
  BY <1>0, <1>14 DEF TypeOK, EventsDrained
<1>15. CASE SipAudioReady
  <2>1. audiothread \in Calls /\ curCall \in Calls \cup {NoCall} /\ fromAudio[audiothread] # <<>>
    BY <1>0, <1>15 DEF TypeOK, Serving, AudioReadable, SipAudioReady, AudioEvent
  <2>2. Msg("CMD_AUDIO_INIT", curCall) \in ToAudioMsgs
    BY <2>1, MessageTypes
  <2>3. toAudio' \in [Calls -> Seq(ToAudioMsgs)]
    BY <1>0, <1>15, <2>1, <2>2, PostedType DEF TypeOK, SipAudioReady
  <2>4. fromAudio' \in [Calls -> Seq(FromAudioMsgs)]
    BY <1>0, <1>15, <2>1 DEF TypeOK, SipAudioReady
  <2> QED BY <1>0, <1>15, <2>3, <2>4 DEF TypeOK, SipAudioReady
<1>16. CASE SipAudioRtpOk
  <2>1. CASE curCall = NoCall
    BY <1>0, <1>16, <2>1 DEF TypeOK, SipAudioRtpOk, Crash
  <2>2. CASE curCall # NoCall
    <3>1. /\ audiothread \in Calls /\ curCall \in Calls /\ curCall # NoCall
          /\ fromAudio[audiothread] # <<>>
      BY <1>0, <1>16, <2>2, NoCallAssumption
      DEF TypeOK, Serving, AudioReadable, SipAudioRtpOk, AudioEvent
    <3>2. Head(fromAudio[audiothread]) \in FromAudioMsgs
      BY <1>0, <3>1 DEF TypeOK
    <3>3. localPort' \in Calls
      BY <1>16, <3>1, <3>2, PayloadTypes DEF SipAudioRtpOk, RtpPort, AudioEvent
    <3>4. fromAudio' \in [Calls -> Seq(FromAudioMsgs)]
      <4>1. fromAudio \in [Calls -> Seq(FromAudioMsgs)]
        BY <1>0 DEF TypeOK
      <4>2. fromAudio' = [fromAudio EXCEPT ![audiothread] = Tail(@)]
        BY <1>16, <2>2, <3>1 DEF SipAudioRtpOk
      <4> QED BY <4>1, <4>2, <3>1, TailUpdate
    <3>a. Msg("SIP_EVENT_INCOMING_CALL", curCall) \in CoreMsgs
      BY <3>1, MessageTypes
    <3>b. Append(toCore, Msg("SIP_EVENT_INCOMING_CALL", curCall)) \in Seq(CoreMsgs)
      BY <1>0, <3>a, AppendType DEF TypeOK
    <3>5. toCore' \in Seq(CoreMsgs) /\ dialled' \subseteq Calls
      BY <1>0, <1>16, <3>1, <3>b DEF TypeOK, SipAudioRtpOk
    <3> QED BY <1>0, <1>16, <3>1, <3>3, <3>4, <3>5 DEF TypeOK, SipAudioRtpOk
  <2> QED BY <2>1, <2>2
<1>17. CASE CoreReady
  <2>1. toSip' \in Seq(SipMsgs)
    BY <1>0, <1>17, MessageTypes, PostedType DEF TypeOK, CoreReady
  <2> QED BY <1>0, <1>17, <2>1, SMTT(20) DEF TypeOK, CoreReady, CoreEvent
<1>18. CASE CoreIncomingCall
  <2>1. toCore' \in Seq(CoreMsgs)
    BY <1>0, <1>18 DEF TypeOK, CoreIncomingCall, CoreEvent
  <2>2. mmCall' \in [Calls -> {"none", "creating", "starting", "started", "failed"}]
    BY <1>0, <1>18 DEF TypeOK, CoreIncomingCall
  <2> QED BY <1>0, <1>18, <2>1, <2>2, SMTT(20) DEF TypeOK, CoreIncomingCall
<1>19. CASE CoreStop
  <2>1. toSip' \in Seq(SipMsgs)
    <3>1. Append(toSip, Msg("SIP_CMD_EXIT", NoCall)) \in Seq(SipMsgs)
      BY <1>0, MessageTypes, AppendType DEF TypeOK
    <3> QED BY <1>0, <1>19, <3>1 DEF TypeOK, CoreStop
  <2> QED BY <1>0, <1>19, <2>1 DEF TypeOK, CoreStop
<1>20. CASE CoreJoin
  BY <1>0, <1>20 DEF TypeOK, CoreJoin
<1>21. ASSUME NEW c \in Calls, AudioStart(c) PROVE TypeOK'
  <2>1. CASE Crash("astate_shared")
    BY <1>0, <2>1 DEF TypeOK, Crash
  <2>2. CASE ~AstateInUse(c)
    <3>1. fromAudio' \in [Calls -> Seq(FromAudioMsgs)]
      <4>1. fromAudio \in [Calls -> Seq(FromAudioMsgs)]
        BY <1>0 DEF TypeOK
      <4>2. CASE UNCHANGED fromAudio
        BY <4>1, <4>2
      <4>3. CASE \E ch \in Posted(fromAudio[c], Msg("AUDIO_EVENT_READY", NoCall)) :
                   fromAudio' = [fromAudio EXCEPT ![c] = ch]
        BY <4>1, <4>3, MessageTypes, PostedUpdate
      <4> QED BY <1>21, <2>2, <4>2, <4>3 DEF AudioStart
    <3>2. audioPc' \in [Calls -> {"none", "start", "poll", "serial", "done"}]
      BY <1>0, <1>21, <2>2 DEF TypeOK, AudioStart
    <3>3. UNCHANGED <<fault, coreVars, toSip, toCore, toAudio>>
      BY <1>21, <2>2 DEF AudioStart
    <3>4. UNCHANGED <<sipPc, sipVars, netVars, histVars>>
      BY <1>21, <2>2 DEF AudioStart
    <3>5. /\ fault' \in {"none", "stage1_no_call", "invite_unconfigured", "null_connection",
                        "null_audiothread", "event_double_free", "astate_shared",
                        "conn_after_free", "rtp_ok_no_call", "sipthread_after_free"}
          /\ corePc' \in {"running", "joining", "stopped", "abandoned"}
          /\ mmCall' \in [Calls -> {"none", "creating", "starting", "started", "failed"}]
          /\ toSip' \in Seq(SipMsgs)
          /\ toCore' \in Seq(CoreMsgs)
          /\ toAudio' \in [Calls -> Seq(ToAudioMsgs)]
      BY <1>0, <3>3 DEF TypeOK
    <3>6. /\ sipPc' \in {"init", "poll", "core", "events", "audio", "join_events",
                        "join_closing", "closing", "done"}
          /\ keepEvent' \in BOOLEAN
          /\ kept' \subseteq Events
          /\ curCall' \in Calls \cup {NoCall}
          /\ audiothread' \in Calls \cup {NoCall}
          /\ configured' \in BOOLEAN
          /\ localPort' \in Calls \cup {NoCall}
      BY <1>0, <3>4 DEF TypeOK
    <3>7. /\ sipEvents' \in Seq(Events)
          /\ happened' \subseteq Events
          /\ dialled' \subseteq Calls
          /\ answers' \subseteq [call : Calls, path : Calls, port : Calls \cup {NoCall}]
      BY <1>0, <3>4 DEF TypeOK
    <3> QED BY <3>1, <3>2, <3>5, <3>6, <3>7, Zenon DEF TypeOK
  <2> QED BY <1>21, <2>1, <2>2 DEF AudioStart
<1>22. ASSUME NEW c \in Calls, AudioRtpInit(c) PROVE TypeOK'
  <2>1. CASE Crash("conn_after_free")
    BY <1>0, <2>1 DEF TypeOK, Crash
  <2>2. CASE ConnectionAlive(c)
    <3>1. audioPc' \in [Calls -> {"none", "start", "poll", "serial", "done"}]
      BY <1>0, <1>22, <2>2 DEF TypeOK, AudioRtpInit
    <3> QED BY <1>0, <1>22, <2>2, <3>1 DEF TypeOK, AudioRtpInit
  <2> QED BY <1>22, <2>1, <2>2 DEF AudioRtpInit
<1>23. ASSUME NEW c \in Calls, AudioSerialInit(c) PROVE TypeOK'
  <2>1. CASE ~ConnectionAlive(c)
    BY <1>0, <1>23, <2>1 DEF TypeOK, AudioSerialInit, Crash
  <2>2. CASE ConnectionAlive(c)
    <3>1. fromAudio' \in [Calls -> Seq(FromAudioMsgs)]
      <4>1. fromAudio \in [Calls -> Seq(FromAudioMsgs)]
        BY <1>0 DEF TypeOK
      <4>2. CASE UNCHANGED fromAudio
        BY <4>1, <4>2
      <4>3. CASE \E ch \in Posted(fromAudio[c], Msg("AUDIO_EVENT_RTP_OK", c)) :
                   fromAudio' = [fromAudio EXCEPT ![c] = ch]
        BY <4>1, <4>3, MessageTypes, PostedUpdate
      <4> QED BY <1>23, <2>2, <4>2, <4>3 DEF AudioSerialInit
    <3>2. toAudio' \in [Calls -> Seq(ToAudioMsgs)]
      <4>1. toAudio[c] # <<>>
        BY <1>0, <1>23 DEF Serving, AudioSerialInit
      <4>2. toAudio \in [Calls -> Seq(ToAudioMsgs)]
        BY <1>0 DEF TypeOK
      <4>3. toAudio' = [toAudio EXCEPT ![c] = Tail(@)]
        BY <1>23, <2>2 DEF AudioSerialInit, AudioServed
      <4> QED BY <4>1, <4>2, <4>3, TailUpdate
    <3>3. audioPc' \in [Calls -> {"none", "start", "poll", "serial", "done"}]
      <4>1. audioPc \in [Calls -> {"none", "start", "poll", "serial", "done"}]
        BY <1>0 DEF TypeOK
      <4>2. \E next \in {"poll", "done"} : audioPc' = [audioPc EXCEPT ![c] = next]
        BY <1>23, <2>2 DEF AudioSerialInit
      <4> QED BY <4>1, <4>2
    <3>4. UNCHANGED <<fault, coreVars, toSip, toCore, sipPc, sipVars, netVars,
                      histVars>>
      BY <1>23, <2>2 DEF AudioSerialInit
    <3>5. /\ (TypeOK!1)' /\ (TypeOK!2)' /\ (TypeOK!3)' /\ (TypeOK!4)' /\ (TypeOK!5)'
          /\ (TypeOK!8)' /\ (TypeOK!9)' /\ (TypeOK!10)' /\ (TypeOK!11)'
          /\ (TypeOK!12)' /\ (TypeOK!13)' /\ (TypeOK!14)'
          /\ (TypeOK!16)' /\ (TypeOK!17)' /\ (TypeOK!18)' /\ (TypeOK!19)'
      BY <1>0, <3>4 DEF TypeOK
    <3> QED BY <3>1, <3>2, <3>3, <3>5, Zenon DEF TypeOK
  <2> QED BY <2>1, <2>2
<1>24. ASSUME NEW c \in Calls, AudioExit(c) PROVE TypeOK'
  BY <1>0, <1>24, SMTT(20) DEF TypeOK, AudioExit, AudioServed, AudioCommand
<1>25. ASSUME NEW c \in Calls, CoreCallCreated(c) PROVE TypeOK'
  BY <1>0, <1>25 DEF TypeOK, CoreCallCreated
<1>26. ASSUME NEW c \in Calls, CoreCallStarted(c) PROVE TypeOK'
  <2>1. CASE Crash("sipthread_after_free")
    BY <1>0, <2>1 DEF TypeOK, Crash
  <2>2. CASE ~Crash("sipthread_after_free")
    <3>1. toSip' \in Seq(SipMsgs)
      BY <1>0, <1>26, <2>2, MessageTypes, PostedType DEF TypeOK, CoreCallStarted
    <3>2. mmCall' \in [Calls -> {"none", "creating", "starting", "started", "failed"}]
      BY <1>0, <1>26, <2>2 DEF TypeOK, CoreCallStarted
    <3>3. UNCHANGED <<fault, corePc, toCore, toAudio, fromAudio, sipPc, sipVars,
                      audioPc, netVars, histVars>>
      BY <1>26, <2>2 DEF CoreCallStarted
    <3> QED BY <1>0, <3>1, <3>2, <3>3, SMTT(20) DEF TypeOK
  <2> QED BY <2>1, <2>2
<1>27. ASSUME NEW c \in Calls, NEW type \in EventTypes, NetworkEvent(c, type)
       PROVE  TypeOK'
  <2>1. Event(type, c) \in Events
    BY MessageTypes
  <2>2. sipEvents' \in Seq(Events) /\ happened' \subseteq Events
    BY <1>0, <1>27, <2>1 DEF TypeOK, NetworkEvent
  <2> QED BY <1>0, <1>27, <2>2, SMTT(20) DEF TypeOK, NetworkEvent
<1>28. CASE UNCHANGED vars
  BY <1>0, <1>28 DEF TypeOK
<1>29. CASE SipReceiveFails
  BY <1>0, <1>29 DEF TypeOK, SipReceiveFails
<1> QED
  BY <1>1, <1>2, <1>3, <1>4, <1>5, <1>6, <1>7, <1>8, <1>9, <1>10,
     <1>11, <1>12, <1>13, <1>14, <1>15, <1>16, <1>17, <1>18, <1>19, <1>20,
     <1>21, <1>22, <1>23, <1>24, <1>25, <1>26, <1>27, <1>28, <1>29
  DEF Next, Live, Resting, SipStep, CoreStep, AudioStep, CallbackStep
-----------------------------------------------------------------------------
(* What channels hold *)

In(m, ch)    == \E i \in 1..Len(ch) : ch[i] = m
Distinct(ch) == \A i, j \in 1..Len(ch) : ch[i] = ch[j] => i = j

\* Taking the head of a channel brings nothing into it, and the head was in it.
LEMMA InTail ==
  ASSUME NEW S, NEW ch \in Seq(S), ch # <<>>
  PROVE  /\ In(Head(ch), ch)
         /\ \A m : In(m, Tail(ch)) => In(m, ch)
         /\ Distinct(ch) => Distinct(Tail(ch)) /\ ~In(Head(ch), Tail(ch))
<1>1. /\ Tail(ch) \in Seq(S)
      /\ Len(Tail(ch)) = Len(ch) - 1
      /\ Len(ch) \in Nat /\ Len(ch) > 0
      /\ Head(ch) = ch[1]
      /\ \A i \in 1..Len(Tail(ch)) : Tail(ch)[i] = ch[i + 1]
  OBVIOUS
<1> QED BY <1>1 DEF In, Distinct

\* Appending a message brings that message alone into a channel.
LEMMA InAppend ==
  ASSUME NEW S, NEW ch \in Seq(S), NEW x \in S
  PROVE  /\ \A m : In(m, Append(ch, x)) => In(m, ch) \/ m = x
         /\ Distinct(ch) /\ ~In(x, ch) => Distinct(Append(ch, x))
<1>1. /\ Len(Append(ch, x)) = Len(ch) + 1
      /\ Len(ch) \in Nat
      /\ Append(ch, x)[Len(ch) + 1] = x
      /\ \A i \in 1..Len(ch) : Append(ch, x)[i] = ch[i]
  OBVIOUS
<1> QED BY <1>1 DEF In, Distinct

\* So does posting it, whether or not there is memory for it.
LEMMA InPosted ==
  ASSUME NEW S, NEW ch \in Seq(S), NEW x \in S, NEW res \in Posted(ch, x), NEW m, In(m, res)
  PROVE  In(m, ch) \/ m = x
<1>1. res = Append(ch, x) \/ res = ch
  BY DEF Posted
<1>2. CASE res = Append(ch, x)
  <2>1. In(m, Append(ch, x))
    BY <1>2
  <2>2. \A k : In(k, Append(ch, x)) => In(k, ch) \/ k = x
    BY InAppend
  <2> QED BY <2>1, <2>2
<1>3. CASE res = ch
  BY <1>3
<1> QED BY <1>1, <1>2, <1>3

\* Nothing is in an empty channel.
LEMMA InEmpty == ASSUME NEW m PROVE ~In(m, <<>>)
BY DEF In

\* Elements have the type of the channel.
LEMMA InType == ASSUME NEW S, NEW ch \in Seq(S), NEW m, In(m, ch) PROVE m \in S
BY DEF In

\* A channel that has something in it goes on having it when more is posted.
LEMMA PostedHead ==
  ASSUME NEW S, NEW ch \in Seq(S), ch # <<>>, NEW x \in S, NEW res \in Posted(ch, x)
  PROVE  res # <<>> /\ Head(res) = Head(ch)
<1>1. res = Append(ch, x) \/ res = ch
  BY DEF Posted
<1>2. CASE res = Append(ch, x)
  BY <1>2
<1> QED BY <1>1, <1>2

\* The message a thread is about to serve is still there after every step.
LEMMA ServingStep == Typed /\ [Next]_vars => Serving'
<1> SUFFICES ASSUME Typed, [Next]_vars PROVE Serving'
  OBVIOUS
<1>0. TypeOK /\ Serving
  BY DEF Typed
<1>t. /\ toSip \in Seq(SipMsgs)
      /\ toAudio \in [Calls -> Seq(ToAudioMsgs)]
      /\ fromAudio \in [Calls -> Seq(FromAudioMsgs)]
      /\ audioPc \in [Calls -> {"none", "start", "poll", "serial", "done"}]
      /\ curCall \in Calls \cup {NoCall}
      /\ audiothread \in Calls \cup {NoCall}
  BY <1>0 DEF TypeOK
<1>1. CASE SipInit
  BY <1>0, <1>1 DEF Serving, SipInit
<1>2. CASE SipPoll
  BY <1>0, <1>2 DEF Serving, SipPoll, AudioReadable
<1>3. CASE SipJoin
  BY <1>0, <1>3 DEF Serving, SipJoin
<1>4. CASE SipClose
  <2>1. CASE curCall # NoCall /\ CallEnd("join_closing")
    <3>1. /\ \/ sipPc' = "join_closing" /\ curCall' = curCall
             \/ sipPc' = sipPc /\ curCall' = NoCall /\ "exit" \in Failures
          /\ \A c \in Calls : toAudio[c] # <<>> =>
               toAudio'[c] # <<>> /\ Head(toAudio'[c]) = Head(toAudio[c])
      BY <1>t, <2>1, CallEndType
    <3> QED BY <1>0, <1>4, <2>1, <3>1 DEF Serving, SipClose
  <2>2. CASE curCall = NoCall
    BY <1>0, <1>4, <2>2 DEF Serving, SipClose
  <2> QED BY <1>4, <2>1, <2>2 DEF SipClose
<1>5. CASE SipCoreExit
  BY <1>0, <1>5 DEF Serving, SipCoreExit, LoopPc
<1>6. CASE SipCoreRegister
  BY <1>0, <1>6 DEF Serving, SipCoreRegister, LoopPc
<1>7. CASE SipCoreCallInProgress
  BY <1>0, <1>7 DEF Serving, SipCoreCallInProgress, LoopPc, Crash, AudioReadable
<1>8. CASE InviteDropped
  BY <1>0, <1>8 DEF Serving, InviteDropped, IsInvite
<1>9. CASE InviteUnconfigured
  BY <1>0, <1>9 DEF Serving, InviteUnconfigured, Crash, AudioReadable
<1>10. CASE InviteAccepted
  <2>1. \A c \in Calls : audioPc'[c] = "serial" => audioPc[c] = "serial"
    BY <1>t, <1>10 DEF InviteAccepted
  <2> QED BY <1>0, <1>10, <2>1 DEF Serving, InviteAccepted, IsFirstInvite, IsInvite
<1>11. CASE InviteFails
  BY <1>0, <1>11 DEF Serving, InviteFails, Crash, AudioReadable
<1>12. CASE EventEndsCall
  <2>1. Head(sipEvents) \in Events
    BY <1>0, <1>12 DEF TypeOK, EventEndsCall
  <2>2. curCall \in Calls
    BY <1>12, <2>1, PayloadTypes DEF EventEndsCall, EndsCurrent
  <2>3. /\ \/ sipPc' = "join_events" /\ curCall' = curCall
           \/ sipPc' = sipPc /\ curCall' = NoCall /\ "exit" \in Failures
        /\ \A c \in Calls : toAudio[c] # <<>> =>
             toAudio'[c] # <<>> /\ Head(toAudio'[c]) = Head(toAudio[c])
    BY <1>12, <2>2, CallEndType DEF EventEndsCall
  <2> QED BY <1>0, <1>12, <2>2, <2>3, NoCallAssumption DEF Serving, EventEndsCall
<1>13. CASE EventIgnored
  BY <1>0, <1>13 DEF Serving, EventIgnored
<1>14. CASE EventsDrained
  BY <1>0, <1>14 DEF Serving, EventsDrained
<1>15. CASE SipAudioReady
  <2>1. audiothread \in Calls /\ sipPc' = "poll"
    BY <1>0, <1>15, <1>t DEF Serving, AudioReadable, SipAudioReady, AudioEvent
  <2>2. Msg("CMD_AUDIO_INIT", curCall) \in ToAudioMsgs
    BY <1>t, MessageTypes
  <2>3. \A c \in Calls : toAudio[c] # <<>> =>
          toAudio'[c] # <<>> /\ Head(toAudio'[c]) = Head(toAudio[c])
    <3>1. PICK ch \in Posted(toAudio[audiothread], Msg("CMD_AUDIO_INIT", curCall)) :
            toAudio' = [toAudio EXCEPT ![audiothread] = ch]
      BY <1>15, <2>1 DEF SipAudioReady
    <3>2. toAudio[audiothread] # <<>> => ch # <<>> /\ Head(ch) = Head(toAudio[audiothread])
      BY <1>t, <2>1, <2>2, PostedHead
    <3> QED BY <1>t, <2>1, <3>1, <3>2
  <2> QED BY <1>0, <1>15, <2>1, <2>3 DEF Serving, SipAudioReady
<1>16. CASE SipAudioRtpOk
  BY <1>0, <1>16 DEF Serving, SipAudioRtpOk, Crash, AudioReadable
<1>17. CASE CoreReady
  <2>1. toSip # <<>> => toSip' # <<>>
    BY <1>t, <1>17, MessageTypes, PostedHead DEF CoreReady
  <2> QED BY <1>0, <1>17, <2>1 DEF Serving, CoreReady, AudioReadable
<1>18. CASE CoreIncomingCall
  BY <1>0, <1>18 DEF Serving, CoreIncomingCall, AudioReadable
<1>19. CASE CoreStop
  <2>1. toSip # <<>> => toSip' # <<>>
    BY <1>t, <1>19, MessageTypes DEF CoreStop
  <2> QED BY <1>0, <1>19, <2>1 DEF Serving, CoreStop, AudioReadable
<1>20. CASE CoreJoin
  BY <1>0, <1>20 DEF Serving, CoreJoin
<1>21. ASSUME NEW c \in Calls, AudioStart(c) PROVE Serving'
  <2>1. \A d \in Calls : fromAudio[d] # <<>> => fromAudio'[d] # <<>>
    <3>1. CASE UNCHANGED fromAudio
      BY <3>1
    <3>2. CASE \E ch \in Posted(fromAudio[c], Msg("AUDIO_EVENT_READY", NoCall)) :
                 fromAudio' = [fromAudio EXCEPT ![c] = ch]
      <4>1. PICK ch \in Posted(fromAudio[c], Msg("AUDIO_EVENT_READY", NoCall)) :
                 fromAudio' = [fromAudio EXCEPT ![c] = ch]
        BY <3>2
      <4>2. fromAudio[c] # <<>> => ch # <<>>
        BY <1>t, MessageTypes, PostedHead
      <4> QED BY <1>t, <4>1, <4>2
    <3> QED BY <1>21, <3>1, <3>2 DEF AudioStart, Crash
  <2>2. \A d \in Calls : audioPc'[d] = "serial" => audioPc[d] = "serial"
    BY <1>t, <1>21 DEF AudioStart, Crash
  <2> QED BY <1>0, <1>t, <1>21, <2>1, <2>2 DEF Serving, AudioStart, AudioReadable, Crash
<1>22. ASSUME NEW c \in Calls, AudioRtpInit(c) PROVE Serving'
  <2>1. CASE Crash("conn_after_free")
    BY <1>0, <2>1 DEF Serving, Crash, AudioReadable
  <2>2. CASE ConnectionAlive(c)
    <3>1. toAudio[c] # <<>> /\ Head(toAudio[c]).msgtype = "CMD_AUDIO_INIT"
      BY <1>22 DEF AudioRtpInit, AudioCommand
    <3>2. \A d \in Calls : audioPc'[d] = "serial" => audioPc[d] = "serial" \/ d = c
      BY <1>t, <1>22, <2>2 DEF AudioRtpInit
    <3> QED BY <1>0, <1>22, <2>2, <3>1, <3>2 DEF Serving, AudioRtpInit, AudioReadable
  <2> QED BY <1>22, <2>1, <2>2 DEF AudioRtpInit
<1>23. ASSUME NEW c \in Calls, AudioSerialInit(c) PROVE Serving'
  <2>1. CASE Crash("conn_after_free")
    BY <1>0, <2>1 DEF Serving, Crash, AudioReadable
  <2>2. CASE ConnectionAlive(c)
    <3>1. \A d \in Calls : fromAudio[d] # <<>> => fromAudio'[d] # <<>>
      <4>1. CASE UNCHANGED fromAudio
        BY <4>1
      <4>2. CASE \E ch \in Posted(fromAudio[c], Msg("AUDIO_EVENT_RTP_OK", c)) :
                   fromAudio' = [fromAudio EXCEPT ![c] = ch]
        <5>1. PICK ch \in Posted(fromAudio[c], Msg("AUDIO_EVENT_RTP_OK", c)) :
                   fromAudio' = [fromAudio EXCEPT ![c] = ch]
          BY <4>2
        <5>2. fromAudio[c] # <<>> => ch # <<>>
          BY <1>t, MessageTypes, PostedHead
        <5> QED BY <1>t, <5>1, <5>2
      <4> QED BY <1>23, <2>2, <4>1, <4>2 DEF AudioSerialInit
    <3>2. \A d \in Calls : audioPc'[d] = "serial" =>
            audioPc[d] = "serial" /\ toAudio'[d] = toAudio[d]
      BY <1>t, <1>23, <2>2 DEF AudioSerialInit, AudioServed
    <3>3. UNCHANGED <<sipPc, toSip, curCall, audiothread>>
      BY <1>23, <2>2 DEF AudioSerialInit
    <3> QED BY <1>0, <1>t, <3>1, <3>2, <3>3 DEF Serving, AudioReadable
  <2> QED BY <1>23, <2>1, <2>2 DEF AudioSerialInit
<1>24. ASSUME NEW c \in Calls, AudioExit(c) PROVE Serving'
  <2>1. \A d \in Calls : audioPc'[d] = "serial" =>
          audioPc[d] = "serial" /\ toAudio'[d] = toAudio[d]
    BY <1>t, <1>24 DEF AudioExit, AudioServed
  <2> QED BY <1>0, <1>24, <2>1 DEF Serving, AudioExit, AudioReadable
<1>25. ASSUME NEW c \in Calls, CoreCallCreated(c) PROVE Serving'
  BY <1>0, <1>25 DEF Serving, CoreCallCreated, AudioReadable
<1>26. ASSUME NEW c \in Calls, CoreCallStarted(c) PROVE Serving'
  <2>1. toSip # <<>> => toSip' # <<>>
    BY <1>t, <1>26, MessageTypes, PostedHead DEF CoreCallStarted, Crash
  <2>2. UNCHANGED <<sipPc, fromAudio, toAudio, audioPc, curCall, audiothread>>
    BY <1>26 DEF CoreCallStarted, Crash
  <2> QED BY <1>0, <2>1, <2>2 DEF Serving, AudioReadable
<1>27. ASSUME NEW c \in Calls, NEW type \in EventTypes, NetworkEvent(c, type)
       PROVE  Serving'
  BY <1>0, <1>27 DEF Serving, NetworkEvent, AudioReadable
<1>28. CASE UNCHANGED vars
  BY <1>0, <1>28 DEF Serving, AudioReadable
<1>29. CASE SipReceiveFails
  BY <1>0, <1>29 DEF Serving, AudioReadable, SipReceiveFails
<1> QED
  BY <1>1, <1>2, <1>3, <1>4, <1>5, <1>6, <1>7, <1>8, <1>9, <1>10,
     <1>11, <1>12, <1>13, <1>14, <1>15, <1>16, <1>17, <1>18, <1>19, <1>20,
     <1>21, <1>22, <1>23, <1>24, <1>25, <1>26, <1>27, <1>28, <1>29
  DEF Next, Live, Resting, SipStep, CoreStep, AudioStep, CallbackStep

\* Typed is an invariant: every variable has its type, and a message about to
\* be served is there.
THEOREM TypeCorrectness == Spec => []TypeOK
<1>1. Typed /\ [Next]_vars => Typed'
  BY TypeStep, ServingStep DEF Typed
<1>2. Typed => TypeOK
  BY DEF Typed
<1> QED BY <1>1, <1>2, InitTyped, PTL DEF Spec
-----------------------------------------------------------------------------
(* Events and the call in progress *)

\* The INVITE of the call in progress is kept, and a pending INVITE belongs to a
\* call that has had no audio thread yet.
EventShape ==
  /\ CurrentEventKept
  /\ \A e \in Events : In(e, sipEvents) => e \in happened
  /\ Distinct(sipEvents)
  /\ \A e \in Events : In(e, sipEvents) /\ e.type = "INVITE" => audioPc[e.cid] = "none"
  /\ \A c \in Calls : audioPc[c] # "none" => Event("INVITE", c) \in happened

\* Taking the event in hand off the queue.
LEMMA FinishEventShape ==
  ASSUME Typed, EventShape, sipEvents # <<>>, NEW keep \in BOOLEAN, FinishEvent(keep)
  PROVE  /\ kept \subseteq kept'
         /\ keep => Head(sipEvents) \in kept'
         /\ \A e \in Events : In(e, sipEvents') => In(e, sipEvents) /\ e # Head(sipEvents)
         /\ Distinct(sipEvents')
         /\ Head(sipEvents) \in Events
         /\ In(Head(sipEvents), sipEvents)
<1>1. sipEvents \in Seq(Events) /\ sipEvents' = Tail(sipEvents) /\ Distinct(sipEvents)
  BY DEF Typed, TypeOK, FinishEvent, EventShape
<1>2. /\ In(Head(sipEvents), sipEvents)
      /\ \A m : In(m, Tail(sipEvents)) => In(m, sipEvents)
      /\ Distinct(Tail(sipEvents))
      /\ ~In(Head(sipEvents), Tail(sipEvents))
      /\ Head(sipEvents) \in Events
  BY <1>1, InTail, HeadTailType
<1>3. kept \subseteq kept' /\ (keep => Head(sipEvents) \in kept')
  BY DEF FinishEvent, Keeping
<1> QED BY <1>1, <1>2, <1>3

\* Every step keeps what EventShape says of the INVITEs queued and kept.
LEMMA EventShapeStep == Typed /\ EventShape /\ [Next]_vars => EventShape'
<1> SUFFICES ASSUME Typed, EventShape, [Next]_vars PROVE EventShape'
  OBVIOUS
<1>0. EventShape
  OBVIOUS
<1>t. /\ sipEvents \in Seq(Events)
      /\ audioPc \in [Calls -> {"none", "start", "poll", "serial", "done"}]
      /\ curCall \in Calls \cup {NoCall}
  BY DEF Typed, TypeOK
<1>1. CASE SipInit
  BY <1>0, <1>1 DEF EventShape, CurrentEventKept, SipInit
<1>2. CASE SipPoll
  BY <1>0, <1>2 DEF EventShape, CurrentEventKept, SipPoll
<1>3. CASE SipJoin
  <2>1. curCall \in Calls
    BY <1>t, <1>3 DEF Typed, Serving, SipJoin
  <2> QED BY <1>0, <1>3, <2>1 DEF EventShape, CurrentEventKept, SipJoin
<1>4. CASE SipClose
  <2>1. CurrentEventKept'
    BY <1>0, <1>4, NoCallAssumption DEF EventShape, CurrentEventKept, SipClose, CallEnd, KeptOf
  <2> QED BY <1>0, <1>4, <2>1 DEF EventShape, SipClose
<1>5. CASE SipCoreExit
  BY <1>0, <1>5 DEF EventShape, CurrentEventKept, SipCoreExit
<1>6. CASE SipCoreRegister
  BY <1>0, <1>6 DEF EventShape, CurrentEventKept, SipCoreRegister
<1>7. CASE SipCoreCallInProgress
  BY <1>0, <1>7 DEF EventShape, CurrentEventKept, SipCoreCallInProgress, Crash
<1>8. CASE InviteDropped
  <2>1. sipEvents # <<>>
    BY <1>8 DEF InviteDropped, IsFirstInvite, IsInvite
  <2>2. /\ kept \subseteq kept'
        /\ \A e \in Events : In(e, sipEvents') => In(e, sipEvents)
        /\ Distinct(sipEvents')
    BY <1>8, <2>1, FinishEventShape DEF InviteDropped, Typed, TypeOK
  <2> QED BY <1>0, <1>8, <2>2 DEF EventShape, CurrentEventKept, InviteDropped
<1>9. CASE InviteUnconfigured
  BY <1>0, <1>9 DEF EventShape, CurrentEventKept, InviteUnconfigured, Crash
<1>10. CASE InviteAccepted
  <2> DEFINE c == Head(sipEvents).cid
  <2>1. sipEvents # <<>> /\ Head(sipEvents).type = "INVITE" /\ FinishEvent(TRUE)
    BY <1>10 DEF InviteAccepted, IsFirstInvite, IsInvite
  <2>2. /\ Head(sipEvents) \in kept'
        /\ \A e \in Events : In(e, sipEvents') => In(e, sipEvents) /\ e # Head(sipEvents)
        /\ Distinct(sipEvents')
        /\ Head(sipEvents) \in Events
        /\ In(Head(sipEvents), sipEvents)
    BY <2>1, FinishEventShape
  <2>3. /\ c \in Calls /\ Head(sipEvents) = Event("INVITE", c)
        /\ \A e \in Events : e.cid \in Calls /\ e = Event(e.type, e.cid)
    BY <2>1, <2>2, PayloadTypes
  <2>4. curCall' = c /\ happened' = happened
    BY <1>10 DEF InviteAccepted
  <2>5. \A d \in Calls : audioPc'[d] = IF d = c THEN "start" ELSE audioPc[d]
    BY <1>t, <1>10 DEF InviteAccepted
  <2>6. CurrentEventKept'
    BY <2>2, <2>3, <2>4 DEF CurrentEventKept
  <2>7. ASSUME NEW e \in Events, In(e, sipEvents'), e.type = "INVITE"
        PROVE  audioPc'[e.cid] = "none"
    <3>1. e # Event("INVITE", c) /\ e = Event("INVITE", e.cid)
      BY <2>2, <2>3, <2>7
    <3>2. e.cid # c
      BY <3>1
    <3> QED BY <1>0, <2>2, <2>3, <2>5, <2>7, <3>2 DEF EventShape
  <2>8. \A d \in Calls : audioPc'[d] # "none" => Event("INVITE", d) \in happened'
    BY <1>0, <2>2, <2>3, <2>4, <2>5 DEF EventShape
  <2> QED BY <1>0, <2>2, <2>4, <2>6, <2>7, <2>8 DEF EventShape
<1>11. CASE InviteFails
  BY <1>0, <1>11 DEF EventShape, CurrentEventKept, InviteFails, Crash
<1>12. CASE EventEndsCall
  <2>1. sipEvents # <<>> /\ sipEvents' = Tail(sipEvents)
    BY <1>12 DEF EventEndsCall
  <2>2. /\ \A e \in Events : In(e, sipEvents') => In(e, sipEvents)
        /\ Distinct(sipEvents')
    BY <1>0, <1>t, <2>1, InTail DEF EventShape
  <2>3. CurrentEventKept'
    BY <1>0, <1>12, NoCallAssumption
    DEF EventShape, CurrentEventKept, EventEndsCall, CallEnd, KeptOf, Keeping
  <2> QED BY <1>0, <1>12, <2>2, <2>3 DEF EventShape, EventEndsCall
<1>13. CASE EventIgnored
  <2>1. sipEvents # <<>>
    BY <1>13 DEF EventIgnored, IsFirstInvite, IsInvite
  <2>2. /\ kept \subseteq kept'
        /\ \A e \in Events : In(e, sipEvents') => In(e, sipEvents)
        /\ Distinct(sipEvents')
    BY <1>13, <2>1, FinishEventShape DEF EventIgnored, Typed, TypeOK
  <2> QED BY <1>0, <1>13, <2>2 DEF EventShape, CurrentEventKept, EventIgnored
<1>14. CASE EventsDrained
  BY <1>0, <1>14 DEF EventShape, CurrentEventKept, EventsDrained
<1>15. CASE SipAudioReady
  BY <1>0, <1>15 DEF EventShape, CurrentEventKept, SipAudioReady
<1>16. CASE SipAudioRtpOk
  BY <1>0, <1>16 DEF EventShape, CurrentEventKept, SipAudioRtpOk, Crash
<1>17. CASE CoreReady
  BY <1>0, <1>17 DEF EventShape, CurrentEventKept, CoreReady
<1>18. CASE CoreIncomingCall
  BY <1>0, <1>18 DEF EventShape, CurrentEventKept, CoreIncomingCall
<1>19. CASE CoreStop
  BY <1>0, <1>19 DEF EventShape, CurrentEventKept, CoreStop
<1>20. CASE CoreJoin
  BY <1>0, <1>20 DEF EventShape, CurrentEventKept, CoreJoin
<1>21. ASSUME NEW c \in Calls, AudioStart(c) PROVE EventShape'
  <2>1. audioPc[c] # "none" /\ audioPc'[c] # "none"
    BY <1>t, <1>21 DEF AudioStart, Crash
  <2>2. \A d \in Calls : d # c => audioPc'[d] = audioPc[d]
    BY <1>t, <1>21 DEF AudioStart, Crash
  <2>3. \A e \in Events : e.cid \in Calls
    BY PayloadTypes
  <2> QED BY <1>0, <1>21, <2>1, <2>2, <2>3 DEF EventShape, CurrentEventKept, AudioStart, Crash
<1>22. ASSUME NEW c \in Calls, AudioRtpInit(c) PROVE EventShape'
  <2>1. audioPc[c] # "none" /\ audioPc'[c] # "none"
    BY <1>t, <1>22 DEF AudioRtpInit, AudioCommand, Crash
  <2>2. \A d \in Calls : d # c => audioPc'[d] = audioPc[d]
    BY <1>t, <1>22 DEF AudioRtpInit, Crash
  <2>3. \A e \in Events : e.cid \in Calls
    BY PayloadTypes
  <2> QED BY <1>0, <1>22, <2>1, <2>2, <2>3 DEF EventShape, CurrentEventKept, AudioRtpInit, Crash
<1>23. ASSUME NEW c \in Calls, AudioSerialInit(c) PROVE EventShape'
  <2>1. audioPc[c] # "none" /\ audioPc'[c] # "none"
    BY <1>t, <1>23 DEF AudioSerialInit, AudioCommand, Crash
  <2>2. \A d \in Calls : d # c => audioPc'[d] = audioPc[d]
    BY <1>t, <1>23 DEF AudioSerialInit, Crash
  <2>3. \A e \in Events : e.cid \in Calls
    BY PayloadTypes
  <2> QED BY <1>0, <1>23, <2>1, <2>2, <2>3 DEF EventShape, CurrentEventKept, AudioSerialInit, Crash
<1>24. ASSUME NEW c \in Calls, AudioExit(c) PROVE EventShape'
  <2>1. audioPc[c] # "none" /\ audioPc'[c] # "none"
    BY <1>t, <1>24 DEF AudioExit, AudioCommand
  <2>2. \A d \in Calls : d # c => audioPc'[d] = audioPc[d]
    BY <1>t, <1>24 DEF AudioExit
  <2>3. \A e \in Events : e.cid \in Calls
    BY PayloadTypes
  <2> QED BY <1>0, <1>24, <2>1, <2>2, <2>3 DEF EventShape, CurrentEventKept, AudioExit
<1>25. ASSUME NEW c \in Calls, CoreCallCreated(c) PROVE EventShape'
  BY <1>0, <1>25 DEF EventShape, CurrentEventKept, CoreCallCreated
<1>26. ASSUME NEW c \in Calls, CoreCallStarted(c) PROVE EventShape'
  BY <1>0, <1>26 DEF EventShape, CurrentEventKept, CoreCallStarted, Crash
<1>27. ASSUME NEW c \in Calls, NEW type \in EventTypes, NetworkEvent(c, type)
       PROVE  EventShape'
  <2>1. Event(type, c) \in Events /\ sipEvents' = Append(sipEvents, Event(type, c))
    BY <1>27, MessageTypes DEF NetworkEvent
  <2>2. /\ \A m : In(m, sipEvents') => In(m, sipEvents) \/ m = Event(type, c)
        /\ ~In(Event(type, c), sipEvents) => Distinct(sipEvents')
    BY <1>0, <1>t, <2>1, InAppend DEF EventShape
  <2>3. ~In(Event(type, c), sipEvents)
    BY <1>0, <1>27, <2>1 DEF EventShape, NetworkEvent
  <2>4. type = "INVITE" => audioPc[c] = "none"
    BY <1>0, <1>27 DEF EventShape, NetworkEvent
  <2>5. Event(type, c).type = type /\ Event(type, c).cid = c
    BY DEF Event
  <2> QED BY <1>0, <1>27, <2>2, <2>3, <2>4, <2>5 DEF EventShape, CurrentEventKept, NetworkEvent
<1>28. CASE UNCHANGED vars
  BY <1>0, <1>28 DEF EventShape, CurrentEventKept
<1>29. CASE SipReceiveFails
  BY <1>0, <1>29 DEF EventShape, CurrentEventKept, SipReceiveFails
<1> QED
  BY <1>1, <1>2, <1>3, <1>4, <1>5, <1>6, <1>7, <1>8, <1>9, <1>10,
     <1>11, <1>12, <1>13, <1>14, <1>15, <1>16, <1>17, <1>18, <1>19, <1>20,
     <1>21, <1>22, <1>23, <1>24, <1>25, <1>26, <1>27, <1>28, <1>29
  DEF Next, Live, Resting, SipStep, CoreStep, AudioStep, CallbackStep

\* EventShape holds in every reachable state.
LEMMA EventInvariant == Spec => [](Typed /\ EventShape)
<1>1. Init => EventShape
  <2>1. ASSUME Init PROVE Distinct(sipEvents) /\ \A e \in Events : ~In(e, sipEvents)
    BY <2>1 DEF Init, Distinct, In
  <2> QED BY <2>1 DEF Init, EventShape, CurrentEventKept
<1>2. Typed /\ EventShape /\ [Next]_vars => (Typed /\ EventShape)'
  BY TypeStep, ServingStep, EventShapeStep DEF Typed
<1> QED BY <1>1, <1>2, InitTyped, PTL DEF Spec

\* The INVITE that a call in progress works with is not given back to eXosip.
THEOREM CurrentEventKeptHolds == Spec => []CurrentEventKept
<1>1. EventShape => CurrentEventKept
  BY DEF EventShape
<1> QED BY <1>1, EventInvariant, PTL

\* The kept INVITE changes only where an event is finished or a call ends.
LEMMA NoOtherInviteStep == Typed /\ NoOtherInviteKept /\ [Next]_vars => NoOtherInviteKept'
<1> SUFFICES ASSUME Typed, NoOtherInviteKept, [Next]_vars PROVE NoOtherInviteKept'
  OBVIOUS
<1>t. curCall \in Calls \cup {NoCall} /\ sipEvents \in Seq(Events) /\ keepEvent \in BOOLEAN
  BY DEF Typed, TypeOK
<1>e. \A c, d \in Calls, t, u \in EventTypes :
        Event(t, c) = Event(u, d) => t = u /\ c = d
  BY DEF Event
<1>i. "INVITE" \in EventTypes
  BY DEF EventTypes
<1>5. CASE UNCHANGED <<kept, curCall>>
  BY <1>5 DEF NoOtherInviteKept
<1>1. CASE SipJoin
  <2>1. curCall \in Calls
    BY <1>t, <1>1 DEF Typed, Serving, SipJoin
  <2>2. kept' = kept \ {Event("INVITE", curCall)}
    BY <1>1 DEF SipJoin
  <2>3. ASSUME NEW c \in Calls PROVE Event("INVITE", c) \notin kept'
    BY <2>1, <2>2, <1>e, <1>i DEF NoOtherInviteKept
  <2> QED BY <2>3 DEF NoOtherInviteKept
<1>2. CASE InviteDropped
  BY <1>2 DEF NoOtherInviteKept, InviteDropped, FinishEvent, Keeping
<1>3. CASE InviteAccepted
  <2> DEFINE c == Head(sipEvents).cid
  <2>1. sipEvents # <<>> /\ Head(sipEvents).type = "INVITE" /\ curCall = NoCall
    BY <1>3 DEF InviteAccepted, IsFirstInvite, IsInvite
  <2>2. Head(sipEvents) \in Events
    BY <1>t, <2>1, HeadTailType
  <2>3. c \in Calls /\ Head(sipEvents) = Event("INVITE", c)
    BY <2>1, <2>2, PayloadTypes
  <2>4. kept' = kept \cup {Event("INVITE", c)} /\ curCall' = c
    BY <1>3, <2>3 DEF InviteAccepted, FinishEvent, Keeping
  <2>5. \A d \in Calls : Event("INVITE", d) \notin kept
    BY <2>1, NoCallAssumption DEF NoOtherInviteKept
  <2>6. ASSUME NEW d \in Calls, Event("INVITE", d) \in kept' PROVE d = curCall'
    BY <2>3, <2>4, <2>5, <2>6, <1>e, <1>i
  <2> QED BY <2>6 DEF NoOtherInviteKept
<1>4. CASE EventIgnored
  <2>1. sipEvents # <<>> /\ FinishEvent(keepEvent) /\ curCall' = curCall
    BY <1>4 DEF EventIgnored
  <2>2. Head(sipEvents).type # "INVITE"
    BY <1>4 DEF EventIgnored
  <2>3. \A d \in Calls : Head(sipEvents) # Event("INVITE", d)
    BY <2>2 DEF Event
  <2> QED BY <2>1, <2>3 DEF NoOtherInviteKept, FinishEvent, Keeping
\* Where a call may be freed, its INVITE is given back.
<1>11. ASSUME NEW E, kept' = KeptOf(E), curCall \in Calls, curCall' \in {curCall, NoCall},
              \A d \in Calls : Event("INVITE", d) \in E => Event("INVITE", d) \in kept
       PROVE  NoOtherInviteKept'
  <2>1. \A d \in Calls : Event("INVITE", d) \in kept' => Event("INVITE", d) \in kept
    BY <1>11 DEF KeptOf
  <2>2. CASE curCall' = curCall
    BY <2>1, <2>2 DEF NoOtherInviteKept
  <2>3. CASE curCall' = NoCall
    <3>1. Event("INVITE", curCall) \notin kept'
      BY <1>11, <2>3 DEF KeptOf
    <3> QED BY <2>1, <3>1 DEF NoOtherInviteKept
  <2> QED BY <1>11, <2>2, <2>3
<1>12. CASE EventEndsCall
  <2>1. sipEvents # <<>> /\ Head(sipEvents).type # "INVITE"
    BY <1>12 DEF EventEndsCall, EndsCurrent, EndEvents
  <2>2. Head(sipEvents) \in Events
    BY <1>t, <2>1, HeadTailType
  <2>3. curCall \in Calls
    BY <1>12, <2>2, PayloadTypes DEF EventEndsCall, EndsCurrent
  <2>4. \A d \in Calls : Event("INVITE", d) \in Keeping(keepEvent) => Event("INVITE", d) \in kept
    BY <2>1 DEF Keeping, Event
  <2>5. kept' = KeptOf(Keeping(keepEvent)) /\ curCall' \in {curCall, NoCall}
    BY <1>12 DEF EventEndsCall, CallEnd
  <2> QED BY <1>11, <2>3, <2>4, <2>5
<1>13. CASE SipClose
  <2>1. CASE curCall = NoCall
    BY <1>5, <1>13, <2>1 DEF SipClose
  <2>2. CASE curCall # NoCall
    BY <1>t, <1>11, <1>13, <2>2 DEF SipClose, CallEnd
  <2> QED BY <2>1, <2>2
<1>6. CASE \/ SipInit \/ SipPoll \/ SipReceiveFails \/ SipCoreExit
           \/ SipCoreRegister \/ SipCoreCallInProgress \/ InviteUnconfigured
           \/ InviteFails \/ EventsDrained \/ SipAudioReady \/ SipAudioRtpOk
  BY <1>5, <1>6 DEF SipInit, SipPoll, SipReceiveFails, SipCoreExit,
     SipCoreRegister, SipCoreCallInProgress, InviteUnconfigured, InviteFails,
     EventsDrained, SipAudioReady, SipAudioRtpOk, Crash, sipVars
<1>7. CASE CoreReady \/ CoreIncomingCall \/ CoreJoin \/ CoreStop
  BY <1>5, <1>7 DEF CoreReady, CoreIncomingCall, CoreJoin, CoreStop, sipVars
<1>8. ASSUME NEW c \in Calls, AudioStep(c) \/ CallbackStep(c)
      PROVE  NoOtherInviteKept'
  BY <1>5, <1>8 DEF AudioStep, CallbackStep, AudioStart, AudioRtpInit,
     AudioSerialInit, AudioExit, CoreCallCreated, CoreCallStarted, Crash, sipVars
<1>9. ASSUME NEW c \in Calls, NEW type \in EventTypes, NetworkEvent(c, type)
      PROVE  NoOtherInviteKept'
  BY <1>5, <1>9 DEF NetworkEvent, sipVars
<1>10. CASE UNCHANGED vars
  BY <1>5, <1>10 DEF vars, sipVars
<1> QED
  BY <1>1, <1>2, <1>3, <1>4, <1>6, <1>7, <1>8, <1>9, <1>10, <1>12, <1>13
  DEF Next, Live, Resting, SipStep, CoreStep

\* Of the INVITEs, only that of the call in progress is not given back.
THEOREM NoOtherInviteKeptHolds == Spec => []NoOtherInviteKept
<1>1. Init => NoOtherInviteKept
  BY DEF Init, NoOtherInviteKept
<1>2. Typed /\ NoOtherInviteKept /\ [Next]_vars => NoOtherInviteKept'
  BY NoOtherInviteStep
<1> QED BY <1>1, <1>2, EventInvariant, PTL DEF Spec

\* The INVITEs kept are those in use: the one of the call in progress.
THEOREM OnlyCurrentInviteKeptHolds == Spec => []OnlyCurrentInviteKept
BY CurrentEventKeptHolds, NoOtherInviteKeptHolds, PTL DEF OnlyCurrentInviteKept
-----------------------------------------------------------------------------
(* Audio threads and the call in progress *)

\* What makes OneAudioThread and NoStaleCallData hold: a thread runs for the
\* call in progress unless it could not be told to exit, the SIP thread tells it
\* to only when it is about to join it, and any connection the thread of the
\* call in progress is handed is that of its call.
AudioShape ==
  /\ \A c \in Calls : audioPc[c] \notin {"none", "done"} => c = curCall \/ Untold(c)
  /\ audiothread # NoCall => audioPc[audiothread] # "none"
  /\ audiothread # NoCall /\ sipPc \notin {"join_events", "join_closing"} => ~Told(audiothread)
  /\ \A c \in Calls : audioPc[c] = "none" => toAudio[c] = <<>>
  /\ \A c \in Calls, m \in ToAudioMsgs :
       In(m, toAudio[c]) /\ m.msgtype = "CMD_AUDIO_INIT" =>
         m.payload \in {c, NoCall} /\ (c = curCall => m.payload = c)

\* An audio thread is not told to exit by what is taken from its channel.
LEMMA ToldTail ==
  ASSUME toAudio \in [Calls -> Seq(ToAudioMsgs)], NEW c \in Calls, toAudio[c] # <<>>,
         toAudio' = [toAudio EXCEPT ![c] = Tail(@)], NEW d \in Calls, Told(d)'
  PROVE  Told(d)
<1>1. CASE d = c
  <2> DEFINE ch == toAudio[c]
  <2>1. /\ ch \in Seq(ToAudioMsgs) /\ ch # <<>> /\ toAudio'[d] = Tail(ch)
    BY <1>1
  <2>2. PICK i \in DOMAIN Tail(ch) : Tail(ch)[i].msgtype = "CMD_AUDIO_EXIT"
    BY <2>1 DEF Told
  <2>3. i + 1 \in DOMAIN ch /\ Tail(ch)[i] = ch[i + 1]
    BY <2>1
  <2> QED BY <1>1, <2>2, <2>3 DEF Told
<1>2. CASE d # c
  BY <1>2 DEF Told
<1> QED BY <1>1, <1>2

\* Nor by a connection that is posted to it.
LEMMA ToldPosted ==
  ASSUME toAudio \in [Calls -> Seq(ToAudioMsgs)], NEW c \in Calls,
         NEW x \in Calls \cup {NoCall},
         NEW ch \in Posted(toAudio[c], Msg("CMD_AUDIO_INIT", x)),
         toAudio' = [toAudio EXCEPT ![c] = ch], NEW d \in Calls, Told(d)'
  PROVE  Told(d)
<1>1. CASE d = c /\ ch = Append(toAudio[c], Msg("CMD_AUDIO_INIT", x))
  <2> DEFINE m == Msg("CMD_AUDIO_INIT", x)
             old == toAudio[c]
  <2>1. /\ old \in Seq(ToAudioMsgs) /\ m \in ToAudioMsgs
        /\ toAudio'[d] = Append(old, m) /\ m.msgtype # "CMD_AUDIO_EXIT"
    BY <1>1, MessageTypes DEF Msg
  <2> HIDE DEF m
  <2>2. PICK i \in DOMAIN Append(old, m) : Append(old, m)[i].msgtype = "CMD_AUDIO_EXIT"
    BY <2>1 DEF Told
  <2>3. i \in DOMAIN old /\ Append(old, m)[i] = old[i]
    BY <2>1, <2>2
  <2> QED BY <1>1, <2>2, <2>3 DEF Told
<1>2. CASE d # c \/ ch = toAudio[c]
  BY <1>2 DEF Told
<1> QED BY <1>1, <1>2 DEF Posted

\* Nothing is told through an empty channel.
LEMMA ToldEmpty == ASSUME NEW c \in Calls, toAudio[c] = <<>> PROVE ~Told(c)
BY DEF Told

\* A connection in the hands of the thread of the call in progress is that of
\* this call.
LEMMA ConnectionIsAlive ==
  ASSUME Typed, AudioShape, NEW c \in Calls, c = curCall,
         AudioCommand(c, "CMD_AUDIO_INIT") \/ audioPc[c] = "serial"
  PROVE  ConnectionAlive(c)
<1>1. toAudio[c] # <<>> /\ Head(toAudio[c]).msgtype = "CMD_AUDIO_INIT"
  BY DEF Typed, Serving, AudioCommand
<1>2. toAudio[c] \in Seq(ToAudioMsgs)
  BY DEF Typed, TypeOK
<1>3. In(Head(toAudio[c]), toAudio[c]) /\ Head(toAudio[c]) \in ToAudioMsgs
  BY <1>1, <1>2, InTail, HeadTailType
<1>4. Head(toAudio[c]).payload = c
  BY <1>1, <1>3 DEF AudioShape
<1> QED BY <1>4, NoCallAssumption DEF ConnectionAlive

\* A thread that is not that of the call in progress could not be told to exit.
LEMMA OtherThread ==
  ASSUME AudioShape, NEW c \in Calls, audioPc[c] \notin {"none", "done"}, c # curCall
  PROVE  Untold(c)
BY DEF AudioShape

\* The end of a call either tells its thread to exit, and then the SIP thread
\* waits for it, or leaves a thread that is not told.
LEMMA CallEndShape ==
  ASSUME Typed, AudioShape, curCall \in Calls, sipPc \notin {"join_events", "join_closing"},
         NEW pc \in {"join_events", "join_closing"}, CallEnd(pc),
         UNCHANGED <<audioPc, audiothread>>
  PROVE  AudioShape'
<1>t. /\ toAudio \in [Calls -> Seq(ToAudioMsgs)] /\ audiothread = curCall
      /\ curCall # NoCall /\ audioPc[curCall] # "none"
  BY NoCallAssumption DEF Typed, TypeOK, Serving, AudioShape
<1>1. CASE TellsAudioExit /\ sipPc' = pc /\ UNCHANGED curCall
  <2> DEFINE exit == Msg("CMD_AUDIO_EXIT", NoCall)
  <2>1. \A c \in Calls : toAudio'[c] = IF c = curCall THEN Append(toAudio[c], exit)
                                                      ELSE toAudio[c]
    BY <1>t, <1>1 DEF TellsAudioExit
  <2>2. \A c \in Calls : audioPc[c] \notin {"none", "done"} => c = curCall \/ Untold(c)'
    BY <1>1, <2>1 DEF AudioShape, Untold, Told
  <2>3. ASSUME NEW c \in Calls, NEW m \in ToAudioMsgs, In(m, toAudio'[c]),
               m.msgtype = "CMD_AUDIO_INIT"
        PROVE  In(m, toAudio[c])
    <3>1. CASE c # curCall
      BY <2>1, <2>3, <3>1
    <3>2. CASE c = curCall
      <4>1. In(m, Append(toAudio[c], exit)) /\ toAudio[c] \in Seq(ToAudioMsgs)
        BY <1>t, <2>1, <2>3, <3>2
      <4>2. exit \in ToAudioMsgs /\ exit.msgtype # "CMD_AUDIO_INIT"
        BY MessageTypes DEF Msg
      <4> HIDE DEF exit
      <4> QED BY <2>3, <4>1, <4>2, InAppend
    <3> QED BY <3>1, <3>2
  <2> HIDE DEF exit
  <2> QED BY <1>t, <1>1, <2>1, <2>2, <2>3 DEF AudioShape
<1>2. CASE "exit" \in Failures /\ curCall' = NoCall /\ UNCHANGED <<toAudio, sipPc>>
  <2>1. ~Told(curCall)
    BY <1>t DEF AudioShape
  <2>2. \A c \in Calls : audioPc[c] \notin {"none", "done"} => Untold(c)'
    BY <1>2, <2>1, NoCallAssumption DEF AudioShape, Untold, Told
  <2>3. UNCHANGED <<audioPc, audiothread, sipPc, toAudio>> /\ \A c \in Calls : c # curCall'
    BY <1>2, NoCallAssumption
  <2>4. audiothread # NoCall => ~Told(audiothread)'
    BY <1>t, <2>1, <2>3 DEF Told
  <2> QED BY <2>2, <2>3, <2>4 DEF AudioShape
<1> QED BY <1>1, <1>2 DEF CallEnd

\* Every step keeps the audio threads to the call in progress, but for those that
\* cannot be told, and the connections in their commands to their own.
LEMMA AudioShapeStep == Typed /\ EventShape /\ AudioShape /\ [Next]_vars => AudioShape'
<1> SUFFICES ASSUME Typed, EventShape, AudioShape, [Next]_vars PROVE AudioShape'
  OBVIOUS
<1>0. AudioShape
  OBVIOUS
<1>t. /\ toAudio \in [Calls -> Seq(ToAudioMsgs)]
      /\ audioPc \in [Calls -> {"none", "start", "poll", "serial", "done"}]
      /\ curCall \in Calls \cup {NoCall}
      /\ audiothread \in Calls \cup {NoCall}
      /\ curCall # NoCall => audiothread = curCall
  BY DEF Typed, TypeOK, Serving
\* Most steps do nothing with it.
<1>q. ASSUME UNCHANGED <<toAudio, audioPc, audiothread, curCall>>,
             UNCHANGED sipPc \/ sipPc \notin {"join_events", "join_closing"}
      PROVE  AudioShape'
  BY <1>0, <1>q DEF AudioShape, Untold, Told
<1>1. CASE SipInit
  BY <1>1, <1>q DEF SipInit
<1>2. CASE SipPoll
  BY <1>2, <1>q DEF SipPoll
<1>3. CASE SipJoin
  <2>1. curCall # NoCall /\ audiothread = curCall /\ audioPc[curCall] = "done"
    BY <1>t, <1>3 DEF SipJoin, Joinable, Typed, Serving
  <2>2. /\ curCall' = NoCall /\ audiothread' = NoCall /\ UNCHANGED <<toAudio, audioPc>>
        /\ \A c \in Calls : c # curCall'
    BY <1>3, NoCallAssumption DEF SipJoin
  <2>3. \A c \in Calls : audioPc[c] \notin {"none", "done"} => Untold(c)'
    BY <1>0, <2>1, <2>2 DEF AudioShape, Untold, Told
  <2> QED BY <1>0, <2>2, <2>3 DEF AudioShape
<1>4. CASE SipClose
  <2>1. CASE curCall # NoCall
    BY <1>t, <1>4, <2>1, CallEndShape DEF SipClose
  <2>2. CASE curCall = NoCall
    BY <1>4, <1>q, <2>2 DEF SipClose
  <2> QED BY <2>1, <2>2
<1>5. CASE SipCoreExit \/ SipCoreRegister
  BY <1>5, <1>q DEF SipCoreExit, SipCoreRegister
<1>7. CASE SipCoreCallInProgress
  BY <1>7, <1>q DEF SipCoreCallInProgress, Crash
<1>8. CASE InviteDropped
  BY <1>8, <1>q DEF InviteDropped
<1>9. CASE InviteUnconfigured \/ InviteFails
  BY <1>9, <1>q DEF InviteUnconfigured, InviteFails, Crash
<1>10. CASE InviteAccepted
  <2>1. sipEvents # <<>> /\ Head(sipEvents).type = "INVITE" /\ curCall = NoCall
    BY <1>10 DEF InviteAccepted, IsFirstInvite, IsInvite
  <2>2. Head(sipEvents) \in Events /\ In(Head(sipEvents), sipEvents)
    BY <2>1, InTail, HeadTailType DEF Typed, TypeOK
  <2>3. PICK c \in Calls : c = Head(sipEvents).cid
    BY <2>2, PayloadTypes
  <2>4. /\ audioPc[c] = "none" /\ curCall' = c /\ audiothread' = c
        /\ audioPc' = [audioPc EXCEPT ![c] = "start"]
        /\ UNCHANGED toAudio
    BY <1>10, <2>1, <2>2, <2>3 DEF InviteAccepted, EventShape
  <2>5. toAudio[c] = <<>> /\ ~Told(c)' /\ \A m : ~In(m, toAudio'[c])
    BY <1>0, <2>4, InEmpty DEF AudioShape, Told
  <2>6. \A d \in Calls : audioPc'[d] = IF d = c THEN "start" ELSE audioPc[d]
    BY <1>t, <2>4
  <2>7. \A d \in Calls : audioPc'[d] \notin {"none", "done"} => d = c \/ Untold(d)'
    BY <1>0, <2>1, <2>4, <2>6, NoCallAssumption DEF AudioShape, Untold, Told
  <2>8. ~Told(audiothread)'
    BY <2>4, <2>5 DEF Told
  <2> QED BY <1>0, <2>4, <2>5, <2>6, <2>7, <2>8 DEF AudioShape
<1>12. CASE EventEndsCall
  <2>1. Head(sipEvents) \in Events
    BY <1>12 DEF Typed, TypeOK, EventEndsCall
  <2>2. curCall \in Calls
    BY <1>12, <2>1, PayloadTypes DEF EventEndsCall, EndsCurrent
  <2>3. /\ sipPc = "events" /\ CallEnd("join_events") /\ UNCHANGED <<audioPc, audiothread>>
    BY <1>12 DEF EventEndsCall
  <2> QED BY <2>2, <2>3, CallEndShape
<1>13. CASE EventIgnored \/ EventsDrained
  BY <1>13, <1>q DEF EventIgnored, EventsDrained
<1>15. CASE SipAudioReady
  <2> DEFINE c == audiothread
  <2>1. c \in Calls /\ c # NoCall /\ sipPc = "audio"
    BY <1>t, <1>15, NoCallAssumption
    DEF Typed, Serving, AudioReadable, SipAudioReady, AudioEvent
  <2>2. PICK ch \in Posted(toAudio[c], Msg("CMD_AUDIO_INIT", curCall)) :
          toAudio' = [toAudio EXCEPT ![c] = ch]
    BY <1>15 DEF SipAudioReady
  <2>3. UNCHANGED <<audioPc, audiothread, curCall>>
    BY <1>15 DEF SipAudioReady
  <2>4. \A d \in Calls : Told(d)' => Told(d)
    BY <1>t, <2>1, <2>2, ToldPosted
  <2>5. ASSUME NEW d \in Calls, NEW m \in ToAudioMsgs, In(m, toAudio'[d]),
               m.msgtype = "CMD_AUDIO_INIT"
        PROVE  m.payload \in {d, NoCall} /\ (d = curCall => m.payload = d)
    <3>1. CASE In(m, toAudio[d])
      BY <1>0, <2>5, <3>1 DEF AudioShape
    <3>2. CASE ~In(m, toAudio[d])
      <4>1. d = c /\ In(m, ch)
        BY <1>t, <2>1, <2>2, <2>5, <3>2
      <4>2. m = Msg("CMD_AUDIO_INIT", curCall)
        BY <1>t, <2>1, <2>2, <3>2, <4>1, MessageTypes, InPosted
      <4>3. m.payload = curCall
        BY <4>2 DEF Msg
      <4> QED BY <1>t, <4>1, <4>3
    <3> QED BY <3>1, <3>2
  <2>6. \A d \in Calls : audioPc[d] \notin {"none", "done"} => d = curCall \/ Untold(d)'
    BY <1>0, <2>3, <2>4 DEF AudioShape, Untold
  <2>7. ~Told(audiothread)'
    BY <1>0, <2>1, <2>3, <2>4 DEF AudioShape
  <2>8. \A d \in Calls : audioPc[d] = "none" => toAudio'[d] = <<>>
    BY <1>0, <1>t, <2>1, <2>2 DEF AudioShape
  <2> QED BY <1>0, <2>3, <2>5, <2>6, <2>7, <2>8 DEF AudioShape
<1>16. CASE SipAudioRtpOk
  BY <1>16, <1>q DEF SipAudioRtpOk, AudioEvent, Crash
<1>17. CASE CoreReady \/ CoreIncomingCall \/ CoreStop \/ CoreJoin
  BY <1>17, <1>q DEF CoreReady, CoreIncomingCall, CoreStop, CoreJoin
\* An audio thread serves its channel, or ends, and goes on being untold if it
\* could not be told.
<1>a. ASSUME NEW c \in Calls, audioPc[c] # "none",
             \E pc \in {"start", "poll", "serial", "done"} : audioPc' = [audioPc EXCEPT ![c] = pc],
             audioPc[c] = "done" => audioPc'[c] = "done",
             \/ UNCHANGED toAudio
             \/ toAudio[c] # <<>> /\ toAudio' = [toAudio EXCEPT ![c] = Tail(@)],
             UNCHANGED <<sipPc, audiothread, curCall>>
      PROVE  AudioShape'
  <2>1. /\ \A d \in Calls : Told(d)' => Told(d)
        /\ \A d \in Calls, m \in ToAudioMsgs : In(m, toAudio'[d]) => In(m, toAudio[d])
        /\ \A d \in Calls : d # c => toAudio'[d] = toAudio[d]
    <3>1. CASE UNCHANGED toAudio
      BY <3>1 DEF Told
    <3>2. CASE toAudio[c] # <<>> /\ toAudio' = [toAudio EXCEPT ![c] = Tail(@)]
      BY <1>t, <3>2, ToldTail, InTail
    <3> QED BY <1>a, <3>1, <3>2
  <2>2. /\ \A d \in Calls : d # c => audioPc'[d] = audioPc[d]
        /\ audioPc'[c] # "none"
    BY <1>t, <1>a
  <2>3. \A d \in Calls : audioPc'[d] \notin {"none", "done"} => d = curCall \/ Untold(d)'
    BY <1>0, <1>a, <2>1, <2>2 DEF AudioShape, Untold
  <2>4. /\ audiothread # NoCall => audioPc'[audiothread] # "none"
        /\ audiothread # NoCall /\ sipPc \notin {"join_events", "join_closing"} => ~Told(audiothread)'
    BY <1>0, <1>t, <1>a, <2>1, <2>2 DEF AudioShape, Told
  <2> QED BY <1>0, <1>a, <2>1, <2>2, <2>3, <2>4 DEF AudioShape
<1>c. ASSUME NEW f, Crash(f) PROVE AudioShape'
  BY <1>c, <1>q DEF Crash
<1>21. ASSUME NEW c \in Calls, AudioStart(c) PROVE AudioShape'
  <2>1. CASE Crash("astate_shared")
    BY <1>c, <2>1
  <2>2. CASE ~Crash("astate_shared")
    BY <1>21, <1>a, <2>2 DEF AudioStart
  <2> QED BY <2>1, <2>2
<1>22. ASSUME NEW c \in Calls, AudioRtpInit(c) PROVE AudioShape'
  <2>1. CASE ~ConnectionAlive(c)
    BY <1>22, <1>c, <2>1 DEF AudioRtpInit
  <2>2. CASE ConnectionAlive(c)
    BY <1>22, <1>a, <2>2 DEF AudioRtpInit, AudioCommand
  <2> QED BY <2>1, <2>2
<1>23. ASSUME NEW c \in Calls, AudioSerialInit(c) PROVE AudioShape'
  <2>1. CASE ~ConnectionAlive(c)
    BY <1>23, <1>c, <2>1 DEF AudioSerialInit
  <2>2. CASE ConnectionAlive(c)
    BY <1>23, <1>a, <2>2 DEF AudioSerialInit, AudioServed, Typed, Serving
  <2> QED BY <2>1, <2>2
<1>24. ASSUME NEW c \in Calls, AudioExit(c) PROVE AudioShape'
  BY <1>24, <1>a DEF AudioExit, AudioServed, AudioCommand
<1>25. ASSUME NEW c \in Calls, CallbackStep(c) PROVE AudioShape'
  BY <1>25, <1>q DEF CallbackStep, CoreCallCreated, CoreCallStarted, Crash
<1>27. ASSUME NEW c \in Calls, NEW type \in EventTypes, NetworkEvent(c, type)
       PROVE  AudioShape'
  BY <1>27, <1>q DEF NetworkEvent
<1>28. CASE UNCHANGED vars
  BY <1>28, <1>q
<1>29. CASE SipReceiveFails
  BY <1>29, <1>q DEF SipReceiveFails
<1> QED
  BY <1>1, <1>2, <1>3, <1>4, <1>5, <1>7, <1>8, <1>9, <1>10, <1>12, <1>13, <1>15, <1>16,
     <1>17, <1>21, <1>22, <1>23, <1>24, <1>25, <1>27, <1>28, <1>29
  DEF Next, Live, Resting, SipStep, CoreStep, AudioStep

\* Types, EventShape and AudioShape hold in every reachable state.
LEMMA AudioInvariant == Spec => [](Typed /\ EventShape /\ AudioShape)
<1>1. Init => AudioShape
  BY InEmpty DEF Init, AudioShape
<1>2. Typed /\ EventShape /\ AudioShape /\ [Next]_vars => AudioShape'
  BY AudioShapeStep
<1> QED BY <1>1, <1>2, EventInvariant, PTL DEF Spec

\* The only audio thread serves the call in progress, and is the one that the SIP
\* thread listens to, but for threads that no memory was left to tell.
THEOREM OneAudioThreadHolds == Spec => []OneAudioThread
<1>1. Typed /\ AudioShape => OneAudioThread
  BY DEF Typed, Serving, AudioShape, OneAudioThread
<1> QED BY <1>1, AudioInvariant, PTL
-----------------------------------------------------------------------------
(* Dialled calls and their answers *)

\* The number of a call travels to ModemManager and back as a command only
\* after it was dialled, and an audio thread reports the port of its own call.
DialShape ==
  /\ \A c \in dialled : audioPc[c] # "none"
  /\ \A m \in CoreMsgs :
       In(m, toCore) /\ m.msgtype = "SIP_EVENT_INCOMING_CALL" => m.payload \in dialled
  /\ \A c \in Calls : mmCall[c] # "none" => c \in dialled
  /\ \A m \in SipMsgs :
       In(m, toSip) /\ m.msgtype = "SIP_CMD_CALL_IN_PROGRESS" => m.payload \in dialled
  /\ \A c \in Calls, m \in FromAudioMsgs :
       In(m, fromAudio[c]) /\ m.msgtype = "AUDIO_EVENT_RTP_OK" => m.payload = c
  /\ PortOfCurrentCall
  /\ AnswerCarriesOwnPort

\* A command for the SIP thread that announces no call, or one dialled before,
\* disturbs nothing.
LEMMA PostedToSip ==
  ASSUME Typed, DialShape, NEW x \in SipMsgs, toSip' \in Posted(toSip, x),
         x.msgtype = "SIP_CMD_CALL_IN_PROGRESS" => x.payload \in dialled
  PROVE  \A m \in SipMsgs :
           In(m, toSip') /\ m.msgtype = "SIP_CMD_CALL_IN_PROGRESS" => m.payload \in dialled
<1>1. toSip \in Seq(SipMsgs)
  BY DEF Typed, TypeOK
<1>2. \A m \in SipMsgs : In(m, toSip') => In(m, toSip) \/ m = x
  BY <1>1, InPosted
<1> QED BY <1>2 DEF DialShape

\* The same for what an audio thread reports.
LEMMA PostedFromAudio ==
  ASSUME Typed, DialShape, NEW c \in Calls, NEW x \in FromAudioMsgs,
         NEW ch \in Posted(fromAudio[c], x), fromAudio' = [fromAudio EXCEPT ![c] = ch],
         x.msgtype = "AUDIO_EVENT_RTP_OK" => x.payload = c
  PROVE  \A d \in Calls, m \in FromAudioMsgs :
           In(m, fromAudio'[d]) /\ m.msgtype = "AUDIO_EVENT_RTP_OK" => m.payload = d
<1>1. fromAudio \in [Calls -> Seq(FromAudioMsgs)]
  BY DEF Typed, TypeOK
<1>2. \A m \in FromAudioMsgs : In(m, ch) => In(m, fromAudio[c]) \/ m = x
  BY <1>1, InPosted
<1>3. \A d \in Calls : fromAudio'[d] = IF d = c THEN ch ELSE fromAudio[d]
  BY <1>1
<1> QED BY <1>2, <1>3 DEF DialShape

\* Every step keeps what DialShape says of the calls announced to the main
\* thread and of the commands and events that name them.
LEMMA DialShapeStep ==
  Typed /\ AudioShape /\ EventShape /\ DialShape /\ [Next]_vars => DialShape'
<1> SUFFICES ASSUME Typed, AudioShape, EventShape, DialShape, [Next]_vars
             PROVE  DialShape'
  OBVIOUS
<1>0. DialShape
  OBVIOUS
<1>t. /\ toSip \in Seq(SipMsgs)
      /\ toCore \in Seq(CoreMsgs)
      /\ fromAudio \in [Calls -> Seq(FromAudioMsgs)]
      /\ audioPc \in [Calls -> {"none", "start", "poll", "serial", "done"}]
      /\ mmCall \in [Calls -> {"none", "creating", "starting", "started", "failed"}]
      /\ curCall \in Calls \cup {NoCall}
      /\ audiothread \in Calls \cup {NoCall}
      /\ curCall # NoCall => audiothread = curCall
      /\ dialled \subseteq Calls
  BY DEF Typed, TypeOK, Serving
<1>1. CASE SipInit
  <2>1. \A m \in CoreMsgs : In(m, toCore') /\ m.msgtype = "SIP_EVENT_INCOMING_CALL" =>
          m.payload \in dialled
    <3>1. CASE UNCHANGED toCore
      BY <1>0, <3>1 DEF DialShape
    <3>2. CASE toCore' \in Posted(toCore, Msg("SIP_EVENT_READY", NoCall))
      <4>1. \A m \in CoreMsgs :
              In(m, toCore') => In(m, toCore) \/ m = Msg("SIP_EVENT_READY", NoCall)
        BY <1>t, <3>2, MessageTypes, InPosted
      <4> QED BY <1>0, <4>1 DEF DialShape, Msg
    <3> QED BY <1>1, <3>1, <3>2 DEF SipInit
  <2> QED BY <1>0, <1>1, <2>1 DEF DialShape, PortOfCurrentCall, AnswerCarriesOwnPort, SipInit
<1>2. CASE SipPoll
  BY <1>0, <1>2 DEF DialShape, PortOfCurrentCall, AnswerCarriesOwnPort, SipPoll
<1>3. CASE SipJoin
  <2>1. curCall' = NoCall /\ NoCall \notin dialled
    BY <1>t, <1>3, NoCallAssumption DEF SipJoin
  <2> QED BY <1>0, <1>3, <2>1 DEF DialShape, PortOfCurrentCall, AnswerCarriesOwnPort, SipJoin
<1>4. CASE SipClose
  <2>1. /\ UNCHANGED <<dialled, audioPc, toCore, mmCall, toSip, fromAudio, localPort, answers>>
        /\ curCall' \in {curCall, NoCall}
    BY <1>4 DEF SipClose, CallEnd
  <2> QED BY <1>0, <1>t, <2>1, NoCallAssumption DEF DialShape, PortOfCurrentCall, AnswerCarriesOwnPort
<1>5. CASE SipCoreExit
  <2>1. toSip # <<>> /\ toSip' = Tail(toSip)
    BY <1>5 DEF SipCoreExit, Typed, Serving
  <2>2. \A m \in SipMsgs : In(m, toSip') => In(m, toSip)
    BY <1>t, <2>1, InTail
  <2> QED BY <1>0, <1>5, <2>2 DEF DialShape, PortOfCurrentCall, AnswerCarriesOwnPort, SipCoreExit
<1>6. CASE SipCoreRegister
  <2>1. toSip # <<>> /\ toSip' = Tail(toSip)
    BY <1>6 DEF SipCoreRegister, Typed, Serving
  <2>2. \A m \in SipMsgs : In(m, toSip') => In(m, toSip)
    BY <1>t, <2>1, InTail
  <2> QED BY <1>0, <1>6, <2>2 DEF DialShape, PortOfCurrentCall, AnswerCarriesOwnPort, SipCoreRegister
<1>7. CASE SipCoreCallInProgress
  <2>1. CASE curCall = NoCall
    BY <1>0, <1>7, <2>1 DEF DialShape, PortOfCurrentCall, AnswerCarriesOwnPort, SipCoreCallInProgress, Crash
  <2>2. CASE curCall # NoCall
    <3>1. toSip # <<>> /\ toSip' = Tail(toSip)
      BY <1>7, <2>2 DEF SipCoreCallInProgress, Typed, Serving
    <3>2. /\ \A m \in SipMsgs : In(m, toSip') => In(m, toSip)
          /\ In(Head(toSip), toSip)
          /\ Head(toSip) \in SipMsgs
      BY <1>t, <3>1, InTail, HeadTailType
    <3>3. Head(toSip).payload \in dialled
      BY <1>0, <1>7, <3>2 DEF DialShape, SipCoreCallInProgress
    <3>4. UNCHANGED <<dialled, audioPc, toCore, mmCall, fromAudio, curCall, localPort>>
      BY <1>7, <2>2 DEF SipCoreCallInProgress
    <3>5. AnswerCarriesOwnPort'
      <4>1. ASSUME NEW a \in answers', a.path = a.call
            PROVE  a.port = a.call
        <5>1. CASE a \in answers
          BY <1>0, <4>1, <5>1 DEF DialShape, AnswerCarriesOwnPort
        <5>2. CASE a = [call |-> curCall, path |-> Head(toSip).payload, port |-> localPort]
          BY <1>0, <3>3, <4>1, <5>2 DEF DialShape, PortOfCurrentCall
        <5> QED BY <1>7, <2>2, <4>1, <5>1, <5>2 DEF SipCoreCallInProgress
      <4> QED BY <4>1 DEF AnswerCarriesOwnPort
    <3> QED BY <1>0, <3>2, <3>4, <3>5 DEF DialShape, PortOfCurrentCall
  <2> QED BY <2>1, <2>2
<1>8. CASE InviteDropped
  BY <1>0, <1>8 DEF DialShape, PortOfCurrentCall, AnswerCarriesOwnPort, InviteDropped
<1>9. CASE InviteUnconfigured
  BY <1>0, <1>9 DEF DialShape, PortOfCurrentCall, AnswerCarriesOwnPort, InviteUnconfigured, Crash
<1>10. CASE InviteAccepted
  <2> DEFINE c == Head(sipEvents).cid
  <2>1. sipEvents # <<>> /\ Head(sipEvents).type = "INVITE"
    BY <1>10 DEF InviteAccepted, IsFirstInvite, IsInvite
  <2>2. Head(sipEvents) \in Events /\ In(Head(sipEvents), sipEvents)
    BY <2>1, InTail, HeadTailType DEF Typed, TypeOK
  <2>3. audioPc[c] = "none"
    BY <2>1, <2>2 DEF EventShape
  <2>4. c \notin dialled
    BY <1>0, <2>3 DEF DialShape
  <2>5. curCall' = c
    BY <1>10 DEF InviteAccepted
  <2>6. \A d \in Calls : audioPc[d] # "none" => audioPc'[d] # "none"
    BY <1>t, <1>10 DEF InviteAccepted
  <2>7. UNCHANGED <<dialled, toCore, mmCall, toSip, fromAudio, localPort, answers>>
    BY <1>10 DEF InviteAccepted
  <2> QED BY <1>0, <1>t, <2>4, <2>5, <2>6, <2>7
      DEF DialShape, PortOfCurrentCall, AnswerCarriesOwnPort
<1>11. CASE InviteFails
  BY <1>0, <1>11 DEF DialShape, PortOfCurrentCall, AnswerCarriesOwnPort, InviteFails, Crash
<1>12. CASE EventEndsCall
  <2>1. /\ UNCHANGED <<dialled, audioPc, toCore, mmCall, toSip, fromAudio, localPort, answers>>
        /\ curCall' \in {curCall, NoCall}
    BY <1>12 DEF EventEndsCall, CallEnd
  <2> QED BY <1>0, <1>t, <2>1, NoCallAssumption DEF DialShape, PortOfCurrentCall, AnswerCarriesOwnPort
<1>13. CASE EventIgnored
  BY <1>0, <1>13 DEF DialShape, PortOfCurrentCall, AnswerCarriesOwnPort, EventIgnored
<1>14. CASE EventsDrained
  BY <1>0, <1>14 DEF DialShape, PortOfCurrentCall, AnswerCarriesOwnPort, EventsDrained
<1>15. CASE SipAudioReady
  <2>1. audiothread \in Calls /\ fromAudio[audiothread] # <<>>
    BY <1>t, <1>15 DEF Typed, Serving, AudioReadable, SipAudioReady, AudioEvent
  <2>2. fromAudio' = [fromAudio EXCEPT ![audiothread] = Tail(@)]
    BY <1>15 DEF SipAudioReady
  <2>3. \A d \in Calls, m \in FromAudioMsgs : In(m, fromAudio'[d]) => In(m, fromAudio[d])
    BY <1>t, <2>1, <2>2, InTail
  <2> QED BY <1>0, <1>15, <2>3 DEF DialShape, PortOfCurrentCall, AnswerCarriesOwnPort, SipAudioReady
<1>16. CASE SipAudioRtpOk
  <2>1. CASE curCall = NoCall
    BY <1>0, <1>16, <2>1 DEF DialShape, PortOfCurrentCall, AnswerCarriesOwnPort, SipAudioRtpOk, Crash
  <2>2. CASE curCall # NoCall
    <3>1. /\ curCall \in Calls /\ curCall # NoCall /\ audiothread = curCall
          /\ fromAudio[audiothread] # <<>>
      BY <1>t, <1>16, <2>2 DEF Typed, Serving, AudioReadable, SipAudioRtpOk, AudioEvent
    <3>2. fromAudio' = [fromAudio EXCEPT ![audiothread] = Tail(@)]
      BY <1>16, <3>1 DEF SipAudioRtpOk
    <3>3. \A d \in Calls, m \in FromAudioMsgs : In(m, fromAudio'[d]) => In(m, fromAudio[d])
      BY <1>t, <3>1, <3>2, InTail
    <3>4. localPort' = curCall
      <4>1. fromAudio[curCall] \in Seq(FromAudioMsgs)
        BY <1>t, <3>1
      <4>2. /\ In(Head(fromAudio[curCall]), fromAudio[curCall])
            /\ Head(fromAudio[curCall]) \in FromAudioMsgs
        BY <3>1, <4>1, InTail, HeadTailType
      <4>3. Head(fromAudio[curCall]).payload = curCall
        BY <1>0, <1>16, <3>1, <4>2 DEF DialShape, SipAudioRtpOk, AudioEvent
      <4> QED BY <1>16, <3>1, <4>3 DEF SipAudioRtpOk, RtpPort
    <3>5. /\ dialled \subseteq dialled'
          /\ dialled' \subseteq dialled \cup {curCall}
      BY <1>16, <3>1 DEF SipAudioRtpOk
    <3>6. \A m \in CoreMsgs : In(m, toCore') /\ m.msgtype = "SIP_EVENT_INCOMING_CALL" =>
            m.payload \in dialled'
      <4>1. CASE UNCHANGED toCore
        BY <1>0, <3>5, <4>1 DEF DialShape
      <4>2. CASE /\ toCore' = Append(toCore, Msg("SIP_EVENT_INCOMING_CALL", curCall))
                 /\ dialled' = dialled \cup {curCall}
        <5>1. \A m : In(m, toCore') =>
                In(m, toCore) \/ m = Msg("SIP_EVENT_INCOMING_CALL", curCall)
          BY <1>t, <3>1, <4>2, MessageTypes, InAppend
        <5> QED BY <1>0, <4>2, <5>1 DEF DialShape, Msg
      <4> QED BY <1>16, <3>1, <4>1, <4>2 DEF SipAudioRtpOk
    <3>7. audioPc[curCall] # "none"
      BY <3>1 DEF AudioShape
    <3>8. UNCHANGED <<audioPc, mmCall, toSip, curCall, answers>>
      BY <1>16, <3>1 DEF SipAudioRtpOk
    <3> QED BY <1>0, <3>3, <3>4, <3>5, <3>6, <3>7, <3>8
        DEF DialShape, PortOfCurrentCall, AnswerCarriesOwnPort
  <2> QED BY <2>1, <2>2
<1>17. CASE CoreReady
  <2>1. \A m \in SipMsgs : In(m, toSip') /\ m.msgtype = "SIP_CMD_CALL_IN_PROGRESS" =>
          m.payload \in dialled
    <3>1. CASE UNCHANGED toSip
      BY <1>0, <3>1 DEF DialShape
    <3>2. CASE toSip' \in Posted(toSip, Msg("SIP_CMD_REGISTER", NoCall))
      <4>1. Msg("SIP_CMD_REGISTER", NoCall).msgtype # "SIP_CMD_CALL_IN_PROGRESS"
        BY DEF Msg
      <4> QED BY <3>2, <4>1, MessageTypes, PostedToSip
    <3> QED BY <1>17, <3>1, <3>2 DEF CoreReady
  <2>2. \A m \in CoreMsgs : In(m, toCore') => In(m, toCore)
    BY <1>t, <1>17, InTail DEF CoreReady, CoreEvent
  <2> QED BY <1>0, <1>17, <2>1, <2>2 DEF DialShape, PortOfCurrentCall, AnswerCarriesOwnPort, CoreReady
<1>18. CASE CoreIncomingCall
  <2>1. /\ \A m \in CoreMsgs : In(m, toCore') => In(m, toCore)
        /\ In(Head(toCore), toCore)
        /\ Head(toCore) \in CoreMsgs
    BY <1>t, <1>18, InTail, HeadTailType DEF CoreIncomingCall, CoreEvent
  <2>2. Head(toCore).payload \in dialled
    BY <1>0, <1>18, <2>1 DEF DialShape, CoreIncomingCall, CoreEvent
  <2>3. \A c \in Calls : mmCall'[c] # "none" => mmCall[c] # "none" \/ c = Head(toCore).payload
    BY <1>t, <1>18 DEF CoreIncomingCall
  <2> QED BY <1>0, <1>18, <2>1, <2>2, <2>3
      DEF DialShape, PortOfCurrentCall, AnswerCarriesOwnPort, CoreIncomingCall
<1>19. CASE CoreStop
  <2>1. Msg("SIP_CMD_EXIT", NoCall).msgtype # "SIP_CMD_CALL_IN_PROGRESS"
    BY DEF Msg
  <2>2. \A m \in SipMsgs : In(m, toSip') => In(m, toSip) \/ m = Msg("SIP_CMD_EXIT", NoCall)
    BY <1>t, <1>19, MessageTypes, InAppend, ZenonT(30) DEF CoreStop
  <2> QED BY <1>0, <1>19, <2>1, <2>2 DEF DialShape, PortOfCurrentCall, AnswerCarriesOwnPort, CoreStop
<1>20. CASE CoreJoin
  <2>1. (\A m \in SipMsgs : ~In(m, toSip')) /\ (\A m \in CoreMsgs : ~In(m, toCore'))
    BY <1>20, InEmpty DEF CoreJoin
  <2> QED BY <1>0, <1>20, <2>1 DEF DialShape, PortOfCurrentCall, AnswerCarriesOwnPort, CoreJoin
<1>21. ASSUME NEW c \in Calls, AudioStart(c) PROVE DialShape'
  <2>1. \A d \in Calls : audioPc[d] # "none" => audioPc'[d] # "none"
    BY <1>t, <1>21 DEF AudioStart, Crash
  <2>2. \A d \in Calls, m \in FromAudioMsgs :
          In(m, fromAudio'[d]) /\ m.msgtype = "AUDIO_EVENT_RTP_OK" => m.payload = d
    <3>1. CASE UNCHANGED fromAudio
      BY <1>0, <3>1 DEF DialShape
    <3>2. CASE \E ch \in Posted(fromAudio[c], Msg("AUDIO_EVENT_READY", NoCall)) :
                 fromAudio' = [fromAudio EXCEPT ![c] = ch]
      <4>1. Msg("AUDIO_EVENT_READY", NoCall).msgtype # "AUDIO_EVENT_RTP_OK"
        BY DEF Msg
      <4> QED BY <3>2, <4>1, MessageTypes, PostedFromAudio
    <3> QED BY <1>21, <3>1, <3>2 DEF AudioStart, Crash
  <2> QED BY <1>0, <1>t, <1>21, <2>1, <2>2
      DEF DialShape, PortOfCurrentCall, AnswerCarriesOwnPort, AudioStart, Crash
<1>22. ASSUME NEW c \in Calls, AudioRtpInit(c) PROVE DialShape'
  <2>1. \A d \in Calls : audioPc[d] # "none" => audioPc'[d] # "none"
    BY <1>t, <1>22 DEF AudioRtpInit, Crash
  <2> QED BY <1>0, <1>t, <1>22, <2>1
      DEF DialShape, PortOfCurrentCall, AnswerCarriesOwnPort, AudioRtpInit, Crash
<1>23. ASSUME NEW c \in Calls, AudioSerialInit(c) PROVE DialShape'
  <2>1. \A d \in Calls : audioPc[d] # "none" => audioPc'[d] # "none"
    BY <1>t, <1>23 DEF AudioSerialInit, Crash
  <2>2. \A d \in Calls, m \in FromAudioMsgs :
          In(m, fromAudio'[d]) /\ m.msgtype = "AUDIO_EVENT_RTP_OK" => m.payload = d
    <3>1. CASE UNCHANGED fromAudio
      BY <1>0, <3>1 DEF DialShape
    <3>2. CASE \E ch \in Posted(fromAudio[c], Msg("AUDIO_EVENT_RTP_OK", c)) :
                 fromAudio' = [fromAudio EXCEPT ![c] = ch]
      <4>1. Msg("AUDIO_EVENT_RTP_OK", c).payload = c
        BY DEF Msg
      <4> QED BY <3>2, <4>1, MessageTypes, PostedFromAudio
    <3> QED BY <1>23, <3>1, <3>2 DEF AudioSerialInit, Crash
  <2> QED BY <1>0, <1>t, <1>23, <2>1, <2>2
      DEF DialShape, PortOfCurrentCall, AnswerCarriesOwnPort, AudioSerialInit, Crash
<1>24. ASSUME NEW c \in Calls, AudioExit(c) PROVE DialShape'
  <2>1. \A d \in Calls : audioPc[d] # "none" => audioPc'[d] # "none"
    BY <1>t, <1>24 DEF AudioExit
  <2> QED BY <1>0, <1>t, <1>24, <2>1
      DEF DialShape, PortOfCurrentCall, AnswerCarriesOwnPort, AudioExit
<1>25. ASSUME NEW c \in Calls, CoreCallCreated(c) PROVE DialShape'
  <2>1. \A d \in Calls : mmCall'[d] # "none" => mmCall[d] # "none"
    BY <1>t, <1>25 DEF CoreCallCreated
  <2> QED BY <1>0, <1>25, <2>1
      DEF DialShape, PortOfCurrentCall, AnswerCarriesOwnPort, CoreCallCreated
<1>26. ASSUME NEW c \in Calls, CoreCallStarted(c) PROVE DialShape'
  <2>1. \A d \in Calls : mmCall'[d] # "none" => mmCall[d] # "none"
    BY <1>t, <1>26 DEF CoreCallStarted, Crash
  <2>2. c \in dialled
    BY <1>0, <1>26 DEF DialShape, CoreCallStarted
  <2>3. \A m \in SipMsgs : In(m, toSip') /\ m.msgtype = "SIP_CMD_CALL_IN_PROGRESS" =>
          m.payload \in dialled
    <3>1. CASE UNCHANGED toSip
      BY <1>0, <3>1 DEF DialShape
    <3>2. CASE toSip' \in Posted(toSip, Msg("SIP_CMD_CALL_IN_PROGRESS", c))
      <4>1. Msg("SIP_CMD_CALL_IN_PROGRESS", c).payload = c
        BY DEF Msg
      <4> QED BY <2>2, <3>2, <4>1, MessageTypes, PostedToSip
    <3> QED BY <1>26, <3>1, <3>2 DEF CoreCallStarted, Crash
  <2>4. UNCHANGED <<dialled, audioPc, toCore, fromAudio, curCall, localPort, answers>>
    BY <1>26 DEF CoreCallStarted, Crash
  <2> QED BY <1>0, <2>1, <2>3, <2>4 DEF DialShape, PortOfCurrentCall, AnswerCarriesOwnPort
<1>27. ASSUME NEW c \in Calls, NEW type \in EventTypes, NetworkEvent(c, type)
       PROVE  DialShape'
  BY <1>0, <1>27 DEF DialShape, PortOfCurrentCall, AnswerCarriesOwnPort, NetworkEvent
<1>28. CASE UNCHANGED vars
  BY <1>0, <1>28 DEF DialShape, PortOfCurrentCall, AnswerCarriesOwnPort
<1>29. CASE SipReceiveFails
  BY <1>0, <1>29 DEF DialShape, PortOfCurrentCall, AnswerCarriesOwnPort, SipReceiveFails
<1> QED
  BY <1>1, <1>2, <1>3, <1>4, <1>5, <1>6, <1>7, <1>8, <1>9, <1>10,
     <1>11, <1>12, <1>13, <1>14, <1>15, <1>16, <1>17, <1>18, <1>19, <1>20,
     <1>21, <1>22, <1>23, <1>24, <1>25, <1>26, <1>27, <1>28, <1>29
  DEF Next, Live, Resting, SipStep, CoreStep, AudioStep, CallbackStep

\* DialShape holds in every reachable state.
LEMMA DialInvariant == Spec => [](Typed /\ AudioShape /\ EventShape /\ DialShape)
<1>1. Init => DialShape
  <2>1. ASSUME Init
        PROVE  /\ \A m \in CoreMsgs : ~In(m, toCore)
               /\ \A m \in SipMsgs : ~In(m, toSip)
               /\ \A c \in Calls, m \in FromAudioMsgs : ~In(m, fromAudio[c])
    BY <2>1 DEF Init, In
  <2> QED BY <2>1 DEF Init, DialShape, PortOfCurrentCall, AnswerCarriesOwnPort
<1>2. Typed /\ AudioShape /\ EventShape /\ DialShape /\ [Next]_vars => DialShape'
  BY DialShapeStep
<1> QED BY <1>1, <1>2, AudioInvariant, PTL DEF Spec

\* Once the call in progress is dialled, the port for its answer is its own.
THEOREM PortOfCurrentCallHolds == Spec => []PortOfCurrentCall
<1>1. DialShape => PortOfCurrentCall
  BY DEF DialShape
<1> QED BY <1>1, DialInvariant, PTL

\* An answer sent for the MMCall of its own call carries the port of its own
\* RTP session.
THEOREM AnswerCarriesOwnPortHolds == Spec => []AnswerCarriesOwnPort
<1>1. DialShape => AnswerCarriesOwnPort
  BY DEF DialShape
<1> QED BY <1>1, DialInvariant, PTL

\* The stored port is that of the call in progress, and so is the answered one.
THEOREM PortIsOfOwnCallHolds == Spec => []PortIsOfOwnCall
BY PortOfCurrentCallHolds, AnswerCarriesOwnPortHolds, PTL DEF PortIsOfOwnCall
-----------------------------------------------------------------------------
(* Refinement: AvSip implements CallSession. *)

\* The calls that are over, which the mapping gives CallSession as its ended.
Ended == { c \in Calls : audioPc[c] # "none" /\ c # curCall }

\* A step that leaves calls, dialling and answers alone is a stutter.
LEMMA SessionStutter ==
  ASSUME UNCHANGED <<curCall, Ended, dialled, answers>>
  PROVE  UNCHANGED Session!vars
BY DEF Session!vars, Ended

\* The initial states of the gateway are initial states of the session.
LEMMA SessionInit == Init => Session!Init
BY DEF Init, Session!Init

\* Every step of the gateway is a step of the session or a stutter.
LEMMA SessionStep ==
  Typed /\ AudioShape /\ EventShape /\ DialShape /\ [Next]_vars
  => [Session!Next]_(Session!vars)
<1> SUFFICES ASSUME Typed, AudioShape, EventShape, DialShape, [Next]_vars
             PROVE  [Session!Next]_(Session!vars)
  OBVIOUS
<1>t. /\ audioPc \in [Calls -> {"none", "start", "poll", "serial", "done"}]
      /\ curCall \in Calls \cup {NoCall} /\ audiothread \in Calls \cup {NoCall}
      /\ curCall # NoCall => audiothread = curCall
  BY DEF Typed, TypeOK, Serving
<1>1. CASE SipInit
  <2>1. UNCHANGED <<curCall, audioPc, dialled, answers>>
    BY <1>1 DEF SipInit
  <2> QED BY <2>1, SessionStutter DEF Ended
<1>2. CASE SipPoll
  <2>1. UNCHANGED <<curCall, audioPc, dialled, answers>>
    BY <1>2 DEF SipPoll
  <2> QED BY <2>1, SessionStutter DEF Ended
\* The end of the call in progress, at once or when its thread has been joined.
<1>e. ASSUME curCall \in Calls, curCall' = NoCall, UNCHANGED <<audioPc, dialled, answers>>
      PROVE  [Session!Next]_(Session!vars)
  <2>1. audioPc[curCall] # "none"
    BY <1>t, <1>e, NoCallAssumption DEF AudioShape
  <2>2. Ended' = Ended \cup {curCall}
    BY <1>e, <2>1, NoCallAssumption DEF Ended
  <2>3. Session!End
    BY <1>e, <2>2, NoCallAssumption DEF Session!End, Ended
  <2> QED BY <2>3 DEF Session!Next
<1>3. CASE SipJoin
  <2>1. curCall \in Calls
    BY <1>t, <1>3 DEF SipJoin, Typed, Serving
  <2> QED BY <1>3, <1>e, <2>1 DEF SipJoin
<1>4. CASE SipClose
  <2>1. CASE UNCHANGED curCall
    <3>1. UNCHANGED <<curCall, audioPc, dialled, answers>>
      BY <1>4, <2>1 DEF SipClose
    <3> QED BY <3>1, SessionStutter DEF Ended
  <2>2. CASE curCall # NoCall /\ curCall' = NoCall
    BY <1>t, <1>4, <1>e, <2>2 DEF SipClose
  <2> QED BY <1>4, <2>1, <2>2 DEF SipClose, CallEnd
<1>5. CASE SipCoreExit
  <2>1. UNCHANGED <<curCall, audioPc, dialled, answers>>
    BY <1>5 DEF SipCoreExit
  <2> QED BY <2>1, SessionStutter DEF Ended
<1>6. CASE SipCoreRegister
  <2>1. UNCHANGED <<curCall, audioPc, dialled, answers>>
    BY <1>6 DEF SipCoreRegister
  <2> QED BY <2>1, SessionStutter DEF Ended
<1>7. CASE SipCoreCallInProgress
  <2>1. CASE curCall = NoCall
    <3>1. UNCHANGED <<curCall, audioPc, dialled, answers>>
      BY <1>7, <2>1 DEF SipCoreCallInProgress, Crash
    <3> QED BY <3>1, SessionStutter DEF Ended
  <2>2. CASE curCall # NoCall
    <3>1. toSip # <<>> /\ toSip \in Seq(SipMsgs)
      BY <1>7 DEF SipCoreCallInProgress, Typed, Serving, TypeOK
    <3>2. In(Head(toSip), toSip) /\ Head(toSip) \in SipMsgs
      BY <3>1, InTail, HeadTailType
    <3>3. Head(toSip).payload \in dialled
      BY <1>7, <3>2 DEF DialShape, SipCoreCallInProgress
    <3>4. UNCHANGED <<curCall, audioPc, dialled>>
      BY <1>7, <2>2 DEF SipCoreCallInProgress
    <3>5. Ended' = Ended
      BY <3>4 DEF Ended
    <3>6. CASE answers' = answers
      BY <3>4, <3>5, <3>6, SessionStutter
    <3>7. CASE \E a : a.call = curCall /\ answers' = answers \cup {a}
      <4>1. { a.call : a \in answers' } = { a.call : a \in answers } \cup {curCall}
        BY <3>7
      <4>2. Session!Answer
        BY <2>2, <3>3, <3>4, <3>5, <4>1 DEF Session!Answer, Ended
      <4> QED BY <4>2 DEF Session!Next
    <3>8. \/ answers' = answers
          \/ \E a : a.call = curCall /\ answers' = answers \cup {a}
      <4> DEFINE a == [call |-> curCall, path |-> Head(toSip).payload, port |-> localPort]
      <4>1. a.call = curCall
        OBVIOUS
      <4>2. answers' = answers \/ answers' = answers \cup {a}
        BY <1>7, <2>2 DEF SipCoreCallInProgress
      <4> QED BY <4>1, <4>2
    <3> QED BY <3>6, <3>7, <3>8
  <2> QED BY <2>1, <2>2
<1>8. CASE InviteDropped
  <2>1. UNCHANGED <<curCall, audioPc, dialled, answers>>
    BY <1>8 DEF InviteDropped
  <2> QED BY <2>1, SessionStutter DEF Ended
<1>9. CASE InviteUnconfigured
  <2>1. UNCHANGED <<curCall, audioPc, dialled, answers>>
    BY <1>9 DEF InviteUnconfigured, Crash
  <2> QED BY <2>1, SessionStutter DEF Ended
<1>10. CASE InviteAccepted
  <2> DEFINE c == Head(sipEvents).cid
  <2>1. sipEvents # <<>> /\ Head(sipEvents).type = "INVITE" /\ curCall = NoCall
    BY <1>10 DEF InviteAccepted, IsFirstInvite, IsInvite
  <2>2. Head(sipEvents) \in Events /\ In(Head(sipEvents), sipEvents)
    BY <2>1, InTail, HeadTailType DEF Typed, TypeOK
  <2>3. c \in Calls /\ audioPc[c] = "none"
    BY <2>1, <2>2, PayloadTypes DEF EventShape
  <2>4. /\ curCall' = c
        /\ audioPc' = [audioPc EXCEPT ![c] = "start"]
        /\ UNCHANGED <<dialled, answers>>
    BY <1>10 DEF InviteAccepted
  <2> HIDE DEF c
  <2>5. c \notin Ended /\ Ended' = Ended
    BY <1>t, <2>1, <2>3, <2>4, NoCallAssumption DEF Ended
  <2>6. Session!Accept(c)
    BY <2>1, <2>4, <2>5 DEF Session!Accept, Ended
  <2> QED BY <2>3, <2>6 DEF Session!Next
<1>11. CASE InviteFails
  <2>1. UNCHANGED <<curCall, audioPc, dialled, answers>>
    BY <1>11 DEF InviteFails, Crash
  <2> QED BY <2>1, SessionStutter DEF Ended
<1>12. CASE EventEndsCall
  <2>1. CASE UNCHANGED curCall
    <3>1. UNCHANGED <<curCall, audioPc, dialled, answers>>
      BY <1>12, <2>1 DEF EventEndsCall
    <3> QED BY <3>1, SessionStutter DEF Ended
  <2>2. CASE curCall' = NoCall
    <3>1. Head(sipEvents) \in Events
      BY <1>12 DEF Typed, TypeOK, EventEndsCall
    <3>2. curCall \in Calls
      BY <1>12, <3>1, PayloadTypes DEF EventEndsCall, EndsCurrent
    <3> QED BY <1>12, <1>e, <2>2, <3>2 DEF EventEndsCall
  <2> QED BY <1>12, <2>1, <2>2 DEF EventEndsCall, CallEnd
<1>13. CASE EventIgnored
  <2>1. UNCHANGED <<curCall, audioPc, dialled, answers>>
    BY <1>13 DEF EventIgnored
  <2> QED BY <2>1, SessionStutter DEF Ended
<1>14. CASE EventsDrained
  <2>1. UNCHANGED <<curCall, audioPc, dialled, answers>>
    BY <1>14 DEF EventsDrained
  <2> QED BY <2>1, SessionStutter DEF Ended
<1>15. CASE SipAudioReady
  <2>1. UNCHANGED <<curCall, audioPc, dialled, answers>>
    BY <1>15 DEF SipAudioReady
  <2> QED BY <2>1, SessionStutter DEF Ended
<1>16. CASE SipAudioRtpOk
  <2>1. CASE curCall = NoCall
    <3>1. UNCHANGED <<curCall, audioPc, dialled, answers>>
      BY <1>16, <2>1 DEF SipAudioRtpOk, Crash
    <3> QED BY <3>1, SessionStutter DEF Ended
  <2>2. CASE curCall # NoCall
    <3>1. /\ curCall \in Calls /\ curCall # NoCall
      BY <1>t, <2>2 DEF Typed, Serving, AudioReadable, SipAudioRtpOk, AudioEvent
    <3>2. UNCHANGED <<curCall, audioPc, answers>>
      BY <1>16, <3>1 DEF SipAudioRtpOk
    <3>3. Ended' = Ended
      BY <3>2 DEF Ended
    <3>4. CASE dialled' = dialled \cup {curCall} /\ curCall \notin dialled
      <4>1. Session!Dial
        BY <3>1, <3>2, <3>3, <3>4 DEF Session!Dial, Ended
      <4> QED BY <4>1 DEF Session!Next
    <3>5. CASE dialled' = dialled
      BY <3>2, <3>3, <3>5, SessionStutter
    <3>6. \/ dialled' = dialled \cup {curCall} /\ curCall \notin dialled
          \/ dialled' = dialled
      BY <1>16, <3>1 DEF SipAudioRtpOk
    <3> QED BY <3>4, <3>5, <3>6
  <2> QED BY <2>1, <2>2
<1>17. CASE CoreReady
  <2>1. UNCHANGED <<curCall, audioPc, dialled, answers>>
    BY <1>17 DEF CoreReady
  <2> QED BY <2>1, SessionStutter DEF Ended
<1>18. CASE CoreIncomingCall
  <2>1. UNCHANGED <<curCall, audioPc, dialled, answers>>
    BY <1>18 DEF CoreIncomingCall
  <2> QED BY <2>1, SessionStutter DEF Ended
<1>19. CASE CoreStop
  <2>1. UNCHANGED <<curCall, audioPc, dialled, answers>>
    BY <1>19 DEF CoreStop
  <2> QED BY <2>1, SessionStutter DEF Ended
<1>20. CASE CoreJoin
  <2>1. UNCHANGED <<curCall, audioPc, dialled, answers>>
    BY <1>20 DEF CoreJoin
  <2> QED BY <2>1, SessionStutter DEF Ended
\* An audio thread that goes on or ends leaves what is over as it is.
<1>21. ASSUME NEW c \in Calls, AudioStep(c) PROVE [Session!Next]_(Session!vars)
  <2>1. audioPc[c] # "none" /\ audioPc'[c] # "none"
    BY <1>t, <1>21
    DEF AudioStep, AudioStart, AudioRtpInit, AudioSerialInit, AudioExit, AudioCommand, Crash
  <2>2. /\ \A d \in Calls \ {c} : audioPc'[d] = audioPc[d]
        /\ UNCHANGED <<curCall, dialled, answers>>
    BY <1>t, <1>21 DEF AudioStep, AudioStart, AudioRtpInit, AudioSerialInit, AudioExit, Crash
  <2>3. Ended' = Ended
    BY <2>1, <2>2 DEF Ended
  <2> QED BY <2>2, <2>3, SessionStutter
<1>25. ASSUME NEW c \in Calls, CoreCallCreated(c) PROVE [Session!Next]_(Session!vars)
  <2>1. UNCHANGED <<curCall, audioPc, dialled, answers>>
    BY <1>25 DEF CoreCallCreated, Crash
  <2> QED BY <2>1, SessionStutter DEF Ended
<1>26. ASSUME NEW c \in Calls, CoreCallStarted(c) PROVE [Session!Next]_(Session!vars)
  <2>1. UNCHANGED <<curCall, audioPc, dialled, answers>>
    BY <1>26 DEF CoreCallStarted, Crash
  <2> QED BY <2>1, SessionStutter DEF Ended
<1>27. ASSUME NEW c \in Calls, NEW type \in EventTypes, NetworkEvent(c, type)
       PROVE  [Session!Next]_(Session!vars)
  <2>1. UNCHANGED <<curCall, audioPc, dialled, answers>>
    BY <1>27 DEF NetworkEvent
  <2> QED BY <2>1, SessionStutter DEF Ended
<1>28. CASE UNCHANGED vars
  BY <1>28, SessionStutter DEF Ended
<1>29. CASE SipReceiveFails
  BY <1>29, SessionStutter DEF Ended, SipReceiveFails
<1> QED
  BY <1>1, <1>2, <1>3, <1>4, <1>5, <1>6, <1>7, <1>8, <1>9, <1>10,
     <1>11, <1>12, <1>13, <1>14, <1>15, <1>16, <1>17, <1>18, <1>19, <1>20,
     <1>21, <1>25, <1>26, <1>27, <1>28, <1>29
  DEF Next, Live, Resting, SipStep, CoreStep, CallbackStep

\* The gateway takes one call at a time, dials it at most once and while it is
\* in progress, answers nothing before something was dialled, and resumes no
\* call, whatever the network does and whatever fails.
THEOREM CallSessionImplemented == Spec => ImplementsCallSession
<1> USE DEF ImplementsCallSession, Session!Spec
<1> QED BY SessionInit, SessionStep, DialInvariant, PTL DEF Spec
=============================================================================

-------------------------- MODULE AvSipOnceProofs --------------------------
(***************************************************************************)
(* More about AvSip: each command and each event is sent once.  It follows *)
(* how much the channels may hold, which AvThreadComm builds upon, that    *)
(* ModemManager creates one MMCall for each call, and how calls end.       *)
(***************************************************************************)
EXTENDS AvSipProofs, FiniteSetTheorems, SequenceTheorems

USE DEF vars, coreVars, chanVars, sipVars, netVars, histVars

ExitAudio      == Msg("CMD_AUDIO_EXIT", NoCall)
InitAudio(c)   == Msg("CMD_AUDIO_INIT", c)
Ready          == Msg("SIP_EVENT_READY", NoCall)
Incoming(c)    == Msg("SIP_EVENT_INCOMING_CALL", c)
ExitSip        == Msg("SIP_CMD_EXIT", NoCall)
Register       == Msg("SIP_CMD_REGISTER", NoCall)
InProgress(c)  == Msg("SIP_CMD_CALL_IN_PROGRESS", c)
AudioReady     == Msg("AUDIO_EVENT_READY", NoCall)
RtpOk(c)       == Msg("AUDIO_EVENT_RTP_OK", c)

LEMMA MessagesDiffer ==
  /\ Ready \in CoreMsgs /\ ExitSip \in SipMsgs /\ Register \in SipMsgs
  /\ ExitAudio \in ToAudioMsgs
  /\ ExitSip # Register
  /\ \A c \in Calls : /\ Incoming(c) \in CoreMsgs /\ InProgress(c) \in SipMsgs
                      /\ Incoming(c) # Ready
                      /\ InProgress(c) \notin {ExitSip, Register}
  /\ \A c \in Calls \cup {NoCall} : InitAudio(c) \in ToAudioMsgs /\ InitAudio(c) # ExitAudio
  /\ \A c, d \in Calls : c # d => Incoming(c) # Incoming(d) /\ InProgress(c) # InProgress(d)
BY MessageTypes DEF Ready, Incoming, ExitSip, Register, InProgress, ExitAudio, InitAudio, Msg

\* Posting what is not there yet leaves all that is there different.
LEMMA DistinctPosted ==
  ASSUME NEW S, NEW ch \in Seq(S), NEW x \in S, NEW res \in Posted(ch, x),
         Distinct(ch), ~In(x, ch)
  PROVE  Distinct(res)
<1>1. Distinct(Append(ch, x))
  BY InAppend
<1> QED BY <1>1 DEF Posted
-----------------------------------------------------------------------------
(* The audio thread and the SIP thread *)

\* The thread of c has been handed a connection, its own or that of no call.
HasInit(c) == In(InitAudio(c), toAudio[c]) \/ In(InitAudio(NoCall), toAudio[c])

\* AUDIO_EVENT_READY makes CMD_AUDIO_INIT follow, that AUDIO_EVENT_RTP_OK, and
\* that the call of the number: there is at most one of these per call.  The
\* thread that the SIP thread listens to has reported its port only if it runs
\* or is being joined.
AudioOnce ==
  /\ \A c \in Calls :
       /\ Len(fromAudio[c]) <= 1
       /\ Distinct(toAudio[c])
       /\ ~(In(InitAudio(c), toAudio[c]) /\ In(InitAudio(NoCall), toAudio[c]))
       /\ audioPc[c] \in {"none", "start"} => fromAudio[c] = <<>> /\ ~HasInit(c)
       /\ fromAudio[c] # <<>> => ~HasInit(c)
       /\ c \in dialled => /\ audioPc[c] \notin {"none", "start"}
                           /\ fromAudio[c] = <<>>
                           /\ ~HasInit(c)
  /\ audiothread # NoCall /\ sipPc \notin {"join_events", "join_closing"}
       /\ audioPc[audiothread] = "done" =>
         ~In(RtpOk(audiothread), fromAudio[audiothread])

\* Taking the only event of an audio thread leaves none.
LEMMA OnlyEvent ==
  ASSUME NEW S, NEW ch \in Seq(S), ch # <<>>, Len(ch) <= 1
  PROVE  Tail(ch) = <<>>
<1>1. Len(ch) \in Nat /\ Len(ch) > 0 /\ Len(Tail(ch)) = Len(ch) - 1 /\ Tail(ch) \in Seq(S)
  OBVIOUS
<1>2. Len(Tail(ch)) = 0
  BY <1>1
<1> QED BY <1>1, <1>2, EmptySeq

\* The first event of an audio thread is the only one.
LEMMA FirstPosted ==
  ASSUME NEW S, NEW ch \in Seq(S), ch = <<>>, NEW x \in S, NEW res \in Posted(ch, x)
  PROVE  Len(res) <= 1
<1>1. res = Append(<<>>, x) \/ res = <<>>
  BY DEF Posted
<1>2. Len(Append(<<>>, x)) = 1 /\ Len(<<>>) = 0
  OBVIOUS
<1>3. CASE res = Append(<<>>, x)
  BY <1>2, <1>3
<1>4. CASE res = <<>>
  BY <1>2, <1>4
<1> QED BY <1>1, <1>3, <1>4

\* A command that hands an audio thread its connection is in hand.
LEMMA InitInHand ==
  ASSUME Typed, AudioShape, NEW c \in Calls,
         AudioCommand(c, "CMD_AUDIO_INIT") \/ audioPc[c] = "serial"
  PROVE  /\ toAudio[c] # <<>> /\ HasInit(c)
         /\ Head(toAudio[c]) = InitAudio(Head(toAudio[c]).payload)
         /\ Head(toAudio[c]).payload \in {c, NoCall}
<1>1. toAudio[c] # <<>> /\ Head(toAudio[c]).msgtype = "CMD_AUDIO_INIT"
  BY DEF Typed, Serving, AudioCommand
<1>2. toAudio[c] \in Seq(ToAudioMsgs)
  BY DEF Typed, TypeOK
<1>3. Head(toAudio[c]) \in ToAudioMsgs /\ In(Head(toAudio[c]), toAudio[c])
  BY <1>1, <1>2, InTail, HeadTailType
<1>4. Head(toAudio[c]).payload \in {c, NoCall}
  BY <1>1, <1>3 DEF AudioShape
<1>5. Head(toAudio[c]) = InitAudio(Head(toAudio[c]).payload)
  BY <1>1, <1>3 DEF ToAudioMsgs, InitAudio, Msg
<1> QED BY <1>1, <1>3, <1>4, <1>5 DEF HasInit

\* Who is sent the exit command is told.
LEMMA ExitTells ==
  ASSUME NEW c \in Calls, In(ExitAudio, toAudio[c]), toAudio[c] \in Seq(ToAudioMsgs)
  PROVE  Told(c)
BY DEF In, Told, ExitAudio, Msg

\* Telling the audio thread to exit is done once.
LEMMA CallEndOnce ==
  ASSUME Typed, AudioShape, AudioOnce, curCall \in Calls,
         sipPc \notin {"join_events", "join_closing"},
         NEW pc \in {"join_events", "join_closing"}, CallEnd(pc),
         UNCHANGED <<fromAudio, audioPc, dialled, audiothread>>
  PROVE  AudioOnce'
<1>1. /\ toAudio \in [Calls -> Seq(ToAudioMsgs)] /\ audiothread = curCall /\ curCall # NoCall
  BY NoCallAssumption DEF Typed, TypeOK, Serving
<1>2. CASE UNCHANGED <<toAudio, sipPc>>
  BY <1>2 DEF AudioOnce, HasInit
<1>3. CASE toAudio' = [toAudio EXCEPT ![audiothread] = Append(@, ExitAudio)] /\ sipPc' = pc
  <2> DEFINE old == toAudio[audiothread]
  <2>1. ~Told(audiothread) /\ old \in Seq(ToAudioMsgs)
    BY <1>1 DEF AudioShape
  <2>2. ~In(ExitAudio, old) /\ Distinct(old)
    BY <1>1, <2>1, ExitTells DEF AudioOnce
  <2>3. /\ Distinct(Append(old, ExitAudio))
        /\ \A m : In(m, Append(old, ExitAudio)) => In(m, old) \/ m = ExitAudio
    BY <2>1, <2>2, InAppend, MessagesDiffer
  <2>4. \A c \in Calls : toAudio'[c] = IF c = audiothread THEN Append(old, ExitAudio)
                                                          ELSE toAudio[c]
    BY <1>1, <1>3
  <2>5. \A c \in Calls : /\ In(InitAudio(c), toAudio'[c]) => In(InitAudio(c), toAudio[c])
                         /\ In(InitAudio(NoCall), toAudio'[c]) => In(InitAudio(NoCall), toAudio[c])
    BY <2>3, <2>4, MessagesDiffer
  <2>6. \A c \in Calls : Distinct(toAudio'[c])
    BY <2>3, <2>4 DEF AudioOnce
  <2> QED BY <1>3, <2>5, <2>6 DEF AudioOnce, HasInit
<1> QED BY <1>1, <1>2, <1>3 DEF CallEnd, TellsAudioExit, ExitAudio

\* Every step sends each command and each event at most once.
LEMMA AudioOnceStep ==
  Typed /\ EventShape /\ AudioShape /\ DialShape /\ AudioOnce /\ [Next]_vars => AudioOnce'
<1> SUFFICES ASSUME Typed, EventShape, AudioShape, DialShape, AudioOnce, [Next]_vars
             PROVE  AudioOnce'
  OBVIOUS
<1>0. AudioOnce
  OBVIOUS
<1>t. /\ toAudio \in [Calls -> Seq(ToAudioMsgs)]
      /\ fromAudio \in [Calls -> Seq(FromAudioMsgs)]
      /\ audioPc \in [Calls -> {"none", "start", "poll", "serial", "done"}]
      /\ curCall \in Calls \cup {NoCall}
      /\ audiothread \in Calls \cup {NoCall}
      /\ curCall # NoCall => audiothread = curCall
      /\ dialled \subseteq Calls
  BY DEF Typed, TypeOK, Serving
<1>l. Len(<<>>) = 0 /\ \A m : ~In(m, <<>>)
  BY InEmpty
\* Most steps do nothing with it.
<1>q. ASSUME UNCHANGED <<fromAudio, toAudio, audioPc, dialled>>,
             \/ audiothread' = audiothread
                  /\ (sipPc' = sipPc \/ sipPc \notin {"join_events", "join_closing"})
             \/ audiothread' = NoCall
      PROVE  AudioOnce'
  BY <1>0, <1>q DEF AudioOnce, HasInit
<1>c. ASSUME NEW f, Crash(f) PROVE AudioOnce'
  BY <1>c, <1>q DEF Crash
<1>1. CASE SipInit
  BY <1>1, <1>q DEF SipInit
<1>2. CASE SipPoll
  BY <1>2, <1>q DEF SipPoll
<1>3. CASE SipJoin
  BY <1>3, <1>q DEF SipJoin
<1>4. CASE SipClose
  <2>1. CASE curCall # NoCall
    BY <1>t, <1>4, <2>1, CallEndOnce DEF SipClose
  <2>2. CASE curCall = NoCall
    BY <1>4, <1>q, <2>2 DEF SipClose
  <2> QED BY <2>1, <2>2
<1>5. CASE SipCoreExit \/ SipCoreRegister
  BY <1>5, <1>q DEF SipCoreExit, SipCoreRegister
<1>7. CASE SipCoreCallInProgress
  BY <1>7, <1>q DEF SipCoreCallInProgress, Crash
<1>8. CASE InviteDropped
  BY <1>8, <1>q DEF InviteDropped
<1>9. CASE InviteUnconfigured \/ InviteFails
  BY <1>9, <1>q DEF InviteUnconfigured, InviteFails, Crash
<1>10. CASE InviteAccepted
  <2>1. sipEvents # <<>> /\ Head(sipEvents).type = "INVITE"
    BY <1>10 DEF InviteAccepted, IsFirstInvite, IsInvite
  <2>2. Head(sipEvents) \in Events /\ In(Head(sipEvents), sipEvents)
    BY <2>1, InTail, HeadTailType DEF Typed, TypeOK
  <2>3. PICK c \in Calls : c = Head(sipEvents).cid
    BY <2>2, PayloadTypes
  <2>4. /\ audioPc[c] = "none" /\ audiothread' = c
        /\ audioPc' = [audioPc EXCEPT ![c] = "start"]
        /\ UNCHANGED <<fromAudio, toAudio, dialled>>
    BY <1>10, <2>1, <2>2, <2>3 DEF InviteAccepted, EventShape
  <2>5. \A d \in Calls : audioPc'[d] = IF d = c THEN "start" ELSE audioPc[d]
    BY <1>t, <2>4
  <2> QED BY <1>0, <2>3, <2>4, <2>5 DEF AudioOnce, HasInit
<1>12. CASE EventEndsCall
  <2>1. Head(sipEvents) \in Events
    BY <1>12 DEF Typed, TypeOK, EventEndsCall
  <2>2. curCall \in Calls
    BY <1>12, <2>1, PayloadTypes DEF EventEndsCall, EndsCurrent
  <2>3. /\ sipPc = "events" /\ CallEnd("join_events")
        /\ UNCHANGED <<fromAudio, audioPc, dialled, audiothread>>
    BY <1>12 DEF EventEndsCall
  <2> QED BY <2>2, <2>3, CallEndOnce
<1>13. CASE EventIgnored \/ EventsDrained
  BY <1>13, <1>q DEF EventIgnored, EventsDrained
\* The event of the audio thread that the SIP thread listens to is its only one.
<1>e. ASSUME sipPc = "audio", fromAudio' = [fromAudio EXCEPT ![audiothread] = Tail(@)]
      PROVE  \E c \in Calls :
               /\ c = audiothread /\ fromAudio[c] # <<>>
               /\ \A d \in Calls : fromAudio'[d] = IF d = c THEN <<>> ELSE fromAudio[d]
  <2>1. PICK c \in Calls : c = audiothread /\ fromAudio[c] # <<>>
    BY <1>t, <1>e DEF Typed, Serving, AudioReadable
  <2>2. fromAudio[c] \in Seq(FromAudioMsgs) /\ Len(fromAudio[c]) <= 1
    BY <1>0, <1>t DEF AudioOnce
  <2>3. Tail(fromAudio[c]) = <<>>
    BY <2>1, <2>2, OnlyEvent
  <2> QED BY <1>t, <1>e, <2>1, <2>3
<1>15. CASE SipAudioReady
  <2>1. sipPc = "audio" /\ UNCHANGED <<audioPc, dialled, curCall, audiothread>>
    BY <1>15 DEF SipAudioReady, AudioEvent
  <2>2. PICK c \in Calls :
          /\ c = audiothread /\ fromAudio[c] # <<>>
          /\ \A d \in Calls : fromAudio'[d] = IF d = c THEN <<>> ELSE fromAudio[d]
    BY <1>15, <1>e, <2>1 DEF SipAudioReady
  <2>3. PICK x \in {c, NoCall} : x = curCall
    BY <1>t, <2>2
  <2>4. PICK ch \in Posted(toAudio[c], InitAudio(x)) : toAudio' = [toAudio EXCEPT ![c] = ch]
    BY <1>15, <2>2, <2>3 DEF SipAudioReady, InitAudio
  <2>5. /\ ~In(InitAudio(c), toAudio[c]) /\ ~In(InitAudio(NoCall), toAudio[c])
        /\ Distinct(toAudio[c])
        /\ c \notin dialled /\ audioPc[c] \notin {"none", "start"}
    BY <1>0, <2>2 DEF AudioOnce, HasInit
  <2>6. toAudio[c] \in Seq(ToAudioMsgs) /\ InitAudio(x) \in ToAudioMsgs
    BY <1>t, MessagesDiffer
  <2>7. /\ Distinct(ch)
        /\ \A m : In(m, ch) => In(m, toAudio[c]) \/ m = InitAudio(x)
    BY <2>4, <2>5, <2>6, DistinctPosted, InPosted
  <2>8. InitAudio(c) # InitAudio(NoCall)
    BY NoCallAssumption DEF InitAudio, Msg
  <2>9. /\ Distinct(toAudio'[c])
        /\ ~(In(InitAudio(c), toAudio'[c]) /\ In(InitAudio(NoCall), toAudio'[c]))
        /\ \A d \in Calls : d # c => toAudio'[d] = toAudio[d]
    BY <1>t, <2>4, <2>5, <2>7, <2>8
  <2>10. ASSUME NEW d \in Calls
         PROVE  /\ Len(fromAudio'[d]) <= 1
                /\ Distinct(toAudio'[d])
                /\ ~(In(InitAudio(d), toAudio'[d]) /\ In(InitAudio(NoCall), toAudio'[d]))
                /\ audioPc'[d] \in {"none", "start"} => fromAudio'[d] = <<>> /\ ~HasInit(d)'
                /\ fromAudio'[d] # <<>> => ~HasInit(d)'
                /\ d \in dialled' => /\ audioPc'[d] \notin {"none", "start"}
                                     /\ fromAudio'[d] = <<>>
                                     /\ ~HasInit(d)'
    <3>1. CASE d = c
      BY <1>l, <2>1, <2>2, <2>5, <2>9, <3>1
    <3>2. CASE d # c
      BY <1>0, <2>1, <2>2, <2>9, <3>2 DEF AudioOnce, HasInit
    <3> QED BY <3>1, <3>2
  <2>11. ~In(RtpOk(audiothread), fromAudio[audiothread])'
    BY <1>l, <2>1, <2>2
  <2> QED BY <2>10, <2>11 DEF AudioOnce
<1>16. CASE SipAudioRtpOk
  <2>1. CASE curCall = NoCall
    BY <1>16, <1>c, <2>1 DEF SipAudioRtpOk
  <2>2. CASE curCall # NoCall
    <3>1. /\ sipPc = "audio" /\ UNCHANGED <<audioPc, toAudio, audiothread>>
          /\ dialled' \subseteq dialled \cup {curCall}
      BY <1>16, <2>2 DEF SipAudioRtpOk, AudioEvent
    <3>2. PICK c \in Calls :
            /\ c = audiothread /\ fromAudio[c] # <<>>
            /\ \A d \in Calls : fromAudio'[d] = IF d = c THEN <<>> ELSE fromAudio[d]
      BY <1>16, <1>e, <2>2, <3>1 DEF SipAudioRtpOk
    <3>3. ~HasInit(c) /\ audioPc[c] \notin {"none", "start"} /\ c = curCall
      BY <1>0, <1>t, <2>2, <3>2 DEF AudioOnce
    <3>4. ~In(RtpOk(audiothread), fromAudio[audiothread])'
      BY <1>l, <3>1, <3>2
    <3> QED BY <1>0, <1>l, <3>1, <3>2, <3>3, <3>4 DEF AudioOnce, HasInit
  <2> QED BY <2>1, <2>2
<1>17. CASE CoreReady \/ CoreIncomingCall \/ CoreStop \/ CoreJoin
  BY <1>17, <1>q DEF CoreReady, CoreIncomingCall, CoreStop, CoreJoin
<1>21. ASSUME NEW c \in Calls, AudioStart(c) PROVE AudioOnce'
  <2>1. CASE Crash("astate_shared")
    BY <1>c, <2>1
  <2>2. CASE ~Crash("astate_shared")
    <3>1. /\ audioPc[c] = "start" /\ fromAudio[c] = <<>> /\ ~HasInit(c) /\ c \notin dialled
      BY <1>0, <1>21 DEF AudioOnce, AudioStart
    <3>2. /\ UNCHANGED <<toAudio, sipPc, audiothread, dialled>>
          /\ \/ /\ audioPc' = [audioPc EXCEPT ![c] = "poll"]
                /\ \E ch \in Posted(fromAudio[c], AudioReady) :
                     fromAudio' = [fromAudio EXCEPT ![c] = ch]
             \/ audioPc' = [audioPc EXCEPT ![c] = "done"] /\ UNCHANGED fromAudio
      BY <1>21, <2>2 DEF AudioStart, AudioReady
    <3>3. CASE audioPc' = [audioPc EXCEPT ![c] = "done"] /\ UNCHANGED fromAudio
      <4>1. \A d \in Calls : audioPc'[d] = IF d = c THEN "done" ELSE audioPc[d]
        BY <1>t, <3>3
      <4> QED BY <1>0, <1>l, <3>1, <3>2, <3>3, <4>1 DEF AudioOnce, HasInit
    <3>4. CASE /\ audioPc' = [audioPc EXCEPT ![c] = "poll"]
               /\ \E ch \in Posted(fromAudio[c], AudioReady) :
                    fromAudio' = [fromAudio EXCEPT ![c] = ch]
      <4>1. \A d \in Calls : audioPc'[d] = IF d = c THEN "poll" ELSE audioPc[d]
        BY <1>t, <3>4
      <4>2. /\ \A d \in Calls \ {c} : fromAudio'[d] = fromAudio[d]
            /\ Len(fromAudio'[c]) <= 1
        <5>1. PICK ch \in Posted(fromAudio[c], AudioReady) :
                fromAudio' = [fromAudio EXCEPT ![c] = ch]
          BY <3>4
        <5>2. AudioReady \in FromAudioMsgs
          BY MessageTypes DEF AudioReady
        <5>3. Len(ch) <= 1
          BY <1>t, <3>1, <5>1, <5>2, FirstPosted
        <5> QED BY <1>t, <5>1, <5>3
      <4>3. /\ audiothread # NoCall /\ sipPc \notin {"join_events", "join_closing"}
               /\ audioPc'[audiothread] = "done"
             => ~In(RtpOk(audiothread), fromAudio'[audiothread])
        <5>1. CASE audiothread = c
          BY <4>1, <5>1
        <5>2. CASE audiothread # c
          BY <1>0, <1>t, <4>1, <4>2, <5>2 DEF AudioOnce
        <5> QED BY <5>1, <5>2
      <4>4. ASSUME NEW d \in Calls
            PROVE  /\ Len(fromAudio'[d]) <= 1
                   /\ Distinct(toAudio'[d])
                   /\ ~(In(InitAudio(d), toAudio'[d]) /\ In(InitAudio(NoCall), toAudio'[d]))
                   /\ audioPc'[d] \in {"none", "start"} => fromAudio'[d] = <<>> /\ ~HasInit(d)'
                   /\ fromAudio'[d] # <<>> => ~HasInit(d)'
                   /\ d \in dialled' => /\ audioPc'[d] \notin {"none", "start"}
                                        /\ fromAudio'[d] = <<>>
                                        /\ ~HasInit(d)'
        <5>1. CASE d = c
          BY <1>0, <3>1, <3>2, <4>1, <4>2, <5>1 DEF AudioOnce, HasInit
        <5>2. CASE d # c
          BY <1>0, <3>1, <3>2, <4>1, <4>2, <5>2 DEF AudioOnce, HasInit
        <5> QED BY <5>1, <5>2
      <4> QED BY <3>2, <4>3, <4>4 DEF AudioOnce
    <3> QED BY <3>2, <3>3, <3>4
  <2> QED BY <2>1, <2>2
<1>22. ASSUME NEW c \in Calls, AudioRtpInit(c) PROVE AudioOnce'
  <2>1. CASE ~ConnectionAlive(c)
    BY <1>22, <1>c, <2>1 DEF AudioRtpInit
  <2>2. CASE ConnectionAlive(c)
    <3>1. /\ UNCHANGED <<toAudio, fromAudio, sipPc, audiothread, dialled>>
          /\ \E pc \in {"serial", "done"} : audioPc' = [audioPc EXCEPT ![c] = pc]
      BY <1>22, <2>2 DEF AudioRtpInit
    <3>2. HasInit(c)
      BY <1>22, InitInHand DEF AudioRtpInit
    <3>3. fromAudio[c] = <<>> /\ audioPc[c] \notin {"none", "start"}
      BY <1>0, <3>2 DEF AudioOnce
    <3>4. /\ \A d \in Calls \ {c} : audioPc'[d] = audioPc[d]
          /\ audioPc'[c] \in {"serial", "done"}
      BY <1>t, <3>1
    <3> QED BY <1>0, <1>l, <3>1, <3>3, <3>4 DEF AudioOnce, HasInit
  <2> QED BY <2>1, <2>2
<1>23. ASSUME NEW c \in Calls, AudioSerialInit(c) PROVE AudioOnce'
  <2>1. CASE ~ConnectionAlive(c)
    BY <1>23, <1>c, <2>1 DEF AudioSerialInit
  <2>2. CASE ConnectionAlive(c)
    <3>1. /\ audioPc[c] = "serial" /\ UNCHANGED <<sipPc, audiothread, dialled>>
          /\ toAudio' = [toAudio EXCEPT ![c] = Tail(@)]
          /\ \/ /\ audioPc' = [audioPc EXCEPT ![c] = "poll"]
                /\ \E ch \in Posted(fromAudio[c], RtpOk(c)) :
                     fromAudio' = [fromAudio EXCEPT ![c] = ch]
             \/ audioPc' = [audioPc EXCEPT ![c] = "done"] /\ UNCHANGED fromAudio
      BY <1>23, <2>2 DEF AudioSerialInit, AudioServed, RtpOk
    <3>2. toAudio[c] # <<>> /\ HasInit(c) /\ Head(toAudio[c]) = InitAudio(Head(toAudio[c]).payload)
          /\ Head(toAudio[c]).payload \in {c, NoCall}
      BY <3>1, InitInHand
    <3>3. Head(toAudio[c]) = InitAudio(c) /\ In(InitAudio(c), toAudio[c])
      <4>1. Head(toAudio[c]) = InitAudio(c)
        BY <2>2, <3>2 DEF ConnectionAlive
      <4> QED BY <1>t, <3>2, <4>1, InTail
    <3>4. /\ \A m : In(m, Tail(toAudio[c])) => In(m, toAudio[c])
          /\ ~In(InitAudio(c), Tail(toAudio[c])) /\ Distinct(Tail(toAudio[c]))
      BY <1>0, <1>t, <3>2, <3>3, InTail DEF AudioOnce
    <3>5. /\ fromAudio[c] = <<>> /\ c \notin dialled
          /\ ~In(InitAudio(NoCall), Tail(toAudio[c]))
      BY <1>0, <3>2, <3>3, <3>4 DEF AudioOnce
    <3>6. /\ \A d \in Calls \ {c} : toAudio'[d] = toAudio[d]
          /\ toAudio'[c] = Tail(toAudio[c])
      BY <1>t, <3>1
    <3>7. ~HasInit(c)' /\ Distinct(toAudio'[c])
      BY <3>4, <3>5, <3>6 DEF HasInit
    <3>8. CASE audioPc' = [audioPc EXCEPT ![c] = "done"] /\ UNCHANGED fromAudio
      <4>1. \A d \in Calls : audioPc'[d] = IF d = c THEN "done" ELSE audioPc[d]
        BY <1>t, <3>8
      <4> QED BY <1>0, <1>l, <3>1, <3>5, <3>6, <3>7, <3>8, <4>1 DEF AudioOnce, HasInit
    <3>9. CASE /\ audioPc' = [audioPc EXCEPT ![c] = "poll"]
               /\ \E ch \in Posted(fromAudio[c], RtpOk(c)) :
                    fromAudio' = [fromAudio EXCEPT ![c] = ch]
      <4>1. \A d \in Calls : audioPc'[d] = IF d = c THEN "poll" ELSE audioPc[d]
        BY <1>t, <3>9
      <4>2. /\ \A d \in Calls \ {c} : fromAudio'[d] = fromAudio[d]
            /\ Len(fromAudio'[c]) <= 1
        <5>1. PICK ch \in Posted(fromAudio[c], RtpOk(c)) :
                fromAudio' = [fromAudio EXCEPT ![c] = ch]
          BY <3>9
        <5>2. RtpOk(c) \in FromAudioMsgs
          BY MessageTypes DEF RtpOk
        <5>3. Len(ch) <= 1
          BY <1>t, <3>5, <5>1, <5>2, FirstPosted
        <5> QED BY <1>t, <5>1, <5>3
      <4>3. /\ audiothread # NoCall /\ sipPc \notin {"join_events", "join_closing"}
               /\ audioPc'[audiothread] = "done"
             => ~In(RtpOk(audiothread), fromAudio'[audiothread])
        <5>1. CASE audiothread = c
          BY <4>1, <5>1
        <5>2. CASE audiothread # c
          BY <1>0, <1>t, <4>1, <4>2, <5>2 DEF AudioOnce
        <5> QED BY <5>1, <5>2
      <4>4. ASSUME NEW d \in Calls
            PROVE  /\ Len(fromAudio'[d]) <= 1
                   /\ Distinct(toAudio'[d])
                   /\ ~(In(InitAudio(d), toAudio'[d]) /\ In(InitAudio(NoCall), toAudio'[d]))
                   /\ audioPc'[d] \in {"none", "start"} => fromAudio'[d] = <<>> /\ ~HasInit(d)'
                   /\ fromAudio'[d] # <<>> => ~HasInit(d)'
                   /\ d \in dialled' => /\ audioPc'[d] \notin {"none", "start"}
                                        /\ fromAudio'[d] = <<>>
                                        /\ ~HasInit(d)'
        <5>1. CASE d = c
          BY <1>0, <3>1, <3>5, <3>6, <3>7, <4>1, <4>2, <5>1 DEF AudioOnce, HasInit
        <5>2. CASE d # c
          BY <1>0, <3>1, <3>5, <3>6, <3>7, <4>1, <4>2, <5>2 DEF AudioOnce, HasInit
        <5> QED BY <5>1, <5>2
      <4> QED BY <3>1, <4>3, <4>4 DEF AudioOnce
    <3> QED BY <3>1, <3>8, <3>9
  <2> QED BY <2>1, <2>2
<1>24. ASSUME NEW c \in Calls, AudioExit(c) PROVE AudioOnce'
  <2>1. /\ audioPc[c] = "poll" /\ toAudio[c] # <<>>
        /\ Head(toAudio[c]).msgtype = "CMD_AUDIO_EXIT"
        /\ UNCHANGED <<fromAudio, sipPc, audiothread, dialled>>
        /\ audioPc' = [audioPc EXCEPT ![c] = "done"]
        /\ toAudio' = [toAudio EXCEPT ![c] = Tail(@)]
    BY <1>24 DEF AudioExit, AudioServed, AudioCommand
  <2>2. /\ \A m : In(m, Tail(toAudio[c])) => In(m, toAudio[c])
        /\ Distinct(Tail(toAudio[c]))
    BY <1>0, <1>t, <2>1, InTail DEF AudioOnce
  <2>3. /\ \A d \in Calls \ {c} : audioPc'[d] = audioPc[d] /\ toAudio'[d] = toAudio[d]
        /\ audioPc'[c] = "done" /\ toAudio'[c] = Tail(toAudio[c])
    BY <1>t, <2>1
  <2>4. /\ \A d \in Calls : \A m : In(m, toAudio'[d]) => In(m, toAudio[d])
        /\ \A d \in Calls : Distinct(toAudio'[d])
    BY <1>0, <2>2, <2>3 DEF AudioOnce
  <2>5. Told(c)
    <3>1. toAudio[c] \in Seq(ToAudioMsgs)
      BY <1>t
    <3>2. 1 \in DOMAIN toAudio[c] /\ toAudio[c][1] = Head(toAudio[c])
      BY <2>1, <3>1
    <3> QED BY <2>1, <3>2 DEF Told
  <2>6. c = audiothread => audiothread = NoCall \/ sipPc \in {"join_events", "join_closing"}
    BY <2>5 DEF AudioShape
  <2> QED BY <1>0, <1>t, <2>1, <2>3, <2>4, <2>6 DEF AudioOnce, HasInit
<1>25. ASSUME NEW c \in Calls, CallbackStep(c) PROVE AudioOnce'
  BY <1>25, <1>q DEF CallbackStep, CoreCallCreated, CoreCallStarted, Crash
<1>27. ASSUME NEW c \in Calls, NEW type \in EventTypes, NetworkEvent(c, type)
       PROVE  AudioOnce'
  BY <1>27, <1>q DEF NetworkEvent
<1>28. CASE UNCHANGED vars
  BY <1>28, <1>q
<1>29. CASE SipReceiveFails
  BY <1>29, <1>q DEF SipReceiveFails
<1> QED
  BY <1>1, <1>2, <1>3, <1>4, <1>5, <1>7, <1>8, <1>9, <1>10, <1>12, <1>13, <1>15,
     <1>16, <1>17, <1>21, <1>22, <1>23, <1>24, <1>25, <1>27, <1>28, <1>29
  DEF Next, Live, Resting, SipStep, CoreStep, AudioStep

LEMMA AudioOnceInvariant ==
  Spec => [](Typed /\ EventShape /\ AudioShape /\ DialShape /\ AudioOnce)
<1>1. Init => AudioOnce
  <2>1. Len(<<>>) = 0
    OBVIOUS
  <2> QED BY <2>1, InEmpty DEF Init, AudioOnce, HasInit, Distinct
<1> QED BY <1>1, AudioOnceStep, DialInvariant, PTL DEF Spec
-----------------------------------------------------------------------------
(* The SIP thread and the main thread *)

\* The SIP thread reports its readiness once, and the configuration follows it
\* once; the call that is dialled goes from SIP_EVENT_INCOMING_CALL to its MMCall
\* and from there to SIP_CMD_CALL_IN_PROGRESS; the exit command comes last.
CoreOnce ==
  /\ Distinct(toCore)
  /\ Distinct(toSip)
  /\ sipPc = "init" => ~In(Ready, toCore)
  /\ sipPc = "init" \/ In(Ready, toCore) => ~In(Register, toSip)
  /\ corePc = "running" => ~In(ExitSip, toSip)
  /\ \A c \in Calls :
       /\ In(Incoming(c), toCore) => mmCall[c] = "none"
       /\ mmCall[c] \in {"none", "creating", "starting"} => ~In(InProgress(c), toSip)

\* The event the main thread is about to serve, from its type.
LEMMA CoreHead ==
  ASSUME Typed, toCore # <<>>
  PROVE  /\ Tail(toCore) \in Seq(CoreMsgs)
         /\ In(Head(toCore), toCore)
         /\ \A m : In(m, Tail(toCore)) => In(m, toCore)
         /\ Distinct(toCore) => Distinct(Tail(toCore)) /\ ~In(Head(toCore), Tail(toCore))
         /\ Head(toCore).msgtype = "SIP_EVENT_READY" => Head(toCore) = Ready
         /\ Head(toCore).msgtype = "SIP_EVENT_INCOMING_CALL" =>
              Head(toCore).payload \in Calls /\ Head(toCore) = Incoming(Head(toCore).payload)
<1>1. toCore \in Seq(CoreMsgs)
  BY DEF Typed, TypeOK
<1>2. Head(toCore) \in CoreMsgs /\ Tail(toCore) \in Seq(CoreMsgs)
  BY <1>1, HeadTailType
<1>3. /\ Head(toCore).msgtype = "SIP_EVENT_READY" => Head(toCore) = Ready
      /\ Head(toCore).msgtype = "SIP_EVENT_INCOMING_CALL" =>
           Head(toCore).payload \in Calls /\ Head(toCore) = Incoming(Head(toCore).payload)
  BY <1>2 DEF CoreMsgs, Ready, Incoming, Msg
<1>4. /\ In(Head(toCore), toCore)
      /\ \A m : In(m, Tail(toCore)) => In(m, toCore)
      /\ Distinct(toCore) => Distinct(Tail(toCore)) /\ ~In(Head(toCore), Tail(toCore))
  BY <1>1, InTail
<1> QED BY <1>2, <1>3, <1>4

\* A command that is not there yet is posted: it alone is new.
LEMMA CommandPosted ==
  ASSUME Typed, NEW x \in SipMsgs, toSip' \in Posted(toSip, x),
         Distinct(toSip), ~In(x, toSip)
  PROVE  /\ Distinct(toSip')
         /\ \A m : In(m, toSip') => In(m, toSip) \/ m = x
<1>1. toSip \in Seq(SipMsgs)
  BY DEF Typed, TypeOK
<1> QED BY <1>1, DistinctPosted, InPosted

\* The SIP thread has read the command in hand.
LEMMA CommandRead ==
  ASSUME Typed, CoreOnce, sipPc = "core", toSip' = Tail(toSip), sipPc' # "init",
         UNCHANGED <<corePc, mmCall, toCore>>
  PROVE  CoreOnce'
<1>1. toSip \in Seq(SipMsgs) /\ toSip # <<>>
  BY DEF Typed, TypeOK, Serving
<1>2. /\ \A m : In(m, toSip') => In(m, toSip)
      /\ Distinct(toSip')
  BY <1>1, InTail DEF CoreOnce
<1> QED BY <1>2 DEF CoreOnce

\* Every step keeps it so.
LEMMA CoreOnceStep ==
  Typed /\ DialShape /\ AudioOnce /\ CoreOnce /\ [Next]_vars => CoreOnce'
<1> SUFFICES ASSUME Typed, DialShape, AudioOnce, CoreOnce, [Next]_vars
             PROVE  CoreOnce'
  OBVIOUS
<1>0. CoreOnce
  OBVIOUS
<1>t. /\ toSip \in Seq(SipMsgs)
      /\ toCore \in Seq(CoreMsgs)
      /\ mmCall \in [Calls -> {"none", "creating", "starting", "started", "failed"}]
      /\ curCall \in Calls \cup {NoCall}
      /\ curCall # NoCall => audiothread = curCall
  BY DEF Typed, TypeOK, Serving
\* Most steps do nothing with it: the SIP thread is set up once.
<1>q. ASSUME UNCHANGED <<corePc, mmCall, toSip, toCore>>,
             sipPc' = "init" => sipPc = "init"
      PROVE  CoreOnce'
  BY <1>0, <1>q DEF CoreOnce
<1>1. CASE SipInit
  <2>1. /\ sipPc = "init" /\ sipPc' # "init" /\ UNCHANGED <<corePc, mmCall, toSip>>
        /\ toCore' = toCore \/ toCore' \in Posted(toCore, Ready)
    BY <1>1 DEF SipInit, Ready
  <2>2. ~In(Ready, toCore) /\ ~In(Register, toSip) /\ Distinct(toCore)
    BY <1>0, <2>1 DEF CoreOnce
  <2>3. /\ Distinct(toCore')
        /\ \A c \in Calls : In(Incoming(c), toCore') => In(Incoming(c), toCore)
    <3>1. CASE toCore' = toCore
      BY <2>2, <3>1
    <3>2. CASE toCore' \in Posted(toCore, Ready)
      BY <1>t, <2>2, <3>2, MessagesDiffer, DistinctPosted, InPosted
    <3> QED BY <2>1, <3>1, <3>2
  <2> QED BY <1>0, <2>1, <2>2, <2>3 DEF CoreOnce
<1>2. CASE SipPoll
  BY <1>2, <1>q DEF SipPoll
<1>3. CASE SipJoin
  BY <1>3, <1>q DEF SipJoin
<1>4. CASE SipClose
  BY <1>4, <1>q DEF SipClose, CallEnd
<1>5. CASE SipCoreExit \/ SipCoreRegister
  BY <1>5, CommandRead DEF SipCoreExit, SipCoreRegister, LoopPc
<1>7. CASE SipCoreCallInProgress
  <2>1. CASE curCall = NoCall
    BY <1>7, <1>q, <2>1 DEF SipCoreCallInProgress, Crash
  <2>2. CASE curCall # NoCall
    BY <1>7, <2>2, CommandRead DEF SipCoreCallInProgress, LoopPc
  <2> QED BY <2>1, <2>2
<1>8. CASE InviteDropped
  BY <1>8, <1>q DEF InviteDropped
<1>9. CASE InviteUnconfigured \/ InviteFails
  BY <1>9, <1>q DEF InviteUnconfigured, InviteFails, Crash
<1>10. CASE InviteAccepted
  BY <1>10, <1>q DEF InviteAccepted
<1>12. CASE EventEndsCall
  BY <1>12, <1>q DEF EventEndsCall, CallEnd
<1>13. CASE EventIgnored \/ EventsDrained
  BY <1>13, <1>q DEF EventIgnored, EventsDrained
<1>15. CASE SipAudioReady
  BY <1>15, <1>q DEF SipAudioReady
<1>16. CASE SipAudioRtpOk
  <2>1. CASE curCall = NoCall
    BY <1>16, <1>q, <2>1 DEF SipAudioRtpOk, Crash
  <2>2. CASE curCall # NoCall
    <3>1. curCall \in Calls /\ fromAudio[curCall] # <<>>
      BY <1>t, <1>16, <2>2 DEF Typed, Serving, AudioReadable, SipAudioRtpOk, AudioEvent
    <3>2. curCall \notin dialled
      BY <3>1 DEF AudioOnce
    <3>3. Incoming(curCall) \in CoreMsgs
      BY <3>1, MessagesDiffer
    <3>4. ~In(Incoming(curCall), toCore) /\ mmCall[curCall] = "none"
      BY <1>t, <3>1, <3>2, <3>3 DEF DialShape, Incoming, Msg
    <3>5. /\ sipPc = "audio" /\ sipPc' = "poll" /\ UNCHANGED <<corePc, mmCall, toSip>>
          /\ toCore' = toCore \/ toCore' = Append(toCore, Incoming(curCall))
      BY <1>16, <3>1, NoCallAssumption DEF SipAudioRtpOk, AudioEvent, Incoming
    <3>6. CASE toCore' = toCore
      BY <1>q, <3>5, <3>6
    <3>7. CASE toCore' = Append(toCore, Incoming(curCall))
      <4>1. /\ Distinct(toCore')
            /\ \A m : In(m, toCore') => In(m, toCore) \/ m = Incoming(curCall)
        BY <1>0, <1>t, <3>3, <3>4, <3>7, InAppend DEF CoreOnce
      <4>2. /\ In(Ready, toCore') => In(Ready, toCore)
            /\ \A c \in Calls : In(Incoming(c), toCore') =>
                 In(Incoming(c), toCore) \/ c = curCall
        BY <3>1, <4>1, MessagesDiffer
      <4> QED BY <1>0, <3>4, <3>5, <4>1, <4>2 DEF CoreOnce
    <3> QED BY <3>5, <3>6, <3>7
  <2> QED BY <2>1, <2>2
<1>17. CASE CoreReady
  <2>1. /\ toCore # <<>> /\ Head(toCore) = Ready /\ toCore' = Tail(toCore)
        /\ toSip' = toSip \/ toSip' \in Posted(toSip, Register)
        /\ UNCHANGED <<corePc, mmCall, sipPc>>
    BY <1>17, CoreHead DEF CoreReady, CoreEvent, Register
  <2>2. /\ In(Ready, toCore)
        /\ \A m : In(m, toCore') => In(m, toCore)
        /\ Distinct(toCore') /\ ~In(Ready, toCore')
    BY <1>0, <2>1, CoreHead DEF CoreOnce
  <2>3. sipPc # "init" /\ ~In(Register, toSip) /\ Distinct(toSip)
    BY <1>0, <2>2 DEF CoreOnce
  <2>4. /\ Distinct(toSip')
        /\ In(ExitSip, toSip') => In(ExitSip, toSip)
        /\ \A c \in Calls : In(InProgress(c), toSip') => In(InProgress(c), toSip)
    <3>1. CASE toSip' = toSip
      BY <2>3, <3>1
    <3>2. CASE toSip' \in Posted(toSip, Register)
      BY <2>3, <3>2, MessagesDiffer, CommandPosted
    <3> QED BY <2>1, <3>1, <3>2
  <2> QED BY <1>0, <2>1, <2>2, <2>3, <2>4 DEF CoreOnce
<1>18. CASE CoreIncomingCall
  <2> DEFINE c == Head(toCore).payload
  <2>1. /\ toCore # <<>> /\ c \in Calls /\ Head(toCore) = Incoming(c)
        /\ toCore' = Tail(toCore)
        /\ \E pc \in {"creating", "failed"} : mmCall' = [mmCall EXCEPT ![c] = pc]
        /\ UNCHANGED <<corePc, toSip, sipPc>>
    BY <1>18, CoreHead DEF CoreIncomingCall, CoreEvent
  <2>2. /\ In(Incoming(c), toCore)
        /\ \A m : In(m, toCore') => In(m, toCore)
        /\ Distinct(toCore') /\ ~In(Incoming(c), toCore')
    BY <1>0, <2>1, CoreHead DEF CoreOnce
  <2> HIDE DEF c
  <2>3. \A d \in Calls : d # c => mmCall'[d] = mmCall[d]
    BY <1>t, <2>1
  <2>4. mmCall[c] = "none"
    BY <1>0, <2>1, <2>2 DEF CoreOnce
  <2> QED BY <1>0, <2>1, <2>2, <2>3, <2>4 DEF CoreOnce
<1>19. CASE CoreStop
  <2>1. /\ corePc = "running" /\ corePc' # "running" /\ UNCHANGED <<mmCall, toCore, sipPc>>
        /\ toSip' = toSip \/ toSip' = Append(toSip, ExitSip)
    BY <1>19 DEF CoreStop, ExitSip
  <2>2. ~In(ExitSip, toSip) /\ Distinct(toSip)
    BY <1>0, <2>1 DEF CoreOnce
  <2>3. /\ Distinct(toSip')
        /\ \A m : In(m, toSip') => In(m, toSip) \/ m = ExitSip
    <3>1. CASE toSip' = toSip
      BY <2>2, <3>1
    <3>2. CASE toSip' = Append(toSip, ExitSip)
      BY <1>t, <2>2, <3>2, MessagesDiffer, InAppend
    <3> QED BY <2>1, <3>1, <3>2
  <2>4. /\ In(Register, toSip') => In(Register, toSip)
        /\ \A c \in Calls : In(InProgress(c), toSip') => In(InProgress(c), toSip)
    BY <2>3, MessagesDiffer
  <2> QED BY <1>0, <2>1, <2>3, <2>4 DEF CoreOnce
<1>20. CASE CoreJoin
  <2>1. /\ toSip' = <<>> /\ toCore' = <<>> /\ corePc' = "stopped"
    BY <1>20 DEF CoreJoin
  <2>2. Distinct(<<>>)
    BY DEF Distinct
  <2> QED BY <2>1, <2>2, InEmpty DEF CoreOnce
<1>21. ASSUME NEW c \in Calls, AudioStep(c) PROVE CoreOnce'
  BY <1>21, <1>q
  DEF AudioStep, AudioStart, AudioRtpInit, AudioSerialInit, AudioExit, Crash
<1>25. ASSUME NEW c \in Calls, CoreCallCreated(c) PROVE CoreOnce'
  <2>1. /\ mmCall[c] = "creating" /\ UNCHANGED <<corePc, toSip, toCore, sipPc>>
        /\ \E pc \in {"starting", "failed"} : mmCall' = [mmCall EXCEPT ![c] = pc]
    BY <1>25 DEF CoreCallCreated
  <2>2. \A d \in Calls : d # c => mmCall'[d] = mmCall[d]
    BY <1>t, <2>1
  <2> QED BY <1>0, <2>1, <2>2 DEF CoreOnce
<1>26. ASSUME NEW c \in Calls, CoreCallStarted(c) PROVE CoreOnce'
  <2>1. CASE UNCHANGED <<corePc, mmCall, toSip, toCore, sipPc>>
    BY <1>q, <2>1
  <2>2. CASE /\ mmCall[c] = "starting" /\ UNCHANGED <<corePc, toCore, sipPc>>
             /\ toSip' = toSip \/ toSip' \in Posted(toSip, InProgress(c))
             /\ \E pc \in {"started", "failed"} : mmCall' = [mmCall EXCEPT ![c] = pc]
    <3>1. ~In(InProgress(c), toSip) /\ ~In(Incoming(c), toCore) /\ Distinct(toSip)
      BY <1>0, <2>2 DEF CoreOnce
    <3>2. /\ Distinct(toSip')
          /\ \A m : In(m, toSip') => In(m, toSip) \/ m = InProgress(c)
      <4>1. CASE toSip' = toSip
        BY <3>1, <4>1
      <4>2. CASE toSip' \in Posted(toSip, InProgress(c))
        BY <3>1, <4>2, MessagesDiffer, CommandPosted
      <4> QED BY <2>2, <4>1, <4>2
    <3>3. /\ In(Register, toSip') => In(Register, toSip)
          /\ In(ExitSip, toSip') => In(ExitSip, toSip)
          /\ \A d \in Calls : In(InProgress(d), toSip') => In(InProgress(d), toSip) \/ d = c
      BY <3>2, MessagesDiffer
    <3>4. /\ \A d \in Calls : d # c => mmCall'[d] = mmCall[d]
          /\ mmCall'[c] \in {"started", "failed"}
      BY <1>t, <2>2
    <3> QED BY <1>0, <2>2, <3>1, <3>2, <3>3, <3>4 DEF CoreOnce
  <2> QED BY <1>26, <2>1, <2>2 DEF CoreCallStarted, Crash, InProgress
<1>27. ASSUME NEW c \in Calls, NEW type \in EventTypes, NetworkEvent(c, type)
       PROVE  CoreOnce'
  BY <1>27, <1>q DEF NetworkEvent
<1>28. CASE UNCHANGED vars
  BY <1>28, <1>q
<1>29. CASE SipReceiveFails
  BY <1>29, <1>q DEF SipReceiveFails
<1> QED
  BY <1>1, <1>2, <1>3, <1>4, <1>5, <1>7, <1>8, <1>9, <1>10, <1>12, <1>13, <1>15,
     <1>16, <1>17, <1>18, <1>19, <1>20, <1>21, <1>25, <1>26, <1>27, <1>28, <1>29
  DEF Next, Live, Resting, SipStep, CoreStep, CallbackStep

\* CoreOnce holds in every reachable state, and so does all it rests on.
LEMMA CoreOnceInvariant ==
  Spec => [](Typed /\ EventShape /\ AudioShape /\ DialShape /\ AudioOnce /\ CoreOnce)
<1>1. Init => CoreOnce
  <2>1. Distinct(<<>>)
    BY DEF Distinct
  <2> QED BY <2>1, InEmpty DEF Init, CoreOnce
<1> QED BY <1>1, CoreOnceStep, AudioOnceInvariant, PTL DEF Spec

\* A SIP call makes ModemManager create an MMCall at most once: its number is
\* announced once, and before that no MMCall was asked for.
THEOREM MMCallCreatedOnceHolds == Spec => MMCallCreatedOnce
<1>1. ASSUME Typed, CoreOnce, [Next]_vars
      PROVE  [\A c \in Calls : mmCall'[c] = "creating" => mmCall[c] \in {"none", "creating"}]_vars
  <2> DEFINE Once == \A c \in Calls : mmCall'[c] = "creating" => mmCall[c] \in {"none", "creating"}
  <2>t. mmCall \in [Calls -> {"none", "creating", "starting", "started", "failed"}]
    BY <1>1 DEF Typed, TypeOK
  <2>1. CASE CoreIncomingCall
    <3> DEFINE c == Head(toCore).payload
    <3>1. /\ c \in Calls /\ In(Incoming(c), toCore)
          /\ \E pc \in {"creating", "failed"} : mmCall' = [mmCall EXCEPT ![c] = pc]
      BY <1>1, <2>1, CoreHead DEF CoreIncomingCall, CoreEvent
    <3> HIDE DEF c
    <3>2. mmCall[c] = "none"
      BY <1>1, <3>1 DEF CoreOnce
    <3> QED BY <2>t, <3>1, <3>2
  <2>2. ASSUME NEW c \in Calls, CallbackStep(c) PROVE Once
    BY <2>t, <2>2 DEF CallbackStep, CoreCallCreated, CoreCallStarted, Crash
  <2>3. CASE UNCHANGED mmCall
    BY <2>3
  <2>4. UNCHANGED mmCall \/ CoreIncomingCall \/ \E c \in Calls : CallbackStep(c)
    <3>1. CASE SipStep
      BY <3>1 DEF SipStep, SipInit, SipPoll, SipJoin, SipClose, SipReceiveFails, SipCoreExit,
         SipCoreRegister, SipCoreCallInProgress, InviteDropped, InviteUnconfigured,
         InviteAccepted, InviteFails, EventEndsCall, EventIgnored, EventsDrained,
         SipAudioReady, SipAudioRtpOk, Crash
    <3>2. ASSUME NEW c \in Calls, AudioStep(c) PROVE UNCHANGED mmCall
      BY <3>2 DEF AudioStep, AudioStart, AudioRtpInit, AudioSerialInit, AudioExit, Crash
    <3>3. CASE CoreReady \/ CoreJoin \/ CoreStop
      BY <3>3 DEF CoreReady, CoreJoin, CoreStop
    <3>4. ASSUME NEW c \in Calls, NEW type \in EventTypes, NetworkEvent(c, type)
          PROVE  UNCHANGED mmCall
      BY <3>4 DEF NetworkEvent
    <3> QED BY <1>1, <3>1, <3>2, <3>3, <3>4 DEF Next, Live, Resting, CoreStep
  <2> QED BY <2>1, <2>2, <2>3, <2>4
<1> QED BY <1>1, CoreOnceInvariant, PTL DEF Spec, MMCallCreatedOnce
-----------------------------------------------------------------------------
(* How much the channels may hold *)

\* Messages that are all different are no more than there are messages.
LEMMA DistinctLength ==
  ASSUME NEW S, IsFiniteSet(S), NEW ch \in Seq(S), Distinct(ch)
  PROVE  Len(ch) \in Nat /\ Len(ch) <= Cardinality(S)
<1>1. Len(ch) \in Nat /\ ch \in [1..Len(ch) -> S]
  OBVIOUS
<1>2. ch \in Injection(1..Len(ch), S)
  BY <1>1 DEF Distinct, Injection, IsInjective
<1>3. Cardinality(1..Len(ch)) <= Cardinality(S)
  BY <1>2, FS_Injection
<1>4. Cardinality(1..Len(ch)) = Len(ch)
  BY <1>1, FS_Interval
<1> QED BY <1>1, <1>3, <1>4

\* There are at most as many messages of a type that names a call as calls.
LEMMA MessagesPerCall ==
  ASSUME IsFiniteSet(Calls), NEW type
  PROVE  LET msgs == { Msg(type, c) : c \in Calls }
         IN  IsFiniteSet(msgs) /\ Cardinality(msgs) <= Cardinality(Calls)
<1> DEFINE msgs == { Msg(type, c) : c \in Calls }
           f == [c \in Calls |-> Msg(type, c)]
<1>1. f \in Surjection(Calls, msgs)
  BY DEF Surjection
<1> QED BY <1>1, FS_Surjection

\* One more message makes one more at most.
LEMMA OneMore ==
  ASSUME NEW S, IsFiniteSet(S), NEW x
  PROVE  LET T == S \cup {x}
         IN  /\ IsFiniteSet(T) /\ Cardinality(T) \in Nat
             /\ Cardinality(T) <= Cardinality(S) + 1
<1>1. Cardinality(S) \in Nat /\ IsFiniteSet(S \cup {x})
  BY FS_CardinalityType, FS_AddElement
<1>2. \/ Cardinality(S \cup {x}) = Cardinality(S)
      \/ Cardinality(S \cup {x}) = Cardinality(S) + 1
  BY FS_AddElement
<1> QED BY <1>1, <1>2

\* So the two channels can hold no more than this.
LEMMA MessageCount ==
  ASSUME IsFiniteSet(Calls)
  PROVE  /\ IsFiniteSet(SipMsgs) /\ Cardinality(SipMsgs) <= Cardinality(Calls) + 2
         /\ IsFiniteSet(CoreMsgs) /\ Cardinality(CoreMsgs) <= Cardinality(Calls) + 1
         /\ Cardinality(SipMsgs) \in Nat /\ Cardinality(CoreMsgs) \in Nat
         /\ Cardinality(Calls) \in Nat
<1> DEFINE sip  == { Msg("SIP_CMD_CALL_IN_PROGRESS", c) : c \in Calls }
           sip1 == sip \cup {Msg("SIP_CMD_EXIT", NoCall)}
           core == { Msg("SIP_EVENT_INCOMING_CALL", c) : c \in Calls }
<1>1. /\ IsFiniteSet(sip) /\ Cardinality(sip) <= Cardinality(Calls)
      /\ IsFiniteSet(core) /\ Cardinality(core) <= Cardinality(Calls)
  BY MessagesPerCall
<1>2. SipMsgs = sip1 \cup {Msg("SIP_CMD_REGISTER", NoCall)}
  BY DEF SipMsgs
<1>3. CoreMsgs = core \cup {Msg("SIP_EVENT_READY", NoCall)}
  BY DEF CoreMsgs
<1>4. IsFiniteSet(sip1) /\ Cardinality(sip1) \in Nat /\ Cardinality(sip1) <= Cardinality(sip) + 1
  BY <1>1, OneMore
<1> HIDE DEF sip, sip1, core
<1>5. /\ IsFiniteSet(SipMsgs) /\ Cardinality(SipMsgs) \in Nat
      /\ Cardinality(SipMsgs) <= Cardinality(sip1) + 1
  BY <1>2, <1>4, OneMore
<1>6. /\ IsFiniteSet(CoreMsgs) /\ Cardinality(CoreMsgs) \in Nat
      /\ Cardinality(CoreMsgs) <= Cardinality(core) + 1
  BY <1>1, <1>3, OneMore
<1>7. /\ Cardinality(Calls) \in Nat /\ Cardinality(sip) \in Nat /\ Cardinality(core) \in Nat
  BY <1>1, FS_CardinalityType
<1> QED BY <1>1, <1>4, <1>5, <1>6, <1>7

\* An audio thread is sent two commands at most.
LEMMA AudioCommands ==
  ASSUME Typed, AudioShape, AudioOnce, NEW c \in Calls
  PROVE  Len(toAudio[c]) <= 2
<1>1. toAudio[c] \in Seq(ToAudioMsgs) /\ Distinct(toAudio[c])
  BY DEF Typed, TypeOK, AudioOnce
<1>2. PICK x \in {c, NoCall} : ~In(InitAudio(IF x = c THEN NoCall ELSE c), toAudio[c])
  BY NoCallAssumption DEF AudioOnce
<1>3. \A i \in 1..Len(toAudio[c]) : toAudio[c][i] \in {ExitAudio, InitAudio(x)}
  <2> SUFFICES ASSUME NEW i \in 1..Len(toAudio[c])
               PROVE  toAudio[c][i] \in {ExitAudio, InitAudio(x)}
    OBVIOUS
  <2> DEFINE m == toAudio[c][i]
  <2>1. m \in ToAudioMsgs /\ In(m, toAudio[c])
    BY <1>1 DEF In
  <2>2. m.msgtype = "CMD_AUDIO_INIT" => m.payload \in {c, NoCall}
    BY <2>1 DEF AudioShape
  <2>3. m = ExitAudio \/ m \in {InitAudio(c), InitAudio(NoCall)}
    BY <2>1, <2>2 DEF ToAudioMsgs, ExitAudio, InitAudio, Msg
  <2> HIDE DEF m
  <2> QED BY <1>2, <2>1, <2>3, NoCallAssumption DEF m
<1>4. ASSUME Len(toAudio[c]) > 2 PROVE FALSE
  <2>1. {1, 2, 3} \subseteq 1..Len(toAudio[c])
    BY <1>1, <1>4
  <2> QED BY <1>1, <1>3, <2>1 DEF Distinct
<1>5. Len(toAudio[c]) \in Nat
  BY <1>1
<1> QED BY <1>4, <1>5

\* The socket pairs never hold more commands than there are calls and two more,
\* those of an audio thread never more than two: this is what AvThreadComm takes
\* for granted when it lets no writer of the SIP threads wait.
THEOREM ChannelsBoundedHolds == ASSUME IsFiniteSet(Calls) PROVE Spec => []ChannelsBounded
<1>1. Typed /\ AudioShape /\ AudioOnce /\ CoreOnce => ChannelsBounded
  <2> SUFFICES ASSUME Typed, AudioShape, AudioOnce, CoreOnce PROVE ChannelsBounded
    OBVIOUS
  <2>1. toSip \in Seq(SipMsgs) /\ toCore \in Seq(CoreMsgs) /\ Distinct(toSip) /\ Distinct(toCore)
    BY DEF Typed, TypeOK, CoreOnce
  <2>2. /\ Len(toSip) \in Nat /\ Len(toSip) <= Cardinality(SipMsgs)
        /\ Len(toCore) \in Nat /\ Len(toCore) <= Cardinality(CoreMsgs)
    BY <2>1, MessageCount, DistinctLength
  <2>3. Len(toSip) <= Cardinality(Calls) + 2 /\ Len(toCore) <= Cardinality(Calls) + 1
    BY <2>2, MessageCount
  <2>4. ASSUME NEW c \in Calls PROVE Len(toAudio[c]) <= 2 /\ Len(fromAudio[c]) <= 2
    <3>1. Len(fromAudio[c]) \in Nat /\ Len(fromAudio[c]) <= 1
      BY DEF Typed, TypeOK, AudioOnce
    <3> QED BY <3>1, AudioCommands
  <2> QED BY <2>3, <2>4 DEF ChannelsBounded
<1> QED BY <1>1, CoreOnceInvariant, PTL
-----------------------------------------------------------------------------
(* How calls end *)

\* While the SIP thread joins the audio thread because of an event, it is a
\* termination event of the call in progress.
EndShape ==
  sipPc = "join_events" => \E type \in EndEvents : Event(type, curCall) \in happened

\* Every step keeps EndShape, and gives up the call in progress as it says.
LEMMA EndStep ==
  ASSUME Typed, EventShape, EndShape, [Next]_vars
  PROVE  /\ EndShape'
         /\ curCall # NoCall /\ curCall' # curCall =>
              /\ curCall' = NoCall
              /\ \/ sipPc \in {"join_events", "closing", "join_closing"}
                 \/ \E type \in EndEvents : Event(type, curCall) \in happened
<1>0. EndShape
  OBVIOUS
\* Most steps neither start nor end the wait for the audio thread.
<1>q. ASSUME UNCHANGED <<curCall, happened>>,
             UNCHANGED sipPc \/ sipPc' \in {"poll", "core", "events", "audio", "closing", "done", "join_closing"}
      PROVE  EndShape' /\ curCall' = curCall
  BY <1>0, <1>q DEF EndShape
<1>1. CASE \/ SipInit \/ SipPoll \/ SipCoreExit \/ SipCoreRegister \/ SipReceiveFails
           \/ SipAudioReady \/ SipAudioRtpOk
  BY <1>1, <1>q DEF SipInit, SipPoll, SipCoreExit, SipCoreRegister, SipReceiveFails,
     SipAudioReady, SipAudioRtpOk, LoopPc, Crash
<1>2. CASE SipCoreCallInProgress
  BY <1>2, <1>q DEF SipCoreCallInProgress, LoopPc, Crash
<1>3. CASE SipJoin
  BY <1>3 DEF SipJoin, EndShape
<1>4. CASE SipClose
  BY <1>4 DEF SipClose, CallEnd, EndShape
<1>5. CASE InviteDropped \/ InviteUnconfigured \/ InviteFails
  BY <1>5, <1>q DEF InviteDropped, InviteUnconfigured, InviteFails, Crash
<1>6. CASE InviteAccepted
  BY <1>6 DEF InviteAccepted, IsFirstInvite, IsInvite, EndShape
<1>7. CASE EventEndsCall
  <2> DEFINE e == Head(sipEvents)
  <2>1. e \in Events /\ In(e, sipEvents)
    BY <1>7, InTail, HeadTailType DEF Typed, TypeOK, EventEndsCall
  <2>2. e \in happened
    BY <2>1 DEF EventShape
  <2>3. e = Event(e.type, curCall) /\ e.type \in EndEvents
    BY <1>7, <2>1, PayloadTypes DEF EventEndsCall, EndsCurrent
  <2>4. /\ UNCHANGED happened
        /\ curCall' = curCall \/ (curCall' = NoCall /\ UNCHANGED sipPc)
        /\ sipPc = "events"
    BY <1>7 DEF EventEndsCall, CallEnd
  <2> HIDE DEF e
  <2> QED BY <2>2, <2>3, <2>4 DEF EndShape
<1>8. CASE EventIgnored \/ EventsDrained
  BY <1>8, <1>q DEF EventIgnored, EventsDrained
<1>9. CASE CoreReady \/ CoreIncomingCall \/ CoreStop \/ CoreJoin
  BY <1>9, <1>q DEF CoreReady, CoreIncomingCall, CoreStop, CoreJoin
<1>10. ASSUME NEW c \in Calls, AudioStep(c) \/ CallbackStep(c)
       PROVE  EndShape' /\ curCall' = curCall
  BY <1>10, <1>q DEF AudioStep, CallbackStep, AudioStart, AudioRtpInit, AudioSerialInit,
     AudioExit, CoreCallCreated, CoreCallStarted, Crash
<1>11. ASSUME NEW c \in Calls, NEW type \in EventTypes, NetworkEvent(c, type)
       PROVE  EndShape' /\ curCall' = curCall
  BY <1>0, <1>11 DEF NetworkEvent, EndShape
<1>12. CASE UNCHANGED vars
  BY <1>12, <1>q
<1> QED
  BY <1>1, <1>2, <1>3, <1>4, <1>5, <1>6, <1>7, <1>8, <1>9, <1>10, <1>11, <1>12
  DEF Next, Live, Resting, SipStep, CoreStep

\* A call in progress ends by a termination event of its own or with the SIP
\* thread, and is never replaced.
THEOREM EndedByOwnEventHolds == Spec => EndedByOwnEvent
<1>1. Init => EndShape
  BY DEF Init, EndShape
<1>2. Typed /\ EventShape /\ EndShape /\ [Next]_vars => EndShape'
  BY EndStep
<1>3. ASSUME Typed, EventShape, EndShape, [Next]_vars
      PROVE  [curCall # NoCall /\ curCall' # curCall =>
                /\ curCall' = NoCall
                /\ \/ sipPc \in {"closing", "join_closing"}
                   \/ \E type \in EndEvents : Event(type, curCall) \in happened]_vars
  BY <1>3, EndStep DEF EndShape
<1> QED BY <1>1, <1>2, <1>3, EventInvariant, PTL DEF Spec, EndedByOwnEvent
=============================================================================

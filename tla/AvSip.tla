------------------------------- MODULE AvSip -------------------------------
(***************************************************************************)
(* The SIP side of one modem: the SIP thread (av_sip.c), the audio thread  *)
(* it runs per accepted call (av_audio.c), and the part of the main thread *)
(* that talks to it (av_mm_voice.c, av_mm_call.c).  The threads share no   *)
(* lock: they exchange commands over socket pairs (av_thread.c,            *)
(* av_threadcomm.c), each direction of which is a FIFO channel here, and   *)
(* hand over pointers in them.                                             *)
(*                                                                         *)
(* A value of Calls stands for everything one SIP call brings along: its   *)
(* cid, its INVITE event, its av_rtp_connection, its audio thread, the     *)
(* local RTP port of that thread, the number it dials and the path of the  *)
(* MMCall created for it.  The properties only tell apart whose they are.  *)
(***************************************************************************)
EXTENDS Naturals, Sequences, FiniteSets

CONSTANTS
  Calls,      \* the SIP calls the network may bring
  NoCall,     \* no call: the NULL of the pointers above
  Failures,   \* the kinds of failure that may happen in a run
  Traffic     \* the types of event the network may bring in a run

FailureKinds ==
  { "stack",     \* eXosip or timerfd set-up
    "config",    \* the configuration of the modem: missing, or incomplete
    "register",  \* building or sending the SIP REGISTER
    "thread",    \* socketpair or g_thread_try_new
    "audio",     \* RTP session or serial port
    "number",    \* no destination number in the INVITE, or an empty one
    "mm",        \* creating or starting the MMCall
    "answer",    \* building or sending the 183 answer
    "alloc",     \* g_try_malloc0 returning NULL, but for the next
    "exit" }     \* the same for CMD_AUDIO_EXIT

\* CLOSED stands for EXOSIP_CALL_CLOSED and EXOSIP_CALL_CANCELLED, ACK for
\* every event that is only printed.
EndEvents  == { "CLOSED", "RELEASED" }
EventTypes == { "INVITE", "ACK" } \cup EndEvents

ASSUME NoCallAssumption   == NoCall \notin Calls
ASSUME FailuresAssumption == Failures \subseteq FailureKinds
ASSUME TrafficAssumption  == Traffic \subseteq EventTypes

VARIABLES
  fault,      \* the memory error that stopped the program, or "none"
  corePc,     \* the main thread, as far as this modem's SIP thread goes
  mmCall,     \* progress of the asynchronous creation of each MMCall
  toSip,      \* main thread -> SIP thread
  toCore,     \* SIP thread -> main thread
  toAudio,    \* SIP thread -> audio thread of each call
  fromAudio,  \* audio thread of each call -> SIP thread
  sipPc,      \* where the SIP thread is
  keepEvent,  \* keep_event of av_sip_protocol_events
  kept,       \* the events handled and not given back to eXosip
  curCall,    \* current_call_event and current_call_connection
  audiothread,\* sstate->audiothread, named by the call it was started for
  configured, \* sipconf # NULL
  localPort,  \* local_rtp_port, named by the call it belongs to
  audioPc,    \* where the audio thread of each call is
  sipEvents,  \* the event queue of eXosip
  happened,   \* the events the network has brought so far
  dialled,    \* history: calls announced to the main thread
  answers     \* history: the 183 answers sent

coreVars  == <<corePc, mmCall>>
chanVars  == <<toSip, toCore, toAudio, fromAudio>>
sipVars   == <<keepEvent, kept, curCall, audiothread, configured, localPort>>
netVars   == <<sipEvents, happened>>
histVars  == <<dialled, answers>>
vars == <<fault, coreVars, chanVars, sipPc, sipVars, audioPc, netVars,
          histVars>>
-----------------------------------------------------------------------------
(* Messages and events *)

Msg(type, payload) == [msgtype |-> type, payload |-> payload]

SipMsgs   == { Msg("SIP_CMD_EXIT", NoCall), Msg("SIP_CMD_REGISTER", NoCall) }
             \cup { Msg("SIP_CMD_CALL_IN_PROGRESS", c) : c \in Calls }
CoreMsgs  == { Msg("SIP_EVENT_READY", NoCall) }
             \cup { Msg("SIP_EVENT_INCOMING_CALL", c) : c \in Calls }
ToAudioMsgs   == { Msg("CMD_AUDIO_EXIT", NoCall) }
                 \cup { Msg("CMD_AUDIO_INIT", c) : c \in Calls \cup {NoCall} }
FromAudioMsgs == { Msg("AUDIO_EVENT_READY", NoCall) }
                 \cup { Msg("AUDIO_EVENT_RTP_OK", c) : c \in Calls }

Event(type, c) == [type |-> type, cid |-> c]
Events == { Event(t, c) : t \in EventTypes, c \in Calls }

\* What an operation that may fail can return.
Outcome(kind) == {TRUE} \cup (IF kind \in Failures THEN {FALSE} ELSE {})

\* av_sip_stacksetup and av_sip_timerfd_setup.
StackSetup == Outcome("stack")

\* av_sip_regconf: the configuration may be incomplete, and the registration
\* may fail to be built or sent.
RegConf == Outcome("config") \cup Outcome("register")

\* av_sip_protocol_call_stage1 for a call in progress.
CallStage1 == Outcome("answer")

\* av_audio_rtp_init and av_audio_serial_init.
RtpInit    == Outcome("audio")
SerialInit == Outcome("audio")

\* av_thread_cmd followed by av_thread_txcmd: without memory for the command
\* it is not sent, and the senders carry on.
Posted(ch, m) == {Append(ch, m)} \cup (IF "alloc" \in Failures THEN {ch} ELSE {})

\* An undefined behaviour: the model names it and follows the program no more.
Crash(f) ==
  /\ fault' = f
  /\ UNCHANGED <<coreVars, chanVars, sipPc, sipVars, audioPc, netVars, histVars>>

Init ==
  /\ fault = "none"
  /\ corePc = "running"
  /\ mmCall = [c \in Calls |-> "none"]
  /\ toSip = <<>>
  /\ toCore = <<>>
  /\ toAudio = [c \in Calls |-> <<>>]
  /\ fromAudio = [c \in Calls |-> <<>>]
  /\ sipPc = "init"
  /\ keepEvent = FALSE
  /\ kept = {}
  /\ curCall = NoCall
  /\ audiothread = NoCall
  /\ configured = FALSE
  /\ localPort = NoCall
  /\ audioPc = [c \in Calls |-> "none"]
  /\ sipEvents = <<>>
  /\ happened = {}
  /\ dialled = {}
  /\ answers = {}
-----------------------------------------------------------------------------
(* The SIP thread: set-up, poll and termination *)

\* av_sip_init up to its loop.
SipInit ==
  /\ sipPc = "init"
  /\ \/ /\ toCore' \in Posted(toCore, Msg("SIP_EVENT_READY", NoCall))
        /\ sipPc' = "poll"
     \/ /\ FALSE \in StackSetup
        /\ sipPc' = "done"
        /\ UNCHANGED toCore
  /\ UNCHANGED <<fault, coreVars, toSip, toAudio, fromAudio, sipVars, audioPc,
                 netVars, histVars>>

\* Mutant of AudioReadable: the socket of the thread is not polled.
AudioReadableNever == FALSE

AudioReadable == audiothread # NoCall /\ fromAudio[audiothread] # <<>>

\* Mutant of LoopPc: a handler never ends the loop.
LoopPcAlways(ok) == "poll"

\* The loop of av_sip_init goes on as long as the handlers return 0.
LoopPc(ok) == IF ok THEN "poll" ELSE "closing"

\* poll() and the tests that follow it: one source is served per iteration,
\* the main thread first, then eXosip, then the audio thread.  The timer only
\* drives eXosip_automatic_action and is left out.
SipPoll ==
  /\ sipPc = "poll"
  /\ \/ toSip # <<>> /\ sipPc' = "core"
     \/ toSip = <<>> /\ sipEvents # <<>> /\ sipPc' = "events"
     \/ toSip = <<>> /\ sipEvents = <<>> /\ AudioReadable /\ sipPc' = "audio"
  /\ keepEvent' = FALSE
  /\ UNCHANGED <<fault, coreVars, chanVars, kept, curCall, audiothread,
                 configured, localPort, audioPc, netVars, histVars>>

TellsAudioExit ==
  toAudio' = [toAudio EXCEPT ![audiothread] =
                Append(@, Msg("CMD_AUDIO_EXIT", NoCall))]

\* Mutants of CallEnd: the thread is told, but neither joined nor its call freed;
\* it is joined without having been told.
CallEndNoJoin(joinPc) == TellsAudioExit /\ UNCHANGED <<sipPc, curCall>>

CallEndNoExit(joinPc) == sipPc' = joinPc /\ UNCHANGED <<toAudio, curCall>>

\* av_sip_protocol_call_end for a call in progress: its audio thread is told to
\* exit and joined, where the SIP thread waits in joinPc.  Without memory for
\* the command the call is freed at once, while its thread runs on and remains
\* the one whose socket is polled.
CallEnd(joinPc) ==
  \/ TellsAudioExit /\ sipPc' = joinPc /\ UNCHANGED curCall
  \/ "exit" \in Failures /\ curCall' = NoCall /\ UNCHANGED <<toAudio, sipPc>>

\* What is left of the events E that are not given back to eXosip, when the call
\* in progress may be freed.
KeptOf(E) == IF curCall' = NoCall THEN E \ {Event("INVITE", curCall)} ELSE E

\* Mutant of Joinable: the thread is left to itself.
JoinableAtOnce(c) == TRUE

\* av_thread_teardown: g_thread_join returns when the thread has ended.
Joinable(c) == audioPc[c] = "done"

\* The rest of it: the thread is joined, its sockets are closed, and then the
\* event, the connection and the path of the call are freed.
SipJoin ==
  /\ sipPc \in {"join_events", "join_closing"}
  /\ Joinable(audiothread)
  /\ audiothread' = NoCall
  /\ kept' = kept \ {Event("INVITE", curCall)}
  /\ curCall' = NoCall
  /\ sipPc' = IF sipPc = "join_events" THEN "events" ELSE "closing"
  /\ UNCHANGED <<fault, coreVars, chanVars, keepEvent, configured, localPort,
                 audioPc, netVars, histVars>>

\* After the loop: the call in progress ends, then the stack is torn down.
SipClose ==
  /\ sipPc = "closing"
  /\ \/ /\ curCall # NoCall
        /\ CallEnd("join_closing")
        /\ kept' = KeptOf(kept)
        /\ UNCHANGED configured
     \/ /\ curCall = NoCall
        /\ sipPc' = "done"
        /\ configured' = FALSE
        /\ UNCHANGED <<toAudio, curCall, kept>>
  /\ UNCHANGED <<fault, coreVars, toSip, toCore, fromAudio, keepEvent,
                 audiothread, localPort, audioPc, netVars, histVars>>
-----------------------------------------------------------------------------
(* The SIP thread: commands of the main thread *)

\* av_thread_rxcmd without memory for what it is to read: the handler returns,
\* and poll() finds the same message again.
SipReceiveFails ==
  /\ sipPc \in {"core", "audio"}
  /\ "alloc" \in Failures
  /\ sipPc' = "poll"
  /\ UNCHANGED <<fault, coreVars, chanVars, sipVars, audioPc, netVars, histVars>>

\* av_sip_core_msg; whatever fails makes the loop, and so the thread, end.
SipCoreExit ==
  /\ sipPc = "core"
  /\ Head(toSip).msgtype = "SIP_CMD_EXIT"
  /\ toSip' = Tail(toSip)
  /\ sipPc' = LoopPc(FALSE)
  /\ UNCHANGED <<fault, coreVars, toCore, toAudio, fromAudio, sipVars, audioPc,
                 netVars, histVars>>

SipCoreRegister ==
  /\ sipPc = "core"
  /\ Head(toSip).msgtype = "SIP_CMD_REGISTER"
  /\ toSip' = Tail(toSip)
  /\ \E ok \in RegConf :
       /\ configured' = ok
       /\ sipPc' = LoopPc(ok)
  /\ UNCHANGED <<fault, coreVars, toCore, toAudio, fromAudio, keepEvent, kept,
                 curCall, audiothread, localPort, audioPc, netVars, histVars>>

\* SIP_CMD_CALL_IN_PROGRESS and av_sip_protocol_call_stage1: the 183 answer
\* goes to the call that is current when the command is read.
SipCoreCallInProgress ==
  /\ sipPc = "core"
  /\ Head(toSip).msgtype = "SIP_CMD_CALL_IN_PROGRESS"
  /\ IF curCall = NoCall
     THEN Crash("stage1_no_call")
     ELSE /\ toSip' = Tail(toSip)
          /\ \E ok \in CallStage1 :
               /\ sipPc' = LoopPc(ok)
               /\ answers' =
                    IF ok THEN answers \cup { [call |-> curCall,
                                               path |-> Head(toSip).payload,
                                               port |-> localPort] }
                          ELSE answers
          /\ UNCHANGED <<fault, coreVars, toCore, toAudio, fromAudio, sipVars,
                         audioPc, netVars, dialled>>
-----------------------------------------------------------------------------
(* The SIP thread: events of eXosip, drained in one go *)

\* The end of an iteration of av_sip_protocol_events.  keep_event is set by an
\* INVITE only and keeps its value for the events that follow it.
Keeping(keep) == IF keep THEN kept \cup {Head(sipEvents)} ELSE kept

FinishEvent(keep) ==
  /\ keepEvent' = keep
  /\ kept' = Keeping(keep)
  /\ sipEvents' = Tail(sipEvents)

IsInvite == sipPc = "events" /\ sipEvents # <<>> /\ Head(sipEvents).type = "INVITE"

\* Mutant of IsFirstInvite: a call in progress is overlooked.
IsAnyInvite == IsInvite

IsFirstInvite == IsInvite /\ curCall = NoCall

\* Mutant of InviteDropped: keep_event stays as it was.
InviteDroppedKept ==
  /\ IsInvite
  /\ FinishEvent(keepEvent)
  /\ UNCHANGED <<fault, coreVars, chanVars, sipPc, curCall, audiothread,
                 configured, localPort, audioPc, happened, histVars>>

\* av_sip_protocol_call_stage0 returning 0: another call is current, or the
\* caller or what it offers does not suit.
InviteDropped ==
  /\ IsInvite
  /\ FinishEvent(FALSE)
  /\ UNCHANGED <<fault, coreVars, chanVars, sipPc, curCall, audiothread,
                 configured, localPort, audioPc, happened, histVars>>

\* The check of the user name reads sipconf.
InviteUnconfigured ==
  /\ IsFirstInvite
  /\ ~configured
  /\ Crash("invite_unconfigured")

InviteAccepted ==
  /\ IsFirstInvite
  /\ configured
  /\ curCall' = Head(sipEvents).cid
  /\ audiothread' = Head(sipEvents).cid
  /\ audioPc' = [audioPc EXCEPT ![Head(sipEvents).cid] = "start"]
  /\ FinishEvent(TRUE)
  /\ UNCHANGED <<fault, coreVars, chanVars, sipPc, configured, localPort,
                 happened, histVars>>

\* Without memory the connection is NULL and used; without an audio thread
\* call_end sends its exit command to a NULL thread or, when that command
\* cannot be allocated, frees the event its caller frees again.
InviteFails ==
  /\ IsFirstInvite
  /\ configured
  /\ \/ "alloc" \in Failures /\ Crash("null_connection")
     \/ "thread" \in Failures /\ Crash("null_audiothread")
     \/ {"thread", "exit"} \subseteq Failures /\ Crash("event_double_free")

\* Mutant of EndsCurrent: the cid is not compared.
EndsAny == Head(sipEvents).type \in EndEvents /\ curCall # NoCall

EndsCurrent ==
  /\ Head(sipEvents).type \in EndEvents
  /\ curCall = Head(sipEvents).cid

\* A termination event of the call in progress.
EventEndsCall ==
  /\ sipPc = "events"
  /\ sipEvents # <<>>
  /\ EndsCurrent
  /\ CallEnd("join_events")
  /\ kept' = KeptOf(Keeping(keepEvent))
  /\ sipEvents' = Tail(sipEvents)
  /\ UNCHANGED <<fault, coreVars, toSip, toCore, fromAudio, keepEvent,
                 audiothread, configured, localPort, audioPc, happened,
                 histVars>>

\* Events that change nothing, a termination of some other call among them.
EventIgnored ==
  /\ sipPc = "events"
  /\ sipEvents # <<>>
  /\ Head(sipEvents).type # "INVITE"
  /\ ~EndsCurrent
  /\ FinishEvent(keepEvent)
  /\ UNCHANGED <<fault, coreVars, chanVars, sipPc, curCall, audiothread,
                 configured, localPort, audioPc, happened, histVars>>

EventsDrained ==
  /\ sipPc = "events"
  /\ sipEvents = <<>>
  /\ sipPc' = "poll"
  /\ UNCHANGED <<fault, coreVars, chanVars, sipVars, audioPc, netVars, histVars>>
-----------------------------------------------------------------------------
(* The SIP thread: events of the audio thread (av_sip_audio_msg) *)

AudioEvent(type) ==
  sipPc = "audio" /\ Head(fromAudio[audiothread]).msgtype = type

SipAudioReady ==
  /\ AudioEvent("AUDIO_EVENT_READY")
  /\ fromAudio' = [fromAudio EXCEPT ![audiothread] = Tail(@)]
  /\ \E ch \in Posted(toAudio[audiothread], Msg("CMD_AUDIO_INIT", curCall)) :
       toAudio' = [toAudio EXCEPT ![audiothread] = ch]
  /\ sipPc' = "poll"
  /\ UNCHANGED <<fault, coreVars, toSip, toCore, sipVars, audioPc, netVars,
                 histVars>>

\* Mutants of RtpPort: the old value stays; the pointer is stored.
RtpPortOld     == localPort
RtpPortPointer == Head(fromAudio[audiothread])

RtpPort == Head(fromAudio[audiothread]).payload

\* The local port is stored and the number of the current call is sent to the
\* main thread, if there is one.
SipAudioRtpOk ==
  /\ AudioEvent("AUDIO_EVENT_RTP_OK")
  /\ IF curCall = NoCall
     THEN Crash("rtp_ok_no_call")
     ELSE /\ fromAudio' = [fromAudio EXCEPT ![audiothread] = Tail(@)]
          /\ localPort' = RtpPort
          /\ \/ /\ toCore' = Append(toCore, Msg("SIP_EVENT_INCOMING_CALL", curCall))
                /\ dialled' = dialled \cup {curCall}
             \/ /\ Failures \cap {"number", "alloc"} # {}
                /\ UNCHANGED <<toCore, dialled>>
          /\ sipPc' = "poll"
          /\ UNCHANGED <<fault, coreVars, toSip, toAudio, keepEvent, kept,
                         curCall, audiothread, configured, audioPc, netVars,
                         answers>>
-----------------------------------------------------------------------------
(* The audio thread of call c.  The command in hand stays at the head of the *)
(* channel until it has been served.                                         *)

AudioCommand(c, type) ==
  audioPc[c] = "poll" /\ toAudio[c] # <<>> /\ Head(toAudio[c]).msgtype = type

\* Mutant of AudioServed: the command is served again.
AudioServedAgain(c) == UNCHANGED toAudio

AudioServed(c) == toAudio' = [toAudio EXCEPT ![c] = Tail(@)]

\* astate, the state of the audio threads, is one for all of them.
AstateInUse(c) == \E d \in Calls \ {c} : audioPc[d] \in {"poll", "serial"}

\* av_audiothread_startup up to its loop.  It sets astate, under the eyes of a
\* thread that may be using it.
AudioStart(c) ==
  /\ audioPc[c] = "start"
  /\ \/ AstateInUse(c) /\ Crash("astate_shared")
     \/ /\ ~AstateInUse(c)
        /\ \/ /\ \E ch \in Posted(fromAudio[c], Msg("AUDIO_EVENT_READY", NoCall)) :
                   fromAudio' = [fromAudio EXCEPT ![c] = ch]
              /\ audioPc' = [audioPc EXCEPT ![c] = "poll"]
           \/ /\ "alloc" \in Failures
              /\ audioPc' = [audioPc EXCEPT ![c] = "done"]
              /\ UNCHANGED fromAudio
        /\ UNCHANGED <<fault, coreVars, toSip, toCore, toAudio, sipPc, sipVars,
                       netVars, histVars>>

ConnectionAlive(c) ==
  Head(toAudio[c]).payload # NoCall /\ Head(toAudio[c]).payload = curCall

\* CMD_AUDIO_INIT: the connection the SIP thread passed is read for the RTP
\* session and read again for the serial port.  A failure ends the thread.
AudioRtpInit(c) ==
  /\ AudioCommand(c, "CMD_AUDIO_INIT")
  /\ IF ~ConnectionAlive(c)
     THEN Crash("conn_after_free")
     ELSE /\ \E ok \in RtpInit :
               audioPc' = [audioPc EXCEPT ![c] = IF ok THEN "serial" ELSE "done"]
          /\ UNCHANGED <<fault, coreVars, chanVars, sipPc, sipVars, netVars,
                         histVars>>

AudioSerialInit(c) ==
  /\ audioPc[c] = "serial"
  /\ IF ~ConnectionAlive(c)
     THEN Crash("conn_after_free")
     ELSE /\ \/ /\ \E ch \in Posted(fromAudio[c], Msg("AUDIO_EVENT_RTP_OK", c)) :
                     fromAudio' = [fromAudio EXCEPT ![c] = ch]
                /\ audioPc' = [audioPc EXCEPT ![c] = "poll"]
             \/ /\ FALSE \in SerialInit
                /\ audioPc' = [audioPc EXCEPT ![c] = "done"]
                /\ UNCHANGED fromAudio
          /\ AudioServed(c)
          /\ UNCHANGED <<fault, coreVars, toSip, toCore, sipPc, sipVars, netVars,
                         histVars>>

AudioExit(c) ==
  /\ AudioCommand(c, "CMD_AUDIO_EXIT")
  /\ AudioServed(c)
  /\ audioPc' = [audioPc EXCEPT ![c] = "done"]
  /\ UNCHANGED <<fault, coreVars, toSip, toCore, fromAudio, sipPc, sipVars,
                 netVars, histVars>>
-----------------------------------------------------------------------------
(* The main thread *)

CoreEvent(type) ==
  corePc = "running" /\ toCore # <<>> /\ Head(toCore).msgtype = type

\* SIP_EVENT_READY: the configuration is parsed and sent, if there is one.
CoreReady ==
  /\ CoreEvent("SIP_EVENT_READY")
  /\ toCore' = Tail(toCore)
  /\ \/ toSip' \in Posted(toSip, Msg("SIP_CMD_REGISTER", NoCall))
     \/ "config" \in Failures /\ UNCHANGED toSip
  /\ UNCHANGED <<fault, coreVars, toAudio, fromAudio, sipPc, sipVars, audioPc,
                 netVars, histVars>>

\* SIP_EVENT_INCOMING_CALL: av_mm_call_sipcall asks ModemManager for an MMCall.
CoreIncomingCall ==
  /\ CoreEvent("SIP_EVENT_INCOMING_CALL")
  /\ toCore' = Tail(toCore)
  /\ \E ok \in Outcome("number") :
       mmCall' = [mmCall EXCEPT ![Head(toCore).payload] =
                    IF ok THEN "creating" ELSE "failed"]
  /\ UNCHANGED <<fault, corePc, toSip, toAudio, fromAudio, sipPc, sipVars,
                 audioPc, netVars, histVars>>

\* Mutant of CoreCallCreated: the MMCall is not started.
CoreCallNotStarted(c) ==
  /\ corePc # "joining"
  /\ mmCall[c] = "creating"
  /\ mmCall' = [mmCall EXCEPT ![c] = "failed"]
  /\ UNCHANGED <<fault, corePc, chanVars, sipPc, sipVars, audioPc, netVars,
                 histVars>>

\* av_mm_call_sipcall_with_call, whenever ModemManager answers.  No callback
\* runs while the main thread joins the SIP thread.
CoreCallCreated(c) ==
  /\ corePc # "joining"
  /\ mmCall[c] = "creating"
  /\ \E ok \in Outcome("mm") :
       mmCall' = [mmCall EXCEPT ![c] = IF ok THEN "starting" ELSE "failed"]
  /\ UNCHANGED <<fault, corePc, chanVars, sipPc, sipVars, audioPc, netVars,
                 histVars>>

\* av_mm_call_sipcall_start_call: the SIP thread is told through a pointer
\* that stopping that thread leaves as it was.
CoreCallStarted(c) ==
  /\ corePc # "joining"
  /\ mmCall[c] = "starting"
  /\ \/ /\ corePc = "stopped"
        /\ Crash("sipthread_after_free")
     \/ /\ corePc # "stopped"
        /\ toSip' \in Posted(toSip, Msg("SIP_CMD_CALL_IN_PROGRESS", c))
        /\ mmCall' = [mmCall EXCEPT ![c] = "started"]
        /\ UNCHANGED <<fault, corePc, toCore, toAudio, fromAudio, sipPc, sipVars,
                       audioPc, netVars, histVars>>
     \/ /\ "mm" \in Failures
        /\ mmCall' = [mmCall EXCEPT ![c] = "failed"]
        /\ UNCHANGED <<fault, corePc, chanVars, sipPc, sipVars, audioPc, netVars,
                       histVars>>

\* av_mm_voice_stopsip: without memory for the command the thread is left alone
\* and its events are no longer read.
CoreStop ==
  /\ corePc = "running"
  /\ \/ /\ toSip' = Append(toSip, Msg("SIP_CMD_EXIT", NoCall))
        /\ corePc' = "joining"
     \/ /\ "alloc" \in Failures
        /\ corePc' = "abandoned"
        /\ UNCHANGED toSip
  /\ UNCHANGED <<fault, mmCall, toCore, toAudio, fromAudio, sipPc, sipVars,
                 audioPc, netVars, histVars>>

\* av_thread_teardown of the SIP thread.
CoreJoin ==
  /\ corePc = "joining"
  /\ sipPc = "done"
  /\ corePc' = "stopped"
  /\ toSip' = <<>>
  /\ toCore' = <<>>
  /\ UNCHANGED <<fault, mmCall, toAudio, fromAudio, sipPc, sipVars, audioPc,
                 netVars, histVars>>
-----------------------------------------------------------------------------
(* eXosip: the events of a call start with its INVITE and end with RELEASED. *)

NetworkEvent(c, type) ==
  /\ type \in Traffic
  /\ sipPc \notin {"init", "done"}
  /\ Event(type, c) \notin happened
  /\ Event("RELEASED", c) \notin happened
  /\ type = "INVITE" \/ Event("INVITE", c) \in happened
  /\ sipEvents' = Append(sipEvents, Event(type, c))
  /\ happened' = happened \cup {Event(type, c)}
  /\ UNCHANGED <<fault, coreVars, chanVars, sipPc, sipVars, audioPc, histVars>>
-----------------------------------------------------------------------------
SipStep ==
  \/ SipInit \/ SipPoll \/ SipJoin \/ SipClose \/ SipReceiveFails
  \/ SipCoreExit \/ SipCoreRegister \/ SipCoreCallInProgress
  \/ InviteDropped \/ InviteUnconfigured \/ InviteAccepted \/ InviteFails
  \/ EventEndsCall \/ EventIgnored \/ EventsDrained
  \/ SipAudioReady \/ SipAudioRtpOk

AudioStep(c) ==
  AudioStart(c) \/ AudioRtpInit(c) \/ AudioSerialInit(c) \/ AudioExit(c)

CoreStep ==
  CoreReady \/ CoreIncomingCall \/ CoreJoin

CallbackStep(c) ==
  CoreCallCreated(c) \/ CoreCallStarted(c)

Live ==
  /\ fault = "none"
  /\ \/ SipStep
     \/ CoreStep
     \/ CoreStop
     \/ \E c \in Calls : AudioStep(c) \/ CallbackStep(c)
     \/ \E c \in Calls, type \in EventTypes : NetworkEvent(c, type)

\* A modem whose SIP thread is gone, or a program that has crashed, may rest.
Resting ==
  /\ fault # "none" \/ corePc \in {"stopped", "abandoned"}
  /\ UNCHANGED vars

Next == Live \/ Resting

Spec == Init /\ [][Next]_vars

\* Threads run while they can; the main loop serves what is ready; and a call
\* to ModemManager ends, in the last resort with the time-out of D-Bus.  The
\* network and the shutdown are under no obligation.
Fairness ==
  /\ WF_vars(fault = "none" /\ SipStep)
  /\ WF_vars(fault = "none" /\ CoreStep)
  /\ \A c \in Calls : WF_vars(fault = "none" /\ AudioStep(c))
  /\ \A c \in Calls : WF_vars(fault = "none" /\ CallbackStep(c))

FairSpec == Spec /\ Fairness
-----------------------------------------------------------------------------
(* Invariants *)

\* The type of every variable.
TypeOK ==
  /\ fault \in { "none", "stage1_no_call", "invite_unconfigured",
                 "null_connection", "null_audiothread", "event_double_free",
                 "astate_shared", "conn_after_free", "rtp_ok_no_call",
                 "sipthread_after_free" }
  /\ corePc \in {"running", "joining", "stopped", "abandoned"}
  /\ mmCall \in [Calls -> {"none", "creating", "starting", "started", "failed"}]
  /\ toSip \in Seq(SipMsgs)
  /\ toCore \in Seq(CoreMsgs)
  /\ toAudio \in [Calls -> Seq(ToAudioMsgs)]
  /\ fromAudio \in [Calls -> Seq(FromAudioMsgs)]
  /\ sipPc \in { "init", "poll", "core", "events", "audio", "join_events",
                 "join_closing", "closing", "done" }
  /\ keepEvent \in BOOLEAN
  /\ kept \subseteq Events
  /\ curCall \in Calls \cup {NoCall}
  /\ audiothread \in Calls \cup {NoCall}
  /\ configured \in BOOLEAN
  /\ localPort \in Calls \cup {NoCall}
  /\ audioPc \in [Calls -> {"none", "start", "poll", "serial", "done"}]
  /\ sipEvents \in Seq(Events)
  /\ happened \subseteq Events
  /\ dialled \subseteq Calls
  /\ answers \subseteq [call : Calls, path : Calls, port : Calls \cup {NoCall}]

Told(c) == \E i \in DOMAIN toAudio[c] : toAudio[c][i].msgtype = "CMD_AUDIO_EXIT"

\* The audio thread of a call that is over runs on because there was no memory
\* for the command that ends it (av_sip.c:269): nothing tells it to exit.
Untold(c) ==
  "exit" \in Failures /\ c # curCall /\ audioPc[c] \notin {"none", "done"} /\ ~Told(c)

\* The only audio thread is the one of the call in progress, which is also the
\* one that the SIP thread listens to, ends and joins, for sstate->audiothread
\* and astate (av_audio.c:29) serve one at a time; unless a thread could not be
\* told to exit, for want of memory for that one command.
OneAudioThread ==
  /\ curCall # NoCall => audiothread = curCall
  /\ audiothread \notin {NoCall, curCall} => "exit" \in Failures
  /\ \A c \in Calls :
       audioPc[c] \notin {"none", "done"} => c = curCall \/ Untold(c)

\* The INVITE that the SIP thread goes on using (its cid, tid and request) has
\* not been given back to eXosip while its call is in progress.
CurrentEventKept ==
  curCall # NoCall => Event("INVITE", curCall) \in kept

\* Nor is another one kept: keep_event (av_sip.c:364), which sticks to the events
\* drained after an INVITE, never lets a second INVITE through, and the end of a
\* call gives its own back.
NoOtherInviteKept ==
  \A c \in Calls : Event("INVITE", c) \in kept => c = curCall

\* The INVITEs that are not given back to eXosip: that of the call in progress,
\* as long as it is used and no longer, and no other.
OnlyCurrentInviteKept == CurrentEventKept /\ NoOtherInviteKept

\* No command or event outlives the call it was sent for: the audio thread
\* never reads a connection that has been freed, AUDIO_EVENT_RTP_OK never finds
\* current_call_event NULL, and no audio thread takes astate from another one;
\* unless a thread of an earlier call could not be told to exit.
NoStaleCallData ==
  fault \in {"conn_after_free", "rtp_ok_no_call", "astate_shared"} =>
    \E c \in Calls : Untold(c)

\* Once the number of the call in progress has been given to the main thread,
\* the port to be put in its 183 answer is the one its own audio thread opened.
PortOfCurrentCall ==
  curCall \in dialled => localPort = curCall

\* An answer to the call whose own MMCall has started carries the port of its
\* own RTP session.
AnswerCarriesOwnPort ==
  \A a \in answers : a.path = a.call => a.port = a.call

\* Both together: local_rtp_port (av_sip.c:619), one for all calls, is never that
\* of an earlier call when it counts.
PortIsOfOwnCall == PortOfCurrentCall /\ AnswerCarriesOwnPort

\* Commands pile up in no socket: a write never blocks, so that no two threads
\* can wait for each other to read.
ChannelsBounded ==
  /\ Len(toSip) <= Cardinality(Calls) + 2
  /\ Len(toCore) <= Cardinality(Calls) + 1
  /\ \A c \in Calls : Len(toAudio[c]) <= 2 /\ Len(fromAudio[c]) <= 2
-----------------------------------------------------------------------------
(* Action properties *)

\* A SIP call makes ModemManager create an MMCall at most once.
MMCallCreatedOnce ==
  [][\A c \in Calls : mmCall'[c] = "creating" => mmCall[c] \in {"none", "creating"}]_vars

\* The call in progress is given up for a termination event of its own or
\* because the SIP thread ends, and never replaced by another one directly.
EndedByOwnEvent ==
  [][curCall # NoCall /\ curCall' # curCall =>
       /\ curCall' = NoCall
       /\ \/ sipPc \in {"closing", "join_closing"}
          \/ \E type \in EndEvents : Event(type, curCall) \in happened]_vars
-----------------------------------------------------------------------------
(* Liveness *)

\* Stopping the SIP thread returns: the main thread is not left in the join.
ShutdownCompletes ==
  corePc = "joining" ~> corePc = "stopped" \/ fault # "none"

\* A call that the network has released does not remain the call in progress,
\* whatever became of its audio thread.
ReleasedCallEnds ==
  \A c \in Calls :
    Event("RELEASED", c) \in happened ~> curCall # c \/ fault # "none"

\* An accepted call is announced to the main thread unless it ends first, or
\* its audio thread does.
AcceptedCallIsDialled ==
  \A c \in Calls :
    curCall = c ~> \/ c \in dialled
                   \/ curCall # c \/ audioPc[c] = "done"
                   \/ fault # "none"

\* With ModemManager not failing, the start of the MMCall of a call is answered
\* for by the SIP thread, unless that thread ends or the program crashes.
DialledCallIsAnswered ==
  \A c \in Calls :
    c \in dialled ~> \/ \E a \in answers : a.path = c
                     \/ corePc # "running" \/ sipPc = "done"
                     \/ fault # "none"
-----------------------------------------------------------------------------
(* What a call promises its caller: CallSession, of which this is one        *)
(* implementation.                                                           *)

Session == INSTANCE CallSession WITH
  current  <- curCall,
  ended    <- { c \in Calls : audioPc[c] # "none" /\ c # curCall },
  dialled  <- dialled,
  answered <- { a.call : a \in answers }

\* Calls are taken one at a time, dialled at most once and only while they are
\* current, and never resumed.
ImplementsCallSession == Session!Spec
-----------------------------------------------------------------------------
(* What comments of the code say and the code does not keep                  *)

\* av_sip.c:546: stage 1 sends the 183 message of the call whose MMCall has
\* started.  The command that starts it can arrive when that call is over, and
\* when another one is in progress.
AnswersOwnCall ==
  sipPc = "core" /\ Head(toSip).msgtype = "SIP_CMD_CALL_IN_PROGRESS"
    => curCall = Head(toSip).payload
=============================================================================

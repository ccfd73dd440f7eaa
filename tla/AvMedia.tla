------------------------------ MODULE AvMedia ------------------------------
(***************************************************************************)
(* The media of one SIP call: what is chosen from the offer of its INVITE  *)
(* (av_sip.c), and what the audio thread does with it (av_audio.c), from   *)
(* setting up RTP session and serial port over copying what the modem says *)
(* to the release of everything.  When the SIP thread sends its commands,  *)
(* and what else it does with the call, is in AvSip.                       *)
(***************************************************************************)
EXTENDS Integers, Sequences, FiniteSets, FiniteSetsExt

CONSTANTS
  Ports,      \* the ports in offers
  Payloads,   \* the payload types in offers
  Chunk,      \* bytes wanted for one packet: TTY_CHUNK_SIZE/2
  MaxReads,   \* reads for one packet: 10
  TsModulus,  \* user_ts wraps there: 2^32
  Failures    \* what may fail in a run

ASSUME OffersAssumption == Ports \subseteq Int /\ IsFiniteSet(Ports)
ASSUME SizesAssumption  == {Chunk, MaxReads, TsModulus} \subseteq Nat \ {0}
ASSUME MediaFailuresAssumption ==
  Failures \subseteq { "state",   \* av_audio_astate_alloc
                       "rtp",     \* rtp_session_new
                       "open",    \* opening the serial device
                       "tty",     \* what is done with it after that
                       "read" }   \* reading from it, but for EAGAIN

(* An offer.  c= lines are of network and address type IN IP4 or not; an     *)
(* rtpmap attribute counts if its value is "<payload> PCMU/8000" for a       *)
(* payload, which may or may not be one of the m= line.                      *)
Connections == {"none", "ip4", "unsupported"}
Media ==
  [type : {"audio"}, port : Ports, payloads : SUBSET Payloads,
   pcmu : SUBSET Payloads, connection : Connections]
    \cup
  [type : {"other"}, port : {Max(Ports)}, payloads : {Payloads},
   pcmu : {Payloads}, connection : {"ip4"}]
Offers ==
  [connection : Connections, media : {<<>>} \cup {<<m>> : m \in Media}
                                      \cup {<<m, n>> : m, n \in Media}]
NoOffer == [connection |-> "none", media |-> <<>>]

\* The media whose port, and the level whose address, RTP goes to.
Session == 0
NoTarget == [media |-> 0, address |-> 0]

VARIABLES
  offer,    \* the SDP of the INVITE, until its call has begun
  call,     \* "offered", "refused", "accepted" or "begun"
  target,   \* the av_rtp_connection
  commands, \* sent by the SIP thread and not received
  pc,       \* audio thread: "none", "poll", "read", "send" or "ended"
  session,  \* the remote end of astate->session
  serial,   \* the serial port: "closed", "open", or "leaked"
  line,     \* what poll finds there: nothing, "data" or "hangup"
  missing, retries, nbytes, \* av_audio_do_serial_read
  got,      \* the bytes in its audiobuf that a read has written
  userTs,   \* astate->user_ts
  packet    \* the last call of rtp_session_send_with_ts

readVars == <<missing, retries, nbytes, got>>
rtpVars  == <<userTs, packet>>
vars == <<offer, call, target, commands, pc, session, serial, line, readVars, rtpVars>>

NoPacket == [len |-> 0, got |-> 0]

Init ==
  /\ offer \in Offers
  /\ call = "offered"
  /\ target = NoTarget
  /\ commands = <<>>
  /\ pc = "none"
  /\ session = NoTarget
  /\ serial = "closed"
  /\ line = "idle"
  /\ missing = 0 /\ retries = 0 /\ nbytes = 0 /\ got = 0
  /\ userTs = 0
  /\ packet = NoPacket
-----------------------------------------------------------------------------
(* The choice of a media                                                    *)

AudioMedia(o) == { i \in DOMAIN o.media : o.media[i].type = "audio" }

\* The c= line for the media i: its own, or that of the session.
Level(o, i) == IF o.media[i].connection # "none" THEN i ELSE Session
LevelConnection(o, l) == IF l = Session THEN o.connection ELSE o.media[l].connection

\* eXosip_get_audio_connection: that of the first audio media.
AudioAddress(o) == Level(o, Min(AudioMedia(o)))

\* The last port that RTP may have, which leaves one for RTCP.
LastRtpPort == 65534

\* Mutant of CheckSupported: odd ports are taken.
CheckSupportedOdd(connection, port) ==
  IF connection = "ip4" /\ port \in 0..LastRtpPort THEN port ELSE 0

\* av_sip_protocol_call_stage0_connection_check_supported: 0 is no.
CheckSupported(connection, port) ==
  IF connection = "ip4" /\ port \in 0..LastRtpPort /\ port % 2 = 0 THEN port ELSE 0

\* av_sip_protocol_call_stage0_connection_setup, when it returns 0.
ConnectionSetup(o, i) ==
  CheckSupported(LevelConnection(o, AudioAddress(o)), o.media[i].port) # 0

\* av_sip_protocol_call_stage0_check_audio_media_payload, also with 0: the first
\* rtpmap of a payload leads to its connection, and on to the next payload.
PayloadOk(o, i) ==
  \E p \in o.media[i].payloads : p \in o.media[i].pcmu /\ ConnectionSetup(o, i)

\* av_sip_protocol_call_stage0_handle_remote_sdp: the audio media that will do.
Acceptable(o) == { i \in AudioMedia(o) : PayloadOk(o, i) }

\* Mutant of AcceptOffer: c= lines of a media are not looked at.
AcceptOfferSession ==
  /\ call = "offered"
  /\ Acceptable(offer) # {}
  /\ call' = "accepted"
  /\ target' = [media |-> Min(Acceptable(offer)), address |-> Session]
  /\ UNCHANGED <<offer, commands, pc, session, serial, line, readVars, rtpVars>>

AcceptOffer ==
  /\ call = "offered"
  /\ Acceptable(offer) # {}
  /\ call' = "accepted"
  /\ target' = [media |-> Min(Acceptable(offer)), address |-> AudioAddress(offer)]
  /\ UNCHANGED <<offer, commands, pc, session, serial, line, readVars, rtpVars>>

RefuseOffer ==
  /\ call = "offered"
  /\ Acceptable(offer) = {}
  /\ call' = "refused"
  /\ UNCHANGED <<offer, target, commands, pc, session, serial, line, readVars, rtpVars>>
-----------------------------------------------------------------------------
(* The audio thread, between its start and its end                          *)

\* av_audiothread_startup up to its loop.
Start ==
  /\ call = "accepted"
  /\ call' = "begun"
  /\ offer' = NoOffer
  /\ \/ pc' = "poll"
     \/ "state" \in Failures /\ pc' = "ended"
  /\ UNCHANGED <<target, commands, session, serial, line, readVars, rtpVars>>

\* The SIP thread answers AUDIO_EVENT_READY, and ends the call at any time.
SendInit ==
  /\ call = "begun" /\ commands = <<>> /\ session = NoTarget /\ pc = "poll"
  /\ commands' = <<"init">>
  /\ UNCHANGED <<offer, call, target, pc, session, serial, line, readVars, rtpVars>>

SendExit ==
  /\ call = "begun" /\ \A i \in DOMAIN commands : commands[i] # "exit"
  /\ commands' = Append(commands, "exit")
  /\ UNCHANGED <<offer, call, target, pc, session, serial, line, readVars, rtpVars>>

\* av_audio_rtp_deinit, and av_audio_close_fd with an fd of -1 or not.
Leave ==
  /\ pc' = "ended"
  /\ session' = NoTarget
  /\ userTs' = 0
  /\ serial' = IF serial = "open" THEN "closed" ELSE serial

\* Mutant of SerialFails: a port that is no terminal stays open.
SerialFailsOpen == Failures \cap {"open", "tty"} # {} /\ serial' = "leaked"

\* av_audio_serial_init fails: the port was not opened, or is closed again.
SerialFails == Failures \cap {"open", "tty"} # {} /\ UNCHANGED serial

\* CMD_AUDIO_INIT: first the session, to which the serial port is then copied.
ServeInit ==
  /\ pc = "poll"
  /\ commands # <<>> /\ Head(commands) = "init"
  /\ commands' = Tail(commands)
  /\ \/ session' = target /\ serial' = "open" /\ UNCHANGED <<pc, userTs>>
     \/ /\ SerialFails
        /\ pc' = "ended" /\ session' = NoTarget /\ userTs' = 0
     \/ "rtp" \in Failures /\ Leave
  /\ UNCHANGED <<offer, call, target, line, readVars, packet>>

\* CMD_AUDIO_EXIT, and what follows the loop.
ServeExit ==
  /\ pc = "poll"
  /\ commands # <<>> /\ Head(commands) = "exit"
  /\ commands' = Tail(commands)
  /\ Leave
  /\ UNCHANGED <<offer, call, target, line, readVars, packet>>

\* Mutant of SerialReadable: the serial port comes first.
SerialReadableFirst == pc = "poll" /\ serial = "open" /\ line = "data"

\* av_audio_do_poll looks for commands first, and for nothing but POLLIN: after
\* a hang-up it comes back from poll at once, and does nothing.
SerialReadable == pc = "poll" /\ commands = <<>> /\ serial = "open" /\ line = "data"

\* What the modem sends, until it is unplugged.
LineChanges ==
  /\ serial = "open" /\ line # "hangup"
  /\ \E l \in {"idle", "data", "hangup"} \ {line} : line' = l
  /\ UNCHANGED <<offer, call, target, commands, pc, session, serial, readVars, rtpVars>>
-----------------------------------------------------------------------------
(* av_audio_do_serial_read                                                  *)

ReadBegins ==
  /\ SerialReadable
  /\ pc' = "read"
  /\ missing' = Chunk /\ retries' = 0 /\ nbytes' = 0 /\ got' = 0
  /\ UNCHANGED <<offer, call, target, commands, session, serial, line, rtpVars>>

InLoop == pc = "read" /\ missing > 0 /\ retries < MaxReads

\* Mutant of ReadSome: each read may fill a whole buffer.
ReadSomeWhole ==
  /\ InLoop
  /\ retries' = retries + 1
  /\ \E n \in 0..Chunk :
       /\ nbytes' = n
       /\ missing' = missing - n
       /\ got' = got + n
  /\ UNCHANGED <<offer, call, target, commands, pc, session, serial, line, rtpVars>>

ReadSome ==
  /\ InLoop
  /\ retries' = retries + 1
  /\ \E n \in 0..missing :
       /\ nbytes' = n
       /\ missing' = missing - n
       /\ got' = got + n
  /\ UNCHANGED <<offer, call, target, commands, pc, session, serial, line, rtpVars>>

\* EAGAIN: there is nothing now.
ReadNothing ==
  /\ InLoop
  /\ nbytes' = -1
  /\ retries' = retries + 1
  /\ UNCHANGED <<offer, call, target, commands, pc, session, serial, line,
                 missing, got, rtpVars>>

\* Any other error ends the loop.
ReadFails ==
  /\ InLoop
  /\ "read" \in Failures
  /\ nbytes' = -1
  /\ retries' = retries + 1
  /\ pc' = "send"
  /\ UNCHANGED <<offer, call, target, commands, session, serial, line, missing,
                 got, rtpVars>>

ReadEnds ==
  /\ pc = "read" /\ ~InLoop
  /\ pc' = "send"
  /\ UNCHANGED <<offer, call, target, commands, session, serial, line, readVars, rtpVars>>

\* Mutant of SendPacket: a whole chunk is sent, whatever was read.
SendPacketWhole ==
  /\ pc = "send"
  /\ pc' = "poll"
  /\ packet' = [len |-> Chunk, got |-> got]
  /\ userTs' = (userTs + Chunk) % TsModulus
  /\ UNCHANGED <<offer, call, target, commands, session, serial, line, readVars>>

\* What is sent is the size of the last read: -1 if it failed, less than there
\* is in the buffer if it was not the first.
SendPacket ==
  /\ pc = "send"
  /\ pc' = "poll"
  /\ packet' = [len |-> nbytes, got |-> got]
  /\ userTs' = (userTs + nbytes) % TsModulus
  /\ UNCHANGED <<offer, call, target, commands, session, serial, line, readVars>>
-----------------------------------------------------------------------------
AudioThread ==
  \/ ServeInit \/ ServeExit
  \/ ReadBegins \/ ReadSome \/ ReadNothing \/ ReadFails \/ ReadEnds \/ SendPacket

\* The call is refused, or its media are over.
Over == (call = "refused" \/ pc = "ended") /\ UNCHANGED vars

Next ==
  \/ AcceptOffer \/ RefuseOffer \/ Start \/ SendInit \/ SendExit
  \/ AudioThread \/ LineChanges \/ Over

Spec == Init /\ [][Next]_vars

\* The audio thread runs.
FairSpec == Spec /\ WF_vars(AudioThread)
-----------------------------------------------------------------------------
(* Properties *)

\* The type of every variable.
TypeOK ==
  /\ call \in {"offered", "refused", "accepted", "begun"}
  /\ target \in [media : 0..2, address : 0..2]
  /\ commands \in {<<>>, <<"init">>, <<"exit">>, <<"init", "exit">>}
  /\ pc \in {"none", "poll", "read", "send", "ended"}
  /\ session \in {NoTarget, target}
  /\ serial \in {"closed", "open", "leaked"}
  /\ line \in {"idle", "data", "hangup"}
  /\ missing \in 0..Chunk
  /\ retries \in 0..MaxReads
  /\ nbytes \in -1..Chunk
  /\ got \in 0..Chunk
  /\ userTs \in 0..(TsModulus - 1)
  /\ packet \in [len : -1..Chunk, got : 0..Chunk]

\* A port that RTP may have: any but 0 that is even.
LastPort == 65535
RtpPort(port) == port \in 1..LastPort /\ port % 2 = 0

\* The payloads of a media that are PCMU: those said to be, and 0, which is
\* without saying (av_sip.c:215).
PcmuPayloads(i) == offer.media[i].payloads \cap (offer.media[i].pcmu \cup {0})

\* The address of the first audio media is one the program can use.
AddressSupported == LevelConnection(offer, AudioAddress(offer)) = "ip4"

\* Audio goes to a port that RTP may have, of an audio media with PCMU; and no
\* offer with such a media is refused as long as the address, that of the first
\* audio media, is supported, unless the only PCMU payload is a 0 that no rtpmap
\* names.
PcmuIsFound ==
  /\ call = "accepted" =>
       /\ target.media \in AudioMedia(offer)
       /\ PcmuPayloads(target.media) # {}
       /\ RtpPort(offer.media[target.media].port)
  /\ call = "refused" =>
       \A i \in AudioMedia(offer) :
         AddressSupported /\ RtpPort(offer.media[i].port)
           => PcmuPayloads(i) \subseteq {0} \ offer.media[i].pcmu

\* Address and port are of one media where the offer has only one for audio, or
\* none with an address of its own.  With others the code may mix them: the
\* address is that of the first and the port that of the first that will do.
AddressBelongsToPort ==
  call = "accepted" /\ target.address # Level(offer, target.media) =>
    /\ Cardinality(AudioMedia(offer)) > 1
    /\ \E i \in AudioMedia(offer) : offer.media[i].connection # "none"
    /\ target.media # Min(AudioMedia(offer))

\* The reads for one packet never reach past the buffer, and what is sent is
\* never more than what they have put there since.
SentWasRead ==
  /\ pc \in {"read", "send"} => got + missing = Chunk
  /\ packet.len <= packet.got

\* Nothing is read from the serial port that could not be sent, and a thread
\* that has ended, however far it came, has released everything.
SerialHasSession ==
  /\ serial = "open" => session # NoTarget
  /\ pc = "ended" => session = NoTarget /\ serial = "closed"

\* The exit command is obeyed, whatever the modem does: sends without end,
\* brings audio in pieces or not at all after poll has said so, or hangs up.
ExitIsObeyed ==
  ("exit" \in { commands[i] : i \in DOMAIN commands }) ~> pc = "ended"
-----------------------------------------------------------------------------
(* What comments of the code say and the code does not keep                  *)

\* av_sip.c:215: if payload 0 is present, it should be good.  The code asks for an
\* rtpmap of it, which an offer need not have for a static payload type.
PayloadZeroIsGood ==
  call = "refused" =>
    \A i \in AudioMedia(offer) :
      AddressSupported /\ RtpPort(offer.media[i].port) => 0 \notin offer.media[i].payloads
=============================================================================

------------------------------ MODULE AvVoice ------------------------------
(***************************************************************************)
(* The voice service of one AvModem and the calls that it follows          *)
(* (av_mm_voice.c, av_mm_call.c, av_modem_gobject.c).                      *)
(*                                                                         *)
(* ModemManager says that a call was added or deleted, the program asks    *)
(* for its list of calls, and only the answer changes the program's own    *)
(* list.  Meanwhile the call changes, the modem loses its registration or  *)
(* is removed, the service is started again.  All of this is callbacks of  *)
(* the main loop, one action each; what they do in sequence to the AvModem *)
(* is composed from functions of its state.                                *)
(***************************************************************************)
EXTENDS Integers, Sequences, FiniteSets, Functions, SequencesExt

CONSTANTS
  Calls,      \* the calls that ModemManager may have on this modem
  MaxStarts,  \* bound: how often the voice service is initialised
  MaxDials,   \* bound: how many calls the SIP threads ask for
  Failures    \* what may fail in a run

ASSUME VoiceBoundsAssumption == MaxStarts \in Nat \ {0} /\ MaxDials \in Nat
ASSUME VoiceFailuresAssumption ==
  Failures \subseteq { "context",  \* MMCall_ctx_alloc
                       "command",  \* av_thread_cmd
                       "thread",   \* av_thread_setup
                       "channel",  \* the GIOChannel of the SIP thread
                       "config",   \* av_config_parse
                       "list",     \* mm_modem_voice_list_calls
                       "dial",     \* creating or starting an MMCall
                       "reorder" } \* answers overtaking each other

Threads  == 1..MaxStarts
NoThread == 0
Dials    == 1..MaxDials

\* MMCallState, as far as av_mm_call_state_eval tells states apart: RINGING_IN,
\* RINGING_OUT and WAITING; TERMINATED; and all the others.
CallStates == {"ringing", "other", "terminated"}

\* An answer with no calls, or with an error, has no list: NULL.
ListAnswers == {"asked", "call", "others", "null"}

VARIABLES
  avm,       \* the AvModem, and what hangs on it: see Fresh
  stored,    \* ll->av_modems holds its reference
  listing,   \* the list_calls operations under way, oldest first
  sip,       \* the SIP thread of the service, as far as its configuration goes
  events,    \* what it has sent and the main thread has not received
  dialling,  \* the calls asked for by SIP threads
  mm,        \* the calls as ModemManager has them
  unwatched, \* history: those that have been there with nobody listening
  fault      \* the end of the program: what was used after it was freed

sipVars == <<sip, events>>
mmVars  == <<mm, unwatched>>
vars == <<avm, stored, listing, sipVars, dialling, mmVars, fault>>

\* av_modem_new, stored and registered, before the service is initialised.
Fresh ==
  [ refs      |-> 1,         \* references to the AvModem
    up        |-> FALSE,     \* voice_signal_call_added, and its handlers
    calls     |-> <<>>,      \* mmcalls
    active    |-> 0,         \* active_calls_counter
    handled   |-> {},        \* MMCalls with a state-changed handler
    held      |-> [c \in Calls |-> 0],  \* references to each MMCall
    starts    |-> 0,         \* how often av_thread_setup was called
    threads   |-> [t \in Threads |-> "none"],
    sipthread |-> NoThread,  \* sipthread, which is never cleared
    source    |-> NoThread ] \* the thread whose socket is watched

Init ==
  /\ avm = Fresh
  /\ stored = TRUE
  /\ listing = <<>>
  /\ sip = "starting"
  /\ events = <<>>
  /\ dialling = [d \in Dials |-> "none"]
  /\ mm = [c \in Calls |-> "unborn"]
  /\ unwatched = {}
  /\ fault = "none"

Running == fault = "none"
Freed   == avm.refs = 0

May(kind) == IF kind \in Failures THEN BOOLEAN ELSE {TRUE}
-----------------------------------------------------------------------------
(* What the functions of av_mm_call.c make of an AvModem                    *)

\* av_mm_call_unregister_mmcall.
Unregistered(a, c) == [a EXCEPT !.handled = @ \ {c}, !.held[c] = @ - 1]

\* av_mm_call_unregister, and the same in state_eval and in release_mmcalls.
Removed(a, c) == Unregistered([a EXCEPT !.calls = RemoveFirst(@, c)], c)

\* Mutant of StateEval: a call that has ended is not taken off the list.
StateEvalListed(a, c, s) ==
  CASE s = "ringing"    -> [a EXCEPT !.active = IF @ = 0 THEN 1 ELSE @]
    [] s = "terminated" -> Unregistered([a EXCEPT !.active = @ - 1], c)
    [] OTHER            -> a

\* Mutant of StateEval: every call that rings is counted.
StateEvalCounted(a, c, s) ==
  CASE s = "ringing"    -> [a EXCEPT !.active = @ + 1]
    [] s = "terminated" -> Removed([a EXCEPT !.active = @ - 1], c)
    [] OTHER            -> a

\* av_mm_call_state_eval: the counter goes up from zero only, and down from
\* wherever it is.
StateEval(a, c, s) ==
  CASE s = "ringing"    -> [a EXCEPT !.active = IF @ = 0 THEN 1 ELSE @]
    [] s = "terminated" -> Removed([a EXCEPT !.active = @ - 1], c)
    [] OTHER            -> a

\* Mutant of Registered: only changes of the state are looked at.
RegisteredAsIs(a, c, s) ==
  [a EXCEPT !.calls = Append(@, c), !.handled = @ \cup {c}, !.held[c] = @ + 1]

\* av_mm_call_register, given a reference and the state that the MMCall has.
Registered(a, c, s) ==
  StateEval([a EXCEPT !.calls = Append(@, c), !.handled = @ \cup {c},
                      !.held[c] = @ + 1], c, s)

\* How often an MMCall is on the list.
TimesListed(a, c) == Cardinality({i \in DOMAIN a.calls : a.calls[i] = c})

\* av_mm_call_release_mmcalls: its loop unregisters every entry of the list.
ReleasedCalls(a) ==
  [a EXCEPT !.calls = <<>>, !.handled = @ \ Range(a.calls),
            !.held = [c \in Calls |-> a.held[c] - TimesListed(a, c)]]
-----------------------------------------------------------------------------
(* What the functions of av_mm_voice.c make of an AvModem                   *)

\* Mutant of Started: a service that is there already is started again.
StartedAgain(a, set_up, watched) ==
  LET t == a.starts + 1
      b == [a EXCEPT !.up = TRUE, !.starts = t]
  IN IF ~set_up THEN b
     ELSE [b EXCEPT !.threads[t] = "live", !.sipthread = t,
                    !.source = IF watched THEN t ELSE NoThread]

\* av_mm_voice_init: the pointer to the last thread stays if there is no new one.
Started(a, set_up, watched) ==
  LET t == a.starts + 1
      b == [a EXCEPT !.up = TRUE, !.starts = t]
  IN IF a.up THEN a
     ELSE IF ~set_up THEN b
     ELSE [b EXCEPT !.threads[t] = "live", !.sipthread = t,
                    !.source = IF watched THEN t ELSE NoThread]

\* Mutant of StoppedSip: the socket of the thread that is freed stays watched.
StoppedSipWatched(a, told) ==
  IF a.sipthread = NoThread THEN a
  ELSE [a EXCEPT !.threads[a.sipthread] =
                       IF told THEN "freed" ELSE IF @ = "live" THEN "untold" ELSE @]

\* av_mm_voice_stopsip: the thread is joined and freed if it could be told to
\* exit; otherwise it goes on, and no-one will ever tell it.
StoppedSip(a, told) ==
  LET b == [a EXCEPT !.source = NoThread]
  IN IF a.sipthread = NoThread THEN b
     ELSE [b EXCEPT !.threads[a.sipthread] =
                       IF told THEN "freed" ELSE IF @ = "live" THEN "untold" ELSE @]

\* av_mm_voice_deinit.
Stopped(a, told) ==
  IF a.up THEN StoppedSip([ReleasedCalls(a) EXCEPT !.up = FALSE], told) ELSE a

\* stopsip writes to and joins a thread that has been freed.
StopsFreedThread(a, told) ==
  /\ a.up /\ told
  /\ a.sipthread # NoThread
  /\ a.threads[a.sipthread] = "freed"

\* g_object_unref of the AvModem, with av_modem_dispose for the last reference.
Unreffed(a, told) ==
  LET b == [a EXCEPT !.refs = @ - 1]
  IN IF b.refs = 0 THEN Stopped(b, told) ELSE b
-----------------------------------------------------------------------------
(* The service and its AvModem                                              *)

\* av_mm_modem_statechange to a state that the voice service needs.
ModemRegistered ==
  /\ Running /\ ~Freed
  /\ avm.starts < MaxStarts
  /\ \E set_up \in May("thread"), watched \in May("channel") :
       avm' = Started(avm, set_up, watched)
  /\ UNCHANGED <<stored, listing, sipVars, dialling, mmVars, fault>>

\* After the service has stopped, the calls there are go on unseen.
Unseen(a, b) ==
  IF a.up /\ ~b.up THEN { c \in Calls : mm[c] \in CallStates } ELSE {}

\* The AvModem becomes b in an operation that stops its service or not.
Becomes(b, told) ==
  /\ avm' = b
  /\ IF b.up THEN UNCHANGED sipVars ELSE sip' = "starting" /\ events' = <<>>
  /\ unwatched' = unwatched \cup Unseen(avm, b)
  /\ fault' = IF ~b.up /\ StopsFreedThread(avm, told) THEN "thread" ELSE fault

\* av_mm_modem_statechange to one where there is none.
ModemUnregistered ==
  /\ Running /\ ~Freed
  /\ avm.up
  /\ \E told \in May("command") : Becomes(Stopped(avm, told), told)
  /\ UNCHANGED <<stored, listing, dialling, mm>>

\* The storage lets go of it: it was removed, ModemManager has gone, SIGINT.
ModemRemoved ==
  /\ Running
  /\ stored
  /\ stored' = FALSE
  /\ \E told \in May("command") : Becomes(Unreffed(avm, told), told)
  /\ UNCHANGED <<listing, dialling, mm>>
-----------------------------------------------------------------------------
(* Calls come, change and go: signals of ModemManager                       *)

Operation(c, added) == [call |-> c, added |-> added, found |-> "asked"]

\* Mutant of FindCall: the operation takes no reference.
FindCallUnheld(c, added) ==
  IF avm.up
  THEN /\ listing' = Append(listing, Operation(c, added))
       /\ UNCHANGED <<avm, unwatched>>
  ELSE unwatched' = unwatched \cup {c} /\ UNCHANGED <<avm, listing>>

\* Mutant of FindCall: the reference is taken before the context is allocated.
FindCallHeldFirst(c, added) ==
  \/ /\ avm.up
     /\ listing' = Append(listing, Operation(c, added))
     /\ avm' = [avm EXCEPT !.refs = @ + 1]
     /\ UNCHANGED unwatched
  \/ /\ avm.up => "context" \in Failures
     /\ unwatched' = unwatched \cup {c}
     /\ avm' = [avm EXCEPT !.refs = IF avm.up THEN @ + 1 ELSE @]
     /\ UNCHANGED listing

\* The handlers of call-added and call-deleted, if they are connected:
\* av_mm_voice_find_call begins an operation that holds the AvModem.
FindCall(c, added) ==
  \/ /\ avm.up
     /\ listing' = Append(listing, Operation(c, added))
     /\ avm' = [avm EXCEPT !.refs = @ + 1]
     /\ UNCHANGED unwatched
  \/ /\ avm.up => "context" \in Failures
     /\ unwatched' = unwatched \cup {c}
     /\ UNCHANGED <<avm, listing>>

CallAdded(c) ==
  /\ Running
  /\ mm[c] = "unborn"
  /\ \E s \in {"ringing", "other"} : mm' = [mm EXCEPT ![c] = s]
  /\ FindCall(c, TRUE)
  /\ UNCHANGED <<stored, sipVars, dialling, fault>>

CallDeleted(c) ==
  /\ Running
  /\ mm[c] \in CallStates
  /\ mm' = [mm EXCEPT ![c] = "deleted"]
  /\ FindCall(c, FALSE)
  /\ UNCHANGED <<stored, sipVars, dialling, fault>>

\* av_mm_call_statechange, with an AvModem that may have been freed.
CallChanged(c, s) ==
  /\ Running
  /\ mm[c] \in CallStates \ {s, "terminated"}
  /\ mm' = [mm EXCEPT ![c] = s]
  /\ \/ c \notin avm.handled /\ UNCHANGED <<avm, fault>>
     \/ c \in avm.handled /\ ~Freed /\ avm' = StateEval(avm, c, s) /\ UNCHANGED fault
     \/ c \in avm.handled /\ Freed /\ fault' = "modem" /\ UNCHANGED avm
  /\ UNCHANGED <<stored, listing, sipVars, dialling, unwatched>>
-----------------------------------------------------------------------------
(* The list_calls operations                                                *)

\* What the list has for the path of c; the same for a removal is not looked at.
Found(c) ==
  IF mm[c] \in CallStates THEN "call"
  ELSE IF \E d \in Calls : mm[d] \in CallStates THEN "others"
  ELSE "null"

\* ModemManager makes its list, for one operation after the other.
ListMade(i) ==
  /\ Running
  /\ i \in DOMAIN listing
  /\ listing[i].found = "asked"
  /\ \A j \in 1..(i - 1) : listing[j].found # "asked"
  /\ \E f \in {Found(listing[i].call), "null"} :
       /\ f = Found(listing[i].call) \/ "list" \in Failures
       /\ listing' = [listing EXCEPT ![i].found = f]
  /\ UNCHANGED <<avm, stored, sipVars, dialling, mmVars, fault>>

\* The state of an MMCall that was listed; of one that has been deleted since,
\* the last that was heard of it.
StateSeen(c) == IF mm[c] \in CallStates THEN {mm[c]} ELSE CallStates

\* What av_mm_voice_find_call_list_ready makes of the AvModem before its end.
Answered(op) ==
  CASE op.added /\ op.found = "call" ->
         { Registered(avm, op.call, s) : s \in StateSeen(op.call) }
    [] ~op.added /\ op.call \in Range(avm.calls) -> { Removed(avm, op.call) }
    [] OTHER -> {avm}

\* av_mm_voice_find_call_list_ready.
ListReady(i) ==
  /\ Running
  /\ i \in DOMAIN listing
  /\ listing[i].found # "asked"
  /\ i = 1 \/ "reorder" \in Failures
  /\ ~(listing[i].added /\ listing[i].found = "null")
  /\ listing' = RemoveAt(listing, i)
  /\ \E told \in May("command"), b \in Answered(listing[i]) :
       Becomes(Unreffed(b, told), told)
  /\ UNCHANGED <<stored, dialling, mm>>

\* Its assertion that there is a list when a call was added.
ListAsserted(i) ==
  /\ Running
  /\ i \in DOMAIN listing
  /\ i = 1 \/ "reorder" \in Failures
  /\ listing[i].added /\ listing[i].found = "null"
  /\ fault' = "assert"
  /\ UNCHANGED <<avm, stored, listing, sipVars, dialling, mmVars>>
-----------------------------------------------------------------------------
(* The SIP thread and the calls it asks for                                 *)

SipRuns ==
  avm.up /\ avm.sipthread = avm.starts /\ avm.threads[avm.sipthread] = "live"

\* av_sip_init tells the main thread that it is there.
SipReady ==
  /\ Running
  /\ SipRuns /\ sip = "starting"
  /\ sip' = "ready"
  /\ events' = <<"ready">>
  /\ UNCHANGED <<avm, stored, listing, dialling, mmVars, fault>>

\* An INVITE was accepted: SIP_EVENT_INCOMING_CALL.
SipAsksForCall ==
  /\ Running
  /\ SipRuns /\ sip = "configured"
  /\ events = <<>>
  /\ \E d \in Dials : dialling[d] = "none"
  /\ events' = <<"call">>
  /\ UNCHANGED <<avm, stored, listing, sip, dialling, mmVars, fault>>

\* av_mm_voice_process_sip_event, where the channel is watched.
Receives(event) ==
  /\ Running
  /\ avm.source # NoThread
  /\ events # <<>> /\ Head(events) = event
  /\ events' = Tail(events)

\* Mutant of SipEventReady: the first thread of an AvModem is sent the
\* configuration, those of later starts are not.
SipEventReadyOnce ==
  /\ Receives("ready")
  /\ sip' = IF avm.starts = 1 THEN "configured" ELSE sip
  /\ UNCHANGED <<avm, stored, listing, dialling, mmVars, fault>>

\* av_config_parse: NULL without a file, an equipment id or memory.
ConfigParsed == May("config")

\* av_mm_voice_send_sip_config.
SipEventReady ==
  /\ Receives("ready")
  /\ \E parsed \in ConfigParsed, made \in May("command") :
       sip' = IF parsed /\ made THEN "configured" ELSE "unconfigured"
  /\ UNCHANGED <<avm, stored, listing, dialling, mmVars, fault>>

\* av_mm_call_sipcall: an MMCall is asked for, unless the number is empty.
SipEventIncomingCall ==
  /\ Receives("call")
  /\ \/ \E d \in Dials : /\ dialling[d] = "none"
                         /\ dialling' = [dialling EXCEPT ![d] = "creating"]
     \/ UNCHANGED dialling
  /\ UNCHANGED <<avm, stored, listing, sip, mmVars, fault>>

\* av_mm_call_sipcall_with_call: the MMCall is started, or there is none.
MMCallCreated(d) ==
  /\ Running
  /\ dialling[d] = "creating"
  /\ \/ dialling' = [dialling EXCEPT ![d] = "starting"]
     \/ "dial" \in Failures /\ dialling' = [dialling EXCEPT ![d] = "ended"]
  /\ UNCHANGED <<avm, stored, listing, sipVars, mmVars, fault>>

\* The thread of an AvModem, taken from one that may have been freed.
SipThreadUsed ==
  IF Freed THEN "modem"
  ELSE IF avm.threads[avm.sipthread] = "freed" THEN "thread"
  ELSE "none"

\* av_mm_call_sipcall_start_call: a start that succeeded is told to the thread
\* that the AvModem has now, if there is memory for it.
MMCallStarted(d) ==
  /\ Running
  /\ dialling[d] = "starting"
  /\ dialling' = [dialling EXCEPT ![d] = "ended"]
  /\ \/ fault' = SipThreadUsed
     \/ Failures \cap {"dial", "command"} # {} /\ UNCHANGED fault
  /\ UNCHANGED <<avm, stored, listing, sipVars, mmVars>>
-----------------------------------------------------------------------------
ModemManager ==
  \/ ModemRegistered \/ ModemUnregistered \/ ModemRemoved
  \/ \E c \in Calls : CallAdded(c) \/ CallDeleted(c)
  \/ \E c \in Calls, s \in CallStates : CallChanged(c, s)

ListOperation ==
  \E i \in DOMAIN listing : ListMade(i) \/ ListReady(i) \/ ListAsserted(i)

SipThread == SipReady \/ SipAsksForCall

SipEvent ==
  \/ SipEventReady \/ SipEventIncomingCall
  \/ \E d \in Dials : MMCallCreated(d) \/ MMCallStarted(d)

\* After a fault anything may happen; when all calls are over nothing need to.
Ended == (~Running \/ ~stored) /\ UNCHANGED vars

Next == ModemManager \/ ListOperation \/ SipThread \/ SipEvent \/ Ended

Spec == Init /\ [][Next]_vars

\* ModemManager answers, the main loop dispatches, the SIP thread gets to poll.
FairSpec ==
  Spec /\ WF_vars(ListOperation) /\ WF_vars(SipReady) /\ WF_vars(SipEvent)
-----------------------------------------------------------------------------
(* Properties *)

\* The type of every variable.  However often calls ring and end, the counter of
\* active calls stays within one above zero and one for each call below.
TypeOK ==
  /\ avm \in [ refs      : 0..(1 + 2 * Cardinality(Calls)),
               up        : BOOLEAN,
               calls     : Seq(Calls),
               active    : (-Cardinality(Calls))..1,
               handled   : SUBSET Calls,
               held      : [Calls -> {0, 1}],
               starts    : 0..MaxStarts,
               threads   : [Threads -> {"none", "live", "untold", "freed"}],
               sipthread : Threads \cup {NoThread},
               source    : Threads \cup {NoThread} ]
  /\ stored \in BOOLEAN
  /\ \A i \in DOMAIN listing :
       listing[i] \in [call : Calls, added : BOOLEAN, found : ListAnswers]
  /\ sip \in {"starting", "ready", "configured", "unconfigured"}
  /\ events \in {<<>>, <<"ready">>, <<"call">>}
  /\ dialling \in [Dials -> {"none", "creating", "starting", "ended"}]
  /\ mm \in [Calls -> CallStates \cup {"unborn", "deleted"}]
  /\ unwatched \subseteq Calls
  /\ fault \in {"none", "modem", "thread", "assert"}

\* An MMCall leaves the list because its state changed, because it was deleted
\* or because the service stops: however these meet, it is listed at most once,
\* the program holds one reference to what it lists and none to the others, and
\* these have no handler that could be called.
ListedCallsAreHeld ==
  /\ \A c \in Calls : avm.held[c] = IF c \in Range(avm.calls) THEN 1 ELSE 0
  /\ avm.handled = Range(avm.calls)
  /\ Len(avm.calls) = Cardinality(Range(avm.calls))

\* av_mm_voice.c:117: the AvModem is there for the answer of each list_calls.
AnswersFindModem == Freed => listing = <<>>

\* A removed AvModem goes in the end, when its operations have been answered.
RemovedModemIsFreed == ~stored ~> Freed \/ ~Running

\* The SIP threads share sstate (av_sip.c:36).  One that can still be told to
\* stop is that of the service, and the service has no other unless its own
\* could not be set up: stopping it stops what was started.
ServiceHasItsThread ==
  \A t \in Threads :
    avm.threads[t] = "live" <=> avm.up /\ t = avm.sipthread /\ t = avm.starts

\* What the main loop watches is an open socket, for an AvModem that is there.
WatchedThreadLives ==
  avm.source # NoThread => ~Freed /\ avm.threads[avm.source] = "live"

\* av_mm_voice.c:9: with all answers in, and as long as they come in order, the
\* list is that of the calls ModemManager has, but for those that were there
\* when nobody listened.
ListFollowsModemManager ==
  Running /\ avm.up /\ listing = <<>> =>
    \A c \in Calls \ unwatched :
      c \in Range(avm.calls) <=> mm[c] \in CallStates \ {"terminated"}

\* Each SIP thread, that of a service started again like that of the first, is
\* sent its configuration once it has said that it is ready, or there is none to
\* send; unless the service it was started for has stopped by then.
ReadyThreadIsServed ==
  \A t \in Threads :
    Running /\ SipRuns /\ avm.source # NoThread /\ avm.starts = t
      ~> \/ avm.starts = t /\ sip \in {"configured", "unconfigured"}
         \/ ~avm.up \/ ~Running
-----------------------------------------------------------------------------
(* What comments of the code say and the code does not keep                  *)

\* av_mm_voice.c:117: an extra reference keeps the AvModem from going away.  It
\* is dropped when the MMCall that was looked for has been registered with that
\* AvModem, also after the service has been stopped, when nothing unregisters it
\* again; and the callbacks of a SIP call's MMCall hold none.
ModemUsedWhileThere == fault # "modem"

\* av_mm_voice.c:13: an MMCall that is deleted is looked for in the list, to
\* unref it.  It is not there yet when the answer to its addition comes last.
DeletedCallIsReleased ==
  Running /\ avm.up /\ listing = <<>> =>
    \A c \in Range(avm.calls) \ unwatched : mm[c] # "deleted"
=============================================================================

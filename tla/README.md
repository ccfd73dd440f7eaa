# A TLA+ model of AirVoice

AirVoice is a gateway: it registers each cellular modem that ModemManager
knows as a SIP user agent, takes INVITEs from a PBX, dials the number on the
modem and carries the audio of the modem's serial port into an RTP session.
This directory holds the specifications of its core, the TLC runs that check
them and the TLAPS proofs about them.  Everything is written from the C sources
in `src/`; these have no tests and no documents, so that "what the code says of
itself" means its comments and messages.

## 1. The system

| Component | Source | State | Operations | Talks to |
|---|---|---|---|---|
| Program life cycle | `av.c`, `av_utils.c` | `ll`: main loop, signal and timer sources, `async_counter` | start, SIGINT, exit timer, `av_utils_async_start/end` | calls the manager's init and deinit |
| Modem manager | `av_mm.c`, `av_mm_manager.c` | `ll->mm_watch`, `ll->manager`, its signal handlers | ModemManager appears, vanishes, `mm_manager_new` answers, object added, object removed | storage, modem registration |
| Storage | `av_storage.c` | `ll->av_modems` | add, find, find by path, remove | - |
| Modem registration | `av_mm_modem.c`, `av_modem_gobject.c` | `AvModem` and its signal handlers | register, state changed, dispose | starts and stops the voice service |
| Voice service | `av_mm_voice.c` | signal handlers, SIP thread, its event channel | init, deinit, call-added, call-deleted, `list_calls` answers, events of the SIP thread | SIP thread (socket pair), MMCalls |
| Calls of ModemManager | `av_mm_call.c` | list of MMCalls, `active_calls_counter` | register, unregister, state changed, create and start a call for a SIP call | SIP thread |
| SIP thread | `av_sip.c` | `sstate`: eXosip context, configuration, the call in progress with its event, connection and audio thread, the local RTP port | commands of the main thread, eXosip events, timer, events of the audio thread | main thread, audio thread, network |
| Audio thread | `av_audio.c` | `astate`: RTP session, serial port, time stamp | init and exit commands, copying serial data to RTP | SIP thread, serial port, network |
| Threads and commands | `av_thread.c`, `av_threadcomm.c` | a socket pair and a GThread | setup, teardown (join), send, receive | - |
| Configuration | `av_config.c` | - | parse, free | - |

The program has one main thread (a GLib main loop), one SIP thread per modem
whose voice service is up, and one audio thread per SIP call in progress.
There is no lock.  A thread tells another something by writing a
`struct av_thread_cmd` - a number and a *pointer* - to a socket pair; what the
pointer leads to belongs to the receiver, or is shared, by convention.  The
main thread waits for the SIP thread and the SIP thread for the audio thread in
`g_thread_join` only.

What is hard here, and where it bites, is the list `hazards` of `PROJECT.json`.
In short: a pointer handed over in a command may outlive what it points to; an
event may be served after the call it speaks of is over, or when the next one
is in progress; ModemManager answers when it likes, also after a stop; a thread
may fail half-way and its peers must not wait for it; and the clean-up paths of
the code assume that what they clean up was set up.

What makes each component correct:

* SIP thread: one call at a time; a call's event, connection and audio thread
  live exactly as long as it is in progress; the answer of a call describes the
  RTP session of that call; every wait ends.
* Audio thread: it uses its connection only while the call is in progress.
* Threads and commands: commands arrive whole, in order, and never block.
* Voice service and calls: the list of MMCalls follows ModemManager's; the
  references and the SIP thread of the service agree with it; a SIP call is
  dialled once.
* Modem registration: the voice service is up while the modem is registered.
* Manager and storage: the storage holds the modems of the current
  ModemManager, each once.
* Life cycle: an exit that was requested happens.

## 2. The plan

| Module | Models | Status |
|---|---|---|
| `CallSession` | what the gateway promises about its calls (abstract) | done |
| `AvSip` | SIP thread, audio thread, the main thread's side of them | done; implements `CallSession` |
| `AvSipProofs` | types, safety and refinement of `AvSip` | done: its safety invariants but one, and the refinement |
| `AvSipFaultProofs` | which crashes are left, and how far the disagreements of `AvSip` go | done: `NoStaleCallData`, `CrashesWithMemory`, `WrongCallIsOverHolds` |
| `AvSipOnceProofs` | that `AvSip` sends each command once, and what follows | done: `ChannelsBounded`, `MMCallCreatedOnce`, `EndedByOwnEvent` |
| `AvManager` | life cycle, manager, storage, modem registration: ModemManager appearing and vanishing while `mm_manager_new` is under way, exit | done |
| `AvVoice` | the voice service of one AvModem: list of MMCalls, counter, references, restart of the SIP thread | done |
| `FifoChannel` | what the rest of the program takes a socket pair for (abstract) | done |
| `AvThreadComm` | a thread, its sockets, and the loops around `write` and `read` | done; implements `FifoChannel` |
| `AvMedia` | the choice from an SDP offer, and the audio thread's session, serial port and copying | done |
| `AvMediaProofs` | types and safety of `AvMedia` | done: everything but its liveness |
| `AvThreadCommProofs` | types, safety and refinement of `AvThreadComm` | done: everything but its liveness |
| `AvManagerProofs` | types and safety of `AvManager` | done: everything but its liveness |
| `AvVoiceProofs` | safety of `AvVoice` | done: everything but `TypeOK` and its liveness |
| `AvVoiceTypeProofs` | `TypeOK` of `AvVoice`, with its bounds | done |

How they fit together: `AvManager` has the whole main thread but only one bit
per voice service; `AvVoice` has one voice service in full but the SIP thread
only as far as its life and its configuration go; `AvSip` has that SIP thread in
full, from its start to its join, over channels of whole commands;
`AvThreadComm` has one such pair of channels byte by byte, and assumes of their
load what `AvSip` shows (`ChannelsBounded`); `AvMedia` has what `AvSip` leaves
free about one call, the offer it accepts and the audio it carries.

Order: the SIP thread first, because everything the user sees passes through
it and because three threads meet there; then the main thread, whose
asynchronous operations are the other source of surprises; then what both rest
on.  Every safety property that a passing run checks is now also a theorem; what
could still be proved is how far `voice_use_after_free` goes, as
`AvSipFaultProofs` does it for `sip_own_call`.

## 3. AvSip

### State and actions

A value of `Calls` is one SIP call and all that the program makes for it - its
`cid`, INVITE event, `av_rtp_connection`, audio thread, RTP port, dialled
number, MMCall path.  The properties tell only whose these are.  A connection
is alive exactly while its call is in progress, since
`av_sip_protocol_call_end_free_state` frees it when `current_call_event` is
cleared; so `ConnectionAlive` compares the payload of the command with
`curCall`.

| Variable | Code |
|---|---|
| `toSip`, `toCore`, `toAudio[c]`, `fromAudio[c]` | the two directions of the socket pair of each thread |
| `sipPc` | the SIP thread: `init`, waiting in `poll`, serving the main thread (`core`), eXosip (`events`) or the audio thread (`audio`), waiting in `g_thread_join` (`join_...`), after the loop (`closing`), ended |
| `curCall` | `current_call_event` and `current_call_connection`, which are set and cleared together |
| `audiothread`, `localPort`, `configured` | the fields of `sstate` |
| `keepEvent`, `kept` | `keep_event`, and the events not given back to eXosip |
| `audioPc[c]` | the audio thread of `c`: not there, starting, polling, between the RTP and the serial set-up, ended |
| `corePc`, `mmCall[c]` | the main thread: running, in the join of the SIP thread, past it, or past a stop that could not be sent; the two asynchronous calls to ModemManager |
| `sipEvents`, `happened` | eXosip's queue |
| `fault` | the undefined behaviour that was reached; the model stops there |
| `dialled`, `answers` | history |

Each handler is one action, split where another thread can act in between and
be seen: `av_sip_protocol_call_end` sends the exit command (`CallEnd`) and waits
for the thread (`SipJoin`); `CMD_AUDIO_INIT` reads the connection twice
(`AudioRtpInit`, `AudioSerialInit`); poll and serving are two actions
(`SipPoll`), so that more may arrive in between.  A command in hand stays at the
head of its channel until served.  `Failures` and `Traffic` are sets chosen by
each run: what may fail, and what the network may send; `Failures` with
`"alloc"` loses any command (`Posted`) and any receive (`SipReceiveFails`), but
for the exit command of an audio thread, which is a kind of its own, `"exit"`,
because so much hangs on it.

Without memory for that command `av_sip_protocol_call_end` frees the event, the
connection and the path of the call, leaves `sstate->audiothread` and its polled
socket as they are, and returns (`CallEnd`, `KeptOf`).  The model goes on as the
code does: the thread that was not told still polls, its events are still served,
now without a call or with the next one, and the next INVITE starts a second
thread beside it.  What is undefined then is where the model stops:
`conn_after_free` (a connection of a call that is over, or a NULL one, is read),
`rtp_ok_no_call` (`AUDIO_EVENT_RTP_OK` finds no event) and `astate_shared` (a
second thread sets `astate` while the first uses it).

A call's events start with its INVITE and end with RELEASED, each type once per
call (`NetworkEvent`): this is what eXosip does and the only assumption about
the network.

Left out: the timer (it only calls `eXosip_automatic_action`), failures of
`poll` itself, `current_call_path` (it is only printed and freed), the text of
requests, answers and SDP (their acceptance is a free choice), and the copying
of audio and the choice from an offer, which are in `AvMedia`.  There is one SIP thread, started once: the model begins when
`av_mm_voice_startsip` has succeeded.

### CallSession

The abstract specification: `Accept`, `Dial`, `Answer`, `End` over `current`,
`ended`, `dialled`, `answered`.  The mapping takes `curCall` for `current`, the
calls whose audio thread has ended and that are not in progress for `ended`, and
the histories.  It says nothing of *which* call an answer is for: the code does
not ensure that (see the violations).

### Runs

Both use `MCAvSip`, which adds the symmetry of calls that `sip_safety` uses; its
properties, the refinement among them, treat all calls alike.  Two calls are
enough for everything that concerns one call meeting the remains of another: all
the stale pointers and values belong to the call before the current one, since
the audio thread is joined before the next call is accepted, or is the one that was
left behind.  More threads left behind are for the theorems.  Each call has
one INVITE and two terminations in `sip_safety`, so every order of late, early and
doubled terminations occurs; the events that are only printed (`"ACK"`) are in
`sip_liveness`, where the question is whether they hold anything up.

| Run | Failures | Checks |
|---|---|---|
| `sip_safety` | all, memory included | `TypeOK`, `OneAudioThread`, `OnlyCurrentInviteKept`, `NoStaleCallData`, `PortIsOfOwnCall`, `ChannelsBounded`, `MMCallCreatedOnce`, `EndedByOwnEvent`, `ImplementsCallSession` (550 thousand states) |
| `sip_liveness` | registration, audio, answer | `ShutdownCompletes`, `ReleasedCallEnds`, `AcceptedCallIsDialled`, `DialledCallIsAnswered` |

What they show: the join in `call_end` is what keeps the audio threads apart and
the pointer passed in `CMD_AUDIO_INIT` valid, whatever other command is lost and
whatever else fails; the answer for the right call has the right port; sockets
never fill up, hence no thread ever blocks in `write` and the waits in the joins
are the only ones; those end.

The first two, `OneAudioThread` and `NoStaleCallData`, make one exception, memory
that fails for `CMD_AUDIO_EXIT` itself: a thread that was not told
(`Untold`: of a call that is over, running, and with no exit command on its way)
is the only second thread there can be, and the only reason for stale data.  What
such a thread does is not limited by them; `ChannelsBounded`, `PortIsOfOwnCall` and
`ImplementsCallSession` hold all the same.

`ChannelsBounded` bounds the commands per channel by a handful, each of 16
bytes; a socket pair holds some hundred kilobytes.

One run expects a violation, a finding of `PROJECT.json`:

| Run | What happens |
|---|---|
| `sip_own_call` | the SIP call ends while ModemManager starts the MMCall: stage 1 follows a NULL event or, with a second INVITE in between, sends its 183 to the wrong call |

`keep_event` is assigned by an INVITE only, so that whatever is drained after an
accepted INVITE in the same call of `av_sip_protocol_events` is never freed,
which the comment before `av_sip_protocol_call_stage0` does not intend.  This is
in the model (`FinishEvent`); `OnlyCurrentInviteKept` says how far it goes: no
other INVITE is kept.

More crashes are modelled as faults, which `sip_safety` reaches and no
property forbids: `invite_unconfigured`, an INVITE before the configuration,
when `sipconf` is NULL; and `null_audiothread`, when an audio thread cannot start
and `call_end` writes to a NULL thread; `sipthread_after_free`, an MMCall that
starts after the stop (see `AvVoice`).

These are states the passing runs pass through or end in as well: their
properties say `\/ fault # "none"` where a promise cannot outlast a crash.

### Fairness

`FairSpec` assumes weak fairness of the SIP thread, of each audio thread, of the
main loop's events and of the answers of ModemManager: the kernel runs threads
that can run, GLib serves sources that are ready, and a D-Bus call ends with its
time-out at the latest.  Nothing is assumed of the network or of the stop.  The
SIP thread serves its sources in a fixed order, so the audio thread could wait
for ever behind an endless stream of other work; the traffic here is finite,
which is the bound under which `AcceptedCallIsDialled` holds.

## 4. AvManager

### State and actions

The main thread without its SIP calls: everything is a callback of one loop, so
every callback is one action, and the interleaving is that of signals, answers
and the exit timer.  Managers are numbered by the appearance of ModemManager
that asked for them; an MMObject is a record of a manager and a modem, because
each manager has objects of its own for the same modem.

| Variable | Code |
|---|---|
| `loop` | where `main` is; it enters the loop even when `av_mm_init` has failed, whatever `av_mm.c:125` says, and the exit timer ends it |
| `watching`, `exiting`, `sigint` | `ll->mm_watch`, `ll->exit_timeout_src_tag`, `ll->unix_signals_src_tag` |
| `asyncCounter` | `ll->async_counter` |
| `manager`, `connected` | `ll->manager`; the managers whose object-added and object-removed handlers are connected |
| `avModems` | `ll->av_modems`, a list, because `av_storage_find_mmobject` depends on its order |
| `attached`, `voice` | AvModems with a state-changed handler; with call-added and call-deleted handlers and a SIP thread |
| `untold` | AvModems that left a SIP thread running, because there was no memory for its exit command |
| `opened`, `pending` | how many times `mm_manager_new` has been called, and the calls not answered |
| `listing`, `dialling` | the `list_calls` operations not answered, each with the AvModem that it holds a reference to; the AvModems for which an MMCall is being created and started, which hold none |
| `owner`, `notified`, `present`, `gone`, `state` | ModemManager: on the bus, what the watch was told, its modems, and their states |
| `known` | the modems that each manager has an MMObject for |

An AvModem is alive while it is in the list or held by a `list_calls` operation
(`Alive`); `av_modem_dispose` is part of the action that drops the last reference
(`Dispose`).  Like the loss of the registration it takes `av_mm_voice_deinit`
along (`Deinit`): where the service is down this does nothing, and where it is up
the SIP thread is told to exit and joined, unless there is no memory for the
command, when the thread runs on without anybody who knows it (`untold`).  The
handlers on MMCalls, which an early return of the deinit may leave behind, are in
`AvVoice` and not here.  A modem that is removed while held keeps its voice
service and goes on receiving the signals of its MMModem.

Of ModemManager it is assumed that D-Bus delivers in order: it does nothing more
until the watch and the connected managers have been told of what it did last
(`Settled`); among them the order is free, and the answers to `mm_manager_new`
may take as long as they like.

A voice service is one bit: a SIP thread that could not be started, or has ended
by itself, is `AvSip`'s subject.  `ListAnswered` leaves out the MMCalls that the
answer adds or removes, and the assertion on an empty list: these belong to
`AvVoice`.  `DialEnds` is the failure of the creation, or the end of the start,
whichever comes: the counter is touched once on either way.

### Runs

Two modems are enough for the storage: the search differs from an exact one as
soon as there is a list in which nothing matches.  `MaxManagers = 2` is one
restart of ModemManager, which is what two overlapping calls of
`mm_manager_new` need; `MaxListings = 1` and `MaxDials = 1` let one operation of
each kind be under way at a time, so that a modem can be held, or be used, after it
has left the list and another one has come.  What two of a kind do to each other -
to the counter, and to an AvModem that both hold - is left to the theorems, which
have any number.  A modem that comes back counts as another
one, since ModemManager gives it a new path.  The states are one below REGISTERED,
that one, and one above, so that a modem can be found in each, and step down to
REGISTERED as well as up.

| Run | Bounds | Checks |
|---|---|---|
| `mm` | 2 modems, 2 managers, 1 listing, 1 dialling, three states; D-Bus, managers and exit commands may fail | `TypeOK`, `CounterCountsOperations`, `OverlapOnlyWhilePinned`, `VoiceOnlyWhileRegistered`, `ExitCompletes`, `RegisteredModemServed` |

A modem without MMModem or MMModemVoice (`"modem"`, `"voice"`) is in the model and
in no run, since it gets no service by right; the theorems about the four
invariants have it.

What it shows: the counter never drifts, whatever order the answers come in, so
the exit always comes; the voice service follows the state of its modem even
across a restart of ModemManager.  `OverlapOnlyWhilePinned` is a promise the code
keeps by accident: two SIP threads would share `sstate`, and what keeps them apart
is that the search never lets a second modem in.  With the search put right (the
mutant `FindExact`) it fails, as it does when a disposed AvModem keeps its service
(`DisposeOnly`).

`RegisteredModemServed` says that a modem that stays registered gets its service
and *keeps* it (`<>[]` on both sides), with two premises.  One is the finding
below: one modem at a time.  The other is a disagreement of the code with itself:
`av_mm_modem.c:81` says "If the modem device is registered to the network,
services are initialized.", but `av_mm_modem_register` asks for exactly
REGISTERED (`InitsVoice`), and a modem found connecting or connected is not
started when it steps down to REGISTERED either, because only a step up counts
(`Gained`).  Such a modem stays without service for as long as it stays
registered; without the premise about connected modems TLC refutes the property
in this run.  The premise says no more than that: no modem known to the program is
connected and without service.

| Run | What happens |
|---|---|
| `mm_second_modem` | a second modem is taken for a stale one and not added; when it is removed, the first one goes |

One thing more that the model does and no run forbids: a manager that is delivered
after SIGINT, or after a restart of ModemManager that came before its delivery,
is installed and never released (`ManagerReady`).

### Fairness

`FairSpec` assumes that the main loop dispatches what is ready (`Callback`,
`ExitTimer`), that some operation is answered while any is outstanding (`OperationAnswered`), and that
each manager asked for is delivered or refused, however many other answers come
meanwhile: GLib's sources have equal priorities, and D-Bus calls time out.  Nothing is
assumed of the user, the modems or the network.  `ExitCompletes` speaks of runs
in which calls stop coming (`NewWork`) in the end: a modem that is held by an
answer still gets call signals, each of which holds it again, and a manager
delivered late brings new ones, so a stream of calls can keep the counter above
zero for ever.

## 5. AvVoice

### State and actions

One AvModem from the moment it is stored and registered.  Every callback of the
main loop is one action.  What its functions do to the AvModem one after the
other is a composition of operators on the record `avm`: for instance the answer
to `list_calls` is `Unreffed(Registered(avm, c, s), told)`, and the last
reference takes `Stopped` with it.

| Variable | Code |
|---|---|
| `avm.refs`, `stored` | the references to the AvModem, and whether `ll->av_modems` has one |
| `avm.up` | `voice_signal_call_added`, and with it the two handlers |
| `avm.calls`, `avm.handled`, `avm.held`, `avm.active` | `mmcalls`; the MMCalls with a state-changed handler, and the references to them; `active_calls_counter` |
| `avm.sipthread`, `avm.threads`, `avm.starts` | the pointer, which is never cleared, and each thread that was set up: live, untold (its exit command could not be made) or freed |
| `avm.source` | the thread whose socket the main loop watches |
| `listing` | the `list_calls` operations under way: what was asked, and the list once ModemManager has made it |
| `sip`, `events` | the SIP thread from its start to its configuration, and what it has sent |
| `dialling` | MMCalls asked for by SIP threads: being created, being started, over |
| `mm` | the calls as ModemManager has them |
| `unwatched` | history: the calls that changed when there was no handler, or no memory for the operation |
| `fault` | what ended the program: the freed AvModem or thread that was used, or the assertion |

A `list_calls` operation has three steps: it begins (`FindCall`), ModemManager
makes its list (`ListMade`), and the answer is dispatched (`ListReady`,
`ListAsserted`).  Lists are made in the order of the requests.  Answers come in
that order too, unless `Failures` has `"reorder"`: `libmm-glib` makes a proxy for
every call in a list it has got, asynchronously, so that a later answer with
fewer calls may be first.

`StateSeen` gives the state of an MMCall that is gone at ModemManager when its
answer comes: any that it may have had last.  States are three, as
`av_mm_call_state_eval` tells them apart.

A deinit without memory for the exit command leaves the thread running
(`"untold"`); the model then goes on, since the code does.  A deinit with a
pointer to a freed thread is the fault `"thread"`: it takes a restart whose
`av_thread_setup` fails.

### Runs

Two calls are what the list, the counter and the overtaking of answers need:
with one, no call would be left when another goes.  `MaxStarts = 2` is one
restart, which meets everything that is left of the first start; `MaxDials = 1`
because SIP calls touch the AvModem only when they end.

| Run | Bounds | Checks |
|---|---|---|
| `voice_safety` | 2 calls, 2 starts, everything may fail, answers in order | `TypeOK`, `ListedCallsAreHeld`, `AnswersFindModem`, `ServiceHasItsThread`, `WatchedThreadLives`, `ListFollowsModemManager` (1.2 million states) |
| `voice_liveness` | 1 call, 2 starts, everything may fail, answers in any order | `RemovedModemIsFreed`, `ReadyThreadIsServed` |

What they show: list, handlers and references agree however the three ways a
call leaves the list meet; an operation always finds its AvModem; every SIP
thread that can still be told to stop is the one that is; with answers in order
the list is ModemManager's as soon as they are in.  `ReadyThreadIsServed` is stated
for each start of the service by itself: that a thread was served before a restart
says nothing of the one after it (the mutant `SipEventReadyOnce`).  The counter is no count: it stays
at 1 with several calls and goes below zero when they end; `TypeOK` says how far.

| Run | What happens |
|---|---|
| `voice_use_after_free` | a call is added; before its answer the modem loses its service and is removed. The answer connects a handler to the MMCall, drops the last reference to the AvModem, and nothing disconnects it: the next change of the call uses freed memory |
| `voice_stale_call` | the answer to the addition comes after the one to the removal, which found nothing to remove |

### Fairness

`FairSpec` assumes that ModemManager answers and the main loop dispatches
(`ListOperation`, `SipEvent`), with D-Bus's time-out as the last resort, and that
the SIP thread gets to its loop (`SipReady`).  Nothing is assumed of modems, calls
or the network.

## 6. AvThreadComm and FifoChannel

### State and actions

`AvThreadComm` is one `struct av_thread` with the two threads that use it, end 0
for the one that set it up and end 1 for the other, from `av_thread_setup` to
`av_thread_teardown`.  `pipe[e]` is what was written at end `e` and not read; a
byte is a record of its command and its place.  `TxWrite` and `RxRead` are one
call of `write` or `read` each, taking any part of what remains; `EAGAIN` is a
stutter, since the loops go round.  Commands of an end are numbered, so that
order and identity show; 0 is the exit command, after which end 0 only waits
(`av_mm_voice_stopsip`, `av_sip_protocol_call_end`) and whose receiver ends.

The callers ignore the result of `av_thread_txcmd`.  When a loop gives up in the
middle of a command, what the other side makes of the rest are pointers composed
of parts: the model calls this `fault = "torn"` and stops.  A loop that fails
before the first byte, or for want of memory, only loses or postpones a command,
and the model goes on; that is the failure `AvSip` knows as `"alloc"`.

`FifoChannel` promises of each direction: what is received is what was sent, in
order, whole.  The mapping takes the histories `sent` and `received`.

### The run

`comm`: commands of 3 bytes, room for 9, at most 2 pending beside the exit
command, 3 sent per end.  Three bytes make a first, a middle and a last part;
three pending commands fill the room exactly.  The real numbers are 16 bytes
and, on Linux, some hundred kilobytes, with the same relation
(`CapacityAssumption`), which `ChannelsBounded` of `AvSip`, proved there, shows for the program's
own use.  It checks `TypeOK`, `StreamOfCommands`, `WritesDoNotWait`,
`ImplementsFifo`, `CommandsArrive`, `ToldThreadIsJoined` (79 thousand states).

What it shows: a loop that ends always leaves the stream between two commands,
so that the pointers of `AvSip` arrive as they were; no write waits for a reader;
a thread told to exit is joined, even when both ends are writing.

Fairness: both threads go on with a loop they are in and poll what they can read
(`Transfer`); strong fairness of `RxRead`, because with `"read"` or `"alloc"`
failing every time nothing would arrive: an interrupted or starved read succeeds
in the end.  The fairness on `Teardown` is that a join returns.

## 7. AvMedia

### State and actions

One call, from the SDP offer of its INVITE to the end of its audio thread.

An offer is a session-level `c=` line and up to two media, each with a type, a
port, payloads, the payloads that have a PCMU/8000 `rtpmap`, and its own `c=`
line.  Comparing strings becomes membership: an `rtpmap` counts when it is
`"<payload> PCMU/8000"`.  A connection is that of the medium or, without one, of
the session; `eXosip_get_audio_connection` looks at the first audio medium, while
the port is that of the medium in hand (`AudioAddress`, `ConnectionSetup`).

| Variable | Code |
|---|---|
| `offer`, `call` | the SDP, and how far its call is |
| `target` | the `av_rtp_connection`: the medium its port and the level its address come from |
| `commands` | the SIP thread's commands to the audio thread |
| `pc` | `av_audiothread_startup`: polling, in `av_audio_do_serial_read`, about to send, ended |
| `session`, `serial` | `astate->session` by its remote end, and `poll_data[1].fd` |
| `line` | what poll would say of the serial port |
| `missing`, `retries`, `nbytes`, `got` | the locals of `av_audio_do_serial_read`, and how much of its buffer has been written |
| `userTs`, `packet` | `user_ts`, and the last packet sent: the length given, and what there was |

### The runs

`media`: ports on both sides of each limit and of each parity, one well-known and
one dynamic payload, chunks of 4 bytes read in at most 3 reads, time stamps
modulo 8; the real numbers are 160, 10 and 2^32.  Reads that fill the chunk, stop
short of it, return nothing, or fail at any point all occur, as do time stamps
that wrap.  540 thousand states.

`PcmuIsFound` says which offers are taken, against a definition that does not go
through the code's loops: PCMU are the payloads that an `rtpmap` says to be, and 0,
which is PCMU by its number (`PcmuPayloads`).  It excepts one case, that payload 0
is the only one and has no `rtpmap`: there the code refuses what it should take.
The comment at `av_sip.c:215` says "If I am right, we can be sure that if payload 0
is present, it should be good for us.", and the run `media_payload_zero` shows that
it is not (`PayloadZeroIsGood`; one port, no failures, since the offer alone decides).

`AddressBelongsToPort` says in which offers address and port may come from
different media (they may: it bounds how, and forbids it only where there is one
audio medium or no address but the session's); `SentWasRead` that the
stack buffer is neither overrun nor sent beyond what was read; `SerialHasSession`
that the clean-up fits what was set up, from any failure; `ExitIsObeyed` that the
exit command gets through, also when the modem has hung up and poll returns at
once for ever.

What is sent can be wrong in the other direction, and the model has it so: the
length is that of the last read, which is -1 after an error and leaves out what
earlier reads brought (`SendPacket`).  No property forbids that.

Fairness: the audio thread runs.

## 8. Proofs

The modules of proofs go with their components and are checked by TLAPS with no
fact taken on trust.  They hold for every value of the constants that the named
assumptions of the component allow.

### AvSipProofs

It proves, for every `Calls`, `Failures` and `Traffic` and from
`NoCallAssumption`, `FailuresAssumption` and `TrafficAssumption` alone:

* `TypeCorrectness`: `Spec => []TypeOK`.  `TypeOK` is not inductive: a handler
  takes the head of a channel, and only `Serving` (a thread that serves a
  message finds one; `audiothread = curCall`) says that there is one.
  `Typed == TypeOK /\ Serving` is.
* `OneAudioThreadHolds`, from `AudioShape`: an audio thread that is not over serves
  the call in progress or is `Untold`, and a `CMD_AUDIO_INIT` carries the connection
  of its own thread's call, or NULL when that call is over.
* `OnlyCurrentInviteKeptHolds`, from `EventShape` (events are queued once, and an
  INVITE is queued only while its call has no audio thread yet) for what is kept,
  and from itself for what is not: `NoOtherInviteKept` is inductive.
* `PortIsOfOwnCallHolds`, from `DialShape`:
  every command and event that names a call is about one that was dialled, and
  what an audio thread reports is its own port.
* `CallSessionImplemented`: `Spec => ImplementsCallSession`.  `SipInit` and the
  rest stutter, `InviteAccepted` is `Accept` (its call cannot have ended:
  `EventShape`), `SipAudioRtpOk` is `Dial` or, when it reports again, a stutter,
  `SipCoreCallInProgress` is `Answer` (`DialShape` gives it something dialled),
  `SipJoin` is `End`.

Each piece of the invariant is proved inductive relative to the ones before it
(`TypeStep`, `ServingStep`, `AudioShapeStep`, `EventShapeStep`,
`DialShapeStep`), one step per action; channels are spoken of through `In` and
a few lemmas about `Head`, `Tail` and `Append`.

### AvSipOnceProofs

It extends `AvSipProofs` and adds no assumption, except that `ChannelsBounded`
speaks of `Cardinality(Calls)` and so needs `Calls` to be finite (stated in the
theorem).

* `AudioOnce`: between the SIP thread and an audio thread, `AUDIO_EVENT_READY`
  makes `CMD_AUDIO_INIT` follow and that `AUDIO_EVENT_RTP_OK`, so that there is at
  most one of the three at a time, and none once the call is dialled; the exit
  command is sent once, since the SIP thread then waits for the thread to end.
  It is inductive relative to the invariants of `AvSipProofs`.
* `CoreOnce`: between the SIP thread and the main thread every command and event
  is in its channel at most once, because each moves `sipPc`, `corePc` or the
  `mmCall` of its call on before it can be sent again.  That a call is announced
  once is `AudioOnce`.
* `ChannelsBoundedHolds`: channels whose messages differ hold no more than there
  are messages.  It is the ground for `CapacityAssumption` of `AvThreadComm`.
* `MMCallCreatedOnceHolds`: `CoreOnce` says that an MMCall not yet asked for goes
  with an announcement in the channel.
* `EndedByOwnEventHolds`, from `EndShape` (the SIP thread joins the audio thread
  for an event only when the network brought one for this call) and `EventShape`.

### AvThreadCommProofs

From `SizeAssumption` and `CapacityAssumption`: any size of a command, any room
in a socket that is enough for one command more than may be pending, any number
of commands.

* `TypeOKHolds`, from `CommTyped`, which adds that an end that is writing has
  something left to write.
* What makes the stream right is `Carries`: the unread bytes, those already in
  the reader's buffer first, are the commands that were not received, end to end,
  and the written part of the next.  It is `StreamOfCommands` without division
  (byte j of command k is at `Size * k + j`), because products can be reasoned
  about and quotients hardly.  Four lemmas say what the loops do to it, apart
  from any state: `WriteSome` (any part of a write), `WroteAll` (a command begun
  and finished is one of those carried), `ReadSome` (a read moves the border
  between buffer and socket), `ReadAll` (a full buffer is the first command that
  was not received, and what stays is carried as before).  `CommShape` is
  `Carries` in both directions as long as no command is torn; `WriteStep` and
  `ReadStep` use the four, and no other action moves a byte.
* `ImplementsFifoHolds`: `Spec => ImplementsFifo`.  The write that finishes a
  command is `Send`, the read that does is `Receive`: `ReadAll` says that what
  comes out is the command `FifoChannel` expects.  All else stutters.
* `StreamOfCommandsHolds`, from `Carries` and the uniqueness of division with
  remainder (`OneDivision`, `ByteOfStream`).
* `WritesDoNotWaitHolds`, from `PendingShape` (an end that writes has at most
  `MaxPending` commands pending, the exit command being the last) and the length
  of what is carried.

### AvMediaProofs

From `OffersAssumption` and `SizesAssumption`: any set of ports, chunk size,
number of reads, modulus of the time stamps and failures.

* `SentWasReadHolds`, from `ReadShape`: while a packet is being read, what was
  read and what is missing make up the buffer, and the length of the last read is
  within what was read.
* `SerialHasSessionHolds`, from `HoldShape`: what the thread holds by how far its
  call is; the queue of its commands is one of four.  That the target has an
  address and a port is `ChosenTarget`.
* `TypeOKHolds`, from both and `RestTyped`.
* `PcmuIsFoundHolds` and `AddressBelongsToPortHolds`, from `ChoiceShape`: while
  the call lasts, its target is the first acceptable media of the offer and the
  address that of the first audio media.  `AcceptableFits` is what the checks of
  `av_sip_protocol_call_connection_setup` and of the payloads come to, and
  `PortSupported` says that the check of the range and that of the parity, both of
  which answer a port that will do with the port and any other with 0, leave
  the even ports of `RtpPort` and no others.

### AvManagerProofs

From `BoundsAssumption` and the other assumptions of `AvManager`: any set of
modems, any number of restarts of ModemManager and of listings, any failures.

* `CounterCountsOperationsHolds`: `asyncCounter`, at zero of which the exit timer
  ends the program, is the number of operations under way.  `CountShape` adds to
  it that the three sets of operations are finite and that a manager is asked for
  once; each callback takes one element out of one of them, each call of an
  asynchronous function puts one in.  No bound is needed.
* What a new manager does to the list of modems is a fold (`AddModems`, the loop
  over `g_dbus_object_manager_get_objects`) over as many modems as there are.
  An induction rule takes an operator as a parameter and cannot be used, so
  the fold is reasoned about by its least counterexample: a non-empty set of
  numbers has a least one (`LeastNumber`, from the library's well-foundedness of
  the numbers), which gives the recursion that the library's choice of a
  recursive function stands for (`RecursionExists`, `FoldIsRecursion`), and
  then what its steps do to the list (`AddedModems`, `ModemsAdded`).
* `ListShape` is `TypeOK` with what makes it inductive: `present` is finite, a
  ModemManager nobody was told of has a manager left to ask for, and the list has
  at most one element.  `TypeOKHolds` and `OverlapOnlyWhilePinnedHolds` follow, and
  `OneModemListed`: what `mm_second_modem` shows of two modems is so for any
  number.  A search of an empty list finds nothing and a search of another always
  finds something, so that nothing is ever added to a list that has a modem.
* That a service that is up belongs to an AvModem that is alive (`InUseIsAlive`) is
  what the overlap of two rests on: `DownStep` takes the actions by what they do to
  the list and to the operations that hold an AvModem - they grow, or one AvModem
  may lose its last reference and is disposed of.  All failures are allowed, those
  that `mm` leaves out included.
* `VoiceOnlyWhileRegisteredHolds`, from `ObjectShape`: a service is up only for a
  modem whose state-changed handler is connected, and a modem that its manager
  does not know has gone and does not come back, so that no change of state goes
  unheard that the property speaks of.

### AvVoiceProofs

From `VoiceBoundsAssumption`: any set of calls, any number of restarts of the
service and of calls that SIP threads ask for, and any failures.  What the
functions of `av_mm_call.c` and `av_mm_voice.c` do to an AvModem is stated once
for each, apart from any state of the program (`RemovedAvm`, `StateEvalAvm`,
`RegisteredAvm`, `ReleasedAvm`, `StartedAvm`, `StoppedAvm`, `UnreffedAvm`): each
keeps two facts about it, `HoldsListed` (list, handlers and references agree, and
nothing is listed twice) and `HasItsThread` (the thread that lives is that of the
service).  A callback is a composition of these functions, and its step in the
proof a composition of these lemmas.

* `VoiceInv` is `VoiceTyped`, `ServiceShape` and `CallShape`.  `ServiceShape`
  counts the references: one of the storage and one for each operation under way.
  `CallShape` is what keeps a call from being listed twice: of each call there is
  at most one operation for its addition and one for its removal, in this order,
  and as long as the first is under way the call is not listed.
* `AnswersFindModemHolds`, `ServiceHasItsThreadHolds`, `WatchedThreadLivesHolds`
  and `ListedCallsAreHeldHolds` follow from it; the last takes a bijection between
  the list and the set of its members for the length.
* `ListFollowsModemManagerHolds` assumes `"reorder" \notin Failures`, without which
  it is false (`voice_stale_call`).  `FollowShape` says of every call, not only
  with all answers in, what the list must have of it once nothing is being asked
  about it; and that a list made for an addition has the call, or is none, as long
  as ModemManager has it.

* `DeletedCallIsReleasedInOrder`, a consequence: the finding `voice_stale_call`
  needs answers that overtake each other.
* `ServiceThreadLives` assumes `"thread" \notin Failures`: then the pointer to the
  SIP thread, which is never cleared, leads to a live thread whenever the service
  is up, and no stop writes to a freed one (`LiveShape`: a start that does not
  fail points to the thread that it sets up).  The fault `"thread"` thus takes a set-up that failed.

### AvVoiceTypeProofs

`TypeOKHolds` needs `Calls` to be finite (stated in the theorem), since `TypeOK`
speaks of its size.

* `ActiveShape` says how far `active_calls_counter` can drift: at most 1, because
  only a counter of zero is raised, and not below minus the number of calls that
  are over (`Done`: they were there, and are neither listed nor to be listed).
  That is inductive because a step that counts down makes one more call `Done`
  (`DoneStep`, `CounterFollows`), and no call ever leaves that set.
* `OperationsBounded`: at most two `list_calls` operations per call are under way,
  by an injection of the operations into `Calls \X BOOLEAN`; with `ServiceShape`
  this bounds the references to the AvModem.
* `SipTyped`: the socket of the SIP thread holds one event at a time.

### AvSipFaultProofs

Which crashes there are, and how far a disagreement of `AvSip` with a comment goes.

* `NoStaleCallDataHolds`: a fault by stale data goes with an audio thread that could
  not be told to exit (`NoStaleCallDataStep`, one case per fault: who served the
  message, and why its call is not the one in progress).
* `CrashesWithMemory` assumes `"alloc"`, `"exit"` and `"thread"` not in `Failures`:
  then the only faults are `invite_unconfigured`, `stage1_no_call` and
  `sipthread_after_free`.  `FaultStep` says which handler can end in which fault,
  and under which failures; `NoStaleCallDataHolds` excludes three more.  So no
  clean-up path meets what was not set up unless memory or a thread was wanting.
* `WrongCallIsOverHolds`: stage 1 answers a call other than the one whose MMCall it
  was told of, or finds none to answer, only when the latter was dialled and its
  audio thread has ended.  The window of `sip_own_call` is thus the time between
  the end of a call and the answer of ModemManager for it, and no other; the
  ground is `DialShape`, and `EndedStays` (a call that is over stays so).

### Only model-checked

All liveness, which the provers do not treat (neither fairness nor `ENABLED`):
`ShutdownCompletes`, `ReleasedCallEnds`, `AcceptedCallIsDialled`,
`DialledCallIsAnswered`, `ExitCompletes`, `RegisteredModemServed`,
`RemovedModemIsFreed`, `ReadyThreadIsServed`, `CommandsArrive`,
`ToldThreadIsJoined`, `ExitIsObeyed`.  Of the properties that runs refute, four
have theorems that say how far they fail or when they hold (`WrongCallIsOverHolds`,
`OneModemListed`, `DeletedCallIsReleasedInOrder`, and `PcmuIsFoundHolds` for
`PayloadZeroIsGood`); `ModemUsedWhileThere` has none.  There is no recursive operator anywhere.

## 9. Not modelled

* How libconfig reads the configuration file, and the copying of its strings:
  one call that keeps no state.  Whether a configuration comes out of it, and
  whether it is complete, is a free choice wherever it is used.
* The text of SIP messages and of SDP answers, user names and numbers: free
  choices in `AvSip`.
* The timer of the SIP thread, which only drives eXosip.
* Two SIP threads at once.  `sstate` and `astate` are globals, so that a second
  thread would replace the state of the first; `AvManager` shows when two can
  exist (`OverlapOnlyWhilePinned`, proved for any number of modems), and `AvSip` models one.
* What comes after undefined behaviour: the models stop there, `AvThreadComm` also
  at a command torn in parts.  An audio thread that was neither told to exit nor
  joined is modelled up to that point.
* The build files and the valgrind script.

----------------------------- MODULE AvManager -----------------------------
(***************************************************************************)
(* The main thread outside SIP: the life of the program (av.c), watching   *)
(* ModemManager (av_mm.c, av_mm_manager.c), the list of modems             *)
(* (av_storage.c, av_modem_gobject.c) and the voice service that each of   *)
(* them runs while it is registered (av_mm_modem.c, av_mm_voice.c).        *)
(* Everything happens in callbacks of one main loop; what is hard is their *)
(* order, because ModemManager answers when it likes.                      *)
(*                                                                         *)
(* Each time ModemManager appears a manager object is asked for; they are  *)
(* numbered in that order, and each of them makes an MMObject of its own    *)
(* for a modem.  A modem that comes back counts as another one.            *)
(***************************************************************************)
EXTENDS Integers, Sequences, FiniteSets, Functions, SequencesExt

CONSTANTS
  Modems,       \* the modems ModemManager may come to know
  MaxManagers,  \* bound: how often ModemManager appears
  MaxListings,  \* bound: pending list_calls operations at once
  MaxDials,     \* bound: modems for which an MMCall is being made at once
  States,       \* the modem states that occur in a run
  Failures      \* what may fail in a run

\* Some of the states of MMModemState, in its order.
Rank == [disabled |-> 0, searching |-> 1, registered |-> 2, connected |-> 3]

ASSUME BoundsAssumption ==
  MaxManagers \in Nat /\ MaxListings \in Nat /\ MaxDials \in Nat
ASSUME StatesAssumption ==
  States \subseteq DOMAIN Rank /\ States # {}
ASSUME ManagerFailuresAssumption ==
  Failures \subseteq { "bus",      \* connecting to D-Bus, or watching the name
                       "manager",  \* mm_manager_new
                       "modem",    \* an MMObject without MMModem
                       "voice",    \* or without MMModemVoice
                       "command" } \* the memory for the exit command of a SIP thread

Managers == 1..MaxManagers
Objects  == [manager : Managers, modem : Modems]
Object(g, m) == [manager |-> g, modem |-> m]

\* The NULL of av_storage_find_mmobject and of ll->manager.
NoObject  == [manager |-> 0]
NoManager == 0

VARIABLES
  loop,         \* the main loop: "init", "running" or "ended"
  watching,     \* ll->mm_watch
  exiting,      \* the exit timer runs
  sigint,       \* the SIGINT source is there
  asyncCounter, \* ll->async_counter
  manager,      \* ll->manager
  avModems,     \* ll->av_modems
  attached,     \* AvModems connected to the state changes of their MMModem
  voice,        \* AvModems whose voice service is up, and with it a SIP thread
  untold,       \* AvModems that left a SIP thread behind, not told to exit
  listing,      \* pending list_calls operations, each holding its AvModem
  dialling,     \* AvModems an MMCall is being created and started for
  opened,       \* how many managers have been asked for
  pending,      \* those that have not been delivered
  connected,    \* managers whose signals are connected
  known,        \* the modems each manager has an MMObject for
  owner,        \* ModemManager is on the bus
  notified,     \* what the watch was told last
  present,      \* the modems ModemManager has
  gone,         \* those it has had before
  state         \* the states of those it has; "disabled" of the others

progVars  == <<loop, exiting, sigint>>
modemVars == <<avModems, attached, voice, untold>>
mgrVars   == <<manager, connected>>
opVars    == <<asyncCounter, listing, dialling, opened, pending>>
mmVars    == <<owner, present, gone, state>>
vars == <<progVars, watching, modemVars, mgrVars, opVars, known, notified, mmVars>>

Init ==
  /\ loop = "init"
  /\ watching = FALSE
  /\ exiting = FALSE
  /\ sigint = TRUE
  /\ asyncCounter = 0
  /\ manager = NoManager
  /\ avModems = <<>>
  /\ attached = {}
  /\ voice = {}
  /\ untold = {}
  /\ listing = {}
  /\ dialling = {}
  /\ opened = 0
  /\ pending = {}
  /\ connected = {}
  /\ known = [g \in Managers |-> {}]
  /\ owner = FALSE
  /\ notified = "none"
  /\ present = {}
  /\ gone = {}
  /\ state = [m \in Modems |-> "disabled"]
-----------------------------------------------------------------------------
(* Storage and AvModem objects *)

\* Mutant of Find: NULL when nothing matches.
FindExact(l, o) == IF o \in Range(l) THEN o ELSE NoObject

\* av_storage_find_mmobject: the last element when nothing matches.
Find(l, o) ==
  IF o \in Range(l) THEN o ELSE IF l = <<>> THEN NoObject ELSE Last(l)

Pinned(o) == \E n \in 1..MaxListings : <<o, n>> \in listing

Alive(o) == o \in Range(avModems) \/ Pinned(o)

\* What an operation that may fail on some of S leaves of S.
Succeeding(S, kind) == IF kind \in Failures THEN SUBSET S ELSE {S}

\* av_mm_voice_deinit of the AvModems D: the signals of a service that is up are
\* disconnected and its SIP thread is told to exit and joined, or left alone for
\* want of memory.  Where the service is down it does nothing.
Deinit(D) ==
  /\ voice' = voice \ D
  /\ \E told \in Succeeding(voice \cap D, "command") :
       untold' = untold \cup ((voice \cap D) \ told)

\* Mutant of Dispose: the voice service of the modem is left running.
DisposeOnly(D) == attached' = attached \ D /\ UNCHANGED <<voice, untold>>

\* av_modem_dispose of the AvModems whose last reference is dropped: the voice
\* service goes, then the handler of the state changes.  The handlers on MMCalls
\* are those of AvVoice.
Dispose(D) == Deinit(D) /\ attached' = attached \ D

\* Mutant of InitsVoice: the state of a modem is not asked for.
InitsVoiceNever(m) == FALSE

\* av_mm_modem_register: the state at which it starts the voice service.
InitsVoice(m) == state[m] = "registered"

\* av_mm_manager_addmodem for the MMObjects in this order: an AvModem for each
\* that is not found, which stays in the list if its registration fails.
AddModem(l, o) == IF Find(l, o) = NoObject THEN Append(l, o) ELSE l

AddModems(order) ==
  /\ avModems' = FoldLeft(AddModem, avModems, order)
  /\ LET new == Range(avModems') \ Range(avModems)
     IN \E reg \in Succeeding(new, "modem") :
          /\ attached' = attached \cup reg
          /\ \E up \in Succeeding({ o \in reg : InitsVoice(o.modem) }, "voice") :
               voice' = voice \cup up
  /\ UNCHANGED untold
-----------------------------------------------------------------------------
(* The program *)

\* av_mm_mm_is_gone_common: the list and the manager are released.
Release ==
  /\ avModems' = <<>>
  /\ Dispose({ o \in Range(avModems) : ~Pinned(o) })
  /\ connected' = connected \ {manager}
  /\ manager' = NoManager

\* main up to g_main_loop_run, which is entered even after av_mm_init has failed.
Start ==
  /\ loop = "init"
  /\ loop' = "running"
  /\ \/ watching' = TRUE /\ UNCHANGED exiting
     \/ "bus" \in Failures /\ exiting' = TRUE /\ UNCHANGED watching
  /\ UNCHANGED <<sigint, modemVars, mgrVars, opVars, known, notified, mmVars>>

\* av_sigint: av_exit stops watching and starts the timer.
Sigint ==
  /\ loop = "running"
  /\ sigint
  /\ sigint' = FALSE
  /\ Release
  /\ watching' = FALSE
  /\ exiting' = TRUE
  /\ UNCHANGED <<loop, opVars, known, notified, mmVars>>

\* av_handle_exit, every second.
ExitTimer ==
  /\ loop = "running"
  /\ exiting
  /\ asyncCounter = 0
  /\ loop' = "ended"
  /\ exiting' = FALSE
  /\ UNCHANGED <<watching, sigint, modemVars, mgrVars, opVars, known,
                 notified, mmVars>>
-----------------------------------------------------------------------------
(* The manager *)

\* av_mm_on.
MmOn ==
  /\ loop = "running" /\ watching
  /\ owner /\ notified # "on"
  /\ notified' = "on"
  /\ opened' = opened + 1
  /\ pending' = pending \cup {opened + 1}
  /\ asyncCounter' = asyncCounter + 1
  /\ UNCHANGED <<progVars, watching, modemVars, mgrVars, listing, dialling, known, mmVars>>

\* av_mm_off.
MmOff ==
  /\ loop = "running" /\ watching
  /\ ~owner /\ notified # "off"
  /\ notified' = "off"
  /\ Release
  /\ UNCHANGED <<progVars, watching, opVars, known, mmVars>>

\* av_mm_manager_init_finish with a manager, which becomes the manager whatever
\* has happened since it was asked for.
ManagerReady(g) ==
  /\ loop = "running"
  /\ g \in pending
  /\ pending' = pending \ {g}
  /\ asyncCounter' = asyncCounter - 1
  /\ manager' = g
  /\ connected' = connected \cup {g}
  /\ known' = [known EXCEPT ![g] = present]
  /\ \E order \in SetToSeqs({ Object(g, m) : m \in present }) : AddModems(order)
  /\ UNCHANGED <<progVars, watching, listing, dialling, opened, notified, mmVars>>

\* Mutant of ManagerFails: the operation is not counted down.
ManagerFailsUncounted(g) ==
  /\ loop = "running"
  /\ g \in pending /\ "manager" \in Failures
  /\ pending' = pending \ {g}
  /\ manager' = NoManager
  /\ UNCHANGED <<progVars, watching, modemVars, connected, asyncCounter, listing,
                 dialling, opened, known, notified, mmVars>>

\* The same with an error: ll->manager becomes NULL, whatever it was.
ManagerFails(g) ==
  /\ loop = "running"
  /\ g \in pending /\ "manager" \in Failures
  /\ pending' = pending \ {g}
  /\ asyncCounter' = asyncCounter - 1
  /\ manager' = NoManager
  /\ UNCHANGED <<progVars, watching, modemVars, connected, listing, dialling, opened,
                 known, notified, mmVars>>

\* av_mm_manager_modem_added.
ObjectAdded(g, m) ==
  /\ loop = "running"
  /\ g \in connected
  /\ m \in present \ known[g]
  /\ known' = [known EXCEPT ![g] = @ \cup {m}]
  /\ AddModems(<<Object(g, m)>>)
  /\ UNCHANGED <<progVars, watching, mgrVars, opVars, notified, mmVars>>

\* av_mm_manager_modem_removed: what is found is removed and released.
ObjectRemoved(g, m) ==
  /\ loop = "running"
  /\ g \in connected
  /\ m \in known[g] \ present
  /\ known' = [known EXCEPT ![g] = @ \ {m}]
  /\ LET o == Find(avModems, Object(g, m))
     IN \/ o = NoObject /\ UNCHANGED modemVars
        \/ /\ o # NoObject
           /\ avModems' = RemoveFirst(avModems, o)
           /\ Dispose(IF Pinned(o) THEN {} ELSE {o})
  /\ UNCHANGED <<progVars, watching, mgrVars, opVars, notified, mmVars>>
-----------------------------------------------------------------------------
(* The voice service *)

\* Mutant of Lost: the state before "registered" counts as registered.
LostLate(s) == Rank[s] < Rank["searching"]

Lost(s)        == Rank[s] < Rank["registered"]
Gained(old, s) == s = "registered" /\ Rank[old] < Rank[s]

\* av_mm_modem_statechange of each AvModem of the modem.
StateChanged(m, s) ==
  /\ loop = "running"
  /\ m \in present
  /\ s # state[m]
  /\ state' = [state EXCEPT ![m] = s]
  /\ LET ours == { o \in attached : o.modem = m /\ m \in known[o.manager] }
     IN \/ Lost(s) /\ Deinit(ours)
        \/ /\ Gained(state[m], s)
           /\ \E up \in Succeeding(ours, "voice") : voice' = voice \cup up
           /\ UNCHANGED untold
        \/ ~Lost(s) /\ ~Gained(state[m], s) /\ UNCHANGED <<voice, untold>>
  /\ UNCHANGED <<progVars, watching, avModems, attached, mgrVars, opVars, known,
                 notified, owner, present, gone>>

\* A call is added or deleted: av_mm_voice_find_call.
CallSignal(o, n) ==
  /\ loop = "running"
  /\ o \in voice
  /\ o.modem \in present \cap known[o.manager]
  /\ Cardinality(listing) < MaxListings
  /\ <<o, n>> \notin listing
  /\ listing' = listing \cup {<<o, n>>}
  /\ asyncCounter' = asyncCounter + 1
  /\ UNCHANGED <<progVars, watching, modemVars, mgrVars, dialling, opened, pending,
                 known, notified, mmVars>>

\* av_mm_voice_find_call_list_ready, as far as the AvModem goes.
ListAnswered(o, n) ==
  /\ loop = "running"
  /\ <<o, n>> \in listing
  /\ listing' = listing \ {<<o, n>>}
  /\ asyncCounter' = asyncCounter - 1
  /\ Dispose(IF o \in Range(avModems) \/ Pinned(o)' THEN {} ELSE {o})
  /\ UNCHANGED <<progVars, watching, avModems, mgrVars, dialling, opened, pending,
                 known, notified, mmVars>>

\* The SIP thread asks for an MMCall: av_mm_call_sipcall.
SipDials(o) ==
  /\ loop = "running"
  /\ o \in voice \ dialling
  /\ Cardinality(dialling) < MaxDials
  /\ dialling' = dialling \cup {o}
  /\ asyncCounter' = asyncCounter + 1
  /\ UNCHANGED <<progVars, watching, modemVars, mgrVars, listing, opened, pending,
                 known, notified, mmVars>>

\* Mutant of DialEnds: both the creation and the start are counted down.
DialEndsTwice(o) ==
  /\ loop = "running"
  /\ o \in dialling
  /\ dialling' = dialling \ {o}
  /\ asyncCounter' = asyncCounter - 2
  /\ UNCHANGED <<progVars, watching, modemVars, mgrVars, listing, opened, pending,
                 known, notified, mmVars>>

\* It could not be created, or it has been started or not.
DialEnds(o) ==
  /\ loop = "running"
  /\ o \in dialling
  /\ dialling' = dialling \ {o}
  /\ asyncCounter' = asyncCounter - 1
  /\ UNCHANGED <<progVars, watching, modemVars, mgrVars, listing, opened, pending,
                 known, notified, mmVars>>
-----------------------------------------------------------------------------
(* ModemManager.  D-Bus delivers in order: what the program has been told of   *)
(* is what it knows of, except for the answers under way.                      *)

Settled ==
  /\ loop # "ended"
  /\ watching => notified = (IF owner THEN "on" ELSE "off")
  /\ \A g \in connected : known[g] = present

OwnerAppears ==
  /\ Settled
  /\ ~owner /\ opened < MaxManagers
  /\ owner' = TRUE
  /\ UNCHANGED <<progVars, watching, modemVars, mgrVars, opVars, known, notified,
                 present, gone, state>>

OwnerVanishes ==
  /\ Settled
  /\ owner
  /\ owner' = FALSE
  /\ present' = {}
  /\ gone' = gone \cup present
  /\ state' = [m \in Modems |-> "disabled"]
  /\ UNCHANGED <<progVars, watching, modemVars, mgrVars, opVars, known, notified>>

ModemAppears(m) ==
  /\ Settled
  /\ owner /\ m \notin present \cup gone
  /\ present' = present \cup {m}
  /\ \E s \in States : state' = [state EXCEPT ![m] = s]
  /\ UNCHANGED <<progVars, watching, modemVars, mgrVars, opVars, known, notified,
                 owner, gone>>

ModemVanishes(m) ==
  /\ Settled
  /\ m \in present
  /\ present' = present \ {m}
  /\ gone' = gone \cup {m}
  /\ state' = [state EXCEPT ![m] = "disabled"]
  /\ UNCHANGED <<progVars, watching, modemVars, mgrVars, opVars, known, notified,
                 owner>>
-----------------------------------------------------------------------------
Callback ==
  \/ Start \/ MmOn \/ MmOff
  \/ \E g \in Managers, m \in Modems : ObjectAdded(g, m) \/ ObjectRemoved(g, m)

ManagerAnswers(g) == ManagerReady(g) \/ ManagerFails(g)

OperationAnswered ==
  \/ \E o \in Objects, n \in 1..MaxListings : ListAnswered(o, n)
  \/ \E o \in Objects : DialEnds(o)

Answer == OperationAnswered \/ \E g \in Managers : ManagerAnswers(g)

\* What begins an operation besides ModemManager's appearance.
NewWork ==
  \/ \E o \in Objects, n \in 1..MaxListings : CallSignal(o, n)
  \/ \E o \in Objects : SipDials(o)

Environment ==
  \/ Sigint \/ OwnerAppears \/ OwnerVanishes
  \/ \E m \in Modems : ModemAppears(m) \/ ModemVanishes(m)
  \/ \E m \in Modems, s \in States : StateChanged(m, s)
  \/ NewWork

\* The program has returned from its main loop.
Ended == loop = "ended" /\ UNCHANGED vars

Next == Callback \/ ExitTimer \/ Answer \/ Environment \/ Ended

Spec == Init /\ [][Next]_vars

\* The main loop dispatches what is ready, and operations are answered: each
\* manager is delivered or refused, whatever else is answered meanwhile.
FairSpec ==
  /\ Spec
  /\ WF_vars(Callback) /\ WF_vars(ExitTimer) /\ WF_vars(OperationAnswered)
  /\ \A g \in Managers : WF_vars(ManagerAnswers(g))
-----------------------------------------------------------------------------
(* Properties *)

\* The type of every variable.
TypeOK ==
  /\ loop \in {"init", "running", "ended"}
  /\ {watching, exiting, sigint, owner} \subseteq BOOLEAN
  /\ asyncCounter \in Nat
  /\ manager \in Managers \cup {NoManager}
  /\ avModems \in Seq(Objects)
  /\ attached \subseteq Objects
  /\ voice \subseteq Objects
  /\ untold \subseteq Objects
  /\ listing \subseteq Objects \X (1..MaxListings)
  /\ dialling \subseteq Objects
  /\ opened \in 0..MaxManagers
  /\ pending \subseteq 1..opened
  /\ connected \subseteq 1..opened
  /\ known \in [Managers -> SUBSET Modems]
  /\ notified \in {"none", "on", "off"}
  /\ present \subseteq Modems
  /\ gone \subseteq Modems
  /\ state \in [Modems -> DOMAIN Rank]

\* av_handle_exit relies on async_counter being the number of operations under
\* way, however they end.
CounterCountsOperations ==
  asyncCounter =
    Cardinality(pending) + Cardinality(listing) + Cardinality(dialling)

\* sstate (av_sip.c:36) is one for all SIP threads.  Those of two AvModems run at
\* once only when one AvModem has been removed and lives by an answer still to
\* come, or could not tell its thread to exit: a removal, a disappearance of
\* ModemManager, an interrupt and the last answer all stop the service of the
\* AvModem that they make go.
OverlapOnlyWhilePinned ==
  \A a, b \in voice \cup untold :
    a # b => \/ {a, b} \cap untold # {}
             \/ \E o \in {a, b} : o \notin Range(avModems) /\ Pinned(o)

\* A voice service runs for a modem that was registered when last heard of.
VoiceOnlyWhileRegistered ==
  \A o \in voice :
    o.modem \in present \cap known[o.manager] => ~Rank[state[o.modem]] < Rank["registered"]

\* An exit that has begun comes to its end, whatever is under way, unless calls
\* come and go for ever: each of them may be the one that keeps a modem.
ExitCompletes == <>[][~NewWork]_vars => (exiting ~> loop = "ended")

Served(m) == \E o \in voice : o.modem = m

\* A modem that stays registered gets its voice service and keeps it, if there
\* is one modem at a time and a manager is delivered or still to come; unless it
\* was connected when it was found, for then it gets none (av_mm_modem.c:104), nor
\* when it steps down to registered (av_mm_modem.c:28).
RegisteredModemServed ==
  \A m \in Modems :
    /\ [](/\ Cardinality(present) <= 1
          /\ state[m] = "connected" /\ (\E o \in attached : o.modem = m) => Served(m))
    /\ <>[](/\ watching /\ m \in present /\ state[m] = "registered"
            /\ manager # NoManager \/ pending # {})
    => <>[]Served(m)
-----------------------------------------------------------------------------
(* What comments of the code say and the code does not keep                  *)

\* av_mm_manager.c:4: modems are registered when they come, and unregistered
\* when they go.
ManagerModemsTracked ==
  manager # NoManager =>
    \A m \in known[manager] : Object(manager, m) \in Range(avModems)
=============================================================================

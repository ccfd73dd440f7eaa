---------------------------- MODULE AvVoiceProofs ----------------------------
(***************************************************************************)
(* Proofs about AvVoice for any set of calls and failures, and any number  *)
(* of starts of the service.                                               *)
(***************************************************************************)
EXTENDS AvVoice, FiniteSetTheorems, SequenceTheorems, TLAPS

USE DEF vars, sipVars, mmVars
-----------------------------------------------------------------------------
(* The functions of the state of an AvModem                                 *)

ThreadStates == {"none", "live", "untold", "freed"}

AvModems ==
  [ refs      : Nat,
    up        : BOOLEAN,
    calls     : Seq(Calls),
    active    : Int,
    handled   : SUBSET Calls,
    held      : [Calls -> Int],
    starts    : Nat,
    threads   : [Threads -> ThreadStates],
    sipthread : Threads \cup {NoThread},
    source    : Threads \cup {NoThread} ]

\* What ListedCallsAreHeld says, of any AvModem.
HoldsListed(a) ==
  /\ IsInjective(a.calls)
  /\ a.handled = Range(a.calls)
  /\ \A c \in Calls : a.held[c] = IF c \in Range(a.calls) THEN 1 ELSE 0

\* What ServiceHasItsThread and WatchedThreadLives say, of any AvModem.
HasItsThread(a) ==
  /\ \A t \in Threads : a.threads[t] = "live" <=> a.up /\ t = a.sipthread /\ t = a.starts
  /\ a.source # NoThread => a.threads[a.source] = "live"
  /\ a.sipthread <= a.starts /\ a.starts <= MaxStarts

\* The functions of av_mm_call.c leave the service as it is.
SameService(a, b) ==
  /\ b.refs = a.refs /\ b.up = a.up /\ b.starts = a.starts
  /\ b.threads = a.threads /\ b.sipthread = a.sipthread /\ b.source = a.source

\* Those of av_mm_voice.c that do not stop the service leave the calls.
SameCalls(a, b) == b.calls = a.calls /\ b.handled = a.handled /\ b.held = a.held

\* A sequence without its i-th element.
LEMMA RemovedAt ==
  ASSUME NEW S, NEW s \in Seq(S), NEW i \in 1..Len(s)
  PROVE  /\ RemoveAt(s, i) \in Seq(S)
         /\ Len(s) \in Nat
         /\ Len(RemoveAt(s, i)) = Len(s) - 1
         /\ \A j \in 1..(Len(s) - 1) :
              RemoveAt(s, i)[j] = IF j < i THEN s[j] ELSE s[j + 1]
<1> DEFINE front == SubSeq(s, 1, i - 1)
           back  == SubSeq(s, i + 1, Len(s))
<1>1. /\ front \in Seq(S) /\ Len(front) = i - 1
      /\ \A j \in 1..(i - 1) : front[j] = s[j]
  OBVIOUS
<1>2. /\ back \in Seq(S) /\ Len(back) = Len(s) - i
      /\ \A j \in 1..(Len(s) - i) : back[j] = s[j + i]
  OBVIOUS
<1> HIDE DEF front, back
<1>3. /\ front \o back \in Seq(S) /\ Len(front \o back) = Len(front) + Len(back)
      /\ \A j \in 1..(Len(front) + Len(back)) :
           (front \o back)[j] = IF j <= Len(front) THEN front[j] ELSE back[j - Len(front)]
  BY <1>1, <1>2, ConcatProperties
<1>4. RemoveAt(s, i) = front \o back
  BY DEF RemoveAt, front, back
<1>5. ASSUME NEW j \in 1..(Len(s) - 1)
      PROVE  (front \o back)[j] = IF j < i THEN s[j] ELSE s[j + 1]
  BY <1>1, <1>2, <1>3, <1>5
<1>6. Len(s) \in Nat /\ Len(front) + Len(back) = Len(s) - 1
  BY <1>1, <1>2
<1>7. front \o back \in Seq(S) /\ Len(front \o back) = Len(s) - 1
  BY <1>3, <1>6
<1> QED BY <1>4, <1>5, <1>6, <1>7

\* Removing what is there once.
LEMMA RemovedFirst ==
  ASSUME NEW S, NEW s \in Seq(S), IsInjective(s), NEW x \in Range(s)
  PROVE  /\ RemoveFirst(s, x) \in Seq(S)
         /\ IsInjective(RemoveFirst(s, x))
         /\ Range(RemoveFirst(s, x)) = Range(s) \ {x}
<1>1. Len(s) \in Nat /\ DOMAIN s = 1..Len(s)
  OBVIOUS
<1>2. PICK i \in 1..Len(s) : s[i] = x
  BY <1>1 DEF Range
<1>3. {j \in 1..Len(s) : s[j] = x} = {i}
  BY <1>1, <1>2 DEF IsInjective
<1>4. SelectInSeq(s, LAMBDA v : v = x) = i
  <2>1. Min({i}) = i
    BY <1>2 DEF Min
  <2> QED BY <1>3, <2>1 DEF SelectInSeq
<1>5. RemoveFirst(s, x) = RemoveAt(s, i)
  BY <1>2, <1>4 DEF RemoveFirst
<1> DEFINE r == RemoveAt(s, i)
<1>6. /\ r \in Seq(S) /\ Len(r) = Len(s) - 1
      /\ \A j \in 1..(Len(s) - 1) : r[j] = IF j < i THEN s[j] ELSE s[j + 1]
  BY <1>2, RemovedAt
<1>7. DOMAIN r = 1..(Len(s) - 1)
  BY <1>1, <1>6
<1> HIDE DEF r
<1>8. IsInjective(r)
  <2>1. ASSUME NEW j \in 1..(Len(s) - 1), NEW k \in 1..(Len(s) - 1), r[j] = r[k]
        PROVE  j = k
    <3> DEFINE at(l) == IF l < i THEN l ELSE l + 1
    <3>1. /\ at(j) \in DOMAIN s /\ at(k) \in DOMAIN s
          /\ s[at(j)] = s[at(k)]
      BY <1>1, <1>6, <2>1
    <3>2. at(j) = at(k)
      BY <3>1 DEF IsInjective
    <3> QED BY <1>1, <3>2
  <2> QED BY <1>7, <2>1 DEF IsInjective
<1>9. Range(r) = Range(s) \ {x}
  <2>1. ASSUME NEW j \in DOMAIN r PROVE r[j] \in Range(s) \ {x}
    <3>1. PICK k \in 1..Len(s) : k # i /\ r[j] = s[k]
      BY <1>1, <1>6, <1>7
    <3>2. s[k] # s[i]
      BY <1>1, <3>1 DEF IsInjective
    <3> QED BY <1>1, <1>2, <3>1, <3>2 DEF Range
  <2>2. ASSUME NEW j \in 1..Len(s), s[j] # x PROVE s[j] \in Range(r)
    <3>1. CASE j < i
      <4>1. j \in DOMAIN r /\ r[j] = s[j]
        BY <1>1, <1>2, <1>6, <1>7, <3>1
      <4> QED BY <4>1 DEF Range
    <3>2. CASE j > i
      <4>1. j - 1 \in DOMAIN r /\ r[j - 1] = s[j]
        BY <1>1, <1>2, <1>6, <1>7, <3>2
      <4> QED BY <4>1 DEF Range
    <3> QED BY <1>1, <1>2, <2>2, <3>1, <3>2
  <2> QED BY <1>1, <2>1, <2>2 DEF Range
<1> QED BY <1>5, <1>6, <1>8, <1>9 DEF r

\* Appending what is not there.
LEMMA AppendedOnce ==
  ASSUME NEW S, NEW s \in Seq(S), IsInjective(s), NEW x \in S, x \notin Range(s)
  PROVE  /\ Append(s, x) \in Seq(S)
         /\ IsInjective(Append(s, x))
         /\ Range(Append(s, x)) = Range(s) \cup {x}
<1>1. /\ Len(s) \in Nat /\ DOMAIN s = 1..Len(s)
      /\ Append(s, x) \in Seq(S)
      /\ DOMAIN Append(s, x) = 1..(Len(s) + 1)
      /\ Append(s, x)[Len(s) + 1] = x
      /\ \A i \in 1..Len(s) : Append(s, x)[i] = s[i]
  OBVIOUS
<1> DEFINE r == Append(s, x)
<1> HIDE DEF r
<1>2. /\ DOMAIN r = 1..(Len(s) + 1)
      /\ \A i \in 1..(Len(s) + 1) : r[i] = IF i = Len(s) + 1 THEN x ELSE s[i]
  BY <1>1 DEF r
<1>3. IsInjective(r)
  BY <1>1, <1>2 DEF IsInjective, Range
<1>4. Range(r) = Range(s) \cup {x}
  BY <1>1, <1>2 DEF Range
<1> QED BY <1>1, <1>3, <1>4 DEF r

\* av_mm_call_unregister and the like, of a call that is listed.
LEMMA RemovedAvm ==
  ASSUME NEW a \in AvModems, HoldsListed(a), NEW c \in Range(a.calls)
  PROVE  LET b == Removed(a, c)
         IN  /\ b \in AvModems /\ HoldsListed(b) /\ SameService(a, b)
             /\ Range(b.calls) = Range(a.calls) \ {c}
<1> DEFINE b == Removed(a, c)
           r == RemoveFirst(a.calls, c)
<1>1. a.calls \in Seq(Calls) /\ a.handled \subseteq Calls /\ a.held \in [Calls -> Int]
  BY DEF AvModems
<1>2. /\ r \in Seq(Calls) /\ IsInjective(r)
      /\ Range(r) = Range(a.calls) \ {c}
  BY <1>1, RemovedFirst DEF HoldsListed
<1>3. c \in Calls
  BY <1>1 DEF HoldsListed
<1> HIDE DEF r
<1>4. b = [a EXCEPT !.calls = r, !.handled = @ \ {c}, !.held = [a.held EXCEPT ![c] = @ - 1]]
  BY DEF Removed, Unregistered, r, AvModems
<1> HIDE DEF b
<1>5. /\ b.calls = r /\ b.handled = a.handled \ {c}
      /\ b.held = [a.held EXCEPT ![c] = @ - 1]
      /\ SameService(a, b)
  BY <1>4 DEF SameService, AvModems
<1>6. b \in AvModems
  <2>1. [a.held EXCEPT ![c] = @ - 1] \in [Calls -> Int]
    BY <1>1, <1>3
  <2> QED BY <1>1, <1>2, <1>4, <2>1 DEF AvModems
<1>7. HoldsListed(b)
  BY <1>1, <1>2, <1>3, <1>5 DEF HoldsListed
<1> QED BY <1>2, <1>5, <1>6, <1>7 DEF b

\* av_mm_call_state_eval, of a call that is listed.
LEMMA StateEvalAvm ==
  ASSUME NEW a \in AvModems, HoldsListed(a), NEW c \in Range(a.calls), NEW s \in CallStates
  PROVE  LET b == StateEval(a, c, s)
         IN  /\ b \in AvModems /\ HoldsListed(b) /\ SameService(a, b)
             /\ Range(b.calls) = IF s = "terminated" THEN Range(a.calls) \ {c}
                                                     ELSE Range(a.calls)
<1>1. ASSUME NEW n \in Int
      PROVE  LET d == [a EXCEPT !.active = n]
             IN  d \in AvModems /\ HoldsListed(d) /\ SameService(a, d) /\ d.calls = a.calls
  BY DEF AvModems, HoldsListed, SameService
<1>2. CASE s = "ringing"
  <2>1. (IF a.active = 0 THEN 1 ELSE a.active) \in Int
    BY DEF AvModems
  <2>2. StateEval(a, c, s) = [a EXCEPT !.active = IF a.active = 0 THEN 1 ELSE a.active]
    BY <1>2 DEF StateEval, AvModems
  <2> QED BY <1>1, <1>2, <2>1, <2>2
<1>3. CASE s = "terminated"
  <2> DEFINE d == [a EXCEPT !.active = a.active - 1]
  <2>0. a.active - 1 \in Int
    BY DEF AvModems
  <2>1. d \in AvModems /\ HoldsListed(d) /\ SameService(a, d) /\ d.calls = a.calls
    BY <1>1, <2>0
  <2>2. StateEval(a, c, s) = Removed(d, c)
    BY <1>3 DEF StateEval, AvModems
  <2> HIDE DEF d
  <2>3. /\ Removed(d, c) \in AvModems /\ HoldsListed(Removed(d, c))
        /\ SameService(d, Removed(d, c))
        /\ Range(Removed(d, c).calls) = Range(d.calls) \ {c}
    BY <2>1, RemovedAvm
  <2> QED BY <1>3, <2>1, <2>2, <2>3 DEF SameService
<1>4. CASE s = "other"
  BY <1>4 DEF StateEval, SameService
<1> QED BY <1>2, <1>3, <1>4 DEF CallStates

\* av_mm_call_register, of a call that is not listed.
LEMMA RegisteredAvm ==
  ASSUME NEW a \in AvModems, HoldsListed(a), NEW c \in Calls \ Range(a.calls),
         NEW s \in CallStates
  PROVE  LET b == Registered(a, c, s)
         IN  /\ b \in AvModems /\ HoldsListed(b) /\ SameService(a, b)
             /\ Range(b.calls) = IF s = "terminated" THEN Range(a.calls)
                                                     ELSE Range(a.calls) \cup {c}
<1> DEFINE r == Append(a.calls, c)
           d == [a EXCEPT !.calls = r, !.handled = @ \cup {c},
                          !.held = [a.held EXCEPT ![c] = @ + 1]]
<1>1. a.calls \in Seq(Calls) /\ a.handled \subseteq Calls /\ a.held \in [Calls -> Int]
  BY DEF AvModems
<1>2. /\ r \in Seq(Calls) /\ IsInjective(r)
      /\ Range(r) = Range(a.calls) \cup {c}
  BY <1>1, AppendedOnce DEF HoldsListed
<1>3. Registered(a, c, s) = StateEval(d, c, s)
  BY DEF Registered, AvModems
<1> HIDE DEF r
<1>4. /\ d.calls = r /\ d.handled = a.handled \cup {c}
      /\ d.held = [a.held EXCEPT ![c] = @ + 1]
      /\ SameService(a, d)
  BY DEF SameService, AvModems
<1>5. d \in AvModems
  <2>1. [a.held EXCEPT ![c] = @ + 1] \in [Calls -> Int]
    BY <1>1
  <2> QED BY <1>1, <1>2, <2>1 DEF AvModems
<1> HIDE DEF d
<1>6. HoldsListed(d)
  BY <1>1, <1>2, <1>4 DEF HoldsListed
<1>7. c \in Range(d.calls)
  BY <1>2, <1>4
<1> DEFINE b == StateEval(d, c, s)
<1>8. /\ b \in AvModems /\ HoldsListed(b) /\ SameService(d, b)
      /\ Range(b.calls) = IF s = "terminated" THEN Range(d.calls) \ {c} ELSE Range(d.calls)
  BY <1>5, <1>6, <1>7, StateEvalAvm
<1> HIDE DEF b
<1>9. b = Registered(a, c, s)
  BY <1>3 DEF b
<1> QED BY <1>2, <1>4, <1>8, <1>9 DEF SameService

\* av_mm_call_release_mmcalls.
LEMMA ReleasedAvm ==
  ASSUME NEW a \in AvModems, HoldsListed(a)
  PROVE  LET b == ReleasedCalls(a)
         IN  /\ b \in AvModems /\ HoldsListed(b) /\ SameService(a, b)
             /\ b.calls = <<>>
<1> DEFINE b == ReleasedCalls(a)
           held == [c \in Calls |-> a.held[c] - TimesListed(a, c)]
<1>1. a.calls \in Seq(Calls) /\ a.held \in [Calls -> Int]
  BY DEF AvModems
<1>2. ASSUME NEW c \in Calls
      PROVE  TimesListed(a, c) = IF c \in Range(a.calls) THEN 1 ELSE 0
  <2>1. CASE c \in Range(a.calls)
    <3>1. PICK i \in DOMAIN a.calls : a.calls[i] = c
      BY <2>1 DEF Range
    <3>2. {j \in DOMAIN a.calls : a.calls[j] = c} = {i}
      BY <3>1 DEF HoldsListed, IsInjective
    <3> QED BY <2>1, <3>2, FS_Singleton DEF TimesListed
  <2>2. CASE c \notin Range(a.calls)
    <3>1. {j \in DOMAIN a.calls : a.calls[j] = c} = {}
      BY <2>2 DEF Range
    <3> QED BY <2>2, <3>1, FS_EmptySet DEF TimesListed
  <2> QED BY <2>1, <2>2
<1>3. /\ held \in [Calls -> Int]
      /\ \A c \in Calls : held[c] = 0
  BY <1>1, <1>2 DEF HoldsListed
<1> HIDE DEF held
<1>4. b = [a EXCEPT !.calls = <<>>, !.handled = @ \ Range(a.calls), !.held = held]
  BY DEF ReleasedCalls, held
<1> HIDE DEF b
<1>5. /\ b.calls = <<>> /\ b.handled = {} /\ b.held = held
      /\ SameService(a, b)
  BY <1>4 DEF SameService, AvModems, HoldsListed
<1>6. b \in AvModems
  <2>1. <<>> \in Seq(Calls) /\ a.handled \ Range(a.calls) \in SUBSET Calls
    BY EmptySeq DEF AvModems
  <2> QED BY <1>3, <1>4, <2>1 DEF AvModems
<1>7. IsInjective(<<>>) /\ Range(<<>>) = {}
  BY DEF IsInjective, Range
<1>8. HoldsListed(b)
  BY <1>3, <1>5, <1>7 DEF HoldsListed
<1> QED BY <1>5, <1>6, <1>8 DEF b

\* av_mm_voice_init.
LEMMA StartedAvm ==
  ASSUME NEW a \in AvModems, HasItsThread(a), a.starts < MaxStarts,
         NEW set_up \in BOOLEAN, NEW watched \in BOOLEAN
  PROVE  LET b == Started(a, set_up, watched)
         IN  /\ b \in AvModems /\ HasItsThread(b) /\ SameCalls(a, b)
             /\ b.refs = a.refs /\ b.up
<1> DEFINE t == a.starts + 1
           b == Started(a, set_up, watched)
<1>1. t \in Threads /\ t \in Nat /\ t # NoThread /\ MaxStarts \in Nat
  <2>1. a.starts \in Nat
    BY DEF AvModems
  <2> QED BY <2>1, VoiceBoundsAssumption DEF Threads, NoThread
<1>2. CASE a.up
  <2>1. b = a
    BY <1>2 DEF Started
  <2> QED BY <1>2, <2>1 DEF SameCalls
<1>3. CASE ~a.up /\ ~set_up
  <2>1. b = [a EXCEPT !.up = TRUE, !.starts = t]
    BY <1>3 DEF Started
  <2> HIDE DEF b
  <2>2. b \in AvModems
    BY <1>1, <2>1 DEF AvModems
  <2>3. /\ b.up /\ b.refs = a.refs /\ SameCalls(a, b)
        /\ b.starts = t /\ b.threads = a.threads /\ b.sipthread = a.sipthread
        /\ b.source = a.source
    BY <2>1 DEF AvModems, SameCalls
  <2>4. HasItsThread(b)
    BY <1>1, <1>3, <2>3 DEF HasItsThread, AvModems, Threads, NoThread
  <2> QED BY <2>2, <2>3, <2>4 DEF b
<1>4. CASE ~a.up /\ set_up
  <2> DEFINE w == IF watched THEN t ELSE NoThread
             th == [a.threads EXCEPT ![t] = "live"]
  <2>1. b = [a EXCEPT !.up = TRUE, !.starts = t, !.threads = th, !.sipthread = t, !.source = w]
    BY <1>4 DEF Started, AvModems
  <2>2. w \in {t, NoThread} /\ th \in [Threads -> ThreadStates]
    BY <1>1 DEF AvModems, ThreadStates
  <2>5. \A u \in Threads : th[u] = IF u = t THEN "live" ELSE a.threads[u]
    BY <1>1 DEF AvModems
  <2> HIDE DEF b, w, th
  <2>3. b \in AvModems
    BY <1>1, <2>1, <2>2 DEF AvModems
  <2>4. /\ b.up /\ b.refs = a.refs /\ SameCalls(a, b)
        /\ b.starts = t /\ b.threads = th /\ b.sipthread = t /\ b.source = w
    BY <2>1 DEF AvModems, SameCalls
  <2>6. HasItsThread(b)
    BY <1>1, <1>4, <2>2, <2>4, <2>5 DEF HasItsThread, Threads
  <2> QED BY <2>3, <2>4, <2>6 DEF b
<1> QED BY <1>2, <1>3, <1>4

\* av_mm_voice_stopsip, of a service that was there until now.
LEMMA StoppedSipAvm ==
  ASSUME NEW a \in AvModems, ~a.up, a.starts <= MaxStarts, a.sipthread <= a.starts,
         \A t \in Threads : a.threads[t] = "live" => t = a.sipthread,
         NEW told \in BOOLEAN
  PROVE  LET b == StoppedSip(a, told)
         IN  /\ b \in AvModems /\ HasItsThread(b) /\ SameCalls(a, b)
             /\ b.refs = a.refs /\ ~b.up
<1> DEFINE b == StoppedSip(a, told)
           st == IF told THEN "freed"
                 ELSE IF a.threads[a.sipthread] = "live" THEN "untold"
                 ELSE a.threads[a.sipthread]
           th == IF a.sipthread = NoThread THEN a.threads
                 ELSE [a.threads EXCEPT ![a.sipthread] = st]
<1>1. /\ NoThread \notin Threads /\ a.sipthread \in Threads \cup {NoThread}
      /\ a.threads \in [Threads -> ThreadStates]
  BY DEF Threads, NoThread, AvModems
<1>2. b = [a EXCEPT !.source = NoThread, !.threads = th]
  <2>1. CASE a.sipthread = NoThread
    BY <2>1 DEF StoppedSip, AvModems
  <2>2. CASE a.sipthread # NoThread
    BY <2>2 DEF StoppedSip, AvModems
  <2> QED BY <2>1, <2>2
<1>3. th \in [Threads -> ThreadStates] /\ \A t \in Threads : th[t] # "live"
  <2>1. CASE a.sipthread = NoThread
    BY <1>1, <2>1
  <2>2. CASE a.sipthread # NoThread
    <3>1. a.sipthread \in Threads /\ st \in ThreadStates /\ st # "live"
      BY <1>1, <2>2 DEF ThreadStates
    <3> HIDE DEF st
    <3>2. th = [a.threads EXCEPT ![a.sipthread] = st]
      BY <2>2
    <3> QED BY <1>1, <3>1, <3>2
  <2> QED BY <2>1, <2>2
<1> HIDE DEF b, th
<1>4. b \in AvModems
  BY <1>1, <1>2, <1>3 DEF AvModems
<1>5. /\ b.refs = a.refs /\ b.up = a.up /\ SameCalls(a, b) /\ b.starts = a.starts
      /\ b.threads = th /\ b.sipthread = a.sipthread /\ b.source = NoThread
  BY <1>2 DEF AvModems, SameCalls
<1>6. HasItsThread(b)
  BY <1>3, <1>5 DEF HasItsThread
<1> QED BY <1>4, <1>5, <1>6 DEF b

\* av_mm_voice_deinit: nothing is left of the service.
LEMMA StoppedAvm ==
  ASSUME NEW a \in AvModems, HoldsListed(a), HasItsThread(a), NEW told \in BOOLEAN
  PROVE  LET b == Stopped(a, told)
         IN  /\ b \in AvModems /\ HoldsListed(b) /\ HasItsThread(b)
             /\ b.refs = a.refs /\ ~b.up
             /\ Range(b.calls) = IF a.up THEN {} ELSE Range(a.calls)
<1> DEFINE r == ReleasedCalls(a)
           d == [r EXCEPT !.up = FALSE]
           b == Stopped(a, told)
<1>1. CASE ~a.up
  BY <1>1 DEF Stopped
<1>2. CASE a.up
  <2>1. r \in AvModems /\ HoldsListed(r) /\ SameService(a, r) /\ r.calls = <<>>
    BY ReleasedAvm
  <2>2. b = StoppedSip(d, told)
    BY <1>2 DEF Stopped
  <2> HIDE DEF r
  <2>3. d \in AvModems
    BY <2>1 DEF AvModems
  <2>4. /\ SameCalls(r, d) /\ d.refs = a.refs /\ ~d.up /\ d.starts = a.starts
        /\ d.threads = a.threads /\ d.sipthread = a.sipthread /\ d.source = a.source
    BY <2>1 DEF AvModems, SameCalls, SameService
  <2> HIDE DEF d, b
  <2>5. /\ b \in AvModems /\ HasItsThread(b) /\ SameCalls(d, b)
        /\ b.refs = d.refs /\ ~b.up
    BY <2>2, <2>3, <2>4, StoppedSipAvm DEF HasItsThread
  <2>6. HoldsListed(b) /\ b.calls = <<>>
    BY <2>1, <2>4, <2>5 DEF SameCalls, HoldsListed
  <2>7. Range(<<>>) = {}
    BY DEF Range
  <2> QED BY <1>2, <2>4, <2>5, <2>6, <2>7 DEF b
<1> QED BY <1>1, <1>2

\* g_object_unref of an AvModem that is there.
LEMMA UnreffedAvm ==
  ASSUME NEW a \in AvModems, HoldsListed(a), HasItsThread(a), a.refs > 0,
         NEW told \in BOOLEAN
  PROVE  LET b == Unreffed(a, told)
         IN  /\ b \in AvModems /\ HoldsListed(b) /\ HasItsThread(b)
             /\ b.refs = a.refs - 1
             /\ b.refs = 0 => ~b.up
             /\ b.up => a.up
             /\ Range(b.calls) = IF a.up /\ ~b.up THEN {} ELSE Range(a.calls)
<1> DEFINE d == [a EXCEPT !.refs = a.refs - 1]
           b == Unreffed(a, told)
<1>1. d \in AvModems /\ HoldsListed(d) /\ HasItsThread(d)
  <2>1. a.refs - 1 \in Nat
    BY DEF AvModems
  <2>2. d \in AvModems
    BY <2>1 DEF AvModems
  <2>3. /\ SameCalls(a, d) /\ d.up = a.up /\ d.starts = a.starts /\ d.threads = a.threads
        /\ d.sipthread = a.sipthread /\ d.source = a.source
    BY DEF AvModems, SameCalls
  <2> HIDE DEF d
  <2> QED BY <2>2, <2>3 DEF SameCalls, HoldsListed, HasItsThread
<1>2. d.refs = a.refs - 1 /\ d.up = a.up /\ d.calls = a.calls
  BY DEF AvModems
<1>3. b = IF d.refs = 0 THEN Stopped(d, told) ELSE d
  BY DEF Unreffed, AvModems
<1> HIDE DEF b, d
<1>4. CASE d.refs = 0
  <2> DEFINE e == Stopped(d, told)
  <2>1. /\ e \in AvModems /\ HoldsListed(e) /\ HasItsThread(e)
        /\ e.refs = d.refs /\ ~e.up
        /\ Range(e.calls) = IF d.up THEN {} ELSE Range(d.calls)
    BY <1>1, StoppedAvm
  <2> HIDE DEF e
  <2>2. b = e
    BY <1>3, <1>4 DEF e
  <2> QED BY <1>2, <2>1, <2>2 DEF b
<1>5. CASE d.refs # 0
  BY <1>1, <1>2, <1>3, <1>5 DEF b
<1> QED BY <1>4, <1>5
-----------------------------------------------------------------------------
(* The invariant                                                            *)

Operations == [call : Calls, added : BOOLEAN, found : ListAnswers]

VoiceTyped ==
  /\ avm \in AvModems
  /\ stored \in BOOLEAN
  /\ listing \in Seq(Operations)
  /\ mm \in [Calls -> CallStates \cup {"unborn", "deleted"}]
  /\ unwatched \subseteq Calls

\* The storage and each operation under way hold one reference, and nobody else.
ServiceShape ==
  /\ HasItsThread(avm)
  /\ avm.refs = (IF stored THEN 1 ELSE 0) + Len(listing)
  /\ avm.refs = 0 => ~avm.up

\* A list of calls is being asked for because this call was added, or deleted.
Asked(c, added) ==
  \E i \in 1..Len(listing) : listing[i].call = c /\ listing[i].added = added

\* A call is added once and deleted once, in this order, and not listed before
\* the answer to the first.
CallShape ==
  /\ HoldsListed(avm)
  /\ \A i, j \in 1..Len(listing) :
       /\ listing[i].call = listing[j].call
       /\ listing[i].added \/ ~listing[j].added
       => i <= j
  /\ \A c \in Calls :
       /\ mm[c] = "unborn" => c \notin Range(avm.calls) /\ ~Asked(c, TRUE)
       /\ Asked(c, FALSE) => mm[c] = "deleted"
       /\ Asked(c, TRUE) => c \notin Range(avm.calls)

VoiceInv == VoiceTyped /\ ServiceShape /\ CallShape

\* What an answer makes of the AvModem before the reference is given back.
LEMMA AnsweredAvm ==
  ASSUME VoiceTyped, HoldsListed(avm), NEW op \in Operations,
         op.added => op.call \notin Range(avm.calls), NEW b \in Answered(op)
  PROVE  /\ b \in AvModems /\ HoldsListed(b) /\ SameService(avm, b)
         /\ \A c \in Calls \ {op.call} : c \in Range(b.calls) <=> c \in Range(avm.calls)
         /\ ~op.added => op.call \notin Range(b.calls)
         /\ op.added /\ op.found # "call" => b = avm
         /\ op.added /\ op.found = "call" =>
              \E s \in StateSeen(op.call) : op.call \in Range(b.calls) <=> s # "terminated"
<1>1. avm \in AvModems /\ op.call \in Calls /\ op.added \in BOOLEAN
  BY DEF VoiceTyped, Operations
<1>2. CASE op.added /\ op.found = "call"
  <2>1. PICK s \in StateSeen(op.call) : b = Registered(avm, op.call, s)
    BY <1>2 DEF Answered
  <2>2. s \in CallStates
    BY DEF StateSeen
  <2>3. /\ b \in AvModems /\ HoldsListed(b) /\ SameService(avm, b)
        /\ Range(b.calls) = IF s = "terminated" THEN Range(avm.calls)
                                                ELSE Range(avm.calls) \cup {op.call}
    BY <1>1, <1>2, <2>1, <2>2, RegisteredAvm
  <2>4. \E st \in StateSeen(op.call) : op.call \in Range(b.calls) <=> st # "terminated"
    BY <1>2, <2>3
  <2>5. \A c \in Calls \ {op.call} : c \in Range(b.calls) <=> c \in Range(avm.calls)
    BY <2>3
  <2> QED BY <1>2, <2>3, <2>4, <2>5
<1>3. CASE ~op.added /\ op.call \in Range(avm.calls)
  <2>1. b = Removed(avm, op.call)
    BY <1>3 DEF Answered
  <2>2. /\ b \in AvModems /\ HoldsListed(b) /\ SameService(avm, b)
        /\ Range(b.calls) = Range(avm.calls) \ {op.call}
    BY <1>1, <1>3, <2>1, RemovedAvm
  <2> QED BY <1>3, <2>2
<1>4. CASE ~(op.added /\ op.found = "call") /\ ~(~op.added /\ op.call \in Range(avm.calls))
  <2>1. b = avm
    BY <1>4 DEF Answered
  <2>2. SameService(avm, avm)
    BY DEF SameService
  <2> QED BY <1>1, <1>4, <2>1, <2>2
<1> QED BY <1>2, <1>3, <1>4

\* The operations that are left when one has been answered.
LEMMA OperationAnswered ==
  ASSUME VoiceInv, NEW i \in 1..Len(listing), listing' = RemoveAt(listing, i)
  PROVE  /\ listing' \in Seq(Operations)
         /\ Len(listing') = Len(listing) - 1
         /\ \A j \in 1..Len(listing') :
              \E k \in 1..Len(listing) :
                /\ k # i /\ k = (IF j < i THEN j ELSE j + 1)
                /\ listing'[j] = listing[k]
         /\ \A c \in Calls, added \in BOOLEAN :
              Asked(c, added)' <=>
                Asked(c, added) /\ ~(c = listing[i].call /\ added = listing[i].added)
<1>1. listing \in Seq(Operations)
  BY DEF VoiceInv, VoiceTyped
<1>2. /\ listing' \in Seq(Operations) /\ Len(listing) \in Nat
      /\ Len(listing') = Len(listing) - 1
      /\ \A j \in 1..(Len(listing) - 1) :
           listing'[j] = IF j < i THEN listing[j] ELSE listing[j + 1]
  BY <1>1, RemovedAt
<1>3. \A j \in 1..Len(listing') :
        \E k \in 1..Len(listing) :
          /\ k # i /\ k = (IF j < i THEN j ELSE j + 1)
          /\ listing'[j] = listing[k]
  <2> SUFFICES ASSUME NEW j \in 1..Len(listing')
               PROVE  \E k \in 1..Len(listing) :
                        /\ k # i /\ k = (IF j < i THEN j ELSE j + 1)
                        /\ listing'[j] = listing[k]
    OBVIOUS
  <2> DEFINE k == IF j < i THEN j ELSE j + 1
  <2>1. k \in 1..Len(listing) /\ k # i
    BY <1>2
  <2>2. listing'[j] = listing[k]
    BY <1>2
  <2> QED BY <2>1, <2>2
<1>4. \A k \in 1..Len(listing) :
        k # i => \E j \in 1..Len(listing') : listing'[j] = listing[k]
  <2> SUFFICES ASSUME NEW k \in 1..Len(listing), k # i
               PROVE  \E j \in 1..Len(listing') : listing'[j] = listing[k]
    OBVIOUS
  <2>1. CASE k < i
    BY <1>2, <2>1
  <2>2. CASE k > i
    <3>1. k - 1 \in 1..Len(listing') /\ listing'[k - 1] = listing[k]
      BY <1>2, <2>2
    <3> QED BY <3>1
  <2> QED BY <2>1, <2>2
<1>5. ASSUME NEW c \in Calls, NEW added \in BOOLEAN
      PROVE  Asked(c, added)' <=>
               Asked(c, added) /\ ~(c = listing[i].call /\ added = listing[i].added)
  <2>1. ASSUME NEW k \in 1..Len(listing), listing[k].call = listing[i].call,
               listing[k].added = listing[i].added
        PROVE  k = i
    <3>1. k <= i /\ i <= k
      BY <2>1 DEF VoiceInv, CallShape
    <3> QED BY <1>2, <3>1
  <2>2. ASSUME Asked(c, added)'
        PROVE  Asked(c, added) /\ ~(c = listing[i].call /\ added = listing[i].added)
    <3>1. PICK j \in 1..Len(listing') : listing'[j].call = c /\ listing'[j].added = added
      BY <2>2 DEF Asked
    <3> QED BY <1>3, <2>1, <3>1 DEF Asked
  <2>3. ASSUME Asked(c, added), ~(c = listing[i].call /\ added = listing[i].added)
        PROVE  Asked(c, added)'
    <3>1. PICK k \in 1..Len(listing) : listing[k].call = c /\ listing[k].added = added
      BY <2>3 DEF Asked
    <3>2. k # i
      BY <2>3, <3>1
    <3> QED BY <1>4, <3>1, <3>2 DEF Asked
  <2> QED BY <2>2, <2>3
<1> QED BY <1>2, <1>3, <1>5

\* One more operation.
LEMMA OperationBegun ==
  ASSUME VoiceInv, NEW c \in Calls, NEW added \in BOOLEAN,
         listing' = Append(listing, Operation(c, added))
  PROVE  /\ listing' \in Seq(Operations)
         /\ Len(listing) \in Nat
         /\ Len(listing') = Len(listing) + 1
         /\ listing'[Len(listing) + 1] = Operation(c, added)
         /\ \A i \in 1..Len(listing) : listing'[i] = listing[i]
         /\ \A d \in Calls, a \in BOOLEAN :
              Asked(d, a)' <=> Asked(d, a) \/ (d = c /\ a = added)
<1>1. listing \in Seq(Operations) /\ Operation(c, added) \in Operations
  BY DEF VoiceInv, VoiceTyped, Operation, Operations, ListAnswers
<1>2. /\ listing' \in Seq(Operations)
      /\ Len(listing) \in Nat
      /\ Len(listing') = Len(listing) + 1
      /\ listing'[Len(listing) + 1] = Operation(c, added)
      /\ \A i \in 1..Len(listing) : listing'[i] = listing[i]
  BY <1>1
<1>3. Operation(c, added).call = c /\ Operation(c, added).added = added
  BY DEF Operation
<1>4. ASSUME NEW d \in Calls, NEW a \in BOOLEAN
      PROVE  Asked(d, a)' <=> Asked(d, a) \/ (d = c /\ a = added)
  <2>1. /\ Len(listing) + 1 \in 1..Len(listing')
        /\ \A i \in 1..Len(listing) : i \in 1..Len(listing')
        /\ \A i \in 1..Len(listing') : i \in 1..Len(listing) \/ i = Len(listing) + 1
    BY <1>2
  <2> QED BY <1>2, <1>3, <2>1 DEF Asked
<1> QED BY <1>2, <1>4

\* A step that neither begins nor ends an operation keeps what is known of them.
LEMMA OperationsKept ==
  ASSUME VoiceInv, UNCHANGED listing
  PROVE  /\ listing \in Seq(Operations)
         /\ \A c \in Calls, added \in BOOLEAN : Asked(c, added)' <=> Asked(c, added)
BY DEF Asked, VoiceInv, VoiceTyped

\* The service stops, or loses a reference: what it listed is no more.
LEMMA CallShapeKept ==
  ASSUME VoiceInv, UNCHANGED <<listing, mm>>, HoldsListed(avm'),
         Range(avm'.calls) \subseteq Range(avm.calls)
  PROVE  CallShape'
BY OperationsKept DEF VoiceInv, CallShape

\* av_mm_voice_find_call keeps the invariant, whichever way it goes.
LEMMA FindCallStep ==
  ASSUME VoiceInv, NEW c \in Calls, NEW added \in BOOLEAN, FindCall(c, added),
         UNCHANGED stored, avm.up => ~Freed,
         mm' \in [Calls -> CallStates \cup {"unborn", "deleted"}],
         \A d \in Calls \ {c} : mm'[d] = mm[d],
         IF added THEN mm[c] = "unborn" /\ mm'[c] \in CallStates
                  ELSE mm[c] \in CallStates /\ mm'[c] = "deleted"
  PROVE  VoiceInv'
<1>1. avm \in AvModems /\ unwatched \subseteq Calls /\ CallStates \cap {"unborn", "deleted"} = {}
  BY DEF VoiceInv, VoiceTyped, CallStates
<1>2. CASE /\ avm.up /\ listing' = Append(listing, Operation(c, added))
           /\ avm' = [avm EXCEPT !.refs = @ + 1] /\ UNCHANGED unwatched
  <2>1. /\ listing' \in Seq(Operations)
        /\ Len(listing) \in Nat
        /\ Len(listing') = Len(listing) + 1
        /\ listing'[Len(listing) + 1] = Operation(c, added)
        /\ \A i \in 1..Len(listing) : listing'[i] = listing[i]
        /\ \A d \in Calls, a \in BOOLEAN : Asked(d, a)' <=> Asked(d, a) \/ (d = c /\ a = added)
    BY <1>2, OperationBegun
  <2>2. avm' \in AvModems
    <3>1. avm.refs + 1 \in Nat /\ avm' = [avm EXCEPT !.refs = avm.refs + 1]
      BY <1>1, <1>2 DEF AvModems
    <3> QED BY <1>1, <3>1 DEF AvModems
  <2>3. /\ SameCalls(avm, avm') /\ avm'.refs = avm.refs + 1
        /\ avm'.up = avm.up /\ avm'.starts = avm.starts /\ avm'.threads = avm.threads
        /\ avm'.sipthread = avm.sipthread /\ avm'.source = avm.source
    BY <1>1, <1>2 DEF AvModems, SameCalls
  <2>4. VoiceTyped'
    BY <1>1, <1>2, <2>1, <2>2 DEF VoiceInv, VoiceTyped
  <2>5. HasItsThread(avm') /\ HoldsListed(avm')
    BY <2>3 DEF VoiceInv, ServiceShape, CallShape, HasItsThread, HoldsListed, SameCalls
  <2>6. /\ avm'.refs = (IF stored THEN 1 ELSE 0) + Len(listing')
        /\ avm'.refs # 0
    <3>1. avm.refs \in Nat /\ avm.refs = (IF stored THEN 1 ELSE 0) + Len(listing)
      BY <1>1 DEF AvModems, VoiceInv, ServiceShape
    <3> QED BY <2>1, <2>3, <3>1
  <2>7. ASSUME NEW i \in 1..Len(listing'), NEW j \in 1..Len(listing'),
               listing'[i].call = listing'[j].call,
               listing'[i].added \/ ~listing'[j].added
        PROVE  i <= j
    <3>1. CASE i \in 1..Len(listing) /\ j \in 1..Len(listing)
      BY <2>1, <2>7, <3>1 DEF VoiceInv, CallShape
    <3>2. CASE j = Len(listing) + 1
      BY <2>1, <3>2
    <3>3. CASE i = Len(listing) + 1 /\ j \in 1..Len(listing)
      <4>0. listing'[j] = listing[j] /\ listing'[i] = Operation(c, added)
        BY <2>1, <3>3
      <4>1. listing[j].added \in BOOLEAN /\ (added \/ ~listing[j].added)
        <5>1. listing[j] \in Operations
          BY <3>3 DEF VoiceInv, VoiceTyped
        <5>2. listing[j].added \in BOOLEAN
          BY <5>1 DEF Operations
        <5>3. added \/ ~listing[j].added
          BY <2>7, <4>0 DEF Operation
        <5> QED BY <5>2, <5>3
      <4>2. listing[j].call = c
        BY <2>7, <4>0 DEF Operation
      <4>3. CASE added
        <5>1. ~Asked(c, TRUE) /\ ~Asked(c, FALSE)
          BY <1>1, <4>3 DEF VoiceInv, CallShape
        <5> QED BY <3>3, <4>1, <4>2, <5>1 DEF Asked
      <4>4. CASE ~added
        <5>1. ~Asked(c, FALSE) /\ ~listing[j].added
          BY <1>1, <2>7, <4>1, <4>4 DEF VoiceInv, CallShape
        <5>2. Asked(c, FALSE)
          BY <3>3, <4>1, <4>2, <5>1 DEF Asked
        <5> QED BY <5>1, <5>2
      <4> QED BY <4>3, <4>4
    <3> QED BY <2>1, <3>1, <3>2, <3>3
  <2>8. ASSUME NEW d \in Calls
        PROVE  /\ mm'[d] = "unborn" => d \notin Range(avm'.calls) /\ ~Asked(d, TRUE)'
               /\ Asked(d, FALSE)' => mm'[d] = "deleted"
               /\ Asked(d, TRUE)' => d \notin Range(avm'.calls)
    <3>1. avm'.calls = avm.calls
      BY <2>3 DEF SameCalls
    <3>2. CASE d = c
      BY <1>1, <2>1, <3>1, <3>2 DEF VoiceInv, CallShape
    <3>3. CASE d # c
      BY <2>1, <3>1, <3>3 DEF VoiceInv, CallShape
    <3> QED BY <3>2, <3>3
  <2>9. CallShape'
    BY <2>5, <2>7, <2>8 DEF CallShape
  <2> QED BY <1>2, <2>4, <2>5, <2>6, <2>9 DEF VoiceInv, ServiceShape
<1>3. CASE unwatched' = unwatched \cup {c} /\ UNCHANGED <<avm, listing>>
  <2>1. \A d \in Calls, a \in BOOLEAN : Asked(d, a)' <=> Asked(d, a)
    BY <1>3, OperationsKept
  <2>2. VoiceTyped' /\ ServiceShape'
    BY <1>3 DEF VoiceInv, VoiceTyped, ServiceShape
  <2>3. ASSUME NEW d \in Calls
        PROVE  /\ mm'[d] = "unborn" => d \notin Range(avm.calls) /\ ~Asked(d, TRUE)'
               /\ Asked(d, FALSE)' => mm'[d] = "deleted"
    <3>1. CASE d = c
      BY <1>1, <2>1, <3>1 DEF VoiceInv, CallShape
    <3>2. CASE d # c
      BY <2>1, <3>2 DEF VoiceInv, CallShape
    <3> QED BY <3>1, <3>2
  <2>4. CallShape'
    BY <1>3, <2>1, <2>3 DEF VoiceInv, CallShape
  <2> QED BY <2>2, <2>4 DEF VoiceInv
<1> QED BY <1>2, <1>3 DEF FindCall

\* What a list_calls that has been answered leaves.
LEMMA ListReadyEffect ==
  ASSUME VoiceInv, NEW i \in 1..Len(listing), ListReady(i)
  PROVE  \E b \in Answered(listing[i]) :
           /\ b \in AvModems /\ HoldsListed(b) /\ SameService(avm, b)
           /\ \A c \in Calls \ {listing[i].call} :
                c \in Range(b.calls) <=> c \in Range(avm.calls)
           /\ ~listing[i].added => listing[i].call \notin Range(b.calls)
           /\ listing[i].added /\ listing[i].found # "call" => b = avm
           /\ listing[i].added /\ listing[i].found = "call" =>
                \E s \in StateSeen(listing[i].call) :
                  listing[i].call \in Range(b.calls) <=> s # "terminated"
           /\ avm' \in AvModems /\ HoldsListed(avm') /\ HasItsThread(avm')
           /\ avm'.refs = avm.refs - 1
           /\ avm'.refs = 0 => ~avm'.up
           /\ Range(avm'.calls) = IF avm.up /\ ~avm'.up THEN {} ELSE Range(b.calls)
           /\ unwatched' = unwatched \cup Unseen(avm, avm')
<1> DEFINE op == listing[i]
<1>1. /\ listing \in Seq(Operations) /\ avm \in AvModems
      /\ avm.refs = (IF stored THEN 1 ELSE 0) + Len(listing)
      /\ HoldsListed(avm) /\ HasItsThread(avm)
  BY DEF VoiceInv, VoiceTyped, ServiceShape, CallShape
<1>2. op \in Operations
  BY <1>1
<1>3. PICK told \in May("command"), b \in Answered(op) : Becomes(Unreffed(b, told), told)
  BY DEF ListReady
<1>4. told \in BOOLEAN
  BY DEF May
<1>5. op.added => op.call \notin Range(avm.calls)
  <2>1. ASSUME op.added PROVE Asked(op.call, TRUE) /\ op.call \in Calls
    <3>1. op.added = TRUE
      BY <1>2, <2>1 DEF Operations
    <3> QED BY <1>2, <3>1 DEF Asked, Operations
  <2> QED BY <2>1 DEF VoiceInv, CallShape
<1> HIDE DEF op
<1>6. /\ b \in AvModems /\ HoldsListed(b) /\ SameService(avm, b)
      /\ \A c \in Calls \ {op.call} : c \in Range(b.calls) <=> c \in Range(avm.calls)
      /\ ~op.added => op.call \notin Range(b.calls)
      /\ op.added /\ op.found # "call" => b = avm
      /\ op.added /\ op.found = "call" =>
           \E s \in StateSeen(op.call) : op.call \in Range(b.calls) <=> s # "terminated"
  BY <1>1, <1>2, <1>3, <1>5, AnsweredAvm DEF VoiceInv
<1>7. b.refs > 0 /\ b.refs = avm.refs /\ b.up = avm.up
  <2>1. avm.refs > 0
    BY <1>1
  <2> QED BY <1>6, <2>1 DEF SameService
<1>8. HasItsThread(b)
  BY <1>1, <1>6 DEF SameService, HasItsThread
<1>9. avm' = Unreffed(b, told) /\ unwatched' = unwatched \cup Unseen(avm, avm')
  BY <1>3 DEF Becomes
<1>10. /\ avm' \in AvModems /\ HoldsListed(avm') /\ HasItsThread(avm')
       /\ avm'.refs = b.refs - 1
       /\ avm'.refs = 0 => ~avm'.up
       /\ Range(avm'.calls) = IF b.up /\ ~avm'.up THEN {} ELSE Range(b.calls)
  BY <1>4, <1>6, <1>7, <1>8, <1>9, UnreffedAvm
<1> QED BY <1>3, <1>6, <1>7, <1>9, <1>10 DEF op

\* The voice service keeps its account of references, threads and calls.
LEMMA VoiceStep == VoiceInv /\ [Next]_vars => VoiceInv'
<1> SUFFICES ASSUME VoiceInv, [Next]_vars PROVE VoiceInv'
  OBVIOUS
<1>t. /\ avm \in AvModems /\ stored \in BOOLEAN /\ listing \in Seq(Operations)
      /\ mm \in [Calls -> CallStates \cup {"unborn", "deleted"}]
      /\ unwatched \subseteq Calls
      /\ HoldsListed(avm) /\ HasItsThread(avm)
      /\ avm.refs = (IF stored THEN 1 ELSE 0) + Len(listing)
      /\ avm.refs = 0 => ~avm.up
      /\ Len(listing) \in Nat
  BY DEF VoiceInv, VoiceTyped, ServiceShape, CallShape
\* Most steps are about the SIP threads and the calls they ask for.
<1>q. ASSUME UNCHANGED <<avm, stored, listing, mm, unwatched>>
      PROVE  VoiceInv'
  <2>1. CallShape'
    BY <1>q, <1>t, CallShapeKept
  <2> QED BY <1>q, <2>1 DEF VoiceInv, VoiceTyped, ServiceShape
<1>1. CASE ModemRegistered
  <2>1. PICK set_up \in May("thread"), watched \in May("channel") :
          avm' = Started(avm, set_up, watched)
    BY <1>1 DEF ModemRegistered
  <2>2. set_up \in BOOLEAN /\ watched \in BOOLEAN
    BY DEF May
  <2>3. /\ avm.starts < MaxStarts /\ avm.refs # 0
        /\ UNCHANGED <<stored, listing, mm, unwatched>>
    BY <1>1 DEF ModemRegistered, Freed
  <2>4. /\ avm' \in AvModems /\ HasItsThread(avm') /\ SameCalls(avm, avm')
        /\ avm'.refs = avm.refs
    BY <1>t, <2>1, <2>2, <2>3, StartedAvm
  <2>5. HoldsListed(avm') /\ Range(avm'.calls) = Range(avm.calls)
    BY <1>t, <2>4 DEF SameCalls, HoldsListed
  <2>6. CallShape'
    BY <2>3, <2>5, CallShapeKept
  <2> QED BY <1>t, <2>3, <2>4, <2>6 DEF VoiceInv, VoiceTyped, ServiceShape
<1>2. CASE ModemUnregistered
  <2>1. PICK told \in May("command") : Becomes(Stopped(avm, told), told)
    BY <1>2 DEF ModemUnregistered
  <2>2. told \in BOOLEAN
    BY DEF May
  <2>3. UNCHANGED <<stored, listing, mm>>
    BY <1>2 DEF ModemUnregistered
  <2>4. avm' = Stopped(avm, told) /\ unwatched' = unwatched \cup Unseen(avm, avm')
    BY <2>1 DEF Becomes
  <2>5. /\ avm' \in AvModems /\ HoldsListed(avm') /\ HasItsThread(avm')
        /\ avm'.refs = avm.refs /\ ~avm'.up
        /\ Range(avm'.calls) \subseteq Range(avm.calls)
    BY <1>t, <2>2, <2>4, StoppedAvm
  <2>6. CallShape'
    BY <2>3, <2>5, CallShapeKept
  <2>7. unwatched' \subseteq Calls
    BY <1>t, <2>4 DEF Unseen
  <2> QED BY <1>t, <2>3, <2>5, <2>6, <2>7 DEF VoiceInv, VoiceTyped, ServiceShape
<1>3. CASE ModemRemoved
  <2>1. PICK told \in May("command") : Becomes(Unreffed(avm, told), told)
    BY <1>3 DEF ModemRemoved
  <2>2. told \in BOOLEAN
    BY DEF May
  <2>3. stored /\ stored' = FALSE /\ UNCHANGED <<listing, mm>>
    BY <1>3 DEF ModemRemoved
  <2>4. avm' = Unreffed(avm, told) /\ unwatched' = unwatched \cup Unseen(avm, avm')
    BY <2>1 DEF Becomes
  <2>5. avm.refs > 0
    BY <1>t, <2>3
  <2>6. /\ avm' \in AvModems /\ HoldsListed(avm') /\ HasItsThread(avm')
        /\ avm'.refs = avm.refs - 1
        /\ avm'.refs = 0 => ~avm'.up
    BY <1>t, <2>2, <2>4, <2>5, UnreffedAvm
  <2>10. Range(avm'.calls) \subseteq Range(avm.calls)
    BY <1>t, <2>2, <2>4, <2>5, UnreffedAvm
  <2>7. CallShape'
    BY <2>3, <2>6, <2>10, CallShapeKept
  <2>8. unwatched' \subseteq Calls
    BY <1>t, <2>4 DEF Unseen
  <2>9. avm'.refs = (IF stored' THEN 1 ELSE 0) + Len(listing')
    BY <1>t, <2>3, <2>6
  <2> QED BY <1>t, <2>3, <2>6, <2>7, <2>8, <2>9 DEF VoiceInv, VoiceTyped, ServiceShape
<1>4. ASSUME NEW c \in Calls, CallAdded(c) PROVE VoiceInv'
  <2>1. /\ FindCall(c, TRUE) /\ UNCHANGED stored /\ mm[c] = "unborn"
        /\ \E s \in CallStates : mm' = [mm EXCEPT ![c] = s]
    BY <1>4 DEF CallAdded, CallStates
  <2>2. /\ mm' \in [Calls -> CallStates \cup {"unborn", "deleted"}]
        /\ \A d \in Calls \ {c} : mm'[d] = mm[d]
        /\ mm'[c] \in CallStates
    BY <1>t, <2>1
  <2>3. avm.up => ~Freed
    BY <1>t DEF Freed
  <2> QED BY <2>1, <2>2, <2>3, FindCallStep
<1>5. ASSUME NEW c \in Calls, CallDeleted(c) PROVE VoiceInv'
  <2>1. /\ FindCall(c, FALSE) /\ UNCHANGED stored /\ mm[c] \in CallStates
        /\ mm' = [mm EXCEPT ![c] = "deleted"]
    BY <1>5 DEF CallDeleted
  <2>2. /\ mm' \in [Calls -> CallStates \cup {"unborn", "deleted"}]
        /\ \A d \in Calls \ {c} : mm'[d] = mm[d]
        /\ mm'[c] = "deleted"
    BY <1>t, <2>1
  <2>3. avm.up => ~Freed
    BY <1>t DEF Freed
  <2> QED BY <2>1, <2>2, <2>3, FindCallStep
<1>6. ASSUME NEW c \in Calls, NEW s \in CallStates, CallChanged(c, s) PROVE VoiceInv'
  <2>1. /\ mm[c] \in CallStates /\ mm' = [mm EXCEPT ![c] = s]
        /\ UNCHANGED <<stored, listing, unwatched>>
        /\ \/ avm' = avm
           \/ c \in avm.handled /\ avm' = StateEval(avm, c, s)
    BY <1>6 DEF CallChanged
  <2>2. /\ avm' \in AvModems /\ HoldsListed(avm') /\ SameService(avm, avm')
        /\ Range(avm'.calls) \subseteq Range(avm.calls)
    <3>1. CASE avm' = avm
      BY <1>t, <3>1 DEF SameService
    <3>2. CASE c \in avm.handled /\ avm' = StateEval(avm, c, s)
      <4>1. c \in Range(avm.calls)
        BY <1>t, <3>2 DEF HoldsListed
      <4> QED BY <1>t, <3>2, <4>1, StateEvalAvm
    <3> QED BY <2>1, <3>1, <3>2
  <2>3. CallStates \cap {"unborn", "deleted"} = {}
    BY DEF CallStates
  <2>4. /\ mm' \in [Calls -> CallStates \cup {"unborn", "deleted"}]
        /\ \A d \in Calls : mm'[d] = mm[d] \/ (mm[d] \in CallStates /\ mm'[d] \in CallStates)
    BY <1>t, <2>1
  <2>5. ASSUME NEW d \in Calls
        PROVE  /\ mm'[d] = "unborn" => mm[d] = "unborn"
               /\ mm[d] = "deleted" => mm'[d] = "deleted"
    BY <2>3, <2>4
  <2>6. CallShape'
    BY <2>1, <2>2, <2>5, OperationsKept DEF VoiceInv, CallShape
  <2>7. HasItsThread(avm')
    BY <1>t, <2>2 DEF SameService, HasItsThread
  <2> QED BY <1>t, <2>1, <2>2, <2>4, <2>6, <2>7
      DEF VoiceInv, VoiceTyped, ServiceShape, SameService
<1>7. ASSUME NEW i \in DOMAIN listing, ListMade(i) PROVE VoiceInv'
  <2>0. {Found(listing[i].call), "null"} \subseteq ListAnswers
    BY DEF Found, ListAnswers
  <2>1. /\ i \in 1..Len(listing)
        /\ \E f \in ListAnswers : listing' = [listing EXCEPT ![i].found = f]
        /\ UNCHANGED <<avm, stored, mm, unwatched>>
    <3>1. PICK f \in {Found(listing[i].call), "null"} :
            listing' = [listing EXCEPT ![i].found = f]
      BY <1>7 DEF ListMade
    <3>2. f \in ListAnswers
      BY <2>0
    <3>3. i \in 1..Len(listing) /\ UNCHANGED <<avm, stored, mm, unwatched>>
      BY <1>t, <1>7 DEF ListMade
    <3> QED BY <3>1, <3>2, <3>3
  <2>2. /\ listing' \in Seq(Operations) /\ Len(listing') = Len(listing)
        /\ \A j \in 1..Len(listing) : /\ listing'[j].call = listing[j].call
                                      /\ listing'[j].added = listing[j].added
    <3>1. PICK f \in ListAnswers : listing' = [listing EXCEPT ![i].found = f]
      BY <2>1
    <3>2. listing[i] \in Operations
      BY <1>t, <2>1
    <3> DEFINE op == [listing[i] EXCEPT !.found = f]
    <3>3. op \in Operations /\ op.call = listing[i].call /\ op.added = listing[i].added
      BY <3>2 DEF Operations
    <3>4. listing' = [listing EXCEPT ![i] = op]
      BY <3>1
    <3> HIDE DEF op
    <3>5. /\ listing' \in Seq(Operations) /\ Len(listing') = Len(listing)
          /\ \A j \in 1..Len(listing) : listing'[j] = IF j = i THEN op ELSE listing[j]
      <4>1. listing \in Seq(Operations) /\ i \in 1..Len(listing) /\ op \in Operations
        BY <1>t, <2>1, <3>3
      <4> QED BY <3>4, <4>1
    <3> QED BY <3>3, <3>5
  <2>3. \A c \in Calls, added \in BOOLEAN : Asked(c, added)' <=> Asked(c, added)
    BY <2>2 DEF Asked
  <2>4. CallShape'
    BY <2>1, <2>2, <2>3 DEF VoiceInv, CallShape
  <2> QED BY <1>t, <2>1, <2>2, <2>4 DEF VoiceInv, VoiceTyped, ServiceShape
<1>8. ASSUME NEW i \in DOMAIN listing, ListReady(i) PROVE VoiceInv'
  <2>1. /\ i \in 1..Len(listing) /\ listing' = RemoveAt(listing, i)
        /\ UNCHANGED <<stored, mm>>
    BY <1>t, <1>8 DEF ListReady
  <2>2. PICK b \in Answered(listing[i]) :
           /\ \A c \in Calls \ {listing[i].call} :
                c \in Range(b.calls) <=> c \in Range(avm.calls)
           /\ ~listing[i].added => listing[i].call \notin Range(b.calls)
           /\ listing[i].added /\ listing[i].found # "call" => b = avm
           /\ avm' \in AvModems /\ HoldsListed(avm') /\ HasItsThread(avm')
           /\ avm'.refs = avm.refs - 1
           /\ avm'.refs = 0 => ~avm'.up
           /\ Range(avm'.calls) = IF avm.up /\ ~avm'.up THEN {} ELSE Range(b.calls)
           /\ unwatched' = unwatched \cup Unseen(avm, avm')
    BY <1>8, <2>1, ListReadyEffect
  <2>3. /\ listing' \in Seq(Operations)
        /\ Len(listing') = Len(listing) - 1
        /\ \A j \in 1..Len(listing') :
             \E k \in 1..Len(listing) :
               /\ k # i /\ k = (IF j < i THEN j ELSE j + 1)
               /\ listing'[j] = listing[k]
        /\ \A c \in Calls, added \in BOOLEAN :
             Asked(c, added)' <=>
               Asked(c, added) /\ ~(c = listing[i].call /\ added = listing[i].added)
    BY <2>1, OperationAnswered
  <2>4. /\ listing[i].call \in Calls /\ listing[i].added \in BOOLEAN
        /\ Asked(listing[i].call, listing[i].added)
    <3>1. listing[i] \in Operations
      BY <1>t, <2>1
    <3> QED BY <2>1, <3>1 DEF Operations, Asked
  <2>5. ASSUME NEW c \in Calls
        PROVE  /\ mm[c] = "unborn" => c \notin Range(avm'.calls) /\ ~Asked(c, TRUE)'
               /\ Asked(c, FALSE)' => mm[c] = "deleted"
               /\ Asked(c, TRUE)' => c \notin Range(avm'.calls)
    <3>1. CASE c # listing[i].call
      <4>1. c \in Range(avm'.calls) => c \in Range(avm.calls)
        BY <2>2, <3>1
      <4> QED BY <2>3, <4>1 DEF VoiceInv, CallShape
    <3>2. CASE c = listing[i].call /\ listing[i].added = TRUE
      <4>1. mm[c] # "unborn" /\ ~Asked(c, TRUE)'
        BY <2>3, <2>4, <3>2 DEF VoiceInv, CallShape
      <4> QED BY <2>3, <4>1 DEF VoiceInv, CallShape
    <3>3. CASE c = listing[i].call /\ listing[i].added = FALSE
      <4>1. mm[c] = "deleted" /\ c \notin Range(avm'.calls)
        BY <2>2, <2>4, <3>3 DEF VoiceInv, CallShape
      <4> QED BY <4>1
    <3> QED BY <2>4, <3>1, <3>2, <3>3
  <2>6. ASSUME NEW j \in 1..Len(listing'), NEW k \in 1..Len(listing'),
               listing'[j].call = listing'[k].call,
               listing'[j].added \/ ~listing'[k].added
        PROVE  j <= k
    <3>1. PICK l \in 1..Len(listing) :
            l # i /\ l = (IF j < i THEN j ELSE j + 1) /\ listing'[j] = listing[l]
      BY <2>3
    <3>2. PICK m \in 1..Len(listing) :
            m # i /\ m = (IF k < i THEN k ELSE k + 1) /\ listing'[k] = listing[m]
      BY <2>3
    <3>3. l <= m
      BY <2>6, <3>1, <3>2 DEF VoiceInv, CallShape
    <3> QED BY <1>t, <2>1, <2>3, <3>1, <3>2, <3>3
  <2>7. CallShape'
    BY <2>1, <2>2, <2>5, <2>6 DEF CallShape
  <2>8. avm'.refs = (IF stored' THEN 1 ELSE 0) + Len(listing')
    BY <1>t, <2>1, <2>2, <2>3
  <2>9. unwatched' \subseteq Calls
    BY <1>t, <2>1, <2>2 DEF Unseen
  <2> QED BY <1>t, <2>1, <2>2, <2>3, <2>7, <2>8, <2>9 DEF VoiceInv, VoiceTyped, ServiceShape
<1>9. ASSUME NEW i \in DOMAIN listing, ListAsserted(i) PROVE VoiceInv'
  BY <1>9, <1>q DEF ListAsserted
<1>10. CASE SipThread
  BY <1>10, <1>q DEF SipThread, SipReady, SipAsksForCall
<1>11. CASE SipEventReady \/ SipEventIncomingCall
  BY <1>11, <1>q DEF SipEventReady, SipEventIncomingCall
<1>12. ASSUME NEW d \in Dials, MMCallCreated(d) \/ MMCallStarted(d) PROVE VoiceInv'
  BY <1>12, <1>q DEF MMCallCreated, MMCallStarted
<1>13. CASE UNCHANGED vars
  BY <1>13, <1>q
<1> QED
  BY <1>1, <1>2, <1>3, <1>4, <1>5, <1>6, <1>7, <1>8, <1>9, <1>10, <1>11, <1>12, <1>13
  DEF Next, ModemManager, ListOperation, SipEvent, Ended

LEMMA VoiceInit == Init => VoiceInv
<1> SUFFICES ASSUME Init PROVE VoiceInv
  OBVIOUS
<1>1. /\ avm = Fresh /\ stored = TRUE /\ listing = <<>> /\ unwatched = {}
      /\ mm = [c \in Calls |-> "unborn"]
  BY DEF Init
<1>2. <<>> \in Seq(Calls) /\ <<>> \in Seq(Operations) /\ Len(<<>>) = 0
  BY EmptySeq
<1>3. [t \in Threads |-> "none"] \in [Threads -> ThreadStates]
  BY DEF ThreadStates
<1>4. [c \in Calls |-> 0] \in [Calls -> Int]
  OBVIOUS
<1>5. /\ avm.refs = 1 /\ avm.up = FALSE /\ avm.calls = <<>> /\ avm.active = 0
      /\ avm.handled = {} /\ avm.held = [c \in Calls |-> 0] /\ avm.starts = 0
      /\ avm.threads = [t \in Threads |-> "none"]
      /\ avm.sipthread = NoThread /\ avm.source = NoThread
  BY <1>1 DEF Fresh
<1>6. avm \in AvModems
  BY <1>1, <1>2, <1>3, <1>4 DEF Fresh, AvModems
<1>7. HasItsThread(avm)
  BY <1>5, VoiceBoundsAssumption DEF HasItsThread, NoThread
<1>8. Range(<<>>) = {} /\ IsInjective(<<>>)
  BY DEF Range, IsInjective
<1>9. HoldsListed(avm)
  BY <1>5, <1>8 DEF HoldsListed
<1>10. VoiceTyped
  BY <1>1, <1>2, <1>6 DEF VoiceTyped
<1>11. ServiceShape
  BY <1>1, <1>2, <1>5, <1>7 DEF ServiceShape
<1>12. CallShape
  BY <1>1, <1>2, <1>5, <1>8, <1>9 DEF CallShape, Asked
<1> QED BY <1>10, <1>11, <1>12 DEF VoiceInv

LEMMA VoiceInvariant == Spec => []VoiceInv
BY VoiceInit, VoiceStep, PTL DEF Spec
-----------------------------------------------------------------------------
(* The theorems                                                             *)

\* An AvModem that is gone has no operation under way: every answer of
\* list_calls finds the AvModem that av_mm_voice_find_call referenced.
THEOREM AnswersFindModemHolds == Spec => []AnswersFindModem
<1>1. VoiceInv => AnswersFindModem
  <2> SUFFICES ASSUME VoiceInv, avm.refs = 0 PROVE listing = <<>>
    BY DEF AnswersFindModem, Freed
  <2>1. listing \in Seq(Operations) /\ Len(listing) \in Nat
    BY DEF VoiceInv, VoiceTyped
  <2>2. Len(listing) = 0
    BY <2>1 DEF VoiceInv, ServiceShape
  <2> QED BY <2>1, <2>2, EmptySeq
<1> QED BY <1>1, VoiceInvariant, PTL

\* A SIP thread that can still be told to stop is that of the service: there is
\* one at most, and stopping the service stops it.
THEOREM ServiceHasItsThreadHolds == Spec => []ServiceHasItsThread
<1>1. VoiceInv => ServiceHasItsThread
  BY DEF VoiceInv, ServiceShape, HasItsThread, ServiceHasItsThread
<1> QED BY <1>1, VoiceInvariant, PTL

\* The main loop watches the socket of a thread that runs, for an AvModem that
\* is there.
THEOREM WatchedThreadLivesHolds == Spec => []WatchedThreadLives
<1>1. VoiceInv => WatchedThreadLives
  <2> SUFFICES ASSUME VoiceInv, avm.source # NoThread
               PROVE  ~Freed /\ avm.threads[avm.source] = "live"
    BY DEF WatchedThreadLives
  <2>1. /\ avm.source \in Threads /\ avm.threads[avm.source] = "live"
    BY DEF VoiceInv, VoiceTyped, ServiceShape, HasItsThread, AvModems
  <2>2. avm.up
    BY <2>1 DEF VoiceInv, ServiceShape, HasItsThread
  <2> QED BY <2>1, <2>2 DEF VoiceInv, ServiceShape, Freed
<1> QED BY <1>1, VoiceInvariant, PTL

\* However a call that changes, a deleted call and a service that stops meet:
\* what is listed is listed once, held once and has its handler, and nothing
\* else has either.
THEOREM ListedCallsAreHeldHolds == Spec => []ListedCallsAreHeld
<1>1. VoiceInv => ListedCallsAreHeld
  <2> SUFFICES ASSUME VoiceInv PROVE ListedCallsAreHeld
    OBVIOUS
  <2>1. HoldsListed(avm) /\ avm.calls \in Seq(Calls)
    BY DEF VoiceInv, VoiceTyped, CallShape, AvModems
  <2> DEFINE s == avm.calls
  <2>2. /\ Len(s) \in Nat /\ DOMAIN s = 1..Len(s)
        /\ \A i \in 1..Len(s) : s[i] \in Range(s)
        /\ \A x \in Range(s) : \E i \in 1..Len(s) : s[i] = x
        /\ \A i, j \in 1..Len(s) : s[i] = s[j] => i = j
    BY <2>1 DEF Range, HoldsListed, IsInjective
  <2>3. Cardinality(Range(s)) = Len(s)
    <3> HIDE DEF s
    <3> DEFINE f == [i \in 1..Len(s) |-> s[i]]
    <3>1. f \in [1..Len(s) -> Range(s)] /\ DOMAIN f = 1..Len(s)
      BY <2>2
    <3>2. \A i \in 1..Len(s) : f[i] = s[i]
      OBVIOUS
    <3> HIDE DEF f
    <3>3. IsInjective(f)
      BY <2>2, <3>1, <3>2 DEF IsInjective
    <3>4. f \in Bijection(1..Len(s), Range(s))
      BY <2>2, <3>1, <3>2, <3>3 DEF Bijection, Injection, Surjection
    <3>5. ExistsBijection(1..Len(s), Range(s))
      BY <3>4 DEF ExistsBijection
    <3> QED BY <2>2, <3>5, FS_CountingElements
  <2> QED BY <2>1, <2>3 DEF HoldsListed, ListedCallsAreHeld
<1> QED BY <1>1, VoiceInvariant, PTL
-----------------------------------------------------------------------------
(* The thread of a service that is up                                       *)

\* An AvModem whose service goes on has the thread that it had.
KeepsThread(a, b) ==
  b.up => a.up /\ b.sipthread = a.sipthread /\ b.threads = a.threads

LEMMA UnreffedThread ==
  ASSUME NEW a \in AvModems, HoldsListed(a), HasItsThread(a), a.refs > 0, NEW told \in BOOLEAN
  PROVE  KeepsThread(a, Unreffed(a, told))
<1> DEFINE d == [a EXCEPT !.refs = a.refs - 1]
           b == Unreffed(a, told)
<1>1. d.refs = a.refs - 1 /\ KeepsThread(a, d)
  BY DEF AvModems, KeepsThread
<1>2. b = IF d.refs = 0 THEN Stopped(d, told) ELSE d
  BY DEF Unreffed, AvModems
<1>3. b.refs = a.refs - 1 /\ (b.refs = 0 => ~b.up)
  BY UnreffedAvm
<1> HIDE DEF b, d
<1>4. CASE d.refs = 0
  BY <1>1, <1>3, <1>4 DEF KeepsThread, b
<1>5. CASE d.refs # 0
  BY <1>1, <1>2, <1>5 DEF b
<1> QED BY <1>4, <1>5

LiveShape == avm.up => avm.sipthread \in Threads /\ avm.threads[avm.sipthread] = "live"

LEMMA LiveStep ==
  ASSUME "thread" \notin Failures
  PROVE  VoiceInv /\ LiveShape /\ [Next]_vars => LiveShape'
<1> SUFFICES ASSUME VoiceInv, LiveShape, [Next]_vars PROVE LiveShape'
  OBVIOUS
<1>t. /\ avm \in AvModems /\ listing \in Seq(Operations) /\ Len(listing) \in Nat
      /\ HoldsListed(avm) /\ HasItsThread(avm)
      /\ avm.refs = (IF stored THEN 1 ELSE 0) + Len(listing)
  BY DEF VoiceInv, VoiceTyped, ServiceShape, CallShape
<1>k. ASSUME KeepsThread(avm, avm') PROVE LiveShape'
  BY <1>k DEF KeepsThread, LiveShape
<1>q. ASSUME UNCHANGED avm PROVE LiveShape'
  BY <1>q DEF LiveShape
<1>1. CASE ModemRegistered
  <2>1. PICK watched \in May("channel") : avm' = Started(avm, TRUE, watched)
    BY <1>1 DEF ModemRegistered, May
  <2>2. CASE avm.up
    BY <1>q, <2>1, <2>2 DEF Started
  <2>3. CASE ~avm.up
    <3> DEFINE t == avm.starts + 1
    <3>1. t \in Threads
      <4>1. avm.starts \in Nat /\ avm.starts < MaxStarts
        BY <1>t, <1>1 DEF AvModems, ModemRegistered
      <4> QED BY <4>1, VoiceBoundsAssumption DEF Threads
    <3>2. avm'.sipthread = t /\ avm'.threads = [avm.threads EXCEPT ![t] = "live"]
      BY <1>t, <2>1, <2>3 DEF Started, AvModems
    <3>3. avm.threads \in [Threads -> ThreadStates]
      BY <1>t DEF AvModems
    <3> QED BY <3>1, <3>2, <3>3 DEF LiveShape
  <2> QED BY <2>2, <2>3
<1>2. CASE ModemUnregistered
  <2>1. PICK told \in May("command") : Becomes(Stopped(avm, told), told)
    BY <1>2 DEF ModemUnregistered
  <2>2. told \in BOOLEAN /\ avm' = Stopped(avm, told)
    BY <2>1 DEF May, Becomes
  <2>3. ~avm'.up
    BY <1>t, <2>2, StoppedAvm
  <2> QED BY <2>3 DEF LiveShape
<1>3. CASE ModemRemoved
  <2>1. PICK told \in May("command") : Becomes(Unreffed(avm, told), told)
    BY <1>3 DEF ModemRemoved
  <2>2. told \in BOOLEAN /\ stored /\ avm' = Unreffed(avm, told)
    BY <1>3, <2>1 DEF ModemRemoved, May, Becomes
  <2>3. avm.refs > 0
    BY <1>t, <2>2
  <2> QED BY <1>t, <1>k, <2>2, <2>3, UnreffedThread
<1>4. ASSUME NEW c \in Calls, CallAdded(c) \/ CallDeleted(c) PROVE LiveShape'
  <2>1. \/ UNCHANGED avm
        \/ avm' = [avm EXCEPT !.refs = @ + 1]
    BY <1>4 DEF CallAdded, CallDeleted, FindCall
  <2>2. KeepsThread(avm, avm')
    BY <1>t, <2>1 DEF KeepsThread, AvModems
  <2> QED BY <1>k, <2>2
<1>5. ASSUME NEW c \in Calls, NEW s \in CallStates, CallChanged(c, s) PROVE LiveShape'
  <2>1. \/ UNCHANGED avm
        \/ c \in avm.handled /\ avm' = StateEval(avm, c, s)
    BY <1>5 DEF CallChanged
  <2>2. CASE c \in avm.handled /\ avm' = StateEval(avm, c, s)
    <3>1. c \in Range(avm.calls)
      BY <1>t, <2>2 DEF HoldsListed
    <3>2. SameService(avm, avm')
      BY <1>t, <2>2, <3>1, StateEvalAvm
    <3> QED BY <1>k, <3>2 DEF SameService, KeepsThread
  <2> QED BY <1>q, <2>1, <2>2
<1>6. ASSUME NEW i \in DOMAIN listing, ListMade(i) \/ ListAsserted(i) PROVE LiveShape'
  BY <1>6, <1>q DEF ListMade, ListAsserted
<1>7. ASSUME NEW i \in DOMAIN listing, ListReady(i) PROVE LiveShape'
  <2> DEFINE op == listing[i]
  <2>1. i \in 1..Len(listing)
    BY <1>t
  <2>2. PICK told \in May("command"), b \in Answered(op) : avm' = Unreffed(b, told)
    BY <1>7 DEF ListReady, Becomes
  <2>3. told \in BOOLEAN
    BY DEF May
  <2>4. op \in Operations /\ Asked(op.call, op.added)
    BY <1>t, <2>1 DEF Asked
  <2>5. op.added => op.call \notin Range(avm.calls)
    BY <2>4 DEF VoiceInv, CallShape, Operations
  <2> HIDE DEF op
  <2>6. b \in AvModems /\ HoldsListed(b) /\ SameService(avm, b)
    BY <1>t, <2>2, <2>4, <2>5, AnsweredAvm DEF VoiceInv
  <2>7. HasItsThread(b) /\ b.refs > 0
    <3>1. avm.refs > 0
      BY <1>t, <2>1
    <3> QED BY <1>t, <2>6, <3>1 DEF SameService, HasItsThread
  <2>8. KeepsThread(b, avm')
    BY <2>2, <2>3, <2>6, <2>7, UnreffedThread
  <2> QED BY <1>k, <2>6, <2>8 DEF KeepsThread, SameService
<1>8. CASE SipThread
  BY <1>8, <1>q DEF SipThread, SipReady, SipAsksForCall
<1>9. CASE SipEventReady \/ SipEventIncomingCall
  BY <1>9, <1>q DEF SipEventReady, SipEventIncomingCall
<1>10. ASSUME NEW d \in Dials, MMCallCreated(d) \/ MMCallStarted(d) PROVE LiveShape'
  BY <1>10, <1>q DEF MMCallCreated, MMCallStarted
<1>11. CASE UNCHANGED vars
  BY <1>11, <1>q
<1> QED
  BY <1>1, <1>2, <1>3, <1>4, <1>5, <1>6, <1>7, <1>8, <1>9, <1>10, <1>11
  DEF Next, ModemManager, ListOperation, SipEvent, Ended

\* The pointer to the SIP thread is never cleared.  A stop that writes to a thread
\* which was freed takes a set-up that failed before: with none, the thread of a
\* service that is up lives, over any number of restarts.
THEOREM ServiceThreadLives ==
  ASSUME "thread" \notin Failures
  PROVE  Spec => [](avm.up => /\ avm.threads[avm.sipthread] = "live"
                              /\ \A told \in BOOLEAN : ~StopsFreedThread(avm, told))
<1> DEFINE Lives == avm.up => /\ avm.threads[avm.sipthread] = "live"
                              /\ \A told \in BOOLEAN : ~StopsFreedThread(avm, told)
<1>1. Init => LiveShape
  BY DEF Init, Fresh, LiveShape
<1>2. VoiceInv /\ LiveShape /\ [Next]_vars => LiveShape'
  BY LiveStep
<1>3. LiveShape => Lives
  BY DEF LiveShape, StopsFreedThread
<1> QED BY <1>1, <1>2, <1>3, VoiceInvariant, PTL DEF Spec
-----------------------------------------------------------------------------
(* The list follows ModemManager                                            *)

\* As long as answers come in order: the list made for a call that was added
\* has that call while it is there, and a call of which nothing is being asked
\* is on the list if, and only if, ModemManager has it and it has not ended.
FollowShape ==
  /\ \A i \in 1..Len(listing) :
       listing[i].added /\ mm[listing[i].call] \in CallStates
         => listing[i].found # "others"
  /\ Running =>
       \A c \in Calls \ unwatched :
         /\ mm[c] \in CallStates /\ ~Asked(c, TRUE)
              => (c \in Range(avm.calls) <=> mm[c] # "terminated")
         /\ mm[c] = "deleted" /\ ~Asked(c, FALSE)
              => ~Asked(c, TRUE) /\ c \notin Range(avm.calls)

\* A step about the AvModem alone: its calls stay, or its service stops.
LEMMA FollowShapeKept ==
  ASSUME VoiceInv, FollowShape, UNCHANGED <<listing, mm>>, Running' => Running,
         unwatched' = unwatched \cup Unseen(avm, avm'),
         Range(avm'.calls) = IF avm.up /\ ~avm'.up THEN {} ELSE Range(avm.calls)
  PROVE  FollowShape'
<1>1. \A c \in Calls, added \in BOOLEAN : Asked(c, added)' <=> Asked(c, added)
  BY OperationsKept
<1>2. CASE avm.up /\ ~avm'.up
  <2>1. \A c \in Calls \ unwatched' : c \notin unwatched /\ mm[c] \notin CallStates
    BY <1>2 DEF Unseen
  <2> QED BY <1>1, <1>2, <2>1 DEF FollowShape
<1>3. CASE ~(avm.up /\ ~avm'.up)
  <2>1. unwatched' = unwatched
    BY <1>3 DEF Unseen
  <2> QED BY <1>1, <1>3, <2>1 DEF FollowShape
<1> QED BY <1>2, <1>3

\* av_mm_voice_find_call: nothing is said of its call until the answer is in.
LEMMA FindCallFollows ==
  ASSUME VoiceInv, FollowShape, Running, NEW c \in Calls, NEW added \in BOOLEAN,
         FindCall(c, added), \A d \in Calls \ {c} : mm'[d] = mm[d],
         IF added THEN mm[c] = "unborn" /\ mm'[c] \in CallStates
                  ELSE mm[c] \in CallStates /\ mm'[c] = "deleted"
  PROVE  FollowShape'
<1>1. /\ avm \in AvModems /\ unwatched \subseteq Calls
      /\ listing \in Seq(Operations) /\ Len(listing) \in Nat
      /\ CallStates \cap {"unborn", "deleted"} = {}
  BY DEF VoiceInv, VoiceTyped, CallStates
<1>2. ASSUME NEW i \in 1..Len(listing), listing[i].added, listing[i].call = c,
             mm'[c] \in CallStates
      PROVE  FALSE
  <2>1. listing[i].added = TRUE
    <3>1. listing[i] \in Operations
      BY <1>1
    <3> QED BY <1>2, <3>1 DEF Operations
  <2>2. Asked(c, TRUE)
    BY <1>2, <2>1 DEF Asked
  <2>3. mm[c] = "unborn"
    BY <1>1, <1>2
  <2> QED BY <2>2, <2>3 DEF VoiceInv, CallShape
<1>3. ASSUME NEW i \in 1..Len(listing), listing[i].added,
             mm'[listing[i].call] \in CallStates
      PROVE  listing[i].found # "others"
  <2>1. listing[i].call \in Calls
    <3>1. listing[i] \in Operations
      BY <1>1
    <3> QED BY <3>1 DEF Operations
  <2>2. listing[i].call # c
    BY <1>2, <1>3
  <2>3. mm[listing[i].call] \in CallStates
    BY <1>3, <2>1, <2>2
  <2> QED BY <1>3, <2>3 DEF FollowShape
<1>4. CASE /\ listing' = Append(listing, Operation(c, added))
           /\ avm' = [avm EXCEPT !.refs = @ + 1] /\ UNCHANGED unwatched
  <2>1. /\ Len(listing') = Len(listing) + 1
        /\ listing'[Len(listing) + 1] = Operation(c, added)
        /\ \A i \in 1..Len(listing) : listing'[i] = listing[i]
        /\ \A d \in Calls, a \in BOOLEAN : Asked(d, a)' <=> Asked(d, a) \/ (d = c /\ a = added)
    BY <1>4, OperationBegun
  <2>2. avm'.calls = avm.calls
    BY <1>1, <1>4 DEF AvModems
  <2>3. Operation(c, added).found # "others"
    BY DEF Operation
  <2>4. ASSUME NEW i \in 1..Len(listing'), listing'[i].added,
               mm'[listing'[i].call] \in CallStates
        PROVE  listing'[i].found # "others"
    <3>1. CASE i \in 1..Len(listing)
      BY <1>3, <2>1, <2>4, <3>1
    <3>2. CASE i = Len(listing) + 1
      BY <2>1, <2>3, <3>2
    <3> QED BY <1>1, <2>1, <3>1, <3>2
  <2>5. ASSUME NEW d \in Calls \ unwatched
        PROVE  /\ mm'[d] \in CallStates /\ ~Asked(d, TRUE)'
                    => (d \in Range(avm'.calls) <=> mm'[d] # "terminated")
               /\ mm'[d] = "deleted" /\ ~Asked(d, FALSE)'
                    => ~Asked(d, TRUE)' /\ d \notin Range(avm'.calls)
    <3>1. CASE d = c
      BY <1>1, <2>1, <3>1
    <3>2. CASE d # c
      BY <2>1, <2>2, <3>2 DEF FollowShape
    <3> QED BY <3>1, <3>2
  <2> QED BY <1>4, <2>4, <2>5 DEF FollowShape
<1>5. CASE unwatched' = unwatched \cup {c} /\ UNCHANGED <<avm, listing>>
  <2>1. \A d \in Calls, a \in BOOLEAN : Asked(d, a)' <=> Asked(d, a)
    BY <1>5, OperationsKept
  <2>2. \A d \in Calls \ unwatched' : d \notin unwatched /\ mm'[d] = mm[d]
    BY <1>5
  <2> QED BY <1>3, <1>5, <2>1, <2>2 DEF FollowShape
<1> QED BY <1>4, <1>5 DEF FindCall

\* The oldest operation is answered.
LEMMA ListReadyFollows ==
  ASSUME VoiceInv, FollowShape, Running, 1 \in 1..Len(listing), ListReady(1)
  PROVE  FollowShape'
<1> DEFINE op == listing[1]
<1>1. /\ listing' = RemoveAt(listing, 1) /\ UNCHANGED mm
      /\ op.found # "asked" /\ ~(op.added /\ op.found = "null")
  BY DEF ListReady
<1>2. /\ listing \in Seq(Operations) /\ Len(listing) \in Nat /\ avm \in AvModems
      /\ CallStates \cap {"unborn", "deleted"} = {}
  BY DEF VoiceInv, VoiceTyped, CallStates
<1>3. op \in Operations
  BY <1>2
<1>4. op.call \in Calls /\ op.added \in BOOLEAN /\ op.found \in ListAnswers
  BY <1>3 DEF Operations
<1>5. /\ \A j \in 1..Len(listing') :
           \E k \in 1..Len(listing) : listing'[j] = listing[k]
      /\ \A c \in Calls, added \in BOOLEAN :
           Asked(c, added)' <=>
             Asked(c, added) /\ ~(c = op.call /\ added = op.added)
  BY <1>1, OperationAnswered
<1>6. PICK b \in Answered(op) :
        /\ SameService(avm, b)
        /\ \A c \in Calls \ {op.call} : c \in Range(b.calls) <=> c \in Range(avm.calls)
        /\ ~op.added => op.call \notin Range(b.calls)
        /\ op.added /\ op.found = "call" =>
             \E s \in StateSeen(op.call) : op.call \in Range(b.calls) <=> s # "terminated"
        /\ Range(avm'.calls) = IF avm.up /\ ~avm'.up THEN {} ELSE Range(b.calls)
        /\ unwatched' = unwatched \cup Unseen(avm, avm')
  BY ListReadyEffect
<1>7. Asked(op.call, op.added)
  BY DEF Asked
<1>8. ~op.added => ~Asked(op.call, TRUE)
  <2> SUFFICES ASSUME ~op.added, NEW k \in 1..Len(listing),
                      listing[k].call = op.call, listing[k].added = TRUE
               PROVE  FALSE
    BY DEF Asked
  <2>1. k <= 1
    BY DEF VoiceInv, CallShape
  <2> QED BY <1>2, <2>1
<1> HIDE DEF op
<1>9. ASSUME NEW i \in 1..Len(listing'), listing'[i].added,
             mm'[listing'[i].call] \in CallStates
      PROVE  listing'[i].found # "others"
  BY <1>1, <1>5, <1>9 DEF FollowShape
<1>10. ASSUME NEW c \in Calls \ unwatched', mm[c] \in CallStates, ~Asked(c, TRUE)'
       PROVE  c \in Range(avm'.calls) <=> mm[c] # "terminated"
  <2>1. c \notin unwatched /\ ~(avm.up /\ ~avm'.up)
    BY <1>6, <1>10 DEF Unseen
  <2>2. Range(avm'.calls) = Range(b.calls)
    BY <1>6, <2>1
  <2>3. CASE c # op.call
    BY <1>5, <1>6, <1>10, <2>1, <2>2, <2>3 DEF FollowShape
  <2>4. CASE c = op.call
    <3>1. op.added
      <4>1. ASSUME op.added = FALSE PROVE FALSE
        <5>1. mm[c] = "deleted"
          BY <1>7, <2>4, <4>1 DEF VoiceInv, CallShape
        <5> QED BY <1>2, <1>10, <5>1
      <4> QED BY <1>4, <4>1
    <3>2. op.found = "call"
      <4>1. op.found # "others"
        BY <1>10, <2>4, <3>1 DEF FollowShape, op
      <4> QED BY <1>1, <1>4, <3>1, <4>1 DEF ListAnswers, op
    <3>3. StateSeen(op.call) = {mm[c]}
      BY <1>10, <2>4 DEF StateSeen
    <3> QED BY <1>6, <2>2, <2>4, <3>1, <3>2, <3>3
  <2> QED BY <2>3, <2>4
<1>11. ASSUME NEW c \in Calls \ unwatched', mm[c] = "deleted", ~Asked(c, FALSE)'
       PROVE  ~Asked(c, TRUE)' /\ c \notin Range(avm'.calls)
  <2>1. c \notin unwatched
    BY <1>6
  <2>2. CASE c # op.call
    <3>1. ~Asked(c, TRUE) /\ c \notin Range(avm.calls)
      BY <1>5, <1>11, <2>1, <2>2 DEF FollowShape
    <3> QED BY <1>5, <1>6, <2>2, <3>1
  <2>3. CASE c = op.call /\ op.added = FALSE
    BY <1>5, <1>6, <1>8, <2>3
  <2>4. CASE c = op.call /\ op.added = TRUE
    <3>1. ~Asked(c, FALSE)
      BY <1>5, <1>11, <2>4
    <3>2. ~Asked(c, TRUE)
      BY <1>11, <2>1, <3>1 DEF FollowShape
    <3> QED BY <1>7, <2>4, <3>2
  <2> QED BY <1>4, <2>2, <2>3, <2>4
<1> QED BY <1>1, <1>9, <1>10, <1>11 DEF FollowShape

LEMMA FollowStep ==
  ASSUME "reorder" \notin Failures
  PROVE  VoiceInv /\ FollowShape /\ [Next]_vars => FollowShape'
<1> SUFFICES ASSUME VoiceInv, FollowShape, [Next]_vars PROVE FollowShape'
  OBVIOUS
<1>t. /\ avm \in AvModems /\ listing \in Seq(Operations) /\ Len(listing) \in Nat
      /\ mm \in [Calls -> CallStates \cup {"unborn", "deleted"}]
      /\ unwatched \subseteq Calls
      /\ HoldsListed(avm) /\ HasItsThread(avm)
      /\ avm.refs = (IF stored THEN 1 ELSE 0) + Len(listing)
  BY DEF VoiceInv, VoiceTyped, ServiceShape, CallShape
<1>q. ASSUME UNCHANGED <<avm, listing, mm, unwatched>>, Running' => Running
      PROVE  FollowShape'
  <2>1. unwatched' = unwatched \cup Unseen(avm, avm')
    BY <1>q DEF Unseen
  <2> QED BY <1>q, <2>1, FollowShapeKept
<1>1. CASE ModemRegistered
  <2>1. PICK set_up \in May("thread"), watched \in May("channel") :
          avm' = Started(avm, set_up, watched)
    BY <1>1 DEF ModemRegistered
  <2>2. /\ set_up \in BOOLEAN /\ watched \in BOOLEAN
        /\ avm.starts < MaxStarts /\ Running
        /\ UNCHANGED <<listing, mm, unwatched>>
    BY <1>1 DEF ModemRegistered, May
  <2>3. SameCalls(avm, avm') /\ avm'.up
    BY <1>t, <2>1, <2>2, StartedAvm
  <2>4. /\ unwatched' = unwatched \cup Unseen(avm, avm')
        /\ Range(avm'.calls) = IF avm.up /\ ~avm'.up THEN {} ELSE Range(avm.calls)
    BY <2>2, <2>3 DEF Unseen, SameCalls
  <2> QED BY <2>2, <2>4, FollowShapeKept
<1>2. CASE ModemUnregistered
  <2>1. PICK told \in May("command") : Becomes(Stopped(avm, told), told)
    BY <1>2 DEF ModemUnregistered
  <2>2. told \in BOOLEAN /\ Running /\ avm.up /\ UNCHANGED <<listing, mm>>
    BY <1>2 DEF ModemUnregistered, May
  <2>3. avm' = Stopped(avm, told) /\ unwatched' = unwatched \cup Unseen(avm, avm')
    BY <2>1 DEF Becomes
  <2>4. ~avm'.up /\ Range(avm'.calls) = {}
    BY <1>t, <2>2, <2>3, StoppedAvm
  <2> QED BY <2>2, <2>3, <2>4, FollowShapeKept
<1>3. CASE ModemRemoved
  <2>1. PICK told \in May("command") : Becomes(Unreffed(avm, told), told)
    BY <1>3 DEF ModemRemoved
  <2>2. told \in BOOLEAN /\ Running /\ stored /\ UNCHANGED <<listing, mm>>
    BY <1>3 DEF ModemRemoved, May
  <2>3. avm' = Unreffed(avm, told) /\ unwatched' = unwatched \cup Unseen(avm, avm')
    BY <2>1 DEF Becomes
  <2>4. avm.refs > 0
    BY <1>t, <2>2
  <2>5. Range(avm'.calls) = IF avm.up /\ ~avm'.up THEN {} ELSE Range(avm.calls)
    BY <1>t, <2>2, <2>3, <2>4, UnreffedAvm
  <2> QED BY <2>2, <2>3, <2>5, FollowShapeKept
<1>4. ASSUME NEW c \in Calls, CallAdded(c) PROVE FollowShape'
  <2>1. /\ FindCall(c, TRUE) /\ Running /\ mm[c] = "unborn"
        /\ \E s \in CallStates : mm' = [mm EXCEPT ![c] = s]
    BY <1>4 DEF CallAdded, CallStates
  <2>2. mm'[c] \in CallStates /\ \A d \in Calls \ {c} : mm'[d] = mm[d]
    BY <1>t, <2>1
  <2> QED BY <2>1, <2>2, FindCallFollows
<1>5. ASSUME NEW c \in Calls, CallDeleted(c) PROVE FollowShape'
  <2>1. /\ FindCall(c, FALSE) /\ Running /\ mm[c] \in CallStates
        /\ mm' = [mm EXCEPT ![c] = "deleted"]
    BY <1>5 DEF CallDeleted
  <2>2. mm'[c] = "deleted" /\ \A d \in Calls \ {c} : mm'[d] = mm[d]
    BY <1>t, <2>1
  <2> QED BY <2>1, <2>2, FindCallFollows
<1>6. ASSUME NEW c \in Calls, NEW s \in CallStates, CallChanged(c, s) PROVE FollowShape'
  <2>1. /\ mm[c] \in CallStates \ {"terminated"} /\ mm' = [mm EXCEPT ![c] = s]
        /\ UNCHANGED <<listing, unwatched>> /\ Running
        /\ \/ c \notin avm.handled /\ avm' = avm
           \/ c \in avm.handled /\ avm' = StateEval(avm, c, s)
           \/ fault' = "modem"
    BY <1>6 DEF CallChanged
  <2>2. /\ mm'[c] = s
        /\ \A d \in Calls \ {c} : mm'[d] = mm[d]
        /\ \A d \in Calls : mm'[d] \in CallStates <=> mm[d] \in CallStates
    BY <1>t, <2>1
  <2>3. \A i \in 1..Len(listing) : listing[i].call \in Calls
    <3>1. \A i \in 1..Len(listing) : listing[i] \in Operations
      BY <1>t
    <3> QED BY <3>1 DEF Operations
  <2>4. \A i \in 1..Len(listing') :
          listing'[i].added /\ mm'[listing'[i].call] \in CallStates
            => listing'[i].found # "others"
    BY <2>1, <2>2, <2>3 DEF FollowShape
  <2>5. \A d \in Calls, added \in BOOLEAN : Asked(d, added)' <=> Asked(d, added)
    BY <2>1, OperationsKept
  <2>6. CASE fault' = "modem"
    <3>1. ~Running'
      BY <2>6 DEF Running
    <3> QED BY <2>4, <3>1 DEF FollowShape
  <2>7. CASE c \notin avm.handled /\ avm' = avm
    <3>1. c \in unwatched \/ Asked(c, TRUE)
      BY <1>t, <2>1, <2>7 DEF FollowShape, HoldsListed
    <3>2. mm'[c] # "deleted"
      BY <2>2 DEF CallStates
    <3>3. ASSUME NEW d \in Calls \ unwatched
          PROVE  /\ mm'[d] \in CallStates /\ ~Asked(d, TRUE)'
                      => (d \in Range(avm'.calls) <=> mm'[d] # "terminated")
                 /\ mm'[d] = "deleted" /\ ~Asked(d, FALSE)'
                      => ~Asked(d, TRUE)' /\ d \notin Range(avm'.calls)
      <4>1. CASE d = c
        BY <2>5, <3>1, <3>2, <4>1
      <4>2. CASE d # c
        BY <2>1, <2>2, <2>5, <2>7, <4>2 DEF FollowShape
      <4> QED BY <4>1, <4>2
    <3> QED BY <2>1, <2>4, <3>3 DEF FollowShape
  <2>8. CASE c \in avm.handled /\ avm' = StateEval(avm, c, s)
    <3>1. c \in Range(avm.calls)
      BY <1>t, <2>8 DEF HoldsListed
    <3>2. Range(avm'.calls) = IF s = "terminated" THEN Range(avm.calls) \ {c}
                                                  ELSE Range(avm.calls)
      BY <1>t, <2>8, <3>1, StateEvalAvm
    <3>3. mm'[c] # "deleted"
      BY <2>2 DEF CallStates
    <3>4. ASSUME NEW d \in Calls \ unwatched
          PROVE  /\ mm'[d] \in CallStates /\ ~Asked(d, TRUE)'
                      => (d \in Range(avm'.calls) <=> mm'[d] # "terminated")
                 /\ mm'[d] = "deleted" /\ ~Asked(d, FALSE)'
                      => ~Asked(d, TRUE)' /\ d \notin Range(avm'.calls)
      <4>1. CASE d = c
        BY <2>2, <3>1, <3>2, <3>3, <4>1
      <4>2. CASE d # c
        BY <2>1, <2>2, <2>5, <3>2, <4>2 DEF FollowShape
      <4> QED BY <4>1, <4>2
    <3> QED BY <2>1, <2>4, <3>4 DEF FollowShape
  <2> QED BY <2>1, <2>6, <2>7, <2>8
<1>7. ASSUME NEW i \in DOMAIN listing, ListMade(i) PROVE FollowShape'
  <2>1. PICK f \in {Found(listing[i].call), "null"} :
          listing' = [listing EXCEPT ![i].found = f]
    BY <1>7 DEF ListMade
  <2>2. i \in 1..Len(listing) /\ UNCHANGED <<avm, mm, unwatched>> /\ Running
    BY <1>t, <1>7 DEF ListMade
  <2>3. /\ listing[i] \in Operations
        /\ mm[listing[i].call] \in CallStates => f # "others"
    BY <1>t, <2>1, <2>2 DEF Found
  <2> DEFINE op == [listing[i] EXCEPT !.found = f]
  <2>4. op.call = listing[i].call /\ op.added = listing[i].added /\ op.found = f
    BY <2>3 DEF Operations
  <2>5. listing' = [listing EXCEPT ![i] = op]
    BY <2>1
  <2> HIDE DEF op
  <2>6. /\ Len(listing') = Len(listing)
        /\ \A j \in 1..Len(listing) : listing'[j] = IF j = i THEN op ELSE listing[j]
    BY <1>t, <2>2, <2>5
  <2>7. \A j \in 1..Len(listing) : /\ listing'[j].call = listing[j].call
                                   /\ listing'[j].added = listing[j].added
    BY <2>4, <2>6
  <2>8. \A c \in Calls, added \in BOOLEAN : Asked(c, added)' <=> Asked(c, added)
    BY <2>6, <2>7 DEF Asked
  <2>9. ASSUME NEW j \in 1..Len(listing'), listing'[j].added,
               mm'[listing'[j].call] \in CallStates
        PROVE  listing'[j].found # "others"
    <3>1. CASE j = i
      BY <2>2, <2>3, <2>4, <2>6, <2>9, <3>1
    <3>2. CASE j # i
      BY <2>2, <2>6, <2>9, <3>2 DEF FollowShape
    <3> QED BY <3>1, <3>2
  <2> QED BY <2>2, <2>8, <2>9 DEF FollowShape
<1>8. ASSUME NEW i \in DOMAIN listing, ListReady(i) PROVE FollowShape'
  <2>1. i = 1 /\ Running
    BY <1>8 DEF ListReady
  <2>2. 1 \in 1..Len(listing)
    BY <1>t, <2>1
  <2> QED BY <1>8, <2>1, <2>2, ListReadyFollows
<1>9. ASSUME NEW i \in DOMAIN listing, ListAsserted(i) PROVE FollowShape'
  BY <1>9, <1>q DEF ListAsserted
<1>10. CASE SipThread
  BY <1>10, <1>q DEF SipThread, SipReady, SipAsksForCall
<1>11. CASE SipEventReady \/ SipEventIncomingCall
  BY <1>11, <1>q DEF SipEventReady, SipEventIncomingCall, Receives
<1>12. ASSUME NEW d \in Dials, MMCallCreated(d) \/ MMCallStarted(d) PROVE FollowShape'
  BY <1>12, <1>q DEF MMCallCreated, MMCallStarted
<1>13. CASE UNCHANGED vars
  BY <1>13, <1>q DEF Running
<1> QED
  BY <1>1, <1>2, <1>3, <1>4, <1>5, <1>6, <1>7, <1>8, <1>9, <1>10, <1>11, <1>12, <1>13
  DEF Next, ModemManager, ListOperation, SipEvent, Ended

\* As long as ModemManager's answers come in the order of the questions, what
\* the program lists when they are all in is what ModemManager has, but for
\* calls that were there when nobody listened.
THEOREM ListFollowsModemManagerHolds ==
  ASSUME "reorder" \notin Failures
  PROVE  Spec => []ListFollowsModemManager
<1>1. Init => FollowShape
  <2> SUFFICES ASSUME Init PROVE FollowShape
    OBVIOUS
  <2>1. Len(listing) = 0 /\ mm = [c \in Calls |-> "unborn"]
    BY EmptySeq DEF Init
  <2> QED BY <2>1 DEF FollowShape, CallStates
<1>2. VoiceInv /\ FollowShape /\ [Next]_vars => FollowShape'
  BY FollowStep
<1>3. VoiceInv /\ FollowShape => ListFollowsModemManager
  <2> SUFFICES ASSUME VoiceInv, FollowShape, Running, listing = <<>>,
                      NEW c \in Calls \ unwatched
               PROVE  c \in Range(avm.calls) <=> mm[c] \in CallStates \ {"terminated"}
    BY DEF ListFollowsModemManager
  <2>1. mm[c] \in CallStates \cup {"unborn", "deleted"}
    BY DEF VoiceInv, VoiceTyped
  <2>2. ~Asked(c, TRUE) /\ ~Asked(c, FALSE)
    <3>1. Len(listing) = 0
      BY EmptySeq
    <3> QED BY <3>1 DEF Asked
  <2>3. "unborn" \notin CallStates /\ "deleted" \notin CallStates
    BY DEF CallStates
  <2> QED BY <2>1, <2>2, <2>3 DEF FollowShape, VoiceInv, CallShape
<1> QED BY <1>1, <1>2, <1>3, VoiceInvariant, PTL DEF Spec

\* av_mm_voice.c:13 is right about every call whose changes the program was told of,
\* as long as the answer to its addition does not come after the one to its
\* removal: with all answers in, no deleted MMCall is left in the list.
THEOREM DeletedCallIsReleasedInOrder ==
  ASSUME "reorder" \notin Failures
  PROVE  Spec => []DeletedCallIsReleased
<1>1. VoiceInv /\ ListFollowsModemManager => DeletedCallIsReleased
  <2> SUFFICES ASSUME VoiceInv, ListFollowsModemManager,
                      Running, avm.up, listing = <<>>,
                      NEW c \in Range(avm.calls) \ unwatched
               PROVE  mm[c] # "deleted"
    BY DEF DeletedCallIsReleased
  <2>1. c \in Calls
    BY DEF VoiceInv, VoiceTyped, AvModems, Range
  <2>2. mm[c] \in CallStates
    BY <2>1 DEF ListFollowsModemManager
  <2> QED BY <2>2 DEF CallStates
<1> QED BY <1>1, VoiceInvariant, ListFollowsModemManagerHolds, PTL
=============================================================================

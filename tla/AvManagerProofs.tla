-------------------------- MODULE AvManagerProofs --------------------------
(***************************************************************************)
(* Theorems about AvManager: the counter that av_handle_exit waits for,    *)
(* the list of modems and what hangs on it, for any number of modems,      *)
(* managers and pending answers, and any failures.                         *)
(***************************************************************************)
EXTENDS AvManager, FiniteSetTheorems, SequenceTheorems, NaturalsInduction,
        WellFoundedInduction, TLAPS

\* What is under way is finitely much, and each manager is asked for once.
CountShape ==
  /\ opened \in Nat
  /\ pending \subseteq 1..opened
  /\ IsFiniteSet(pending) /\ IsFiniteSet(listing) /\ IsFiniteSet(dialling)
  /\ CounterCountsOperations

LEMMA CountInit == Init => CountShape
BY FS_EmptySet DEF Init, CountShape, CounterCountsOperations

\* One more, or one less, of the operations of a kind.
LEMMA OneMore ==
  ASSUME NEW S, IsFiniteSet(S), NEW x, x \notin S
  PROVE  IsFiniteSet(S \cup {x}) /\ Cardinality(S \cup {x}) = Cardinality(S) + 1
BY FS_AddElement

LEMMA OneLess ==
  ASSUME NEW S, IsFiniteSet(S), NEW x \in S
  PROVE  IsFiniteSet(S \ {x}) /\ Cardinality(S \ {x}) = Cardinality(S) - 1
BY FS_RemoveElement

LEMMA CountStep == CountShape /\ [Next]_vars => CountShape'
<1> SUFFICES ASSUME CountShape, [Next]_vars PROVE CountShape'
  OBVIOUS
<1> USE DEF CountShape, CounterCountsOperations
<1>n. /\ Cardinality(pending) \in Nat /\ Cardinality(listing) \in Nat
      /\ Cardinality(dialling) \in Nat
  BY FS_CardinalityType
<1>1. CASE MmOn
  <2>1. opened + 1 \notin pending
    OBVIOUS
  <2>2. /\ IsFiniteSet(pending \cup {opened + 1})
        /\ Cardinality(pending \cup {opened + 1}) = Cardinality(pending) + 1
    BY <2>1, OneMore
  <2>3. pending' = pending \cup {opened + 1} /\ opened' = opened + 1
    BY <1>1 DEF MmOn
  <2>4. UNCHANGED <<listing, dialling>> /\ asyncCounter' = asyncCounter + 1
    BY <1>1 DEF MmOn
  <2> QED BY <1>n, <2>2, <2>3, <2>4
<1>2. ASSUME NEW g, ManagerReady(g) \/ ManagerFails(g) PROVE CountShape'
  <2>1. /\ g \in pending /\ pending' = pending \ {g}
        /\ asyncCounter' = asyncCounter - 1
        /\ UNCHANGED <<listing, dialling, opened>>
    BY <1>2 DEF ManagerReady, ManagerFails
  <2>2. IsFiniteSet(pending') /\ Cardinality(pending') = Cardinality(pending) - 1
    BY <2>1, OneLess
  <2> QED BY <1>n, <2>1, <2>2
<1>3. ASSUME NEW o, NEW n, CallSignal(o, n) PROVE CountShape'
  <2>1. /\ <<o, n>> \notin listing /\ listing' = listing \cup {<<o, n>>}
        /\ asyncCounter' = asyncCounter + 1
        /\ UNCHANGED <<pending, dialling, opened>>
    BY <1>3 DEF CallSignal
  <2>2. IsFiniteSet(listing') /\ Cardinality(listing') = Cardinality(listing) + 1
    BY <2>1, OneMore
  <2> QED BY <1>n, <2>1, <2>2
<1>4. ASSUME NEW o, NEW n, ListAnswered(o, n) PROVE CountShape'
  <2>1. /\ <<o, n>> \in listing /\ listing' = listing \ {<<o, n>>}
        /\ asyncCounter' = asyncCounter - 1
        /\ UNCHANGED <<pending, dialling, opened>>
    BY <1>4 DEF ListAnswered
  <2>2. IsFiniteSet(listing') /\ Cardinality(listing') = Cardinality(listing) - 1
    BY <2>1, OneLess
  <2> QED BY <1>n, <2>1, <2>2
<1>5. ASSUME NEW o, SipDials(o) PROVE CountShape'
  <2>1. /\ o \notin dialling /\ dialling' = dialling \cup {o}
        /\ asyncCounter' = asyncCounter + 1
        /\ UNCHANGED <<pending, listing, opened>>
    BY <1>5 DEF SipDials
  <2>2. IsFiniteSet(dialling') /\ Cardinality(dialling') = Cardinality(dialling) + 1
    BY <2>1, OneMore
  <2> QED BY <1>n, <2>1, <2>2
<1>6. ASSUME NEW o, DialEnds(o) PROVE CountShape'
  <2>1. /\ o \in dialling /\ dialling' = dialling \ {o}
        /\ asyncCounter' = asyncCounter - 1
        /\ UNCHANGED <<pending, listing, opened>>
    BY <1>6 DEF DialEnds
  <2>2. IsFiniteSet(dialling') /\ Cardinality(dialling') = Cardinality(dialling) - 1
    BY <2>1, OneLess
  <2> QED BY <1>n, <2>1, <2>2
<1>7. CASE UNCHANGED opVars
  BY <1>7 DEF opVars
<1>8. Start \/ MmOff \/ Sigint \/ ExitTimer \/ OwnerAppears \/ OwnerVanishes => UNCHANGED opVars
  BY DEF Start, MmOff, Sigint, ExitTimer, OwnerAppears, OwnerVanishes
<1>9. \A g, m : ObjectAdded(g, m) \/ ObjectRemoved(g, m) => UNCHANGED opVars
  BY DEF ObjectAdded, ObjectRemoved
<1>10. \A m : ModemAppears(m) \/ ModemVanishes(m) => UNCHANGED opVars
  BY DEF ModemAppears, ModemVanishes
<1>11. \A m, s : StateChanged(m, s) => UNCHANGED opVars
  BY DEF StateChanged
<1>12. UNCHANGED vars => UNCHANGED opVars
  BY DEF vars
<1> QED
  BY <1>1, <1>2, <1>3, <1>4, <1>5, <1>6, <1>7, <1>8, <1>9, <1>10, <1>11, <1>12
  DEF Next, Callback, Answer, ManagerAnswers, OperationAnswered, Environment, NewWork, Ended

\* The exit timer ends the program only when nothing is under way, because its
\* counter is the number of operations that are, however they meet and end.
THEOREM CounterCountsOperationsHolds == Spec => []CounterCountsOperations
<1>1. CountShape => CounterCountsOperations
  BY DEF CountShape
<1> QED BY <1>1, CountInit, CountStep, PTL DEF Spec
-----------------------------------------------------------------------------
(* The modems that a manager brings: the fold of av_mm_manager_addmodem    *)

\* A set of numbers has a least one.  Where something fails for a number it
\* fails for a first, which is how the induction below is done.
LEMMA LeastNumber == ASSUME NEW T, T \subseteq Nat, T # {} PROVE \E x \in T : \A y \in T : x <= y
<1>1. PICK x \in T : \A y \in T : ~(<<y, x>> \in OpToRel(<, Nat))
  BY NatLessThanWellFounded, WFMin
<1>2. \A y \in T : ~(y < x)
  BY <1>1, Zenon DEF OpToRel
<1> QED BY <1>2

LEMMA MaxOfNumbers ==
  ASSUME NEW n \in Nat, NEW s \in SUBSET (1..n), s # {}
  PROVE  Max(s) \in s /\ \A y \in s : y <= Max(s)
<1> DEFINE bounds == { x \in Nat : \A y \in s : y <= x }
<1>1. n \in bounds
  OBVIOUS
<1>2. PICK b \in bounds : \A x \in bounds : b <= x
  <2>1. bounds \subseteq Nat /\ bounds # {}
    BY <1>1
  <2> HIDE DEF bounds
  <2> QED BY <2>1, LeastNumber
<1>3. b \in s
  <2> SUFFICES ASSUME b \notin s PROVE FALSE
    OBVIOUS
  <2>1. b # 0
    <3>1. PICK y \in s : TRUE
      OBVIOUS
    <3> QED BY <3>1
  <2>2. b - 1 \in bounds
    BY <2>1
  <2> QED BY <1>2, <2>2
<1>4. \E x \in s : \A y \in s : y <= x
  BY <1>3
<1> QED BY <1>4 DEF Max

\* The recursion of the fold over the first n modems of an order.
Recursion(g, l, order, n) ==
  g = [ s \in SUBSET (1..n) |->
          IF s = {} THEN l ELSE AddModem(g[s \ {Max(s)}], order[Max(s)]) ]

LEMMA RecursionExists ==
  ASSUME NEW l, NEW order, NEW n \in Nat
  PROVE  \E g : Recursion(g, l, order, n)
<1> DEFINE T == { k \in Nat : ~\E g : Recursion(g, l, order, k) }
<1> SUFFICES ASSUME T # {} PROVE FALSE
  OBVIOUS
<1>1. PICK k \in T : \A j \in T : k <= j
  <2> HIDE DEF T
  <2>1. T \subseteq Nat
    BY DEF T
  <2> QED BY <2>1, LeastNumber
<1>2. k # 0
  <2> SUFFICES ASSUME k = 0 PROVE FALSE
    OBVIOUS
  <2> DEFINE f == [ s \in SUBSET (1..0) |-> l ]
  <2>1. \A s \in SUBSET (1..0) : s = {}
    OBVIOUS
  <2>2. Recursion(f, l, order, 0)
    BY <2>1 DEF Recursion
  <2> QED BY <2>2
<1>3. k - 1 \in Nat /\ k - 1 \notin T
  BY <1>1, <1>2
<1>4. PICK g : Recursion(g, l, order, k - 1)
  BY <1>3
<1> DEFINE h == [ s \in SUBSET (1..k) |->
                    IF k \in s THEN AddModem(g[s \ {k}], order[k]) ELSE g[s] ]
<1>5. ASSUME NEW s \in SUBSET (1..k)
      PROVE  h[s] = IF s = {} THEN l ELSE AddModem(h[s \ {Max(s)}], order[Max(s)])
  <2>1. CASE k \in s
    <3>1. Max(s) = k
      <4>1. Max(s) \in 1..k /\ k <= Max(s)
        BY <2>1, MaxOfNumbers
      <4> QED BY <4>1
    <3>2. s \ {k} \in SUBSET (1..k) /\ k \notin s \ {k}
      OBVIOUS
    <3>3. h[s \ {k}] = g[s \ {k}]
      BY <3>2
    <3>4. h[s] = AddModem(g[s \ {k}], order[k])
      BY <2>1
    <3> QED BY <2>1, <3>1, <3>3, <3>4
  <2>2. CASE k \notin s
    <3>1. s \in SUBSET (1..(k - 1))
      BY <2>2
    <3>2. g[s] = IF s = {} THEN l ELSE AddModem(g[s \ {Max(s)}], order[Max(s)])
      BY <1>4, <3>1 DEF Recursion
    <3>3. h[s] = g[s] /\ h[s \ {Max(s)}] = g[s \ {Max(s)}]
      BY <2>2
    <3> QED BY <3>2, <3>3
  <2> QED BY <2>1, <2>2
<1>6. Recursion(h, l, order, k)
  <2>1. h = [ s \in SUBSET (1..k) |-> h[s] ]
    OBVIOUS
  <2> HIDE DEF h
  <2>2. h = [ s \in SUBSET (1..k) |->
                IF s = {} THEN l ELSE AddModem(h[s \ {Max(s)}], order[Max(s)]) ]
    BY <1>5, <2>1
  <2> QED BY <2>2 DEF Recursion
<1> QED BY <1>6

LEMMA FoldIsRecursion ==
  ASSUME NEW l, NEW n \in Nat, NEW order, DOMAIN order = 1..n
  PROVE  \E g : Recursion(g, l, order, n) /\ FoldLeft(AddModem, l, order) = g[1..n]
<1> DEFINE f == CHOOSE g : g = [ s \in SUBSET (DOMAIN order) |->
                  IF s = {} THEN l ELSE AddModem(g[s \ {Max(s)}], order[Max(s)]) ]
<1>1. FoldLeft(AddModem, l, order) = f[DOMAIN order]
  BY DEF FoldLeft, MapThenFoldSet
<1>2. f = CHOOSE g : Recursion(g, l, order, n)
  BY Zenon DEF Recursion
<1>3. Recursion(f, l, order, n)
  BY <1>2, RecursionExists, Zenon
<1> HIDE DEF f
<1> QED BY <1>1, <1>3

LEMMA AddModemOnce ==
  ASSUME NEW l \in Seq(Objects), NEW o \in Objects
  PROVE  AddModem(l, o) = IF l = <<>> THEN <<o>> ELSE l
<1>1. \A p \in Objects : p # NoObject
  BY BoundsAssumption DEF Objects, Managers, NoObject
<1>2. CASE l = <<>>
  BY <1>2 DEF AddModem, Find, Range
<1>3. CASE l # <<>>
  <2>1. Last(l) \in Objects
    BY <1>3 DEF Last
  <2> QED BY <1>1, <1>3, <2>1 DEF AddModem, Find
<1> QED BY <1>2, <1>3

LEMMA AddedModems ==
  ASSUME NEW l \in Seq(Objects), NEW n \in Nat, NEW order,
         DOMAIN order = 1..n, \A i \in 1..n : order[i] \in Objects
  PROVE  LET r == FoldLeft(AddModem, l, order)
         IN r = l \/ (l = <<>> /\ \E i \in 1..n : r = <<order[i]>>)
<1>1. PICK g : Recursion(g, l, order, n) /\ FoldLeft(AddModem, l, order) = g[1..n]
  BY FoldIsRecursion
<1> DEFINE R(k) == g[1..k] = l \/ (l = <<>> /\ \E i \in 1..k : g[1..k] = <<order[i]>>)
           T == { k \in 0..n : ~R(k) }
<1> SUFFICES ASSUME T # {} PROVE FALSE
  <2>1. n \in 0..n
    OBVIOUS
  <2>2. R(n)
    BY <2>1
  <2> QED BY <1>1, <2>2
<1>2. PICK k \in T : \A j \in T : k <= j
  <2> HIDE DEF T
  <2>1. T \subseteq Nat
    BY DEF T
  <2> QED BY <2>1, LeastNumber
<1>3. \A s \in SUBSET (1..n) :
        g[s] = IF s = {} THEN l ELSE AddModem(g[s \ {Max(s)}], order[Max(s)])
  BY <1>1 DEF Recursion
<1>4. k # 0
  <2>1. 1..0 = {} /\ 1..0 \in SUBSET (1..n)
    OBVIOUS
  <2>2. g[1..0] = l
    BY <1>3, <2>1
  <2> QED BY <2>2
<1>5. g[1..k] = AddModem(g[1..(k - 1)], order[k])
  <2>1. 1..k \in SUBSET (1..n) /\ 1..k # {} /\ k \in 1..k /\ k \in Nat
    BY <1>4
  <2>2. Max(1..k) \in 1..k /\ k <= Max(1..k)
    BY <2>1, MaxOfNumbers
  <2>3. Max(1..k) = k
    BY <2>1, <2>2
  <2>4. (1..k) \ {k} = 1..(k - 1)
    BY <2>1
  <2> QED BY <1>3, <2>1, <2>3, <2>4
<1>6. R(k - 1)
  <2>1. k - 1 \in 0..n /\ k - 1 \notin T
    BY <1>2, <1>4
  <2> QED BY <2>1
<1>7. k \in 1..n /\ order[k] \in Objects
  BY <1>4
<1>8. CASE g[1..(k - 1)] = l
  <2>1. g[1..k] = IF l = <<>> THEN <<order[k]>> ELSE l
    BY <1>5, <1>7, <1>8, AddModemOnce
  <2> QED BY <1>7, <2>1
<1>9. ASSUME l = <<>>, NEW i \in 1..(k - 1), g[1..(k - 1)] = <<order[i]>> PROVE FALSE
  <2>1. i \in 1..k /\ order[i] \in Objects
    BY <1>7
  <2>2. <<order[i]>> \in Seq(Objects) /\ <<order[i]>> # <<>>
    BY <2>1
  <2>3. g[1..k] = <<order[i]>>
    BY <1>5, <1>7, <1>9, <2>2, AddModemOnce
  <2> QED BY <1>9, <2>1, <2>3
<1> QED BY <1>6, <1>8, <1>9

\* The same of an order of finitely many objects, and of what becomes of them.
LEMMA ModemsAdded ==
  ASSUME avModems \in Seq(Objects), NEW S, S \subseteq Objects, IsFiniteSet(S),
         NEW order \in SetToSeqs(S), AddModems(order)
  PROVE  /\ avModems' \in Seq(Objects)
         /\ Len(avModems) <= 1 => Len(avModems') <= 1
         /\ Range(avModems) \subseteq Range(avModems')
         /\ Range(avModems') \subseteq Range(avModems) \cup S
         /\ attached \subseteq attached'
         /\ attached' \subseteq attached \cup (Range(avModems') \cap S)
         /\ voice \subseteq voice'
         /\ \A o \in voice' \ voice : o \in attached' \cap S /\ InitsVoice(o.modem)
         /\ untold' = untold
<1> DEFINE new == Range(avModems') \ Range(avModems)
<1>1. Cardinality(S) \in Nat
  BY FS_CardinalityType
<1>2. PICK n \in Nat : DOMAIN order = 1..n /\ \A i \in 1..n : order[i] \in S
  BY <1>1 DEF SetToSeqs
<1>3. \/ avModems' = avModems
      \/ avModems = <<>> /\ \E i \in 1..n : avModems' = <<order[i]>>
  BY <1>2, AddedModems DEF AddModems
<1>4. /\ avModems' \in Seq(Objects)
      /\ Len(avModems) <= 1 => Len(avModems') <= 1
      /\ Range(avModems) \subseteq Range(avModems')
      /\ Range(avModems') \subseteq Range(avModems) \cup S
  <2>1. CASE avModems' = avModems
    BY <2>1
  <2>2. ASSUME avModems = <<>>, NEW i \in 1..n, avModems' = <<order[i]>>
        PROVE  /\ avModems' \in Seq(Objects) /\ Len(avModems') = 1
               /\ Range(avModems) = {} /\ Range(avModems') \subseteq S
    <3>1. order[i] \in Objects
      BY <1>2
    <3> QED BY <1>2, <2>2, <3>1 DEF Range
  <2>3. CASE avModems = <<>> /\ \E i \in 1..n : avModems' = <<order[i]>>
    BY <2>2, <2>3
  <2> QED BY <1>3, <2>1, <2>3
<1>5. PICK reg \in SUBSET new :
        /\ attached' = attached \cup reg
        /\ \E up \in SUBSET { o \in reg : InitsVoice(o.modem) } : voice' = voice \cup up
  BY DEF AddModems, Succeeding
<1>6. new \subseteq Range(avModems') \cap S
  BY <1>4
<1>7. untold' = untold
  BY DEF AddModems
<1> QED BY <1>4, <1>5, <1>6, <1>7

\* Those of a manager that ModemManager has now, and the one that it adds.
LEMMA OrderOfPresent ==
  ASSUME NEW g \in Managers, present \subseteq Modems, IsFiniteSet(present)
  PROVE  /\ { Object(g, m) : m \in present } \subseteq Objects
         /\ IsFiniteSet({ Object(g, m) : m \in present })
<1> DEFINE S == { Object(g, m) : m \in present }
           f == [ m \in present |-> Object(g, m) ]
<1>1. f \in Surjection(present, S)
  BY DEF Surjection
<1>2. IsFiniteSet(S)
  BY <1>1, FS_Surjection
<1> QED BY <1>2 DEF Object, Objects

LEMMA OrderOfOne ==
  ASSUME NEW o
  PROVE  IsFiniteSet({o}) /\ <<o>> \in SetToSeqs({o})
<1>1. IsFiniteSet({o}) /\ Cardinality({o}) = 1
  BY FS_Singleton
<1> QED BY <1>1 DEF SetToSeqs

\* What is found in a list of at most one, and the list without it.
LEMMA ModemRemoved ==
  ASSUME NEW l \in Seq(Objects), Len(l) <= 1, NEW o, Find(l, o) # NoObject
  PROVE  l = <<Find(l, o)>> /\ RemoveFirst(l, Find(l, o)) = <<>>
<1>1. CASE l = <<>>
  BY <1>1 DEF Find, Range
<1>2. CASE l # <<>>
  <2>1. Len(l) = 1 /\ l = <<l[1]>>
    BY <1>2
  <2>2. Range(l) = {l[1]} /\ Last(l) = l[1]
    BY <2>1 DEF Range, Last
  <2>3. Find(l, o) = l[1]
    BY <1>2, <2>2 DEF Find
  <2> DEFINE x == l[1]
  <2>4. SelectInSeq(<<x>>, LAMBDA v : v = x) = 1
    <3>1. { i \in 1..Len(<<x>>) : <<x>>[i] = x } = {1}
      OBVIOUS
    <3>2. Min({1}) = 1
      BY DEF Min
    <3> QED BY <3>1, <3>2 DEF SelectInSeq
  <2>5. RemoveAt(<<x>>, 1) = <<>>
    BY DEF RemoveAt
  <2>6. RemoveFirst(<<x>>, x) = <<>>
    BY <2>4, <2>5 DEF RemoveFirst
  <2> QED BY <2>1, <2>3, <2>6
<1> QED BY <1>1, <1>2
-----------------------------------------------------------------------------
(* Types, and the list of at most one modem                                *)

ListShape ==
  /\ TypeOK
  /\ IsFiniteSet(present)
  /\ Len(avModems) <= 1
  /\ owner /\ notified # "on" => opened < MaxManagers

LEMMA ListInit == Init => ListShape
<1> SUFFICES ASSUME Init PROVE ListShape
  OBVIOUS
<1>1. <<>> \in Seq(Objects) /\ Len(<<>>) = 0
  OBVIOUS
<1>2. known \in [Managers -> SUBSET Modems]
  BY DEF Init
<1>3. opened = 0 /\ 0 \in 0..MaxManagers
  BY BoundsAssumption DEF Init
<1>4. IsFiniteSet(present)
  BY FS_EmptySet DEF Init
<1>5. state \in [Modems -> DOMAIN Rank]
  BY DEF Init, Rank
<1>6. TypeOK
  BY <1>1, <1>2, <1>3, <1>5 DEF Init, TypeOK, NoManager
<1> QED BY <1>1, <1>4, <1>6 DEF Init, ListShape

\* What is left running, when a service stops, is the thread of an AvModem.
LEMMA DeinitType ==
  ASSUME NEW D, Deinit(D), voice \subseteq Objects, untold \subseteq Objects
  PROVE  voice' \subseteq voice /\ untold' \subseteq Objects
BY DEF Deinit, Succeeding

LEMMA ListStep == ListShape /\ asyncCounter' \in Nat /\ [Next]_vars => ListShape'
<1> SUFFICES ASSUME ListShape, asyncCounter' \in Nat, [Next]_vars PROVE ListShape'
  OBVIOUS
<1> USE DEF ListShape, TypeOK
<1>b. MaxManagers \in Nat /\ Managers = 1..MaxManagers
  BY BoundsAssumption DEF Managers
<1>1. CASE Start
  BY <1>1 DEF Start, modemVars, mgrVars, opVars, mmVars
<1>2. CASE Sigint \/ MmOff
  <2>1. /\ avModems' = <<>> /\ manager' = NoManager
        /\ attached' \subseteq attached /\ voice' \subseteq voice
        /\ untold' \subseteq Objects
        /\ connected' \subseteq connected
    BY <1>2, DeinitType DEF Sigint, MmOff, Release, Dispose
  <2>2. /\ <<>> \in Seq(Objects) /\ Len(<<>>) <= 1
    OBVIOUS
  <2>3. UNCHANGED <<loop, opVars, known, mmVars>>
    BY <1>2 DEF Sigint, MmOff, progVars
  <2>4. /\ {watching', exiting', sigint'} \subseteq BOOLEAN
        /\ notified' \in {"none", "on", "off"}
        /\ notified' # "on" /\ owner => notified # "on"
    BY <1>2 DEF Sigint, MmOff, progVars
  <2> QED BY <2>1, <2>2, <2>3, <2>4 DEF opVars, mmVars
<1>3. CASE ExitTimer
  BY <1>3 DEF ExitTimer, modemVars, mgrVars, opVars, mmVars
<1>4. CASE MmOn
  BY <1>4, <1>b DEF MmOn, progVars, modemVars, mgrVars, mmVars
<1>5. ASSUME NEW g \in Managers, ManagerReady(g) PROVE ListShape'
  <2> DEFINE S == { Object(g, m) : m \in present }
  <2>1. PICK order \in SetToSeqs(S) : AddModems(order)
    BY <1>5 DEF ManagerReady
  <2>2. S \subseteq Objects /\ IsFiniteSet(S)
    BY OrderOfPresent
  <2> HIDE DEF S
  <2>3. /\ avModems' \in Seq(Objects) /\ Len(avModems') <= 1
        /\ attached' \subseteq Objects
        /\ \A o \in voice' \ voice : o \in S
        /\ untold' = untold
    BY <2>1, <2>2, ModemsAdded
  <2>4. voice' \subseteq Objects
    BY <2>2, <2>3
  <2>5. /\ manager' = g /\ g \in 1..opened
        /\ pending' \subseteq pending /\ connected' \subseteq 1..opened
        /\ known' = [known EXCEPT ![g] = present]
        /\ UNCHANGED <<progVars, watching, listing, dialling, opened, notified, mmVars>>
    BY <1>5 DEF ManagerReady
  <2>6. known' \in [Managers -> SUBSET Modems]
    BY <2>5
  <2> QED BY <2>3, <2>4, <2>5, <2>6 DEF progVars, mmVars
<1>6. ASSUME NEW g \in Managers, ManagerFails(g) PROVE ListShape'
  BY <1>6 DEF ManagerFails, progVars, modemVars, mmVars
<1>7. ASSUME NEW g \in Managers, NEW m \in Modems, ObjectAdded(g, m) PROVE ListShape'
  <2> DEFINE S == {Object(g, m)}
  <2>1. <<Object(g, m)>> \in SetToSeqs(S) /\ IsFiniteSet(S) /\ AddModems(<<Object(g, m)>>)
    BY <1>7, OrderOfOne DEF ObjectAdded
  <2>2. S \subseteq Objects
    BY DEF Object, Objects
  <2> HIDE DEF S
  <2>3. /\ avModems' \in Seq(Objects) /\ Len(avModems') <= 1
        /\ attached' \subseteq Objects
        /\ \A o \in voice' \ voice : o \in S
        /\ untold' = untold
    BY <2>1, <2>2, ModemsAdded
  <2>4. voice' \subseteq Objects
    BY <2>2, <2>3
  <2>5. /\ known' = [known EXCEPT ![g] = @ \cup {m}]
        /\ UNCHANGED <<progVars, watching, mgrVars, opVars, notified, mmVars>>
    BY <1>7 DEF ObjectAdded
  <2>6. known' \in [Managers -> SUBSET Modems]
    BY <2>5
  <2> QED BY <2>3, <2>4, <2>5, <2>6 DEF progVars, mgrVars, opVars, mmVars
<1>8. ASSUME NEW g \in Managers, NEW m \in Modems, ObjectRemoved(g, m) PROVE ListShape'
  <2>1. /\ known' = [known EXCEPT ![g] = @ \ {m}]
        /\ UNCHANGED <<progVars, watching, mgrVars, opVars, notified, mmVars>>
    BY <1>8 DEF ObjectRemoved
  <2>2. known' \in [Managers -> SUBSET Modems]
    BY <2>1
  <2> DEFINE o == Find(avModems, Object(g, m))
  <2>3. CASE UNCHANGED modemVars
    BY <2>1, <2>2, <2>3 DEF modemVars, progVars, mgrVars, opVars, mmVars
  <2>4. CASE /\ o # NoObject /\ avModems' = RemoveFirst(avModems, o)
             /\ Dispose(IF Pinned(o) THEN {} ELSE {o})
    <3>1. avModems' = <<>>
      BY <2>4, ModemRemoved
    <3>2. attached' \subseteq attached /\ voice' \subseteq voice /\ untold' \subseteq Objects
      BY <2>4, DeinitType DEF Dispose
    <3>3. <<>> \in Seq(Objects) /\ Len(<<>>) <= 1
      OBVIOUS
    <3> QED BY <2>1, <2>2, <3>1, <3>2, <3>3 DEF progVars, mgrVars, opVars, mmVars
  <2> QED BY <1>8, <2>3, <2>4 DEF ObjectRemoved
<1>9. ASSUME NEW m \in Modems, NEW s \in States, StateChanged(m, s) PROVE ListShape'
  <2> DEFINE ours == { o \in attached : o.modem = m /\ m \in known[o.manager] }
  <2>1. voice' \subseteq voice \cup ours /\ untold' \subseteq Objects
    BY <1>9, DeinitType DEF StateChanged, Succeeding
  <2>2. /\ state' \in [Modems -> DOMAIN Rank]
        /\ UNCHANGED <<progVars, watching, avModems, attached, mgrVars, opVars, known,
                       notified, owner, present, gone>>
    BY <1>9, StatesAssumption DEF StateChanged
  <2> QED BY <2>1, <2>2 DEF progVars, mgrVars, opVars
<1>10. ASSUME NEW o \in Objects, NEW n \in 1..MaxListings, CallSignal(o, n) \/ ListAnswered(o, n)
       PROVE  ListShape'
  <2>1. /\ listing' \subseteq Objects \X (1..MaxListings)
        /\ attached' \subseteq attached /\ voice' \subseteq voice
        /\ untold' \subseteq Objects
    BY <1>10, DeinitType DEF CallSignal, ListAnswered, Dispose, modemVars
  <2>2. UNCHANGED <<progVars, watching, avModems, mgrVars, dialling, opened, pending,
                    known, notified, mmVars>>
    BY <1>10 DEF CallSignal, ListAnswered, modemVars
  <2> QED BY <2>1, <2>2 DEF progVars, mgrVars, mmVars
<1>11. ASSUME NEW o \in Objects, SipDials(o) \/ DialEnds(o) PROVE ListShape'
  <2>1. /\ dialling' \subseteq Objects
        /\ UNCHANGED <<progVars, watching, modemVars, mgrVars, listing, opened, pending,
                       known, notified, mmVars>>
    BY <1>11 DEF SipDials, DialEnds
  <2> QED BY <2>1 DEF progVars, modemVars, mgrVars, mmVars
<1>12. CASE OwnerAppears
  BY <1>12 DEF OwnerAppears, progVars, modemVars, mgrVars, opVars
<1>13. CASE OwnerVanishes
  <2>1. IsFiniteSet({})
    BY FS_EmptySet
  <2>2. state' \in [Modems -> DOMAIN Rank]
    BY <1>13 DEF OwnerVanishes, Rank
  <2> QED BY <1>13, <2>1, <2>2 DEF OwnerVanishes, progVars, modemVars, mgrVars, opVars
<1>14. ASSUME NEW m \in Modems, ModemAppears(m) \/ ModemVanishes(m) PROVE ListShape'
  <2>1. IsFiniteSet(present')
    BY <1>14, FS_AddElement, FS_RemoveElement DEF ModemAppears, ModemVanishes
  <2>2. /\ present' \subseteq Modems /\ gone' \subseteq Modems
        /\ state' \in [Modems -> DOMAIN Rank]
        /\ UNCHANGED <<progVars, watching, modemVars, mgrVars, opVars, known, notified, owner>>
    BY <1>14, StatesAssumption DEF ModemAppears, ModemVanishes, Rank
  <2> QED BY <2>1, <2>2 DEF progVars, modemVars, mgrVars, opVars
<1>15. CASE UNCHANGED vars
  BY <1>15 DEF vars, progVars, modemVars, mgrVars, opVars, mmVars
<1> QED
  BY <1>1, <1>2, <1>3, <1>4, <1>5, <1>6, <1>7, <1>8, <1>9, <1>10, <1>11, <1>12, <1>13,
     <1>14, <1>15
  DEF Next, Callback, Answer, ManagerAnswers, OperationAnswered, Environment, NewWork, Ended

LEMMA CountInvariant == Spec => []CountShape
BY CountInit, CountStep, PTL DEF Spec

LEMMA ListInvariant == Spec => []ListShape
<1>1. CountShape /\ CountShape' /\ ListShape /\ [Next]_vars => ListShape'
  <2>1. CountShape' => asyncCounter' \in Nat
    BY FS_CardinalityType DEF CountShape, CounterCountsOperations
  <2> QED BY <2>1, ListStep
<1> QED BY <1>1, ListInit, CountInvariant, PTL DEF Spec

\* Every variable keeps its type: no more managers are asked for than ModemManager
\* has appeared for, and the list is one of AvModems.
THEOREM TypeOKHolds == Spec => []TypeOK
<1>1. ListShape => TypeOK
  BY DEF ListShape
<1> QED BY <1>1, ListInvariant, PTL

\* av_storage_find_mmobject returns the last element when nothing matches, so that
\* no modem is ever added to a list that has one: however many modems there are,
\* one at a time is served.
THEOREM OneModemListed == Spec => [](Len(avModems) <= 1)
<1>1. ListShape => Len(avModems) <= 1
  BY DEF ListShape
<1> QED BY <1>1, ListInvariant, PTL

-----------------------------------------------------------------------------
(* Disposal of the AvModems                                                *)

\* Where a service is up or a handler is connected, the AvModem is referenced.
InUseIsAlive == \A o \in voice \cup attached : Alive(o)

\* A modem stays alive where neither the list nor the answers awaited shrink.
LEMMA StaysAlive ==
  ASSUME Range(avModems) \subseteq Range(avModems'), listing \subseteq listing',
         NEW o, Alive(o)
  PROVE  Alive(o)'
BY DEF Alive, Pinned

LEMMA DownStep == ListShape /\ InUseIsAlive /\ [Next]_vars => InUseIsAlive'
<1> SUFFICES ASSUME ListShape, InUseIsAlive, [Next]_vars PROVE InUseIsAlive'
  OBVIOUS
<1>t. avModems \in Seq(Objects) /\ Len(avModems) <= 1
  BY DEF ListShape, TypeOK
<1>d. \A o \in voice \cup attached : Alive(o)
  BY DEF InUseIsAlive
\* The list and the answers awaited do not shrink, and what comes up is listed.
<1>k. ASSUME Range(avModems) \subseteq Range(avModems'), listing \subseteq listing',
             \A o \in (voice' \cup attached') \ (voice \cup attached) : o \in Range(avModems')
      PROVE  InUseIsAlive'
  <2>1. ASSUME NEW o \in (voice' \cup attached') PROVE Alive(o)'
    <3>1. CASE o \in voice \cup attached
      BY <1>d, <1>k, <3>1, StaysAlive
    <3>2. CASE o \in Range(avModems')
      BY <3>2 DEF Alive
    <3> QED BY <1>k, <2>1, <3>1, <3>2
  <2> QED BY <2>1 DEF InUseIsAlive
\* What is taken off the list is disposed of, if no answer holds it.
<1>r. ASSUME NEW D, avModems' = <<>>, listing' = listing, Dispose(D),
             \A o \in Range(avModems) : o \in D \/ Pinned(o)
      PROVE  InUseIsAlive'
  <2>1. ASSUME NEW o \in voice' \cup attached' PROVE Alive(o)'
    <3>1. o \in voice \cup attached /\ o \notin D
      BY <1>r, <2>1 DEF Dispose, Deinit
    <3>2. Pinned(o)
      BY <1>d, <1>r, <3>1 DEF Alive
    <3> QED BY <1>r, <3>2 DEF Alive, Pinned
  <2> QED BY <2>1 DEF InUseIsAlive
<1>1. CASE Sigint \/ MmOff
  <2>1. /\ avModems' = <<>> /\ listing' = listing
        /\ Dispose({ o \in Range(avModems) : ~Pinned(o) })
    BY <1>1 DEF Sigint, MmOff, Release, opVars
  <2> QED BY <1>r, <2>1
<1>2. ASSUME NEW g \in Managers, ManagerReady(g) PROVE InUseIsAlive'
  <2> DEFINE S == { Object(g, m) : m \in present }
  <2>1. PICK order \in SetToSeqs(S) : AddModems(order)
    BY <1>2 DEF ManagerReady
  <2>2. S \subseteq Objects /\ IsFiniteSet(S)
    BY OrderOfPresent DEF ListShape, TypeOK
  <2> HIDE DEF S
  <2>3. listing' = listing
    BY <1>2 DEF ManagerReady
  <2> QED BY <1>t, <1>k, <2>1, <2>2, <2>3, ModemsAdded
<1>3. ASSUME NEW g \in Managers, NEW m \in Modems, ObjectAdded(g, m)
      PROVE  InUseIsAlive'
  <2> DEFINE S == {Object(g, m)}
  <2>1. <<Object(g, m)>> \in SetToSeqs(S) /\ IsFiniteSet(S) /\ AddModems(<<Object(g, m)>>)
    BY <1>3, OrderOfOne DEF ObjectAdded
  <2>2. S \subseteq Objects
    BY DEF Object, Objects
  <2> HIDE DEF S
  <2>3. listing' = listing
    BY <1>3 DEF ObjectAdded, opVars
  <2> QED BY <1>t, <1>k, <2>1, <2>2, <2>3, ModemsAdded
<1>4. ASSUME NEW g \in Managers, NEW m \in Modems, ObjectRemoved(g, m)
      PROVE  InUseIsAlive'
  <2> DEFINE o == Find(avModems, Object(g, m))
  <2>1. listing' = listing
    BY <1>4 DEF ObjectRemoved, opVars
  <2>2. CASE UNCHANGED modemVars
    BY <1>k, <2>1, <2>2 DEF modemVars
  <2>3. CASE /\ o # NoObject /\ avModems' = RemoveFirst(avModems, o)
             /\ Dispose(IF Pinned(o) THEN {} ELSE {o})
    <3>1. avModems = <<o>> /\ avModems' = <<>>
      BY <1>t, <2>3, ModemRemoved
    <3> HIDE DEF o
    <3>2. Range(avModems) = {o}
      BY <3>1 DEF Range
    <3> QED BY <1>r, <2>1, <2>3, <3>1, <3>2
  <2> QED BY <1>4, <2>2, <2>3 DEF ObjectRemoved
<1>5. ASSUME NEW m, NEW s, StateChanged(m, s) PROVE InUseIsAlive'
  <2>1. voice' \subseteq voice \cup attached
    BY <1>5 DEF StateChanged, Succeeding, Deinit
  <2>2. UNCHANGED <<avModems, attached, listing>>
    BY <1>5 DEF StateChanged, opVars
  <2> QED BY <1>k, <2>1, <2>2
<1>6. ASSUME NEW o, NEW n \in 1..MaxListings, ListAnswered(o, n) PROVE InUseIsAlive'
  <2>1. /\ listing' = listing \ {<<o, n>>} /\ avModems' = avModems
        /\ Dispose(IF o \in Range(avModems) \/ Pinned(o)' THEN {} ELSE {o})
    BY <1>6 DEF ListAnswered
  <2>2. ASSUME NEW p \in voice' \cup attached' PROVE Alive(p)'
    <3>1. p \in voice \cup attached
      BY <2>1, <2>2 DEF Dispose, Deinit
    <3>2. CASE p = o
      <4>1. o \in Range(avModems) \/ Pinned(o)'
        BY <2>1, <2>2, <3>2 DEF Dispose, Deinit
      <4> QED BY <2>1, <3>2, <4>1 DEF Alive
    <3>3. CASE p # o
      BY <1>d, <2>1, <3>1, <3>3 DEF Alive, Pinned
    <3> QED BY <3>2, <3>3
  <2> QED BY <2>2 DEF InUseIsAlive
<1>7. CASE UNCHANGED modemVars /\ listing \subseteq listing'
  BY <1>k, <1>7 DEF modemVars
<1>8. Start \/ ExitTimer \/ MmOn \/ OwnerAppears \/ OwnerVanishes \/ UNCHANGED vars
        => UNCHANGED modemVars /\ listing \subseteq listing'
  BY DEF Start, ExitTimer, MmOn, OwnerAppears, OwnerVanishes, opVars, vars
<1>9. \A g, o, n, m : ManagerFails(g) \/ CallSignal(o, n) \/ SipDials(o) \/ DialEnds(o)
                        \/ ModemAppears(m) \/ ModemVanishes(m)
        => UNCHANGED modemVars /\ listing \subseteq listing'
  BY DEF ManagerFails, CallSignal, SipDials, DialEnds, ModemAppears, ModemVanishes, opVars
<1> QED
  BY <1>1, <1>2, <1>3, <1>4, <1>5, <1>6, <1>7, <1>8, <1>9
  DEF Next, Callback, Answer, ManagerAnswers, OperationAnswered, Environment, NewWork, Ended

LEMMA DownInvariant == Spec => []InUseIsAlive
<1>1. Init => InUseIsAlive
  BY DEF Init, InUseIsAlive
<1> QED BY <1>1, DownStep, ListInvariant, PTL DEF Spec

\* The SIP threads of two AvModems run at once only if one is off the list and held
\* by an answer, or had no memory to tell its thread: av_storage_find_mmobject lets
\* no second AvModem onto the list, and whichever way one goes, be it by a removal,
\* a disappearance of ModemManager, an interrupt or an answer, its service stops.
THEOREM OverlapOnlyWhilePinnedHolds == Spec => []OverlapOnlyWhilePinned
<1>1. ListShape /\ InUseIsAlive => OverlapOnlyWhilePinned
  <2> SUFFICES ASSUME ListShape, InUseIsAlive,
                      NEW a \in voice \ untold, NEW b \in voice \ untold, a # b
               PROVE  \E o \in {a, b} : o \notin Range(avModems) /\ Pinned(o)
    BY DEF OverlapOnlyWhilePinned
  <2>1. CASE {a, b} \subseteq Range(avModems)
    <3>1. PICK i \in DOMAIN avModems, j \in DOMAIN avModems :
            a = avModems[i] /\ b = avModems[j]
      BY <2>1 DEF Range
    <3>2. i = j
      BY <3>1 DEF ListShape, TypeOK
    <3> QED BY <3>1, <3>2
  <2>2. ASSUME NEW o \in {a, b}, o \notin Range(avModems)
        PROVE  Pinned(o)
    BY <2>2 DEF InUseIsAlive, Alive
  <2> QED BY <2>1, <2>2
<1> QED BY <1>1, ListInvariant, DownInvariant, PTL
-----------------------------------------------------------------------------
(* The voice service and the registration                                  *)

\* A service runs for a modem whose state is followed, and an MMObject is made
\* once for each modem by each manager: what a manager does not know any more has
\* gone, and does not come back.
ObjectShape ==
  /\ voice \subseteq attached
  /\ \A o \in attached : o.modem \in known[o.manager] \cup gone
  /\ \A g \in Managers : known[g] \subseteq present \cup gone
  /\ present \cap gone = {}
  /\ VoiceOnlyWhileRegistered

LEMMA ObjectInit == Init => ObjectShape
BY DEF Init, ObjectShape, VoiceOnlyWhileRegistered

LEMMA ObjectParts ==
  ASSUME NEW o \in Objects
  PROVE  o.manager \in Managers /\ o.modem \in Modems /\ o = Object(o.manager, o.modem)
BY DEF Objects, Object

LEMMA ObjectStep == ListShape /\ ObjectShape /\ [Next]_vars => ObjectShape'
<1> SUFFICES ASSUME ListShape, ObjectShape, [Next]_vars PROVE ObjectShape'
  OBVIOUS
<1>t. /\ avModems \in Seq(Objects) /\ Len(avModems) <= 1
      /\ attached \subseteq Objects /\ voice \subseteq Objects
      /\ known \in [Managers -> SUBSET Modems]
      /\ present \subseteq Modems /\ state \in [Modems -> DOMAIN Rank]
  BY DEF ListShape, TypeOK
<1> USE DEF ObjectShape, VoiceOnlyWhileRegistered
\* Handlers and services may go.
<1>k. ASSUME attached' \subseteq attached, voice' \subseteq voice, voice' \subseteq attached',
             UNCHANGED <<known, present, gone, state>>
      PROVE  ObjectShape'
  BY <1>k
\* The manager g has MMObjects for K now, and AvModems are added for some of them.
<1>a. ASSUME NEW g \in Managers, NEW K, NEW S,
             known' = [known EXCEPT ![g] = K],
             K \subseteq present \cup gone, known[g] \subseteq K \cup gone,
             \A o \in S : o.manager = g /\ o.modem \in K,
             attached \subseteq attached', attached' \subseteq attached \cup S,
             \A o \in voice' \ voice : o \in attached' /\ InitsVoice(o.modem),
             UNCHANGED <<present, gone, state>>
      PROVE  ObjectShape'
  <2>1. \A o \in attached : o.manager \in Managers
    BY <1>t, ObjectParts
  <2>2. \A h \in Managers : known'[h] = IF h = g THEN K ELSE known[h]
    BY <1>a, <1>t
  <2>3. voice' \subseteq attached'
    BY <1>a
  <2>4. \A h \in Managers : known'[h] \subseteq present \cup gone
    BY <1>a, <2>2
  <2>5. ASSUME NEW o \in attached' PROVE o.modem \in known'[o.manager] \cup gone
    <3>1. CASE o \in attached
      BY <1>a, <2>1, <2>2, <3>1
    <3>2. CASE o \in S
      BY <1>a, <2>2, <3>2
    <3> QED BY <1>a, <2>5, <3>1, <3>2
  <2>6. ASSUME NEW o \in voice', o.modem \in present \cap known'[o.manager]
        PROVE  ~Rank[state[o.modem]] < Rank["registered"]
    <3>1. CASE o \in voice
      <4>1. o.modem \in known[o.manager]
        BY <2>6, <3>1
      <4> QED BY <2>6, <3>1, <4>1
    <3>2. CASE InitsVoice(o.modem)
      BY <3>2 DEF InitsVoice, Rank
    <3> QED BY <1>a, <2>6, <3>1, <3>2
  <2> QED BY <1>a, <2>3, <2>4, <2>5, <2>6
<1>1. CASE Sigint \/ MmOff
  BY <1>k, <1>1 DEF Sigint, MmOff, Release, Dispose, Deinit, mmVars
<1>2. ASSUME NEW g \in Managers, ManagerReady(g) PROVE ObjectShape'
  <2> DEFINE S == { Object(g, m) : m \in present }
  <2>1. PICK order \in SetToSeqs(S) : AddModems(order)
    BY <1>2 DEF ManagerReady
  <2>2. S \subseteq Objects /\ IsFiniteSet(S)
    BY OrderOfPresent DEF ListShape, TypeOK
  <2>3. \A o \in S : o.manager = g /\ o.modem \in present
    BY DEF Object
  <2> HIDE DEF S
  <2>4. /\ known' = [known EXCEPT ![g] = present]
        /\ UNCHANGED <<present, gone, state>>
    BY <1>2 DEF ManagerReady, mmVars
  <2>5. /\ attached \subseteq attached' /\ attached' \subseteq attached \cup S
        /\ \A o \in voice' \ voice : o \in attached' /\ InitsVoice(o.modem)
    BY <1>t, <2>1, <2>2, ModemsAdded
  <2> QED BY <1>a, <2>3, <2>4, <2>5
<1>3. ASSUME NEW g \in Managers, NEW m \in Modems, ObjectAdded(g, m) PROVE ObjectShape'
  <2> DEFINE S == {Object(g, m)}
             K == known[g] \cup {m}
  <2>1. <<Object(g, m)>> \in SetToSeqs(S) /\ IsFiniteSet(S) /\ AddModems(<<Object(g, m)>>)
    BY <1>3, OrderOfOne DEF ObjectAdded
  <2>2. S \subseteq Objects /\ \A o \in S : o.manager = g /\ o.modem \in K
    BY DEF Object, Objects
  <2> HIDE DEF S
  <2>3. /\ known' = [known EXCEPT ![g] = K]
        /\ K \subseteq present \cup gone
        /\ UNCHANGED <<present, gone, state>>
    BY <1>3, <1>t DEF ObjectAdded, mmVars
  <2>4. /\ attached \subseteq attached' /\ attached' \subseteq attached \cup S
        /\ \A o \in voice' \ voice : o \in attached' /\ InitsVoice(o.modem)
    BY <1>t, <2>1, <2>2, ModemsAdded
  <2> HIDE DEF K
  <2>5. known[g] \subseteq K \cup gone
    BY DEF K
  <2> QED BY <1>a, <2>2, <2>3, <2>4, <2>5
<1>4. ASSUME NEW g \in Managers, NEW m \in Modems, ObjectRemoved(g, m) PROVE ObjectShape'
  <2> DEFINE K == known[g] \ {m}
  <2>1. /\ known' = [known EXCEPT ![g] = K] /\ m \in known[g] \ present
        /\ UNCHANGED <<present, gone, state>>
    BY <1>4, <1>t DEF ObjectRemoved, mmVars
  <2>2. PICK D : attached' = attached \ D /\ voice' = voice \ D
    <3>1. CASE UNCHANGED modemVars
      <4>1. attached' = attached \ {} /\ voice' = voice \ {}
        BY <3>1 DEF modemVars
      <4> QED BY <4>1
    <3> QED BY <1>4, <3>1 DEF ObjectRemoved, Dispose, Deinit
  <2>3. \A h \in Managers : known'[h] = IF h = g THEN K ELSE known[h]
    BY <1>t, <2>1
  <2>4. known[g] \subseteq K \cup gone
    BY <2>1
  <2>5. \A o \in attached : o.manager \in Managers
    BY <1>t, ObjectParts
  <2>6. \A h \in Managers : known'[h] \subseteq known[h] /\ known[h] \subseteq known'[h] \cup gone
    BY <2>3, <2>4
  <2> QED BY <2>1, <2>2, <2>5, <2>6
<1>5. ASSUME NEW m \in Modems, NEW s \in States, StateChanged(m, s) PROVE ObjectShape'
  <2> DEFINE ours == { o \in attached : o.modem = m /\ m \in known[o.manager] }
  <2>1. /\ state' = [state EXCEPT ![m] = s]
        /\ UNCHANGED <<attached, known, present, gone>>
    BY <1>5 DEF StateChanged
  <2>2. \A o \in attached : o.modem \in Modems
    BY <1>t, ObjectParts
  <2>3. \A n \in Modems : state'[n] = IF n = m THEN s ELSE state[n]
    BY <1>t, <2>1
  <2>4. voice' \subseteq voice \cup ours /\ (Lost(s) => voice' = voice \ ours)
    BY <1>5 DEF StateChanged, Succeeding, Gained, Lost, Rank, Deinit
  <2>5. ~Lost(s) => \A o \in voice' \ voice : s = "registered"
    BY <1>5 DEF StateChanged, Succeeding, Gained
  <2>6. ASSUME NEW o \in voice', o.modem \in present \cap known[o.manager]
        PROVE  ~Rank[state'[o.modem]] < Rank["registered"]
    <3>1. o \in attached
      BY <2>4, <2>6
    <3>2. CASE o.modem # m
      BY <2>2, <2>3, <2>4, <2>6, <3>1, <3>2
    <3>3. CASE o.modem = m
      <4>1. o \in ours
        BY <2>6, <3>1, <3>3
      <4>2. ~Lost(s)
        BY <2>4, <2>6, <4>1
      <4> QED BY <2>2, <2>3, <3>3, <4>2 DEF Lost
    <3> QED BY <3>2, <3>3
  <2> QED BY <2>1, <2>4, <2>6
<1>6. ASSUME NEW o, NEW n, ListAnswered(o, n) PROVE ObjectShape'
  BY <1>k, <1>6 DEF ListAnswered, Dispose, Deinit, mmVars
<1>7. CASE OwnerVanishes
  BY <1>7 DEF OwnerVanishes, modemVars
<1>8. ASSUME NEW m \in Modems, ModemVanishes(m) PROVE ObjectShape'
  BY <1>8, <1>t DEF ModemVanishes, modemVars
<1>9. ASSUME NEW m \in Modems, ModemAppears(m) PROVE ObjectShape'
  <2>1. /\ m \notin present \cup gone /\ present' = present \cup {m}
        /\ UNCHANGED <<attached, voice, known, gone>>
        /\ \A n \in Modems : n # m => state'[n] = state[n]
    BY <1>9, <1>t DEF ModemAppears, modemVars
  <2>2. \A o \in voice : o.manager \in Managers /\ o.modem \in Modems
    BY <1>t, ObjectParts
  <2>3. \A o \in voice : o.modem # m
    BY <2>1, <2>2
  <2> QED BY <2>1, <2>2, <2>3
<1>10. CASE UNCHANGED <<attached, voice, known, present, gone, state>>
  BY <1>k, <1>10
<1>11. Start \/ ExitTimer \/ MmOn \/ OwnerAppears \/ UNCHANGED vars
         => UNCHANGED <<attached, voice, known, present, gone, state>>
  BY DEF Start, ExitTimer, MmOn, OwnerAppears, modemVars, mmVars, vars
<1>12. \A g, o, n : ManagerFails(g) \/ CallSignal(o, n) \/ SipDials(o) \/ DialEnds(o)
         => UNCHANGED <<attached, voice, known, present, gone, state>>
  BY DEF ManagerFails, CallSignal, SipDials, DialEnds, modemVars, mmVars
<1> QED
  BY <1>1, <1>2, <1>3, <1>4, <1>5, <1>6, <1>7, <1>8, <1>9, <1>10, <1>11, <1>12
  DEF Next, Callback, Answer, ManagerAnswers, OperationAnswered, Environment, NewWork, Ended

\* A modem that the program is still told of is followed as long as its service
\* runs, so a service never outlives the registration: not for an object that is
\* off the list and held by an answer either.
THEOREM VoiceOnlyWhileRegisteredHolds == Spec => []VoiceOnlyWhileRegistered
<1>1. ObjectShape => VoiceOnlyWhileRegistered
  BY DEF ObjectShape
<1> QED BY <1>1, ObjectInit, ObjectStep, ListInvariant, PTL DEF Spec
=============================================================================

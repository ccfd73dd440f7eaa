--------------------------- MODULE AvMediaProofs ---------------------------
(***************************************************************************)
(* Theorems about AvMedia: the choice from an offer, the buffer of the     *)
(* serial read, the packets made of it, and what the audio thread holds,   *)
(* for any chunk size, number of reads, set of offers and set of failures. *)
(***************************************************************************)
EXTENDS AvMedia, FiniteSetTheorems, SequenceTheorems, TLAPS

\* Types, without those of the target, which TypeOK has for two media.
Typed ==
  /\ call \in {"offered", "refused", "accepted", "begun"}
  /\ pc \in {"none", "poll", "read", "send", "ended"}
  /\ serial \in {"closed", "open", "leaked"}
  /\ missing \in 0..Chunk
  /\ nbytes \in -1..Chunk
  /\ got \in 0..Chunk
  /\ packet \in [len : Int, got : Int]

\* The thread is there when its call has begun, and a packet in the making is
\* bounded by what was read for it.
ReadShape ==
  /\ Typed
  /\ pc \in {"read", "send"} => got + missing = Chunk /\ nbytes <= got
  /\ packet.len <= packet.got

LEMMA ReadInit == Init => ReadShape
BY SizesAssumption DEF Init, ReadShape, Typed, NoPacket

LEMMA ReadStep == ReadShape /\ [Next]_vars => ReadShape'
<1> SUFFICES ASSUME ReadShape, [Next]_vars PROVE ReadShape'
  OBVIOUS
<1> USE DEF ReadShape, Typed
<1>c. Chunk \in Nat
  BY SizesAssumption
<1>1. CASE AcceptOffer
  BY <1>1 DEF AcceptOffer, readVars, rtpVars
<1>2. CASE RefuseOffer
  BY <1>2 DEF RefuseOffer, readVars, rtpVars
<1>3. CASE Start
  BY <1>3 DEF Start, readVars, rtpVars
<1>4. CASE SendInit \/ SendExit
  BY <1>4 DEF SendInit, SendExit, readVars, rtpVars
<1>5. CASE ServeInit \/ ServeExit
  BY <1>5 DEF ServeInit, ServeExit, Leave, SerialFails, readVars
<1>6. CASE ReadBegins
  BY <1>6, <1>c DEF ReadBegins, rtpVars
<1>7. CASE ReadSome
  <2>1. PICK n \in 0..missing : nbytes' = n /\ missing' = missing - n /\ got' = got + n
    BY <1>7 DEF ReadSome
  <2> QED BY <1>7, <1>c, <2>1 DEF ReadSome, InLoop, rtpVars
<1>8. CASE ReadNothing
  BY <1>8, <1>c DEF ReadNothing, InLoop, rtpVars
<1>9. CASE ReadFails
  BY <1>9, <1>c DEF ReadFails, InLoop, rtpVars
<1>10. CASE ReadEnds
  BY <1>10 DEF ReadEnds, readVars, rtpVars
<1>11. CASE SendPacket
  BY <1>11, <1>c DEF SendPacket, readVars
<1>12. CASE LineChanges
  BY <1>12 DEF LineChanges, readVars, rtpVars
<1>13. CASE UNCHANGED vars
  BY <1>13 DEF vars, readVars, rtpVars
<1> QED
  BY <1>1, <1>2, <1>3, <1>4, <1>5, <1>6, <1>7, <1>8, <1>9, <1>10, <1>11,
     <1>12, <1>13 DEF Next, AudioThread, Over

LEMMA ReadInvariant == Spec => []ReadShape
BY ReadInit, ReadStep, PTL DEF Spec

\* The reads for a packet stay within the buffer, and no packet is longer than
\* what they brought.
THEOREM SentWasReadHolds == Spec => []SentWasRead
<1>1. ReadShape => SentWasRead
  BY DEF ReadShape, SentWasRead
<1> QED BY <1>1, ReadInvariant, PTL
-----------------------------------------------------------------------------
(* The target of a call, and the session and serial port of its thread *)

Queues == { <<>>, <<"init">>, <<"exit">>, <<"init", "exit">> }
Targets == [media : 0..2, address : 0..2]

\* What is held depends on how far the call is: nothing before its audio thread
\* or after it, no session before CMD_AUDIO_INIT has been served, and never a
\* serial port without one.
HoldShape ==
  /\ commands \in Queues
  /\ target \in Targets
  /\ session \in {NoTarget, target}
  /\ call = "offered" => offer \in Offers
  /\ call # "begun" => pc = "none" /\ session = NoTarget /\ serial = "closed" /\ commands = <<>>
  /\ call \in {"accepted", "begun"} => target # NoTarget
  /\ commands \in { <<"init">>, <<"init", "exit">> } => session = NoTarget
  /\ serial # "leaked"
  /\ serial = "open" => session # NoTarget
  /\ pc = "ended" => session = NoTarget /\ serial = "closed"

\* What one command becomes when another is added.
LEMMA AppendToOne ==
  ASSUME NEW C, NEW a \in C, NEW e \in C
  PROVE  Append(<<a>>, e) = <<a, e>>
<1> DEFINE q == <<a>>
           t == <<a, e>>
<1>1. q \in Seq(C) /\ Len(q) = 1 /\ q[1] = a
  OBVIOUS
<1>2. t \in Seq(C) /\ Len(t) = 2 /\ t[1] = a /\ t[2] = e
  OBVIOUS
<1> HIDE DEF q, t
<1>3. Append(q, e) \in Seq(C)
  BY <1>1, AppendProperties
<1>4. Len(Append(q, e)) = Len(q) + 1
  BY <1>1, AppendProperties
<1>5. Append(q, e)[Len(q) + 1] = e
  BY <1>1, AppendProperties
<1>6. \A i \in 1..Len(q) : Append(q, e)[i] = q[i]
  BY <1>1, AppendProperties
<1>7. Append(q, e) = t
  BY <1>1, <1>2, <1>3, <1>4, <1>5, <1>6, SeqEqual
<1> QED BY <1>7 DEF q, t

\* What the queue becomes when its head is taken, or the exit command is added.
LEMMA QueueStep ==
  ASSUME NEW q \in Queues
  PROVE  /\ q # <<>> => Tail(q) \in {<<>>, <<"exit">>}
         /\ q # <<>> /\ Head(q) = "init" => q \in { <<"init">>, <<"init", "exit">> }
         /\ (\A i \in DOMAIN q : q[i] # "exit") =>
              \/ q = <<>> /\ Append(q, "exit") = <<"exit">>
              \/ q = <<"init">> /\ Append(q, "exit") = <<"init", "exit">>
<1>1. CASE q = <<>>
  BY <1>1
<1>2. CASE q = <<"init">>
  <2>1. Tail(q) = <<>>
    BY <1>2
  <2>2. Append(q, "exit") = <<"init", "exit">>
    <3>1. "init" \in {"init", "exit"} /\ "exit" \in {"init", "exit"}
      OBVIOUS
    <3>2. Append(<<"init">>, "exit") = <<"init", "exit">>
      BY <3>1, AppendToOne, Zenon
    <3> QED BY <1>2, <3>2, Zenon
  <2>3. Head(q) = "init"
    BY <1>2
  <2> QED BY <1>2, <2>1, <2>2
<1>3. CASE q = <<"exit">>
  BY <1>3
<1>4. CASE q = <<"init", "exit">>
  <2>1. q[2] = "exit" /\ 2 \in DOMAIN q
    BY <1>4
  <2> QED BY <1>4, <2>1
<1> QED BY <1>1, <1>2, <1>3, <1>4 DEF Queues

\* A set of positions of at most two media that is not empty has a least one.
LEMMA LeastOfTwo ==
  ASSUME NEW S \in SUBSET (1..2), S # {}
  PROVE  Min(S) \in S
<1>1. \E x \in S : \A y \in S : x <= y
  <2>1. CASE 1 \in S
    BY <2>1
  <2>2. CASE 1 \notin S
    <3>1. PICK x \in S : TRUE
      OBVIOUS
    <3>2. \A y \in S : y = 2
      BY <2>2
    <3> QED BY <3>1, <3>2
  <2> QED BY <2>1, <2>2
<1> QED BY <1>1 DEF Min

\* The medium that is chosen is one of the offer, and so is the level of the
\* address.
LEMMA ChosenTarget ==
  ASSUME NEW o \in Offers, Acceptable(o) # {}
  PROVE  /\ Min(Acceptable(o)) \in 1..2
         /\ AudioAddress(o) \in 0..2
<1>1. DOMAIN o.media \subseteq 1..2
  <2>1. o.media \in {<<>>} \cup {<<m>> : m \in Media} \cup {<<m, n>> : m, n \in Media}
    BY DEF Offers
  <2> QED BY <2>1
<1>2. /\ Acceptable(o) \subseteq AudioMedia(o)
      /\ AudioMedia(o) \subseteq 1..2
  BY <1>1 DEF Acceptable, AudioMedia
<1>3. Min(Acceptable(o)) \in 1..2 /\ Min(AudioMedia(o)) \in 1..2
  BY <1>2, LeastOfTwo
<1> QED BY <1>3 DEF AudioAddress, Level, Session

LEMMA HoldInit == Init => HoldShape
BY DEF Init, HoldShape, Queues, Targets, NoTarget

LEMMA HoldStep == ReadShape /\ HoldShape /\ [Next]_vars => HoldShape'
<1> SUFFICES ASSUME ReadShape, HoldShape, [Next]_vars PROVE HoldShape'
  OBVIOUS
<1>t. /\ call \in {"offered", "refused", "accepted", "begun"}
      /\ serial \in {"closed", "open", "leaked"}
  BY DEF ReadShape, Typed
<1>1. CASE AcceptOffer
  <2>1. offer \in Offers /\ Acceptable(offer) # {}
    BY <1>1 DEF AcceptOffer, HoldShape
  <2>2. target' = [media |-> Min(Acceptable(offer)), address |-> AudioAddress(offer)]
    BY <1>1 DEF AcceptOffer
  <2>3. target' \in Targets /\ target' # NoTarget
    BY <2>1, <2>2, ChosenTarget DEF Targets, NoTarget
  <2> QED BY <1>1, <2>3 DEF AcceptOffer, HoldShape
<1>2. CASE RefuseOffer
  BY <1>2 DEF RefuseOffer, HoldShape
<1>3. CASE Start
  BY <1>3 DEF Start, HoldShape
<1>4. CASE SendInit
  <2>1. commands' \in Queues
    BY <1>4 DEF SendInit, Queues
  <2> QED BY <1>4, <2>1 DEF SendInit, HoldShape
<1>5. CASE SendExit
  <2>1. /\ commands \in Queues
        /\ \A i \in DOMAIN commands : commands[i] # "exit"
        /\ commands' = Append(commands, "exit")
    BY <1>5 DEF SendExit, HoldShape
  <2>2. \/ commands = <<>> /\ commands' = <<"exit">>
        \/ commands = <<"init">> /\ commands' = <<"init", "exit">>
    BY <2>1, QueueStep
  <2>3. commands' = <<"exit">> => commands' \notin { <<"init">>, <<"init", "exit">> }
    OBVIOUS
  <2>4. commands' \in Queues
    BY <2>2 DEF Queues
  <2> QED BY <1>5, <2>2, <2>3, <2>4 DEF SendExit, HoldShape
<1>6. CASE ServeInit
  <2>1. /\ commands' \in {<<>>, <<"exit">>}
        /\ session = NoTarget /\ serial = "closed"
        /\ call = "begun" /\ target # NoTarget
    BY <1>6, <1>t, QueueStep DEF ServeInit, HoldShape
  <2>2. commands' \in Queues /\ commands' \notin { <<"init">>, <<"init", "exit">> }
    BY <2>1 DEF Queues
  <2> QED BY <1>6, <1>t, <2>1, <2>2 DEF ServeInit, SerialFails, Leave, HoldShape
<1>7. CASE ServeExit
  <2>1. /\ commands' \in {<<>>, <<"exit">>}
        /\ call = "begun"
    BY <1>7, <1>t, QueueStep DEF ServeExit, HoldShape
  <2>2. commands' \in Queues /\ commands' \notin { <<"init">>, <<"init", "exit">> }
    BY <2>1 DEF Queues
  <2> QED BY <1>7, <1>t, <2>1, <2>2 DEF ServeExit, Leave, HoldShape
<1>8. CASE ReadBegins \/ ReadSome \/ ReadNothing \/ ReadFails \/ ReadEnds \/ SendPacket
  BY <1>8 DEF ReadBegins, SerialReadable, ReadSome, ReadNothing, ReadFails, ReadEnds, SendPacket,
     InLoop, HoldShape
<1>9. CASE LineChanges
  BY <1>9 DEF LineChanges, HoldShape
<1>10. CASE UNCHANGED vars
  BY <1>10 DEF vars, HoldShape
<1> QED
  BY <1>1, <1>2, <1>3, <1>4, <1>5, <1>6, <1>7, <1>8, <1>9, <1>10
  DEF Next, AudioThread, Over

LEMMA HoldInvariant == Spec => [](ReadShape /\ HoldShape)
BY HoldInit, HoldStep, ReadInvariant, PTL DEF Spec

\* Nothing is read from a serial port whose audio could not be sent, and an
\* audio thread that has ended, however far it came, holds nothing.
THEOREM SerialHasSessionHolds == Spec => []SerialHasSession
<1>1. HoldShape => SerialHasSession
  BY DEF HoldShape, SerialHasSession
<1> QED BY <1>1, HoldInvariant, PTL
-----------------------------------------------------------------------------
(* Types *)

LEMMA Modulo == \A n \in Int : n % TsModulus \in 0..(TsModulus - 1)
BY SizesAssumption

\* What of TypeOK is neither in ReadShape nor in HoldShape.
RestTyped ==
  /\ line \in {"idle", "data", "hangup"}
  /\ retries \in 0..MaxReads
  /\ userTs \in 0..(TsModulus - 1)
  /\ packet \in [len : -1..Chunk, got : 0..Chunk]

LEMMA RestInit == Init => RestTyped
BY SizesAssumption DEF Init, RestTyped, NoPacket

LEMMA RestStep == ReadShape /\ RestTyped /\ [Next]_vars => RestTyped'
<1> SUFFICES ASSUME ReadShape, RestTyped, [Next]_vars PROVE RestTyped'
  OBVIOUS
<1> USE DEF RestTyped
<1>c. /\ Chunk \in Nat /\ MaxReads \in Nat /\ 0 \in 0..(TsModulus - 1)
      /\ nbytes \in -1..Chunk /\ got \in 0..Chunk
  BY SizesAssumption DEF ReadShape, Typed
<1>1. CASE AcceptOffer \/ RefuseOffer \/ Start \/ SendInit \/ SendExit
  BY <1>1 DEF AcceptOffer, RefuseOffer, Start, SendInit, SendExit, readVars, rtpVars
<1>2. CASE ServeInit \/ ServeExit
  BY <1>2, <1>c DEF ServeInit, ServeExit, SerialFails, Leave, readVars
<1>3. CASE ReadBegins \/ ReadEnds
  BY <1>3, <1>c DEF ReadBegins, ReadEnds, readVars, rtpVars
<1>4. CASE ReadSome \/ ReadNothing \/ ReadFails
  BY <1>4, <1>c DEF ReadSome, ReadNothing, ReadFails, InLoop, rtpVars
<1>5. CASE SendPacket
  <2>1. userTs' \in 0..(TsModulus - 1)
    BY <1>5, <1>c, Modulo, SizesAssumption DEF SendPacket
  <2> QED BY <1>5, <1>c, <2>1 DEF SendPacket, readVars
<1>6. CASE LineChanges
  BY <1>6 DEF LineChanges, readVars, rtpVars
<1>7. CASE UNCHANGED vars
  BY <1>7 DEF vars, readVars, rtpVars
<1> QED
  BY <1>1, <1>2, <1>3, <1>4, <1>5, <1>6, <1>7 DEF Next, AudioThread, Over

\* Every variable keeps its type; userTs stays below the modulus also when a
\* failed read takes one off it.
THEOREM TypeOKHolds == Spec => []TypeOK
<1>1. ReadShape /\ HoldShape /\ RestTyped => TypeOK
  BY DEF ReadShape, Typed, HoldShape, RestTyped, TypeOK, Queues, Targets
<1>2. ReadShape /\ HoldShape /\ RestTyped /\ [Next]_vars => RestTyped'
  BY RestStep
<1> QED BY <1>1, <1>2, RestInit, HoldInvariant, PTL DEF Spec
-----------------------------------------------------------------------------
(* The choice of a media *)

\* An offer is there until its call begins, and what was chosen is the first
\* media that will do and the address of the first audio media.
ChoiceShape ==
  /\ call # "begun" => offer \in Offers
  /\ call = "accepted" =>
       /\ Acceptable(offer) # {}
       /\ target = [media |-> Min(Acceptable(offer)), address |-> AudioAddress(offer)]
  /\ call = "refused" => Acceptable(offer) = {}

LEMMA ChoiceInit == Init => ChoiceShape
BY DEF Init, ChoiceShape

LEMMA ChoiceStep == ChoiceShape /\ [Next]_vars => ChoiceShape'
<1> SUFFICES ASSUME ChoiceShape, [Next]_vars PROVE ChoiceShape'
  OBVIOUS
<1>1. CASE AcceptOffer
  BY <1>1 DEF AcceptOffer, ChoiceShape
<1>2. CASE RefuseOffer
  BY <1>2 DEF RefuseOffer, ChoiceShape
<1>3. CASE Start
  BY <1>3 DEF Start, ChoiceShape
<1>4. CASE UNCHANGED <<offer, call, target>>
  BY <1>4 DEF ChoiceShape
<1>5. SendInit \/ SendExit \/ LineChanges \/ UNCHANGED vars
        => UNCHANGED <<offer, call, target>>
  BY DEF SendInit, SendExit, LineChanges, vars
<1>6. AudioThread => UNCHANGED <<offer, call, target>>
  BY DEF AudioThread, ServeInit, ServeExit, ReadBegins, ReadSome, ReadNothing,
         ReadFails, ReadEnds, SendPacket
<1> QED BY <1>1, <1>2, <1>3, <1>4, <1>5, <1>6 DEF Next, Over

LEMMA ChoiceInvariant == Spec => []ChoiceShape
BY ChoiceInit, ChoiceStep, PTL DEF Spec

\* The audio media of an offer, with ports that are numbers.
LEMMA AudioMediaOfOffer ==
  ASSUME NEW o \in Offers
  PROVE  /\ AudioMedia(o) \subseteq 1..2
         /\ \A i \in AudioMedia(o) : o.media[i].port \in Int
<1>1. o.media \in {<<>>} \cup {<<m>> : m \in Media} \cup {<<m, n>> : m, n \in Media}
  BY DEF Offers
<1>2. DOMAIN o.media \subseteq 1..2 /\ \A i \in DOMAIN o.media : o.media[i] \in Media
  BY <1>1
<1>3. \A m \in Media : m.type = "audio" => m.port \in Int
  BY OffersAssumption DEF Media
<1> QED BY <1>2, <1>3 DEF AudioMedia

\* The check of address and port lets through the ports of RTP, and no others.
LEMMA PortSupported ==
  ASSUME NEW p \in Int, NEW connection
  PROVE  CheckSupported(connection, p) # 0 <=> connection = "ip4" /\ RtpPort(p)
<1> DEFINE even == p % 2 = 0
<1>1. LastPort = LastRtpPort + 1 /\ LastRtpPort \in Nat
  BY DEF LastPort, LastRtpPort
<1>2. even => p # LastPort
  BY DEF LastPort
<1>3. RtpPort(p) <=> p \in 1..LastPort /\ even
  BY DEF RtpPort
<1>4. CheckSupported(connection, p)
        = IF connection = "ip4" /\ p \in 0..LastRtpPort /\ even THEN p ELSE 0
  BY DEF CheckSupported
<1> HIDE DEF even
<1> QED BY <1>1, <1>2, <1>3, <1>4

\* What the check of a media comes to: PCMU/8000 for one of its payloads, and an
\* even port, with the address of the first audio media supported.
Fits(o, i) ==
  /\ o.media[i].payloads \cap o.media[i].pcmu # {}
  /\ RtpPort(o.media[i].port)

LEMMA AcceptableFits ==
  ASSUME NEW o \in Offers, NEW i \in AudioMedia(o)
  PROVE  i \in Acceptable(o)
           <=> Fits(o, i) /\ LevelConnection(o, AudioAddress(o)) = "ip4"
<1>1. o.media[i].port \in Int
  BY AudioMediaOfOffer
<1>2. ConnectionSetup(o, i)
        <=> LevelConnection(o, AudioAddress(o)) = "ip4" /\ RtpPort(o.media[i].port)
  BY <1>1, PortSupported, Zenon DEF ConnectionSetup
<1>3. PayloadOk(o, i)
        <=> o.media[i].payloads \cap o.media[i].pcmu # {} /\ ConnectionSetup(o, i)
  BY DEF PayloadOk
<1> QED BY <1>2, <1>3 DEF Acceptable, Fits

\* A call goes to an even port of an audio media with a PCMU payload, and is refused
\* only if there is none but perhaps a 0 without rtpmap, or the address of the first
\* audio media is not supported.
THEOREM PcmuIsFoundHolds == Spec => []PcmuIsFound
<1>1. ChoiceShape => PcmuIsFound
  <2> SUFFICES ASSUME ChoiceShape PROVE PcmuIsFound
    OBVIOUS
  <2>1. ASSUME call = "accepted"
        PROVE  target.media \in AudioMedia(offer) /\ target.media \in Acceptable(offer)
    <3>1. offer \in Offers /\ Acceptable(offer) # {} /\ target.media = Min(Acceptable(offer))
      BY <2>1 DEF ChoiceShape
    <3>2. Acceptable(offer) \subseteq AudioMedia(offer) /\ AudioMedia(offer) \subseteq 1..2
      BY <3>1, AudioMediaOfOffer DEF Acceptable
    <3>3. Acceptable(offer) \in SUBSET (1..2)
      BY <3>2
    <3>4. Min(Acceptable(offer)) \in Acceptable(offer)
      BY <3>1, <3>3, LeastOfTwo
    <3> QED BY <3>1, <3>2, <3>4
  <2>2. call = "accepted" => offer \in Offers
    BY DEF ChoiceShape
  <2>3. call = "refused" => offer \in Offers /\ Acceptable(offer) = {}
    BY DEF ChoiceShape
  <2>4. call = "accepted" => Fits(offer, target.media)
    BY <2>1, <2>2, AcceptableFits
  <2>5. ASSUME call = "refused", AddressSupported, NEW i \in AudioMedia(offer),
               RtpPort(offer.media[i].port)
        PROVE  PcmuPayloads(i) \subseteq {0} \ offer.media[i].pcmu
    <3>1. ~Fits(offer, i)
      BY <2>3, <2>5, AcceptableFits DEF AddressSupported
    <3>2. offer.media[i].payloads \cap offer.media[i].pcmu = {}
      BY <2>5, <3>1 DEF Fits
    <3> QED BY <3>2 DEF PcmuPayloads
  <2>6. call = "accepted" => /\ PcmuPayloads(target.media) # {}
                             /\ RtpPort(offer.media[target.media].port)
    BY <2>4 DEF Fits, PcmuPayloads
  <2> QED BY <2>1, <2>5, <2>6 DEF PcmuIsFound
<1> QED BY <1>1, ChoiceInvariant, PTL

\* RTP goes to the address of the media whose port it is, unless there are several
\* audio media, one of them with an address of its own, and the first will not do.
THEOREM AddressBelongsToPortHolds == Spec => []AddressBelongsToPort
<1>1. ChoiceShape => AddressBelongsToPort
  <2> SUFFICES ASSUME ChoiceShape, call = "accepted",
                      target.address # Level(offer, target.media)
               PROVE  /\ Cardinality(AudioMedia(offer)) > 1
                      /\ \E i \in AudioMedia(offer) : offer.media[i].connection # "none"
                      /\ target.media # Min(AudioMedia(offer))
    BY DEF AddressBelongsToPort
  <2> DEFINE first == Min(AudioMedia(offer))
             chosen == target.media
  <2>1. /\ offer \in Offers /\ Acceptable(offer) # {}
        /\ target = [media |-> Min(Acceptable(offer)), address |-> AudioAddress(offer)]
    BY DEF ChoiceShape
  <2>2. Acceptable(offer) \subseteq AudioMedia(offer) /\ AudioMedia(offer) \subseteq 1..2
    BY <2>1, AudioMediaOfOffer DEF Acceptable
  <2>3. Acceptable(offer) \in SUBSET (1..2) /\ AudioMedia(offer) \in SUBSET (1..2)
    BY <2>2
  <2>4. first \in AudioMedia(offer) /\ chosen \in AudioMedia(offer)
    BY <2>1, <2>2, <2>3, LeastOfTwo
  <2>5. Level(offer, first) # Level(offer, chosen)
    BY <2>1 DEF AudioAddress
  <2> HIDE DEF first, chosen
  <2>6. first # chosen
    BY <2>5
  <2>7. offer.media[first].connection # "none" \/ offer.media[chosen].connection # "none"
    BY <2>5 DEF Level
  <2>8. Cardinality(AudioMedia(offer)) > 1
    <3>1. IsFiniteSet(AudioMedia(offer))
      <4>1. IsFiniteSet(1..2)
        <5>1. 1 \in Int /\ 2 \in Int
          OBVIOUS
        <5> QED BY <5>1, FS_Interval, Zenon
      <4> QED BY <2>3, <4>1, FS_Subset
    <3>2. IsFiniteSet({first}) /\ Cardinality({first}) = 1
      BY FS_Singleton
    <3>3. Cardinality({first} \cup {chosen}) = 2
      BY <2>6, <3>2, FS_AddElement
    <3>4. Cardinality({first} \cup {chosen}) <= Cardinality(AudioMedia(offer))
      <4>1. {first} \cup {chosen} \in SUBSET AudioMedia(offer)
        BY <2>4
      <4> QED BY <3>1, <4>1, FS_Subset
    <3>5. Cardinality(AudioMedia(offer)) \in Nat
      BY <3>1, FS_CardinalityType
    <3> QED BY <3>3, <3>4, <3>5
  <2> QED BY <2>4, <2>6, <2>7, <2>8 DEF first, chosen
<1> QED BY <1>1, ChoiceInvariant, PTL
=============================================================================

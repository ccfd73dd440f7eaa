------------------------- MODULE AvThreadCommProofs -------------------------
(***************************************************************************)
(* Theorems about AvThreadComm, for any size of a command and of a socket, *)
(* and any number of commands: the two loops make a pair of sockets the    *)
(* queue of commands that FifoChannel is, and a write never has to wait.   *)
(***************************************************************************)
EXTENDS AvThreadComm, SequenceTheorems, TLAPS

Bytes == [cmd : Commands, pos : 1..Size]

\* A byte of the stream, of which r has been read and p has not.
At(r, p, i) == IF i <= Len(r) THEN r[i] ELSE p[i - Len(r)]

\* What is between the two loops: the commands of s after the first n, as a
\* whole, and then a part of the command c.  This is StreamOfCommands without
\* division: the byte j of the command k.
Carries(r, p, s, n, c, part) ==
  /\ n <= Len(s)
  /\ Len(r) + Len(p) = Size * (Len(s) - n) + part
  /\ \A k \in 0..(Len(s) - n - 1), j \in 1..Size :
       At(r, p, Size * k + j) = Byte(s[n + k + 1], j)
  /\ \A j \in 1..part : At(r, p, Size * (Len(s) - n) + j) = Byte(c, j)
-----------------------------------------------------------------------------
(* Places in a stream *)

\* The byte j of the command k comes before the command m.
LEMMA Places ==
  ASSUME NEW m \in Nat, NEW k \in 0..(m - 1), NEW j \in 1..Size
  PROVE  Size * k + j \in 1..(Size * m)
<1>1. Size \in Nat \ {0} /\ k \in Nat /\ m - 1 - k \in Nat
  BY SizeAssumption
<1>2. Size * m = Size * k + Size + Size * (m - 1 - k)
  BY <1>1
<1>3. Size * (m - 1 - k) \in Nat /\ Size * k \in Nat
  BY <1>1
<1> QED BY <1>1, <1>2, <1>3

\* What is appended to the unread part comes behind all the rest.
LEMMA AtConcat ==
  ASSUME NEW r \in Seq(Bytes), NEW p \in Seq(Bytes), NEW q \in Seq(Bytes)
  PROVE  /\ \A i \in 1..(Len(r) + Len(p)) : At(r, p \o q, i) = At(r, p, i)
         /\ \A i \in 1..Len(q) : At(r, p \o q, Len(r) + Len(p) + i) = q[i]
<1>1. \A i \in 1..(Len(p) + Len(q)) : (p \o q)[i] = IF i <= Len(p) THEN p[i] ELSE q[i - Len(p)]
  BY ConcatProperties
<1>2. Len(r) \in Nat /\ Len(p) \in Nat /\ Len(q) \in Nat
  OBVIOUS
<1> HIDE DEF Bytes
<1>3. ASSUME NEW i \in 1..(Len(r) + Len(p)) PROVE At(r, p \o q, i) = At(r, p, i)
  BY <1>1, <1>2 DEF At
<1>4. ASSUME NEW i \in 1..Len(q) PROVE At(r, p \o q, Len(r) + Len(p) + i) = q[i]
  BY <1>1, <1>2 DEF At
<1> QED BY <1>3, <1>4

\* A read moves bytes from one part to the other.
LEMMA AtRead ==
  ASSUME NEW r \in Seq(Bytes), NEW p \in Seq(Bytes), NEW m \in 1..Len(p)
  PROVE  LET r2 == r \o SubSeq(p, 1, m)
             p2 == SubSeq(p, m + 1, Len(p))
         IN /\ r2 \in Seq(Bytes) /\ p2 \in Seq(Bytes)
            /\ Len(r2) = Len(r) + m /\ Len(p2) = Len(p) - m
            /\ \A i \in 1..(Len(r) + Len(p)) : At(r2, p2, i) = At(r, p, i)
<1> DEFINE q  == SubSeq(p, 1, m)
           r2 == r \o q
           p2 == SubSeq(p, m + 1, Len(p))
<1>1. Len(r) \in Nat /\ Len(p) \in Nat /\ \A i \in 1..Len(p) : p[i] \in Bytes
  OBVIOUS
<1>2. q \in Seq(Bytes) /\ Len(q) = m /\ \A i \in 1..m : q[i] = p[i]
  BY <1>1, SubSeqProperties
<1>3. /\ p2 \in Seq(Bytes) /\ Len(p2) = Len(p) - m
      /\ \A i \in 1..(Len(p) - m) : p2[i] = p[m + i]
  BY <1>1, SubSeqProperties
<1> HIDE DEF q, p2
<1>4. /\ r2 \in Seq(Bytes) /\ Len(r2) = Len(r) + m
      /\ \A i \in 1..(Len(r) + m) : r2[i] = IF i <= Len(r) THEN r[i] ELSE q[i - Len(r)]
  BY <1>2, ConcatProperties
<1> HIDE DEF r2
<1>5. ASSUME NEW i \in 1..(Len(r) + Len(p)) PROVE At(r2, p2, i) = At(r, p, i)
  <2>1. CASE i <= Len(r)
    <3>1. i \in 1..(Len(r) + m) /\ i <= Len(r2)
      BY <1>1, <1>4, <2>1
    <3> QED BY <1>4, <2>1, <3>1 DEF At
  <2>2. CASE i > Len(r) /\ i <= Len(r) + m
    <3>1. i \in 1..(Len(r) + m) /\ i <= Len(r2) /\ ~(i <= Len(r)) /\ i - Len(r) \in 1..m
      BY <1>1, <1>4, <2>2
    <3>2. r2[i] = q[i - Len(r)] /\ q[i - Len(r)] = p[i - Len(r)]
      BY <1>2, <1>4, <3>1
    <3> QED BY <3>1, <3>2 DEF At
  <2>3. CASE i > Len(r) + m
    <3>1. /\ ~(i <= Len(r2)) /\ ~(i <= Len(r))
          /\ i - Len(r2) \in 1..(Len(p) - m)
          /\ m + (i - Len(r2)) = i - Len(r)
      BY <1>1, <1>4, <2>3
    <3>2. p2[i - Len(r2)] = p[m + (i - Len(r2))]
      BY <1>3, <3>1
    <3> QED BY <3>1, <3>2 DEF At
  <2> QED BY <1>1, <2>1, <2>2, <2>3
<1> QED BY <1>3, <1>4, <1>5 DEF r2, p2, q
-----------------------------------------------------------------------------
(* What write and read do to a stream *)

\* write takes q, the next bytes of the command c.
LEMMA WriteSome ==
  ASSUME NEW r \in Seq(Bytes), NEW p \in Seq(Bytes), NEW s \in Seq(Commands),
         NEW n \in Nat, NEW c \in Commands, NEW part \in Nat, NEW q \in Seq(Bytes)
  PROVE  (\A i \in 1..Len(q) : q[i] = Byte(c, part + i)) /\ Carries(r, p, s, n, c, part)
           => Carries(r, p \o q, s, n, c, part + Len(q))
<1>h. HAVE (\A i \in 1..Len(q) : q[i] = Byte(c, part + i)) /\ Carries(r, p, s, n, c, part)
<1> DEFINE m == Len(s) - n
<1>1. /\ Len(r) \in Nat /\ Len(p) \in Nat /\ Len(q) \in Nat
      /\ m \in Nat /\ n <= Len(s)
  BY <1>h DEF Carries
<1>2. PICK w \in Nat : w = Size * m
  BY <1>1, SizeAssumption
<1>w. w \in Nat
  BY <1>2
<1>3. Len(r) + Len(p) = w + part
  BY <1>h, <1>2 DEF Carries
<1>4. ASSUME NEW k \in 0..(m - 1), NEW j \in 1..Size
      PROVE  Size * k + j \in 1..w
  BY <1>1, <1>2, Places
<1>5. ASSUME NEW k \in 0..(m - 1), NEW j \in 1..Size
      PROVE  At(r, p \o q, Size * k + j) = Byte(s[n + k + 1], j)
  <2>1. Size * k + j \in 1..(Len(r) + Len(p))
    BY <1>1, <1>w, <1>3, <1>4
  <2>2. At(r, p, Size * k + j) = Byte(s[n + k + 1], j)
    BY <1>h DEF Carries
  <2> QED BY <2>1, <2>2, AtConcat
<1>6. ASSUME NEW j \in 1..(part + Len(q))
      PROVE  At(r, p \o q, w + j) = Byte(c, j)
  <2>1. CASE j <= part
    <3>1. w + j \in 1..(Len(r) + Len(p)) /\ j \in 1..part
      BY <1>1, <1>w, <1>3, <2>1
    <3>2. At(r, p, w + j) = Byte(c, j)
      BY <1>h, <1>2, <3>1 DEF Carries
    <3> QED BY <3>1, <3>2, AtConcat
  <2>2. CASE j > part
    <3>1. j - part \in 1..Len(q) /\ part + (j - part) = j
      BY <1>1, <2>2
    <3>2. w + j = Len(r) + Len(p) + (j - part)
      <4>1. j \in Nat
        BY <1>1
      <4>2. \A a, b \in Nat : a + b = w + part => w + j = a + b + (j - part)
        BY <1>w, <4>1
      <4> QED BY <1>1, <1>3, <4>2, Zenon
    <3>3. At(r, p \o q, Len(r) + Len(p) + (j - part)) = q[j - part]
      BY <3>1, AtConcat
    <3>4. q[j - part] = Byte(c, part + (j - part))
      BY <1>h, <3>1
    <3> QED BY <3>1, <3>2, <3>3, <3>4
  <2> QED BY <1>1, <2>1, <2>2
<1>7. Len(r) + Len(p \o q) = w + (part + Len(q))
  <2> DEFINE u == Len(p \o q)
  <2>1. u = Len(p) + Len(q)
    BY ConcatProperties
  <2> HIDE DEF u
  <2>2. PICK a \in Nat, b \in Nat, l \in Nat : a = Len(r) /\ b = Len(p) /\ l = Len(q)
    BY <1>1
  <2>3. a + b = w + part
    BY <1>3, <2>2
  <2>4. a + (b + l) = w + (part + l)
    BY <1>w, <2>3
  <2>5. Len(r) + u = w + (part + Len(q))
    BY <2>1, <2>2, <2>4, Zenon
  <2> QED BY <2>5 DEF u
<1> QED BY <1>1, <1>2, <1>5, <1>6, <1>7 DEF Carries

\* read takes the next i bytes.
LEMMA ReadSome ==
  ASSUME NEW r \in Seq(Bytes), NEW p \in Seq(Bytes), NEW s \in Seq(Commands),
         NEW n \in Nat, NEW c \in Commands, NEW part \in Nat, NEW i \in 1..Len(p)
  PROVE  Carries(r, p, s, n, c, part)
           => Carries(r \o SubSeq(p, 1, i), SubSeq(p, i + 1, Len(p)), s, n, c, part)
<1>h. HAVE Carries(r, p, s, n, c, part)
<1> DEFINE m  == Len(s) - n
           r2 == r \o SubSeq(p, 1, i)
           p2 == SubSeq(p, i + 1, Len(p))
<1>1. /\ Len(r) \in Nat /\ Len(p) \in Nat
      /\ m \in Nat /\ n <= Len(s)
  BY <1>h DEF Carries
<1>2. PICK w \in Nat : w = Size * m
  BY <1>1, SizeAssumption
<1>w. w \in Nat
  BY <1>2
<1>3. Len(r) + Len(p) = w + part
  BY <1>h, <1>2 DEF Carries
<1>4. ASSUME NEW k \in 0..(m - 1), NEW j \in 1..Size
      PROVE  Size * k + j \in 1..w
  BY <1>1, <1>2, Places
<1>5. /\ Len(r2) = Len(r) + i /\ Len(p2) = Len(p) - i
      /\ \A x \in 1..(Len(r) + Len(p)) : At(r2, p2, x) = At(r, p, x)
  BY AtRead
<1> HIDE DEF r2, p2
<1>6. ASSUME NEW k \in 0..(m - 1), NEW j \in 1..Size
      PROVE  At(r2, p2, Size * k + j) = Byte(s[n + k + 1], j)
  <2>1. Size * k + j \in 1..(Len(r) + Len(p))
    BY <1>1, <1>w, <1>3, <1>4
  <2>2. At(r, p, Size * k + j) = Byte(s[n + k + 1], j)
    BY <1>h DEF Carries
  <2> QED BY <1>5, <2>1, <2>2
<1>7. ASSUME NEW j \in 1..part
      PROVE  At(r2, p2, w + j) = Byte(c, j)
  <2>1. w + j \in 1..(Len(r) + Len(p))
    BY <1>1, <1>w, <1>3
  <2>2. At(r, p, w + j) = Byte(c, j)
    BY <1>h, <1>2 DEF Carries
  <2> QED BY <1>5, <2>1, <2>2
<1>8. Len(r2) + Len(p2) = w + part
  <2>1. \A a, b \in Nat : a + b = w + part => (a + i) + (b - i) = w + part
    BY <1>w
  <2>2. (Len(r) + i) + (Len(p) - i) = w + part
    BY <1>1, <1>3, <2>1, Zenon
  <2> QED BY <1>5, <2>2, Zenon
<1>9. Carries(r2, p2, s, n, c, part)
  BY <1>1, <1>2, <1>6, <1>7, <1>8 DEF Carries
<1> QED BY <1>9 DEF r2, p2

\* A command that has been written is one of those in the stream, whatever comes
\* next.
LEMMA WroteAll ==
  ASSUME NEW r \in Seq(Bytes), NEW p \in Seq(Bytes), NEW s \in Seq(Commands),
         NEW n \in Nat, NEW c \in Commands, NEW d
  PROVE  Carries(r, p, s, n, c, Size) => Carries(r, p, Append(s, c), n, d, 0)
<1>h. HAVE Carries(r, p, s, n, c, Size)
<1> DEFINE m  == Len(s) - n
           s2 == Append(s, c)
<1>1. /\ Len(r) \in Nat /\ Len(p) \in Nat /\ Len(s) \in Nat
      /\ m \in Nat /\ n <= Len(s) /\ Size \in Nat
  BY <1>h, SizeAssumption DEF Carries
<1>2. Len(s2) = Len(s) + 1
  BY AppendProperties
<1>3. \A i \in 1..Len(s) : s2[i] = s[i]
  BY AppendProperties
<1>4. s2[Len(s) + 1] = c
  BY AppendProperties
<1> HIDE DEF s2
<1>5. Size * (m + 1) = Size * m + Size
  BY <1>1
<1>6. Len(r) + Len(p) = Size * m + Size
  BY <1>h DEF Carries
<1>7. /\ Len(s2) - n = m + 1 /\ n <= Len(s2)
  BY <1>1, <1>2
<1>8. ASSUME NEW k \in 0..m, NEW j \in 1..Size
      PROVE  At(r, p, Size * k + j) = Byte(s2[n + k + 1], j)
  <2>1. CASE k = m
    <3>1. At(r, p, Size * m + j) = Byte(c, j)
      BY <1>h DEF Carries
    <3>2. n + k + 1 = Len(s) + 1
      BY <1>1, <2>1
    <3> QED BY <1>4, <2>1, <3>1, <3>2
  <2>2. CASE k # m
    <3>1. k \in 0..(m - 1) /\ n + k + 1 \in 1..Len(s)
      BY <1>1, <2>2
    <3>2. At(r, p, Size * k + j) = Byte(s[n + k + 1], j)
      BY <1>h, <3>1 DEF Carries
    <3> QED BY <1>3, <3>1, <3>2
  <2> QED BY <2>1, <2>2
<1>9. Carries(r, p, s2, n, d, 0)
  <2>1. Len(r) + Len(p) = Size * (Len(s2) - n) + 0
    <3>1. Len(r) + Len(p) = Size * (m + 1)
      BY <1>5, <1>6
    <3>2. Len(r) + Len(p) = Size * (m + 1) + 0
      BY <1>1, <3>1
    <3> QED BY <1>7, <3>2
  <2>2. \A k \in 0..(Len(s2) - n - 1), j \in 1..Size :
          At(r, p, Size * k + j) = Byte(s2[n + k + 1], j)
    <3>1. Len(s2) - n - 1 = m
      BY <1>1, <1>7
    <3> QED BY <1>8, <3>1
  <2> QED BY <1>7, <2>1, <2>2 DEF Carries
<1> QED BY <1>9 DEF s2

\* With Size bytes read, these are the first command that was not received.
LEMMA ReadAll ==
  ASSUME NEW r \in Seq(Bytes), NEW p \in Seq(Bytes), NEW s \in Seq(Commands),
         NEW n \in Nat, NEW c, NEW part \in 0..(Size - 1), Len(r) = Size
  PROVE  Carries(r, p, s, n, c, part)
           => /\ n < Len(s)
              /\ r[1] = Byte(s[n + 1], 1)
              /\ Carries(<<>>, p, s, n + 1, c, part)
<1>h. HAVE Carries(r, p, s, n, c, part)
<1> DEFINE m == Len(s) - n
<1>1. /\ Len(r) \in Nat /\ Len(p) \in Nat /\ Len(s) \in Nat
      /\ m \in Nat /\ n <= Len(s) /\ Size \in Nat \ {0}
  BY <1>h, SizeAssumption DEF Carries
<1>2. Len(r) + Len(p) = Size * m + part
  BY <1>h DEF Carries
<1>3. m # 0
  <2>1. SUFFICES ASSUME m = 0 PROVE FALSE
    OBVIOUS
  <2>2. Size * m = 0
    BY <1>1, <2>1
  <2>3. Size + Len(p) = 0 + part
    BY <1>2, <2>2
  <2> QED BY <1>1, <2>3
<1>4. n < Len(s)
  BY <1>1, <1>3
<1>5. r[1] = Byte(s[n + 1], 1)
  <2>1. 0 \in 0..(m - 1) /\ 1 \in 1..Size
    BY <1>1, <1>3
  <2>2. At(r, p, Size * 0 + 1) = Byte(s[n + 0 + 1], 1)
    BY <1>h, <2>1 DEF Carries
  <2>3. Size * 0 + 1 = 1 /\ n + 0 + 1 = n + 1 /\ 1 <= Len(r)
    BY <1>1
  <2> QED BY <2>2, <2>3 DEF At
<1>6. ASSUME NEW i \in Nat \ {0} PROVE At(<<>>, p, i) = At(r, p, Size + i)
  <2>1. Len(<<>>) = 0
    OBVIOUS
  <2>2. ~(i <= 0) /\ ~(Size + i <= Size) /\ (Size + i) - Size = i - 0
    BY <1>1
  <2> QED BY <2>1, <2>2 DEF At
<1>7. Len(s) - (n + 1) = m - 1
  BY <1>1
<1>8. ASSUME NEW k \in 0..(m - 2), NEW j \in 1..Size
      PROVE  At(<<>>, p, Size * k + j) = Byte(s[(n + 1) + k + 1], j)
  <2>1. /\ k + 1 \in 0..(m - 1) /\ n + (k + 1) + 1 = (n + 1) + k + 1
        /\ k \in Nat
    BY <1>1
  <2>2. Size * k + j \in Nat \ {0} /\ Size * (k + 1) + j = Size + (Size * k + j)
    BY <1>1, <2>1
  <2>3. At(r, p, Size * (k + 1) + j) = Byte(s[n + (k + 1) + 1], j)
    BY <1>h, <2>1 DEF Carries
  <2> QED BY <1>6, <2>1, <2>2, <2>3
<1>9. /\ Size * (m - 1) \in Nat
      /\ Size * m = Size + Size * (m - 1)
  BY <1>1, <1>3
<1>10. ASSUME NEW j \in 1..part
       PROVE  At(<<>>, p, Size * (m - 1) + j) = Byte(c, j)
  <2>1. Size * (m - 1) + j \in Nat \ {0}
    BY <1>9
  <2>2. Size * m + j = Size + (Size * (m - 1) + j)
    BY <1>1, <1>9
  <2>3. At(r, p, Size * m + j) = Byte(c, j)
    BY <1>h DEF Carries
  <2> QED BY <1>6, <2>1, <2>2, <2>3
<1>11. Len(<<>>) + Len(p) = Size * (m - 1) + part
  BY <1>1, <1>2, <1>9
<1>12. n + 1 <= Len(s)
  BY <1>1, <1>4
<1>13. Carries(<<>>, p, s, n + 1, c, part)
  <2>1. (m - 1) - 1 = m - 2
    BY <1>1
  <2> QED BY <1>7, <1>8, <1>10, <1>11, <1>12, <2>1 DEF Carries
<1> QED BY <1>4, <1>5, <1>13
-----------------------------------------------------------------------------
(* The same places, by division *)

LEMMA Division ==
  ASSUME NEW z \in Nat \ {0}, NEW x \in Nat
  PROVE  /\ x \div z \in Nat /\ x % z \in 0..(z - 1)
         /\ x = z * (x \div z) + (x % z)
<1>1. x % z \in 0..(z - 1) /\ x \div z \in Int /\ x = z * (x \div z) + (x % z)
  OBVIOUS
<1> DEFINE q == x \div z
           r == x % z
<1>2. r \in 0..(z - 1) /\ q \in Int /\ x = z * q + r
  BY <1>1
<1> HIDE DEF q, r
<1>3. q \in Nat
  <2>1. SUFFICES ASSUME q < 0 PROVE FALSE
    BY <1>2
  <2>2. -q - 1 \in Nat /\ z * q = -(z * (-q - 1)) - z
    BY <1>2, <2>1
  <2>3. z * (-q - 1) \in Nat
    BY <2>2
  <2> QED BY <1>2, <2>2, <2>3
<1>4. x \div z \in Nat
  BY <1>3 DEF q
<1> QED BY <1>1, <1>4

\* There is one way to take a number apart.
LEMMA OneDivision ==
  ASSUME NEW z \in Nat \ {0}, NEW k \in Nat, NEW l \in Nat,
         NEW a \in 0..(z - 1), NEW b \in 0..(z - 1), z * k + a = z * l + b
  PROVE  k = l /\ a = b
<1>1. ASSUME NEW u \in Nat, NEW v \in Nat, u < v, NEW c \in 0..(z - 1), NEW d \in 0..(z - 1)
      PROVE  z * u + c # z * v + d
  <2>1. v - u - 1 \in Nat /\ z * v = z * u + z + z * (v - u - 1)
    BY <1>1
  <2>2. z * (v - u - 1) \in Nat /\ z * u \in Nat
    BY <2>1
  <2> QED BY <2>1, <2>2
<1>2. k = l
  BY <1>1
<1> QED BY <1>2

\* Where the byte i of a stream stands.
LEMMA ByteOfStream ==
  ASSUME NEW r \in Seq(Bytes), NEW p \in Seq(Bytes), NEW s \in Seq(Commands),
         NEW n \in Nat, NEW c \in Commands, NEW part \in 0..(Size - 1),
         Carries(r, p, s, n, c, part), NEW i \in 1..(Len(r) + Len(p))
  PROVE  At(r, p, i) = Byte(IF i <= Size * (Len(s) - n)
                              THEN s[n + ((i - 1) \div Size) + 1] ELSE c,
                            ((i - 1) % Size) + 1)
<1> DEFINE m == Len(s) - n
           k == (i - 1) \div Size
           a == (i - 1) % Size
<1>1. /\ Len(r) \in Nat /\ Len(p) \in Nat /\ Len(s) \in Nat
      /\ m \in Nat /\ Size \in Nat \ {0} /\ i - 1 \in Nat /\ i \in Nat
  BY SizeAssumption DEF Carries
<1>2. k \in Nat /\ a \in 0..(Size - 1) /\ i - 1 = Size * k + a
  BY <1>1, Division
<1>3. Len(r) + Len(p) = Size * m + part
  BY DEF Carries
<1> HIDE DEF k, a
<1>4. CASE i <= Size * m
  <2>1. k \in 0..(m - 1)
    <3>1. SUFFICES ASSUME k - m \in Nat PROVE FALSE
      BY <1>1, <1>2
    <3>2. Size * (k - m) \in Nat /\ Size * k = Size * m + Size * (k - m)
      BY <1>1, <1>2, <3>1
    <3>3. Size * m \in Nat /\ Size * k \in Nat
      BY <1>1, <1>2
    <3>4. \A u, v, w \in Nat : v = u + w /\ i <= u /\ i - 1 = v + a => FALSE
      BY <1>1, <1>2
    <3> QED BY <1>2, <1>4, <3>2, <3>3, <3>4
  <2>2. a + 1 \in 1..Size /\ Size * k + (a + 1) = i
    <3>1. Size * k \in Nat
      BY <1>1, <1>2
    <3> QED BY <1>1, <1>2, <3>1
  <2>3. At(r, p, Size * k + (a + 1)) = Byte(s[n + k + 1], a + 1)
    BY <2>1, <2>2 DEF Carries
  <2> QED BY <1>4, <2>2, <2>3 DEF k, a
<1>5. CASE ~(i <= Size * m)
  <2>1. Size * m \in Nat /\ Size * k \in Nat
    BY <1>1, <1>2
  <2> DEFINE j == i - Size * m
  <2>2. j \in 1..part /\ Size * m + j = i
    BY <1>1, <1>3, <1>5, <2>1
  <2>3. At(r, p, Size * m + j) = Byte(c, j)
    BY <2>2 DEF Carries
  <2> HIDE DEF j
  <2>4. j - 1 \in 0..(Size - 1) /\ Size * m + (j - 1) = Size * k + a
    BY <1>1, <1>2, <2>1, <2>2
  <2>5. j - 1 = a
    BY <1>1, <1>2, <2>4, OneDivision
  <2>6. j = a + 1
    BY <1>2, <2>2, <2>5
  <2> QED BY <1>5, <2>2, <2>3, <2>6 DEF a
<1> QED BY <1>4, <1>5
-----------------------------------------------------------------------------
(* Types *)

CommTyped ==
  /\ life \in {"none", "up", "stopping", "down", "failed"}
  /\ pc \in [Ends -> {"idle", "tx", "rx", "ended"}]
  /\ begun \in [Ends -> 0..MaxSent]
  /\ tx \in [Ends -> [cmd : Commands, left : 0..Size]]
  /\ pipe \in [Ends -> Seq(Bytes)]
  /\ rx \in [Ends -> Seq(Bytes)]
  /\ sent \in [Ends -> Seq(Commands)]
  /\ received \in [Ends -> Seq(Commands)]
  /\ fault \in {"none", "torn"}
  /\ \A e \in Ends : /\ Len(pipe[e]) <= Capacity
                     /\ Len(rx[e]) < Size
                     /\ pc[e] = "tx" => tx[e].left # 0

LEMMA Peers == \A e \in Ends : Peer(e) \in Ends /\ Peer(e) # e /\ Peer(Peer(e)) = e
BY DEF Ends, Peer

\* What one write takes are bytes, in their order.
LEMMA PieceBytes ==
  ASSUME NEW e \in Ends, tx \in [Ends -> [cmd : Commands, left : 0..Size]],
         NEW n \in 1..tx[e].left
  PROVE  /\ Piece(e, n) \in Seq(Bytes)
         /\ Len(Piece(e, n)) = n
         /\ \A i \in 1..n : Piece(e, n)[i] = Byte(tx[e].cmd, Size - tx[e].left + i)
<1>1. tx[e].cmd \in Commands /\ tx[e].left \in 0..Size /\ Size \in Nat /\ n \in Nat
  BY SizeAssumption
<1>2. \A i \in 1..n : Byte(tx[e].cmd, Size - tx[e].left + i) \in Bytes
  BY <1>1 DEF Byte, Bytes
<1> QED BY <1>1, <1>2 DEF Piece

LEMMA CommTypedInit == Init => CommTyped
<1> SUFFICES ASSUME Init PROVE CommTyped
  OBVIOUS
<1>1. /\ <<>> \in Seq(Bytes) /\ <<>> \in Seq(Commands) /\ Len(<<>>) = 0
      /\ Nothing \in [cmd : Commands, left : 0..Size]
  BY SizeAssumption DEF Nothing, Commands, Exit
<1> QED BY <1>1, SizeAssumption, CapacityAssumption DEF Init, CommTyped

LEMMA CommTypedStep == CommTyped /\ [Next]_vars => CommTyped'
<1> SUFFICES ASSUME CommTyped, [Next]_vars PROVE CommTyped'
  OBVIOUS
<1>s. Size \in Nat \ {0} /\ MaxSent \in Nat /\ Commands = 0..MaxSent
  BY SizeAssumption DEF Commands
<1>1. CASE Setup \/ ThreadEnds \/ Teardown
  <2>1. /\ UNCHANGED commVars /\ UNCHANGED fault
        /\ \/ life' \in {"up", "failed", "down"} /\ UNCHANGED pc
           \/ UNCHANGED life /\ pc' = [pc EXCEPT ![1] = "ended"]
    BY <1>1 DEF Setup, ThreadEnds, Teardown, commVars
  <2>2. /\ pc' \in [Ends -> {"idle", "tx", "rx", "ended"}]
        /\ \A e \in Ends : pc'[e] = "tx" => pc[e] = "tx"
    BY <2>1 DEF CommTyped
  <2> QED BY <2>1, <2>2 DEF CommTyped, commVars
<1>2. CASE TxExit
  BY <1>2, <1>s DEF TxExit, TxBegins, Exit, CommTyped, Ends
<1>3. ASSUME NEW e \in Ends, TxCommand(e) PROVE CommTyped'
  <2>1. begun[e] + 1 \in 0..MaxSent /\ begun[e] + 1 \in Commands
    BY <1>3, <1>s DEF TxCommand, CommTyped
  <2> QED BY <1>3, <1>s, <2>1 DEF TxCommand, TxBegins, CommTyped
<1>4. ASSUME NEW e \in Ends, TxWrite(e) PROVE CommTyped'
  <2>1. PICK n \in 1..tx[e].left :
          /\ Len(pipe[e]) + n <= Capacity
          /\ pipe' = [pipe EXCEPT ![e] = @ \o Piece(e, n)]
          /\ \/ /\ n < tx[e].left
                /\ tx' = [tx EXCEPT ![e].left = @ - n]
                /\ UNCHANGED <<pc, sent>>
             \/ /\ n = tx[e].left
                /\ tx' = [tx EXCEPT ![e] = Nothing]
                /\ pc' = [pc EXCEPT ![e] = "idle"]
                /\ sent' = [sent EXCEPT ![e] = Append(@, tx[e].cmd)]
    BY <1>4 DEF TxWrite
  <2>2. /\ pipe[e] \o Piece(e, n) \in Seq(Bytes)
        /\ Len(pipe[e] \o Piece(e, n)) <= Capacity
    <3> DEFINE q == Piece(e, n)
    <3>1. q \in Seq(Bytes) /\ Len(q) = n
      BY <2>1, PieceBytes DEF CommTyped
    <3>2. pipe[e] \in Seq(Bytes)
      BY DEF CommTyped
    <3> HIDE DEF q
    <3>3. pipe[e] \o q \in Seq(Bytes) /\ Len(pipe[e] \o q) = Len(pipe[e]) + Len(q)
      BY <3>1, <3>2, ConcatProperties
    <3>4. Len(pipe[e]) + Len(q) <= Capacity
      BY <2>1, <3>1
    <3> QED BY <3>3, <3>4 DEF q
  <2>3. Append(sent[e], tx[e].cmd) \in Seq(Commands)
    BY AppendProperties DEF CommTyped
  <2>4. Nothing \in [cmd : Commands, left : 0..Size] /\ tx[e].left \in 0..Size
    BY <1>s DEF Nothing, Exit, CommTyped
  <2>5. /\ UNCHANGED <<life, begun, rx, received, fault>>
    BY <1>4 DEF TxWrite
  <2>6. /\ pipe' \in [Ends -> Seq(Bytes)]
        /\ \A x \in Ends : Len(pipe'[x]) <= Capacity
    BY <2>1, <2>2 DEF CommTyped
  <2>7. /\ sent' \in [Ends -> Seq(Commands)]
        /\ pc' \in [Ends -> {"idle", "tx", "rx", "ended"}]
    <3>1. /\ sent' = sent \/ sent' = [sent EXCEPT ![e] = Append(@, tx[e].cmd)]
          /\ pc' = pc \/ pc' = [pc EXCEPT ![e] = "idle"]
      BY <2>1, Zenon
    <3>2. sent' \in [Ends -> Seq(Commands)]
      BY <2>3, <3>1 DEF CommTyped
    <3>3. pc' \in [Ends -> {"idle", "tx", "rx", "ended"}]
      BY <3>1 DEF CommTyped
    <3> QED BY <3>2, <3>3
  <2>8. /\ tx' \in [Ends -> [cmd : Commands, left : 0..Size]]
        /\ \A x \in Ends : pc'[x] = "tx" => tx'[x].left # 0
    <3>1. \/ tx' = [tx EXCEPT ![e].left = @ - n] /\ n < tx[e].left /\ pc' = pc
          \/ tx' = [tx EXCEPT ![e] = Nothing] /\ pc' = [pc EXCEPT ![e] = "idle"]
      BY <2>1, Zenon
    <3>2. n \in Nat \ {0} /\ tx[e].left \in Nat /\ tx[e].left <= Size
      BY <1>s, <2>4
    <3>3. CASE tx' = [tx EXCEPT ![e].left = @ - n] /\ n < tx[e].left /\ pc' = pc
      <4>1. tx[e].left - n \in 0..Size /\ tx[e].left - n # 0
        BY <1>s, <3>2, <3>3
      <4> QED BY <3>3, <4>1 DEF CommTyped
    <3>4. CASE tx' = [tx EXCEPT ![e] = Nothing] /\ pc' = [pc EXCEPT ![e] = "idle"]
      BY <2>4, <3>4 DEF CommTyped
    <3> QED BY <3>1, <3>3, <3>4
  <2> QED BY <2>5, <2>6, <2>7, <2>8 DEF CommTyped
<1>5. ASSUME NEW e \in Ends, TxFails(e) PROVE CommTyped'
  <2>1. Nothing \in [cmd : Commands, left : 0..Size]
    BY <1>s DEF Nothing, Exit
  <2> QED BY <1>5, <2>1 DEF TxFails, LeftAfter, CommTyped
<1>6. ASSUME NEW e \in Ends, RxBegins(e) PROVE CommTyped'
  BY <1>6 DEF RxBegins, commVars, CommTyped
<1>7. ASSUME NEW e \in Ends, RxFails(e) PROVE CommTyped'
  <2>1. <<>> \in Seq(Bytes) /\ Len(<<>>) = 0
    OBVIOUS
  <2> QED BY <1>7, <1>s, <2>1 DEF RxFails, LeftAfter, CommTyped
<1>8. ASSUME NEW e \in Ends, RxRead(e) PROVE CommTyped'
  <2> DEFINE d == Peer(e)
  <2>1. PICK n \in 1..Len(pipe[d]) :
          LET bytes == rx[e] \o SubSeq(pipe[d], 1, n)
          IN /\ Len(bytes) <= Size
             /\ pipe' = [pipe EXCEPT ![d] = SubSeq(@, n + 1, Len(@))]
             /\ \/ /\ Len(bytes) < Size
                   /\ rx' = [rx EXCEPT ![e] = bytes]
                   /\ UNCHANGED <<pc, received>>
                \/ /\ Len(bytes) = Size
                   /\ RxEnds(e, bytes)
    BY <1>8 DEF RxRead
  <2> DEFINE bytes == rx[e] \o SubSeq(pipe[d], 1, n)
             rest  == SubSeq(pipe[d], n + 1, Len(pipe[d]))
  <2>2. d \in Ends /\ pipe[d] \in Seq(Bytes) /\ rx[e] \in Seq(Bytes)
    BY Peers DEF CommTyped
  <2>3. /\ bytes \in Seq(Bytes) /\ rest \in Seq(Bytes)
        /\ Len(rest) = Len(pipe[d]) - n
    BY <2>1, <2>2, AtRead
  <2>4. UNCHANGED <<life, begun, tx, sent, fault>> /\ pipe' = [pipe EXCEPT ![d] = rest]
    BY <1>8, <2>1 DEF RxRead
  <2>5. \/ /\ Len(bytes) < Size
           /\ rx' = [rx EXCEPT ![e] = bytes]
           /\ UNCHANGED <<pc, received>>
        \/ /\ Len(bytes) = Size
           /\ rx' = [rx EXCEPT ![e] = <<>>]
           /\ received' = [received EXCEPT ![d] = Append(@, bytes[1].cmd)]
           /\ \E next \in {"ended", "idle"} : pc' = [pc EXCEPT ![e] = next]
    BY <2>1 DEF RxEnds
  <2>6. Len(bytes) = Size => bytes[1].cmd \in Commands
    <3>1. Len(bytes) = Size => bytes[1] \in Bytes
      BY <1>s, <2>3, ElementOfSeq
    <3> QED BY <3>1 DEF Bytes
  <2> HIDE DEF bytes, rest, d
  <2>7. /\ pipe' \in [Ends -> Seq(Bytes)]
        /\ \A x \in Ends : Len(pipe'[x]) <= Capacity
    <3>1. Len(rest) <= Capacity
      BY <2>1, <2>2, <2>3, CapacityAssumption DEF CommTyped
    <3> QED BY <2>2, <2>3, <2>4, <3>1 DEF CommTyped
  <2>8. /\ rx' \in [Ends -> Seq(Bytes)]
        /\ \A x \in Ends : Len(rx'[x]) < Size
    <3>1. <<>> \in Seq(Bytes) /\ Len(<<>>) = 0
      OBVIOUS
    <3>2. \E b \in Seq(Bytes) : Len(b) < Size /\ rx' = [rx EXCEPT ![e] = b]
      <4>1. CASE Len(bytes) < Size /\ rx' = [rx EXCEPT ![e] = bytes]
        BY <2>3, <4>1
      <4>2. CASE rx' = [rx EXCEPT ![e] = <<>>]
        <5> DEFINE empty == <<>>
        <5>1. empty \in Seq(Bytes) /\ Len(empty) < Size /\ rx' = [rx EXCEPT ![e] = empty]
          BY <1>s, <3>1, <4>2
        <5> HIDE DEF empty
        <5> QED BY <5>1
      <4> QED BY <2>5, <4>1, <4>2
    <3> QED BY <3>2 DEF CommTyped
  <2>9. received' \in [Ends -> Seq(Commands)]
    <3>1. Len(bytes) = Size => Append(received[d], bytes[1].cmd) \in Seq(Commands)
      BY <2>2, <2>6, AppendProperties DEF CommTyped
    <3> QED BY <2>2, <2>5, <3>1 DEF CommTyped
  <2>10. /\ pc' \in [Ends -> {"idle", "tx", "rx", "ended"}]
         /\ \A x \in Ends : pc'[x] = "tx" => tx'[x].left # 0
    BY <2>4, <2>5 DEF CommTyped
  <2> QED BY <2>4, <2>7, <2>8, <2>9, <2>10 DEF CommTyped
<1>9. CASE UNCHANGED vars
  BY <1>9 DEF vars, commVars, CommTyped
<1> QED
  BY <1>1, <1>2, <1>3, <1>4, <1>5, <1>6, <1>7, <1>8, <1>9 DEF Next, Transfer, Over

LEMMA CommTypedInvariant == Spec => []CommTyped
BY CommTypedInit, CommTypedStep, PTL DEF Spec

\* Every variable keeps its type: above all, no read goes beyond the buffer for a
\* command, and no byte is written that is not of one.
THEOREM TypeOKHolds == Spec => []TypeOK
<1>1. CommTyped => TypeOK
  <2> SUFFICES ASSUME CommTyped, NEW e \in Ends
               PROVE  Range(pipe[e]) \cup Range(rx[e]) \subseteq Bytes
    BY DEF CommTyped, TypeOK, Bytes
  <2>1. pipe[e] \in Seq(Bytes) /\ rx[e] \in Seq(Bytes)
    BY DEF CommTyped
  <2> QED BY <2>1 DEF Range
<1> QED BY <1>1, CommTypedInvariant, PTL
-----------------------------------------------------------------------------
(* What the streams carry *)

Part(e)    == IF pc[e] = "tx" THEN Size - tx[e].left ELSE 0
Between(e) == Carries(rx[Peer(e)], pipe[e], sent[e], Len(received[e]), tx[e].cmd, Part(e))
CommShape  == fault = "none" => \A e \in Ends : Between(e)

LEMMA Parts ==
  ASSUME CommTyped, NEW e \in Ends
  PROVE  Part(e) \in 0..(Size - 1)
<1>1. tx[e].left \in 0..Size /\ (pc[e] = "tx" => tx[e].left # 0)
  BY DEF CommTyped
<1> QED BY <1>1, SizeAssumption DEF Part

\* Of a command of which nothing is written it does not matter which it is.
LEMMA NoPart ==
  ASSUME NEW r, NEW p, NEW s, NEW n, NEW c, NEW d, Carries(r, p, s, n, c, 0)
  PROVE  Carries(r, p, s, n, d, 0)
BY DEF Carries

\* A step that moves no byte, and begins or gives up no more than a command of
\* which nothing is written.
LEMMA Unmoved ==
  ASSUME NEW e \in Ends, Between(e),
         rx'[Peer(e)] = rx[Peer(e)], pipe'[e] = pipe[e], sent'[e] = sent[e],
         received'[e] = received[e], Part(e)' = Part(e),
         Part(e) = 0 \/ tx'[e].cmd = tx[e].cmd
  PROVE  Between(e)'
<1>1. Between(e)' = Carries(rx[Peer(e)], pipe[e], sent[e], Len(received[e]),
                            tx'[e].cmd, Part(e))
  BY DEF Between
<1>2. CASE tx'[e].cmd = tx[e].cmd
  BY <1>1, <1>2 DEF Between
<1>3. CASE Part(e) = 0
  <2>1. Carries(rx[Peer(e)], pipe[e], sent[e], Len(received[e]), tx[e].cmd, 0)
    BY <1>3 DEF Between
  <2> QED BY <1>1, <1>3, <2>1, NoPart
<1> QED BY <1>2, <1>3

LEMMA WriteStep ==
  ASSUME CommTyped, CommShape, NEW e \in Ends, TxWrite(e)
  PROVE  CommShape' /\ (Fifo!Send(e) \/ UNCHANGED <<sent, received>>)
<1> DEFINE r    == rx[Peer(e)]
           p    == pipe[e]
           s    == sent[e]
           m    == Len(received[e])
           c    == tx[e].cmd
           left == tx[e].left
           part == Size - left
<1>1. PICK n \in 1..left :
        /\ pipe' = [pipe EXCEPT ![e] = @ \o Piece(e, n)]
        /\ \/ /\ n < left
              /\ tx' = [tx EXCEPT ![e].left = @ - n]
              /\ UNCHANGED <<pc, sent>>
           \/ /\ n = left
              /\ tx' = [tx EXCEPT ![e] = Nothing]
              /\ pc' = [pc EXCEPT ![e] = "idle"]
              /\ sent' = [sent EXCEPT ![e] = Append(@, c)]
  BY DEF TxWrite
<1>2. /\ fault = "none" /\ pc[e] = "tx"
      /\ UNCHANGED <<life, begun, rx, received, fault>>
  BY DEF TxWrite
<1>3. /\ r \in Seq(Bytes) /\ p \in Seq(Bytes) /\ s \in Seq(Commands)
      /\ m \in Nat /\ c \in Commands /\ left \in 0..Size /\ left # 0
      /\ Size \in Nat
  BY <1>2, Peers, SizeAssumption DEF CommTyped
<1>4. part \in Nat
  BY <1>3
<1> DEFINE q == Piece(e, n)
<1>5. /\ q \in Seq(Bytes) /\ Len(q) = n
      /\ \A i \in 1..n : q[i] = Byte(c, part + i)
  BY <1>1, PieceBytes DEF CommTyped
<1>6. Carries(r, p, s, m, c, part)
  BY <1>2 DEF CommShape, Between, Part
<1> HIDE DEF q
<1>7. Carries(r, p \o q, s, m, c, part + n)
  BY <1>3, <1>4, <1>5, <1>6, WriteSome
<1>8. /\ pipe' = [pipe EXCEPT ![e] = p \o q]
      /\ pipe'[e] = p \o q
  BY <1>1 DEF q, CommTyped
<1>9. ASSUME NEW d \in Ends, d # e PROVE Between(d)'
  <2>1. /\ rx'[Peer(d)] = rx[Peer(d)] /\ received'[d] = received[d]
    BY <1>2
  <2>2. pipe'[d] = pipe[d]
    BY <1>8, <1>9 DEF CommTyped
  <2>3. sent'[d] = sent[d] /\ tx'[d] = tx[d] /\ pc'[d] = pc[d]
    BY <1>1, <1>9 DEF CommTyped
  <2>4. Between(d)
    BY <1>2 DEF CommShape
  <2>5. Part(d)' = Part(d)
    BY <2>3 DEF Part
  <2> QED BY <2>1, <2>2, <2>3, <2>4, <2>5, Unmoved
<1>10. Between(e)' = Carries(r, p \o q, sent'[e], m, tx'[e].cmd, Part(e)')
  BY <1>2, <1>8 DEF Between
<1>11. CASE /\ n < left
            /\ tx' = [tx EXCEPT ![e].left = @ - n]
            /\ UNCHANGED <<pc, sent>>
  <2>1. tx'[e].cmd = c /\ tx'[e].left = left - n
    BY <1>11 DEF CommTyped
  <2>2. Part(e)' = part + n
    <3>1. Size - (left - n) = Size - left + n
      BY <1>1, <1>3
    <3> QED BY <1>2, <1>11, <2>1, <3>1 DEF Part
  <2>3. Between(e)'
    BY <1>7, <1>10, <1>11, <2>1, <2>2
  <2> QED BY <1>2, <1>9, <1>11, <2>3 DEF CommShape
<1>12. CASE /\ n = left
            /\ tx' = [tx EXCEPT ![e] = Nothing]
            /\ pc' = [pc EXCEPT ![e] = "idle"]
            /\ sent' = [sent EXCEPT ![e] = Append(@, c)]
  <2>1. part + n = Size
    BY <1>3, <1>12
  <2>2. Carries(r, p \o q, Append(s, c), m, Nothing.cmd, 0)
    <3>1. p \o q \in Seq(Bytes)
      BY <1>3, <1>5, ConcatProperties
    <3>2. Carries(r, p \o q, s, m, c, Size)
      BY <1>7, <2>1
    <3> QED BY <1>3, <3>1, <3>2, WroteAll
  <2>3. tx'[e] = Nothing /\ sent'[e] = Append(s, c) /\ Part(e)' = 0
    BY <1>12 DEF CommTyped, Part
  <2>4. Between(e)'
    BY <1>10, <2>2, <2>3
  <2>5. Fifo!Send(e)
    BY <1>2, <1>3, <1>12 DEF Fifo!Send
  <2> QED BY <1>2, <1>9, <2>4, <2>5 DEF CommShape
<1> QED BY <1>1, <1>11, <1>12

LEMMA ReadStep ==
  ASSUME CommTyped, CommShape, NEW e \in Ends, RxRead(e)
  PROVE  CommShape' /\ (Fifo!Receive(Peer(e)) \/ UNCHANGED <<sent, received>>)
<1> DEFINE d    == Peer(e)
           r    == rx[e]
           p    == pipe[d]
           s    == sent[d]
           m    == Len(received[d])
           c    == tx[d].cmd
           part == Part(d)
<1>1. PICK n \in 1..Len(p) :
        LET bytes == r \o SubSeq(p, 1, n)
        IN /\ pipe' = [pipe EXCEPT ![d] = SubSeq(@, n + 1, Len(@))]
           /\ \/ /\ rx' = [rx EXCEPT ![e] = bytes]
                 /\ UNCHANGED <<pc, received>>
              \/ /\ Len(bytes) = Size
                 /\ RxEnds(e, bytes)
  BY DEF RxRead
<1> DEFINE bytes == r \o SubSeq(p, 1, n)
           rest  == SubSeq(p, n + 1, Len(p))
<1>2. /\ fault = "none" /\ pc[e] = "rx"
      /\ UNCHANGED <<life, begun, tx, sent, fault>>
      /\ pipe' = [pipe EXCEPT ![d] = rest]
  BY <1>1 DEF RxRead
<1>3. d \in Ends /\ d # e /\ Peer(d) = e /\ Ends = {d, e}
  BY Peers DEF Ends, Peer
<1>4. /\ r \in Seq(Bytes) /\ p \in Seq(Bytes) /\ s \in Seq(Commands)
      /\ m \in Nat /\ c \in Commands /\ part \in Nat /\ part \in 0..(Size - 1)
  BY <1>3, Parts DEF CommTyped
<1>5. Carries(r, p, s, m, c, part)
  BY <1>2, <1>3 DEF CommShape, Between
<1>6. Carries(bytes, rest, s, m, c, part) /\ bytes \in Seq(Bytes) /\ rest \in Seq(Bytes)
  BY <1>1, <1>4, <1>5, ReadSome, AtRead
<1>7. \/ /\ rx' = [rx EXCEPT ![e] = bytes]
         /\ UNCHANGED <<pc, received>>
      \/ /\ Len(bytes) = Size
         /\ rx' = [rx EXCEPT ![e] = <<>>]
         /\ received' = [received EXCEPT ![d] = Append(@, bytes[1].cmd)]
         /\ \E next \in {"ended", "idle"} : pc' = [pc EXCEPT ![e] = next]
  BY <1>1 DEF RxEnds
<1> HIDE DEF bytes, rest, d
\* The other direction.
<1>8. Between(e)'
  <2>1. rx'[Peer(e)] = rx[Peer(e)] /\ pipe'[e] = pipe[e] /\ received'[e] = received[e]
    <3>1. Peer(e) # e
      BY Peers
    <3>2. rx'[Peer(e)] = rx[Peer(e)]
      BY <1>7, <3>1, Peers DEF CommTyped
    <3>3. pipe'[e] = pipe[e] /\ received'[e] = received[e]
      BY <1>2, <1>3, <1>7 DEF CommTyped
    <3> QED BY <3>2, <3>3
  <2>2. sent'[e] = sent[e] /\ tx'[e] = tx[e]
    BY <1>2
  <2>3. Part(e)' = 0 /\ Part(e) = 0
    BY <1>2, <1>7 DEF Part, CommTyped
  <2>4. Between(e)
    BY <1>2 DEF CommShape
  <2> QED BY <2>1, <2>2, <2>3, <2>4, Unmoved
<1>9. pipe'[d] = rest /\ sent'[d] = s /\ tx'[d] = tx[d] /\ rx'[Peer(d)] = rx'[e]
  BY <1>2, <1>3 DEF CommTyped
<1>10. Part(d)' = part
  <2>1. pc'[d] = pc[d]
    BY <1>3, <1>7 DEF CommTyped
  <2> QED BY <1>9, <2>1 DEF Part
<1>11. Between(d)' = Carries(rx'[e], rest, s, Len(received'[d]), c, part)
  BY <1>9, <1>10 DEF Between
<1>12. CASE /\ rx' = [rx EXCEPT ![e] = bytes]
            /\ UNCHANGED <<pc, received>>
  <2>1. Between(d)'
    BY <1>6, <1>11, <1>12 DEF CommTyped
  <2> QED BY <1>2, <1>3, <1>8, <1>12, <2>1 DEF CommShape
<1>13. CASE /\ Len(bytes) = Size
            /\ rx' = [rx EXCEPT ![e] = <<>>]
            /\ received' = [received EXCEPT ![d] = Append(@, bytes[1].cmd)]
  <2>1. /\ m < Len(s)
        /\ bytes[1] = Byte(s[m + 1], 1)
        /\ Carries(<<>>, rest, s, m + 1, c, part)
    BY <1>4, <1>6, <1>13, ReadAll
  <2>2. bytes[1].cmd = s[m + 1]
    BY <2>1 DEF Byte
  <2>3. received'[d] = Append(received[d], s[m + 1]) /\ rx'[e] = <<>>
    BY <1>3, <1>13, <2>2 DEF CommTyped
  <2>4. Len(received'[d]) = m + 1
    BY <1>3, <2>3 DEF CommTyped
  <2>5. Between(d)'
    BY <1>11, <2>1, <2>3, <2>4
  <2>6. Fifo!Receive(d)
    BY <1>2, <1>13, <2>1, <2>2 DEF Fifo!Receive
  <2> QED BY <1>2, <1>3, <1>8, <2>5, <2>6 DEF CommShape, d
<1> QED BY <1>7, <1>12, <1>13
-----------------------------------------------------------------------------
LEMMA CommShapeInit == Init => CommShape
<1> SUFFICES ASSUME Init, NEW e \in Ends PROVE Between(e)
  BY DEF CommShape
<1>1. /\ rx[Peer(e)] = <<>> /\ pipe[e] = <<>> /\ sent[e] = <<>>
      /\ received[e] = <<>> /\ Part(e) = 0
  BY Peers DEF Init, Part
<1>2. Len(<<>>) = 0 /\ Size * 0 = 0 /\ Size \in Nat
  BY SizeAssumption
<1> QED BY <1>1, <1>2 DEF Between, Carries

LEMMA CommShapeStep ==
  CommTyped /\ CommShape /\ [Next]_vars
    => CommShape' /\ [Fifo!Next]_<<sent, received>>
<1> SUFFICES ASSUME CommTyped, CommShape, [Next]_vars
             PROVE  CommShape' /\ [Fifo!Next]_<<sent, received>>
  OBVIOUS
\* It is enough that no byte is moved, unless the stream is torn.
<1> DEFINE Quiet == /\ UNCHANGED <<pipe, sent, received>>
                    /\ fault' = "none" =>
                         /\ fault = "none"
                         /\ \A e \in Ends :
                              /\ rx'[e] = rx[e] /\ Part(e)' = Part(e)
                              /\ Part(e) = 0 \/ tx'[e].cmd = tx[e].cmd
<1>q. Quiet => CommShape' /\ [Fifo!Next]_<<sent, received>>
  BY Peers, Unmoved DEF CommShape
<1>1. CASE Setup \/ Teardown
  BY <1>1, <1>q DEF Setup, Teardown, commVars, Part
<1>2. CASE ThreadEnds
  <2>1. /\ UNCHANGED <<pipe, sent, received, rx, tx, fault>>
        /\ pc[1] = "idle" /\ pc' = [pc EXCEPT ![1] = "ended"]
    BY <1>2 DEF ThreadEnds, commVars
  <2>2. \A e \in Ends : Part(e)' = Part(e)
    BY <2>1 DEF Part, CommTyped
  <2> QED BY <1>q, <2>1, <2>2
<1>3. ASSUME NEW e \in Ends, NEW c, TxBegins(e, c) PROVE Quiet
  <2>1. /\ UNCHANGED <<pipe, sent, received, rx, fault>>
        /\ pc[e] = "idle" /\ pc' = [pc EXCEPT ![e] = "tx"]
        /\ tx' = [tx EXCEPT ![e] = [cmd |-> c, left |-> Size]]
    BY <1>3 DEF TxBegins
  <2>2. ASSUME NEW x \in Ends
        PROVE  Part(x)' = Part(x) /\ (Part(x) = 0 \/ tx'[x].cmd = tx[x].cmd)
    <3>1. CASE x = e
      <4>1. Size - Size = 0
        BY SizeAssumption
      <4>2. tx'[e].left = Size /\ pc'[e] = "tx"
        BY <2>1 DEF CommTyped
      <4> QED BY <2>1, <3>1, <4>1, <4>2 DEF Part
    <3>2. CASE x # e
      BY <2>1, <3>2 DEF Part, CommTyped
    <3> QED BY <3>1, <3>2
  <2> QED BY <2>1, <2>2
<1>4. ASSUME NEW e \in Ends, TxFails(e) PROVE Quiet
  <2>1. /\ UNCHANGED <<pipe, sent, received, rx>>
        /\ pc[e] = "tx" /\ pc' = [pc EXCEPT ![e] = "idle"]
        /\ tx' = [tx EXCEPT ![e] = Nothing]
        /\ fault = "none" /\ fault' = LeftAfter(Size - tx[e].left)
    BY <1>4 DEF TxFails
  <2>2. ASSUME fault' = "none", NEW x \in Ends
        PROVE  Part(x)' = Part(x) /\ (Part(x) = 0 \/ tx'[x].cmd = tx[x].cmd)
    <3>1. CASE x = e
      <4>1. Part(e) = 0
        BY <2>1, <2>2 DEF LeftAfter, Part
      <4>2. pc'[e] = "idle"
        BY <2>1 DEF CommTyped
      <4> QED BY <3>1, <4>1, <4>2 DEF Part
    <3>2. CASE x # e
      BY <2>1, <3>2 DEF Part, CommTyped
    <3> QED BY <3>1, <3>2
  <2> QED BY <2>1, <2>2
<1>5. ASSUME NEW e \in Ends, RxBegins(e) PROVE Quiet
  <2>1. /\ UNCHANGED <<pipe, sent, received, rx, tx, fault>>
        /\ pc[e] = "idle"
        /\ pc' = [pc EXCEPT ![e] = "rx"] \/ UNCHANGED pc
    BY <1>5 DEF RxBegins, commVars
  <2>2. \A x \in Ends : Part(x)' = Part(x)
    BY <2>1 DEF Part, CommTyped
  <2> QED BY <2>1, <2>2
<1>6. ASSUME NEW e \in Ends, RxFails(e) PROVE Quiet
  <2>1. /\ UNCHANGED <<pipe, sent, received, tx>>
        /\ pc[e] = "rx" /\ pc' = [pc EXCEPT ![e] = "idle"]
        /\ rx' = [rx EXCEPT ![e] = <<>>]
        /\ fault = "none" /\ fault' = LeftAfter(Len(rx[e]))
    BY <1>6 DEF RxFails
  <2>2. \A x \in Ends : Part(x)' = Part(x)
    BY <2>1 DEF Part, CommTyped
  <2>3. fault' = "none" => rx[e] = <<>>
    <3>1. fault' = "none" => Len(rx[e]) = 0
      BY <2>1 DEF LeftAfter
    <3>2. rx[e] \in Seq(Bytes)
      BY DEF CommTyped
    <3> QED BY <3>1, <3>2, EmptySeq
  <2>4. fault' = "none" => \A x \in Ends : rx'[x] = rx[x]
    BY <2>1, <2>3 DEF CommTyped
  <2> QED BY <2>1, <2>2, <2>4
<1>7. CASE UNCHANGED vars
  BY <1>7, <1>q DEF vars, commVars, Part
<1>8. ASSUME NEW e \in Ends, TxWrite(e) \/ RxRead(e)
      PROVE  CommShape' /\ [Fifo!Next]_<<sent, received>>
  BY <1>8, Peers, WriteStep, ReadStep DEF Fifo!Next
<1>9. CASE TxExit \/ \E e \in Ends : TxCommand(e)
  <2>1. \E e \in Ends, c \in Int : TxBegins(e, c)
    BY <1>9 DEF TxExit, TxCommand, Ends, Exit, CommTyped
  <2> QED BY <1>3, <1>q, <2>1
<1> HIDE DEF Quiet
<1> QED
  BY <1>q, <1>1, <1>2, <1>4, <1>5, <1>6, <1>7, <1>8, <1>9 DEF Next, Transfer, Over

LEMMA CommShapeInvariant == Spec => []CommShape
BY CommShapeInit, CommShapeStep, CommTypedInvariant, PTL DEF Spec

\* av_thread_txcmd and av_thread_rxcmd, over a pair of sockets, are the queue of
\* commands that the program takes them for: with any cut of the writes and the
\* reads, and up to the failure that tears a stream, the commands received are
\* the first of those sent.
THEOREM ImplementsFifoHolds == Spec => ImplementsFifo
<1>1. Init => Fifo!Init
  BY DEF Init, Fifo!Init
<1> QED
  BY <1>1, CommShapeStep, CommTypedInvariant, CommShapeInvariant, PTL
     DEF Spec, ImplementsFifo, Fifo!Spec

\* Between the two loops are the commands that have not been received, end to
\* end, and the written part of the last, whatever the writes and reads return.
THEOREM StreamOfCommandsHolds == Spec => []StreamOfCommands
<1>1. CommTyped /\ CommShape => StreamOfCommands
  <2> SUFFICES ASSUME CommTyped, CommShape, fault = "none", NEW e \in Ends
               PROVE  LET whole == Size * Pending(e)
                          part  == IF pc[e] = "tx" THEN Size - tx[e].left ELSE 0
                          place(i) == ((i - 1) % Size) + 1
                          owner(i) == IF i <= whole
                                        THEN sent[e][Len(received[e]) + ((i - 1) \div Size) + 1]
                                        ELSE tx[e].cmd
                      IN /\ Len(Stream(e)) = whole + part
                         /\ \A i \in DOMAIN Stream(e) : Stream(e)[i] = Byte(owner(i), place(i))
    BY DEF StreamOfCommands
  <2> DEFINE r == rx[Peer(e)]
             p == pipe[e]
             s == sent[e]
             n == Len(received[e])
             c == tx[e].cmd
  <2>1. /\ r \in Seq(Bytes) /\ p \in Seq(Bytes) /\ s \in Seq(Commands)
        /\ n \in Nat /\ c \in Commands /\ Part(e) \in 0..(Size - 1)
    BY Peers, Parts DEF CommTyped
  <2>2. Carries(r, p, s, n, c, Part(e))
    BY DEF CommShape, Between
  <2>3. /\ Len(r) \in Nat /\ Len(p) \in Nat
        /\ Len(r \o p) = Len(r) + Len(p)
        /\ DOMAIN (r \o p) = 1..(Len(r) + Len(p))
        /\ \A i \in 1..(Len(r) + Len(p)) : (r \o p)[i] = At(r, p, i)
    <3>1. Len(r) \in Nat /\ Len(p) \in Nat
      BY <2>1
    <3>2. /\ r \o p \in Seq(Bytes) /\ Len(r \o p) = Len(r) + Len(p)
          /\ \A i \in 1..(Len(r) + Len(p)) :
               (r \o p)[i] = IF i <= Len(r) THEN r[i] ELSE p[i - Len(r)]
      BY <2>1, ConcatProperties
    <3>3. DOMAIN (r \o p) = 1..Len(r \o p)
      BY <3>2
    <3> QED BY <3>1, <3>2, <3>3 DEF At
  <2> HIDE DEF r, p, s, n, c
  <2>4. \A i \in 1..(Len(r) + Len(p)) :
          At(r, p, i) = Byte(IF i <= Size * (Len(s) - n)
                               THEN s[n + ((i - 1) \div Size) + 1] ELSE c,
                             ((i - 1) % Size) + 1)
    BY <2>1, <2>2, ByteOfStream, ZenonT(30)
  <2>5. Len(r) + Len(p) = Size * (Len(s) - n) + Part(e)
    BY <2>2 DEF Carries
  <2> QED BY <2>3, <2>4, <2>5 DEF Stream, Pending, Part, r, p, s, n, c
<1> QED BY <1>1, CommTypedInvariant, CommShapeInvariant, PTL
-----------------------------------------------------------------------------
(* The space in a socket *)

\* What an end that is writing has sent and the other has not received: the exit
\* command, which is the last, may come on top of the others.
PendingShape ==
  /\ life \in {"none", "up"} => Pending(0) <= MaxPending
  /\ \A e \in Ends :
       pc[e] = "tx" =>
         /\ Pending(e) <= MaxPending
         /\ e = 1 \/ life \in {"none", "up"} => Pending(e) < MaxPending

\* A torn stream moves no more.
WaitShape == PendingShape /\ (fault # "none" => WritesDoNotWait)

LEMMA RoomToWrite ==
  CommTyped /\ CommShape /\ WaitShape => WritesDoNotWait
<1> SUFFICES ASSUME CommTyped, CommShape, WaitShape, fault = "none",
                    NEW e \in Ends, pc[e] = "tx"
             PROVE  Len(pipe[e]) < Capacity
  BY DEF WaitShape, WritesDoNotWait
<1>1. /\ Len(pipe[e]) \in Nat /\ Len(rx[Peer(e)]) \in Nat
      /\ Pending(e) \in Int /\ Pending(e) <= MaxPending
      /\ Part(e) \in 0..(Size - 1) /\ Size \in Nat \ {0} /\ MaxPending \in Nat
  <2>1. Len(pipe[e]) \in Nat /\ Len(rx[Peer(e)]) \in Nat
    BY Peers DEF CommTyped
  <2>2. Pending(e) \in Int
    BY DEF CommTyped, Pending
  <2>3. Pending(e) <= MaxPending
    BY DEF WaitShape, PendingShape
  <2> QED BY <2>1, <2>2, <2>3, Parts, SizeAssumption, CapacityAssumption
<1>2. Len(rx[Peer(e)]) + Len(pipe[e]) = Size * Pending(e) + Part(e)
  BY DEF CommShape, Between, Carries, Pending
<1>3. Size * Pending(e) <= MaxPending * Size
  <2> DEFINE rest == MaxPending - Pending(e)
  <2>1. rest \in Nat /\ MaxPending = Pending(e) + rest
    BY <1>1
  <2>2. Size * rest \in Nat
    BY <1>1, <2>1
  <2>3. MaxPending * Size = Size * Pending(e) + Size * rest
    BY <1>1, <2>1
  <2> HIDE DEF rest
  <2>4. Size * Pending(e) \in Int /\ Size * rest \in Nat
    BY <1>1, <2>2
  <2> QED BY <2>3, <2>4
<1>4. MaxPending * Size + Size <= Capacity /\ Capacity \in Nat
  BY <1>1, CapacityAssumption
<1>5. \A a, b, w, v, part \in Int :
        /\ a + b = w + part /\ a >= 0 /\ part < Size
        /\ w <= v /\ v + Size <= Capacity
        => b < Capacity
  BY <1>1, <1>4
<1>6. Size * Pending(e) \in Int /\ MaxPending * Size \in Int
  BY <1>1
<1>7. PICK w \in Int : w = Size * Pending(e)
  BY <1>6
<1>8. PICK v \in Int : v = MaxPending * Size
  BY <1>6
<1>9. /\ Len(rx[Peer(e)]) + Len(pipe[e]) = w + Part(e)
      /\ w <= v /\ v + Size <= Capacity
  BY <1>2, <1>3, <1>4, <1>7, <1>8
<1>10. /\ Len(pipe[e]) \in Int /\ Len(rx[Peer(e)]) \in Int /\ Part(e) \in Int
       /\ Len(rx[Peer(e)]) >= 0 /\ Part(e) < Size
  BY <1>1
<1> QED BY <1>5, <1>9, <1>10

LEMMA WaitShapeInit == Init => WaitShape
<1> SUFFICES ASSUME Init PROVE WaitShape
  OBVIOUS
<1>1. Pending(0) = 0
  BY DEF Init, Pending, Ends
<1> QED BY <1>1, CapacityAssumption DEF Init, WaitShape, PendingShape

LEMMA WaitShapeStep ==
  CommTyped /\ CommShape /\ WaitShape /\ [Next]_vars => WaitShape'
<1> SUFFICES ASSUME CommTyped, CommShape, WaitShape, [Next]_vars
             PROVE  WaitShape'
  OBVIOUS
<1>t. /\ \A e \in Ends : Pending(e) \in Int
      /\ MaxPending \in Nat /\ 0 \in Ends /\ 1 \in Ends
  BY CapacityAssumption DEF CommTyped, Pending, Ends
<1>w. WritesDoNotWait
  BY RoomToWrite
\* A step that begins no write and ends none.
<1> DEFINE Calm == /\ UNCHANGED <<sent, received>>
                   /\ life' \in {"none", "up"} => life \in {"none", "up"}
                   /\ \A e \in Ends : pc'[e] = "tx" => pc[e] = "tx"
                   /\ pipe' = pipe
<1>q. ASSUME Calm PROVE WaitShape'
  <2>1. \A e \in Ends : Pending(e)' = Pending(e)
    BY <1>q DEF Pending
  <2>2. WritesDoNotWait'
    BY <1>q, <1>w DEF WritesDoNotWait
  <2>3. PendingShape'
    BY <1>q, <1>t, <2>1 DEF WaitShape, PendingShape
  <2> QED BY <2>2, <2>3 DEF WaitShape
<1>1. CASE Setup
  BY <1>1, <1>q DEF Setup, commVars
<1>2. CASE ThreadEnds \/ Teardown
  <2>1. /\ UNCHANGED <<pipe, sent, received>>
        /\ life' = life \/ life' = "down"
        /\ pc' = pc \/ pc' = [pc EXCEPT ![1] = "ended"]
    BY <1>2 DEF ThreadEnds, Teardown, commVars
  <2>2. \A x \in Ends : pc'[x] = "tx" => pc[x] = "tx"
    BY <2>1 DEF CommTyped
  <2> QED BY <1>q, <2>1, <2>2
<1>3. CASE UNCHANGED vars
  BY <1>3, <1>q DEF vars, commVars
<1>4. ASSUME NEW e \in Ends, TxFails(e) \/ RxFails(e) \/ RxBegins(e)
      PROVE  WaitShape'
  BY <1>4, <1>q DEF TxFails, RxFails, RxBegins, commVars, CommTyped
<1>5. CASE TxExit
  <2>1. /\ UNCHANGED <<pipe, sent, received, fault>>
        /\ fault = "none" /\ life = "up" /\ life' = "stopping"
        /\ pc' = [pc EXCEPT ![0] = "tx"]
    BY <1>5 DEF TxExit, TxBegins, Alive
  <2>2. \A e \in Ends : Pending(e)' = Pending(e)
    BY <2>1 DEF Pending
  <2>3. PendingShape'
    BY <1>t, <2>1, <2>2 DEF WaitShape, PendingShape, CommTyped, Ends
  <2> QED BY <2>1, <2>3 DEF WaitShape
<1>6. ASSUME NEW e \in Ends, TxCommand(e) PROVE WaitShape'
  <2>1. /\ UNCHANGED <<life, pipe, sent, received, fault>>
        /\ fault = "none"
        /\ pc' = [pc EXCEPT ![e] = "tx"]
        /\ Pending(e) < MaxPending
    BY <1>6 DEF TxCommand, TxBegins, Alive
  <2>2. \A x \in Ends : Pending(x)' = Pending(x)
    BY <2>1 DEF Pending
  <2>3. \A x \in Ends : pc'[x] = "tx" => x = e \/ pc[x] = "tx"
    BY <2>1 DEF CommTyped
  <2>4. Pending(e) <= MaxPending
    BY <1>t, <2>1
  <2>5. PendingShape'
    BY <1>t, <2>1, <2>2, <2>3, <2>4 DEF WaitShape, PendingShape
  <2> QED BY <2>1, <2>5 DEF WaitShape
<1>7. ASSUME NEW e \in Ends, TxWrite(e) PROVE WaitShape'
  <2>1. /\ UNCHANGED <<life, received, fault>>
        /\ fault = "none" /\ pc[e] = "tx"
        /\ \/ UNCHANGED <<pc, sent>>
           \/ /\ pc' = [pc EXCEPT ![e] = "idle"]
              /\ sent' = [sent EXCEPT ![e] = Append(@, tx[e].cmd)]
    BY <1>7 DEF TxWrite
  <2>2. CASE UNCHANGED <<pc, sent>>
    <3>1. \A x \in Ends : Pending(x)' = Pending(x)
      BY <2>1, <2>2 DEF Pending
    <3>2. PendingShape'
      BY <1>t, <2>1, <2>2, <3>1 DEF WaitShape, PendingShape
    <3> QED BY <2>1, <3>2 DEF WaitShape
  <2>3. CASE /\ pc' = [pc EXCEPT ![e] = "idle"]
             /\ sent' = [sent EXCEPT ![e] = Append(@, tx[e].cmd)]
    <3>1. Pending(e)' = Pending(e) + 1
      <4>1. Len(sent'[e]) = Len(sent[e]) + 1
        BY <2>3 DEF CommTyped
      <4>2. Len(sent[e]) \in Nat /\ Len(received[e]) \in Nat
        BY DEF CommTyped
      <4> QED BY <2>1, <4>1, <4>2 DEF Pending
    <3>2. \A x \in Ends \ {e} : Pending(x)' = Pending(x)
      BY <2>1, <2>3 DEF Pending, CommTyped
    <3>3. pc'[e] = "idle" /\ \A x \in Ends \ {e} : pc'[x] = pc[x]
      BY <2>3 DEF CommTyped
    <3>4. life \in {"none", "up"} => Pending(e) < MaxPending /\ Pending(0)' <= MaxPending
      BY <1>t, <2>1, <3>1, <3>2 DEF WaitShape, PendingShape
    <3>5. PendingShape'
      BY <1>t, <2>1, <3>2, <3>3, <3>4 DEF WaitShape, PendingShape
    <3> QED BY <2>1, <3>5 DEF WaitShape
  <2> QED BY <2>1, <2>2, <2>3
<1>8. ASSUME NEW e \in Ends, RxRead(e) PROVE WaitShape'
  <2>1. /\ UNCHANGED <<life, sent, fault>>
        /\ fault = "none"
        /\ \A x \in Ends : pc'[x] = "tx" => pc[x] = "tx"
    BY <1>8 DEF RxRead, RxEnds, CommTyped
  <2>2. \A x \in Ends : Pending(x)' \in Int /\ Pending(x)' <= Pending(x)
    <3>1. CASE UNCHANGED <<sent, received>>
      BY <1>t, <3>1 DEF Pending
    <3>2. CASE Fifo!Receive(Peer(e))
      <4>1. PICK c : received' = [received EXCEPT ![Peer(e)] = Append(@, c)]
        BY <3>2 DEF Fifo!Receive
      <4>2. \A x \in Ends : Len(received'[x]) \in {Len(received[x]), Len(received[x]) + 1}
        BY <4>1, Peers DEF CommTyped
      <4>3. \A x \in Ends : Len(sent[x]) \in Nat /\ Len(received[x]) \in Nat
        BY DEF CommTyped
      <4> QED BY <2>1, <4>2, <4>3 DEF Pending
    <3> QED BY <1>8, <3>1, <3>2, ReadStep
  <2>3. PendingShape'
    BY <1>t, <2>1, <2>2 DEF WaitShape, PendingShape
  <2> QED BY <2>1, <2>3 DEF WaitShape
<1> QED
  BY <1>1, <1>2, <1>3, <1>4, <1>5, <1>6, <1>7, <1>8 DEF Next, Transfer, Over

\* A write never has to wait: not even the exit command, on top of all the others
\* that the rest of the program leaves pending, fills a socket.  So the thread
\* that waits for another cannot be one that the other waits for.
THEOREM WritesDoNotWaitHolds == Spec => []WritesDoNotWait
<1>1. Spec => []WaitShape
  BY WaitShapeInit, WaitShapeStep, CommTypedInvariant, CommShapeInvariant, PTL DEF Spec
<1> QED BY <1>1, RoomToWrite, CommTypedInvariant, CommShapeInvariant, PTL
=============================================================================

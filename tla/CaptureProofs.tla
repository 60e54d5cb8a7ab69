--------------------------- MODULE CaptureProofs ---------------------------
(***************************************************************************)
(* Proofs about Capture: the fields of a packet tile it, a replay gives    *)
(* the frames the recorder got, each whole and in its order, and the whole *)
(* keeps the promise of Drive.                                             *)
(*                                                                         *)
(* The invariant has two parts.  While a drive is recorded, the bytes not  *)
(* yet read, LiveSource's buffer and then those in flight, are the packets *)
(* after the last one read, each whole and with a size the check of        *)
(* _stream can judge (Stream).  And the lines of the file give each frame  *)
(* back, line by line, under the channels record before it (FileOf), which *)
(* the replay follows with its position, its table and its frames (Plays). *)
(***************************************************************************)
EXTENDS Capture, Integers, SequenceTheorems, WellFoundedInduction, TLAPS

-----------------------------------------------------------------------------
(* What the variables are. *)

Byte == [kind : {"header"}, cmd : {"ids", "data"}, size : Nat, k : Nat]
          \cup [kind : {"id"}, c : DOMAIN Size]
          \cup [kind : {"data"}, n : Nat, list : Lists, c : DOMAIN Size, k : Nat]
Values == UNION {TrueValues(n) : n \in Nat}
Line == [type : {"channels"}, list : Lists] \cup [type : {"packet"}, raw : Seq(Byte)] \cup {Torn}
Table == [list : Lists, scaling : Scalings]

\* Every variable the proofs speak of has its type.
TypeOK ==
  /\ phase \in {"record", "replay"} /\ asked \in {"none", "ids", "data"}
  /\ {ecu, channel_list, written_list} \subseteq Lists \cup {None}
  /\ wire \in Seq(Byte) /\ buf \in Seq(Byte)
  /\ file \in Seq(Line) /\ live \in Seq(Values) /\ out \in Seq(Values)
  /\ table \in Table \cup {None} /\ scaling_overrides \in Scalings
  /\ at \in {"top", "rec", "due", "end", "died"} /\ pos \in Nat
  /\ sent \in 0..MaxPackets

-----------------------------------------------------------------------------
(* The recording. *)

\* Packet p is at offset a of the bytes S.
PacketAt(S, a, p) == a + Len(p) <= Len(S) /\ \A j \in 1..Len(p) : S[a + j] = p[j]

\* _stream can tell a packet of l from one of the channels cl: it is one, or has another size.
Telling(l, cl) == l \in Lists /\ (l = cl \/ PacketSize(l) # PacketSize(cl))

\* The bytes S are the packets f + 1 .. t, packet n at start[n] and of the channels list[n].
StreamOf(S, f, t, cl, start, list) ==
  /\ start \in [(f + 1)..(t + 1) -> Nat] /\ start[f + 1] = 0 /\ start[t + 1] = Len(S)
  /\ \A n \in (f + 1)..t :
       /\ Telling(list[n], cl) /\ PacketAt(S, start[n], DataPacket(n, list[n]))
       /\ start[n + 1] = start[n] + HEADER_SIZE + PacketSize(list[n])
  /\ \A m, n \in (f + 1)..(t + 1) : m <= n => start[m] <= start[n]

Stream(S, f, t, cl) ==
  \E start \in [(f + 1)..(t + 1) -> Nat], list \in [(f + 1)..t -> Lists] :
    StreamOf(S, f, t, cl, start, list)

\* The frames are of packets up to the f-th.
UpTo(frames, f) == \A j \in DOMAIN frames : \E m \in 1..f : frames[j] \in TrueValues(m)

Unread == buf \o wire

RecordInv ==
  /\ asked = "none" => buf = <<>> /\ wire = <<>>
  /\ asked = "ids" =>
       /\ ecu \in Lists
       /\ Unread = IdsPacket(ecu) \/ PacketAt(Unread, 0, DataPacket(sent, ecu))
  /\ asked = "data" => channel_list \in Lists /\ Telling(ecu, channel_list)
  /\ \E f \in 0..sent :
       UpTo(live, f) /\ (asked = "data" => Stream(Unread, f, sent, channel_list))

-----------------------------------------------------------------------------
(* The file and its replay. *)

\* A line after which the lines have given c of the frames, c0 before it, and the channels
\* of the last channels record are u, u0 before it.
LineOf(line, frames, c0, c, u0, u) ==
  \/ /\ line.type = "channels"
     /\ c = c0 /\ u = line.list
  \/ /\ line.type = "packet" /\ u0 \in Lists
     /\ c = c0 + 1 /\ u = u0
     /\ Decodes(u, line.raw) /\ frames[c] = Decode(u, line.raw)
  \/ /\ line = Torn
     /\ c = c0 /\ u = u0

\* The lines give the frames: count and under say which, and under what, after each line.
FileOf(lines, frames, count, under) ==
  /\ count \in [0..Len(lines) -> 0..Len(frames)] /\ count[0] = 0
  /\ under \in [0..Len(lines) -> Lists \cup {None}] /\ under[0] = None
  /\ \A p \in 1..Len(lines) :
       LineOf(lines[p], frames, count[p - 1], count[p], under[p - 1], under[p])

\* The recorder is at the end of the file.
Records(count, under) ==
  phase = "record" => count[Len(file)] = Len(live) /\ under[Len(file)] = written_list

\* The replay is at line pos with the frames and the table of the lines before.
Plays(count, under) ==
  at \in {"rec", "due"} =>
    /\ pos \in 1..(Len(file) + 1)
    /\ Len(out) = count[pos - 1]
    /\ under[pos - 1] \in Lists => table \in Table /\ table.list = under[pos - 1]
    /\ at = "due" => pos <= Len(file) /\ file[pos].type = "packet"

FileInv ==
  /\ \E count, under :
       FileOf(file, live, count, under) /\ Records(count, under) /\ Plays(count, under)
  /\ Len(out) <= Len(live) /\ \A i \in DOMAIN out : out[i] = live[i]
  /\ phase = "record" => at = "top" /\ out = <<>>

\* The thread of a replay ends on nothing but half a line: no packet comes before its
\* channels or is short of its table (frames, decode_packet).
DiesOnHalfALine == at = "died" => pos \in DOMAIN file /\ file[pos] = Torn

Inv ==
  /\ TypeOK /\ FramesWhole /\ FileInv /\ DiesOnHalfALine
  /\ phase = "record" => RecordInv
-----------------------------------------------------------------------------
(* Offsets (build_offset_table, decode_packet). *)

\* Induction over the numbers, for a set.
LEMMA Induction ==
  ASSUME NEW T, 0 \in T, \A n \in Nat : n \in T => n + 1 \in T
  PROVE  \A n \in Nat : n \in T
<1> SUFFICES ASSUME Nat \ T # {} PROVE FALSE
  OBVIOUS
<1>1. PICK x \in Nat \ T : \A y \in Nat \ T : ~ (<<y, x>> \in OpToRel(<, Nat))
  BY NatLessThanWellFounded, WFMin
<1>2. x \in Nat \ {0} /\ x - 1 \in Nat /\ x - 1 < x /\ (x - 1) + 1 = x
  <2>1. x \in Nat /\ x # 0
    OBVIOUS
  <2>2. QED
    BY <2>1
<1>3. x - 1 \in T
  BY <1>1, <1>2 DEF OpToRel
<1>4. QED
  BY <1>1, <1>2, <1>3

\* The sums of the sizes before each channel, up to the n-th place.
IsPrefixSum(g, l, n) ==
  g \in [1..(n + 1) -> Nat] /\ g[1] = 0 /\ \A i \in 1..n : g[i + 1] = g[i] + Size[l[i]]

LEMMA ListType ==
  ASSUME NEW l \in Lists
  PROVE  /\ l \in Seq(DOMAIN Size) /\ Len(l) \in Nat /\ DOMAIN l = 1..Len(l)
         /\ \A i \in 1..Len(l) : l[i] \in DOMAIN Size /\ Size[l[i]] \in Nat \ {0}
         /\ \A i, j \in 1..Len(l) : l[i] = l[j] => i = j
<1>1. l \in Seq(DOMAIN Size) /\ IsInjective(l) /\ Size \in [DOMAIN Size -> Nat \ {0}]
  BY CaptureAssumption
<1>2. Len(l) \in Nat /\ DOMAIN l = 1..Len(l) /\ \A i \in 1..Len(l) : l[i] \in DOMAIN Size
  BY <1>1
<1>3. QED
  BY <1>1, <1>2 DEF IsInjective

LEMMA PrefixSumExists ==
  ASSUME NEW l \in Lists
  PROVE  \E g : IsPrefixSum(g, l, Len(l))
<1> DEFINE T == {n \in Nat : n <= Len(l) => \E g : IsPrefixSum(g, l, n)}
<1>1. 0 \in T
  <2>1. IsPrefixSum([i \in 1..1 |-> 0], l, 0)
    BY DEF IsPrefixSum
  <2>2. QED
    BY <2>1
<1>2. ASSUME NEW n \in Nat, n \in T PROVE n + 1 \in T
  <2> SUFFICES ASSUME n + 1 <= Len(l) PROVE \E g : IsPrefixSum(g, l, n + 1)
    BY <1>2
  <2>1. n <= Len(l) /\ Len(l) \in Nat
    BY ListType
  <2>2. PICK g : IsPrefixSum(g, l, n)
    BY <1>2, <2>1
  <2>3. Size[l[n + 1]] \in Nat
    BY <2>1, ListType
  <2> DEFINE h == [i \in 1..(n + 2) |-> IF i = n + 2 THEN g[n + 1] + Size[l[n + 1]] ELSE g[i]]
  <2>4. h \in [1..((n + 1) + 1) -> Nat] /\ h[1] = 0
    BY <2>2, <2>3 DEF IsPrefixSum
  <2>5. ASSUME NEW i \in 1..(n + 1) PROVE h[i + 1] = h[i] + Size[l[i]]
    BY <2>2 DEF IsPrefixSum
  <2>6. IsPrefixSum(h, l, n + 1)
    <3> HIDE DEF h
    <3>1. QED
      BY <2>4, <2>5 DEF IsPrefixSum
  <2>7. QED
    BY <2>6
<1>3. \A n \in Nat : n \in T
  <2> HIDE DEF T
  <2>1. QED
    BY <1>1, <1>2, Induction
<1>4. Len(l) \in T /\ Len(l) \in Nat
  BY <1>3, ListType
<1>5. QED
  BY <1>4

LEMMA OffsetIsPrefixSum ==
  ASSUME NEW l \in Lists
  PROVE  IsPrefixSum(Offset(l), l, Len(l))
<1> DEFINE F(g) == [i \in 1..(Len(l) + 1) |-> IF i = 1 THEN 0 ELSE g[i - 1] + Size[l[i - 1]]]
<1>1. PICK g : IsPrefixSum(g, l, Len(l))
  BY PrefixSumExists
<1>2. Len(l) \in Nat
  BY ListType
<1>3. g = F(g)
  <2>1. \A i \in 1..(Len(l) + 1) : g[i] = F(g)[i]
    <3> SUFFICES ASSUME NEW i \in 1..(Len(l) + 1)
                 PROVE  g[i] = IF i = 1 THEN 0 ELSE g[i - 1] + Size[l[i - 1]]
      OBVIOUS
    <3>1. i # 1 => i - 1 \in 1..Len(l) /\ (i - 1) + 1 = i
      BY <1>2
    <3>2. QED
      BY <1>1, <3>1 DEF IsPrefixSum
  <2>2. g \in [1..(Len(l) + 1) -> Nat]
    BY <1>1 DEF IsPrefixSum
  <2>3. QED
    BY <2>1, <2>2
<1>4. Offset(l) = CHOOSE h : h = F(h)
  BY DEF Offset
<1>5. Offset(l) = F(Offset(l))
  <2> HIDE DEF F
  <2>1. QED
    BY <1>3, <1>4
<1> DEFINE h == Offset(l)
<1>6. h = F(h)
  BY <1>5
<1> HIDE DEF h
<1>7. DOMAIN h = 1..(Len(l) + 1) /\ h[1] = 0
  BY <1>2, <1>6
<1>8. \A i \in 1..Len(l) : h[i + 1] = h[i] + Size[l[i]]
  <2> SUFFICES ASSUME NEW i \in 1..Len(l) PROVE h[i + 1] = h[i] + Size[l[i]]
    OBVIOUS
  <2>1. i + 1 \in 1..(Len(l) + 1) /\ i + 1 # 1 /\ (i + 1) - 1 = i
    BY <1>2
  <2>2. F(h)[i + 1] = h[(i + 1) - 1] + Size[l[(i + 1) - 1]]
    BY <2>1
  <2>3. QED
    BY <1>6, <2>1, <2>2
<1>9. \A n \in Nat : n <= Len(l) => h[n + 1] = g[n + 1]
  <2> DEFINE T == {n \in Nat : n <= Len(l) => h[n + 1] = g[n + 1]}
  <2>1. 0 \in T
    BY <1>1, <1>7 DEF IsPrefixSum
  <2>2. ASSUME NEW n \in Nat, n \in T PROVE n + 1 \in T
    <3> SUFFICES ASSUME n + 1 <= Len(l) PROVE h[(n + 1) + 1] = g[(n + 1) + 1]
      OBVIOUS
    <3>1. n + 1 \in 1..Len(l) /\ n <= Len(l)
      BY <1>2
    <3>2. QED
      BY <1>1, <1>8, <2>2, <3>1 DEF IsPrefixSum
  <2>3. \A n \in Nat : n \in T
    <3> HIDE DEF T
    <3>1. QED
      BY <2>1, <2>2, Induction
  <2>4. QED
    BY <2>3
<1>10. \A i \in 1..(Len(l) + 1) : h[i] \in Nat
  <2> SUFFICES ASSUME NEW i \in 1..(Len(l) + 1) PROVE h[i] \in Nat
    OBVIOUS
  <2>1. i - 1 \in Nat /\ i - 1 <= Len(l) /\ (i - 1) + 1 = i
    BY <1>2
  <2>2. h[i] = g[i]
    BY <1>9, <2>1
  <2>3. QED
    BY <1>1, <2>2 DEF IsPrefixSum
<1>11. h \in [1..(Len(l) + 1) -> Nat]
  <2>1. h = [i \in DOMAIN h |-> h[i]]
    BY <1>6
  <2>2. QED
    BY <1>7, <1>10, <2>1
<1>12. QED
  BY <1>7, <1>8, <1>11 DEF IsPrefixSum, h

\* A value begins where the one before it ends, and none before that.
LEMMA OffsetMonotone ==
  ASSUME NEW l \in Lists
  PROVE  \A i, j \in 1..(Len(l) + 1) : i <= j => Offset(l)[i] <= Offset(l)[j]
<1> DEFINE h == Offset(l)
<1>1. IsPrefixSum(h, l, Len(l)) /\ Len(l) \in Nat
  BY OffsetIsPrefixSum, ListType
<1> HIDE DEF h
<1> DEFINE T == {d \in Nat : \A i \in 1..(Len(l) + 1) : i + d <= Len(l) + 1 => h[i] <= h[i + d]}
<1>2. 0 \in T
  BY <1>1 DEF IsPrefixSum
<1>3. ASSUME NEW d \in Nat, d \in T PROVE d + 1 \in T
  <2> SUFFICES ASSUME NEW i \in 1..(Len(l) + 1), i + (d + 1) <= Len(l) + 1
               PROVE  h[i] <= h[i + (d + 1)]
    OBVIOUS
  <2>1. i + d \in 1..Len(l) /\ (i + d) + 1 = i + (d + 1) /\ i + d \in 1..(Len(l) + 1)
    BY <1>1
  <2>2. h[i + (d + 1)] = h[i + d] + Size[l[i + d]]
    BY <1>1, <2>1 DEF IsPrefixSum
  <2>3. h[i] <= h[i + d]
    BY <1>1, <1>3, <2>1
  <2>4. h[i] \in Nat /\ h[i + d] \in Nat /\ Size[l[i + d]] \in Nat
    BY <1>1, <2>1, ListType DEF IsPrefixSum
  <2>5. QED
    BY <2>2, <2>3, <2>4
<1>4. \A d \in Nat : d \in T
  <2> HIDE DEF T
  <2>1. QED
    BY <1>2, <1>3, Induction
<1>5. ASSUME NEW i \in 1..(Len(l) + 1), NEW j \in 1..(Len(l) + 1), i <= j
      PROVE  h[i] <= h[j]
  <2>1. j - i \in Nat /\ i + (j - i) = j
    BY <1>1, <1>5
  <2>2. j - i \in T
    BY <1>4, <2>1
  <2>3. QED
    BY <1>1, <2>1, <2>2
<1>6. QED
  BY <1>5 DEF h

\* The offsets of one list, with what the proofs use of them.
LEMMA OffsetFacts ==
  ASSUME NEW l \in Lists
  PROVE  /\ Offset(l)[1] = 0 /\ PacketSize(l) = Offset(l)[Len(l) + 1] /\ PacketSize(l) \in Nat
         /\ \A i \in 1..(Len(l) + 1) : Offset(l)[i] \in Nat /\ Offset(l)[i] <= PacketSize(l)
         /\ \A i \in 1..Len(l) : Offset(l)[i + 1] = Offset(l)[i] + Size[l[i]]
<1>1. IsPrefixSum(Offset(l), l, Len(l)) /\ Len(l) \in Nat
  BY OffsetIsPrefixSum, ListType
<1>2. Len(l) + 1 \in 1..(Len(l) + 1) /\ \A i \in 1..(Len(l) + 1) : i <= Len(l) + 1
  BY <1>1
<1>3. PacketSize(l) = Offset(l)[Len(l) + 1]
  BY DEF PacketSize
<1>4. \A i \in 1..(Len(l) + 1) : Offset(l)[i] <= PacketSize(l)
  BY <1>2, <1>3, OffsetMonotone
<1>5. QED
  BY <1>1, <1>2, <1>3, <1>4 DEF IsPrefixSum

\* Every byte of a packet is in the value of one channel.
LEMMA PlaceExists ==
  ASSUME NEW l \in Lists, NEW j \in 1..PacketSize(l)
  PROVE  /\ Place(l, j) \in 1..Len(l)
         /\ Offset(l)[Place(l, j)] < j /\ j <= Offset(l)[Place(l, j) + 1]
<1> DEFINE h == Offset(l)
           T == {n \in Nat : n <= Len(l) /\ j <= h[n + 1] => \E i \in 1..n : h[i] < j /\ j <= h[i + 1]}
<1>1. h[1] = 0 /\ PacketSize(l) \in Nat /\ PacketSize(l) = h[Len(l) + 1] /\ Len(l) \in Nat
  BY OffsetFacts, ListType
<1>2. \A i \in 1..(Len(l) + 1) : h[i] \in Nat
  BY OffsetFacts
<1> HIDE DEF h
<1>3. 0 \in T
  BY <1>1
<1>4. ASSUME NEW n \in Nat, n \in T PROVE n + 1 \in T
  <2> SUFFICES ASSUME n + 1 <= Len(l), j <= h[(n + 1) + 1]
               PROVE  \E i \in 1..(n + 1) : h[i] < j /\ j <= h[i + 1]
    OBVIOUS
  <2>1. CASE j <= h[n + 1]
    <3>1. n <= Len(l)
      BY <1>1
    <3>2. PICK i \in 1..n : h[i] < j /\ j <= h[i + 1]
      BY <1>4, <2>1, <3>1
    <3>3. QED
      BY <3>2
  <2>2. CASE ~(j <= h[n + 1])
    <3>1. h[n + 1] \in Nat /\ j \in Nat
      BY <1>1, <1>2
    <3>2. h[n + 1] < j
      BY <2>2, <3>1
    <3>3. QED
      BY <3>2
  <2>3. QED
    BY <2>1, <2>2
<1>5. \A n \in Nat : n \in T
  <2> HIDE DEF T
  <2>1. QED
    BY <1>3, <1>4, Induction
<1>6. Len(l) \in T /\ j <= h[Len(l) + 1]
  BY <1>1, <1>5
<1>7. \E i \in 1..Len(l) : h[i] < j /\ j <= h[i + 1]
  BY <1>1, <1>6
<1>8. \E i \in DOMAIN l : Offset(l)[i] < j /\ j <= Offset(l)[i + 1]
  BY <1>7, ListType DEF h
<1>9. QED
  BY <1>8, ListType DEF Place

\* And of no other: the bytes of the i-th value are those from its offset on.
LEMMA PlaceOf ==
  ASSUME NEW l \in Lists, NEW i \in 1..Len(l), NEW k \in 1..Size[l[i]]
  PROVE  Offset(l)[i] + k \in 1..PacketSize(l) /\ Place(l, Offset(l)[i] + k) = i
<1> DEFINE j == Offset(l)[i] + k
           p == Place(l, j)
<1>1. Len(l) \in Nat /\ i \in Nat /\ i + 1 \in 1..(Len(l) + 1) /\ i \in 1..(Len(l) + 1)
  BY ListType
<1>2. /\ Offset(l)[i] \in Nat /\ Offset(l)[i + 1] = Offset(l)[i] + Size[l[i]]
      /\ Offset(l)[i + 1] <= PacketSize(l) /\ PacketSize(l) \in Nat /\ Size[l[i]] \in Nat
  BY <1>1, OffsetFacts, ListType
<1>3. j \in 1..PacketSize(l) /\ Offset(l)[i] < j /\ j <= Offset(l)[i + 1]
  BY <1>2
<1> HIDE DEF j
<1>4. p \in 1..Len(l) /\ Offset(l)[p] < j /\ j <= Offset(l)[p + 1]
  BY <1>3, PlaceExists
<1> HIDE DEF p
<1>5. /\ p \in Nat /\ p + 1 \in 1..(Len(l) + 1) /\ p \in 1..(Len(l) + 1)
      /\ Offset(l)[p] \in Nat /\ Offset(l)[p + 1] \in Nat /\ j \in Nat /\ Offset(l)[i + 1] \in Nat
  BY <1>1, <1>2, <1>3, <1>4, OffsetFacts
<1>6. ~(p < i)
  <2> SUFFICES ASSUME p < i PROVE FALSE
    OBVIOUS
  <2>1. p + 1 <= i
    BY <1>1, <1>5
  <2>2. Offset(l)[p + 1] <= Offset(l)[i]
    BY <1>1, <1>5, <2>1, OffsetMonotone
  <2>3. QED
    BY <1>2, <1>3, <1>4, <1>5, <2>2
<1>7. ~(i < p)
  <2> SUFFICES ASSUME i < p PROVE FALSE
    OBVIOUS
  <2>1. i + 1 <= p
    BY <1>1, <1>5
  <2>2. Offset(l)[i + 1] <= Offset(l)[p]
    BY <1>1, <1>5, <2>1, OffsetMonotone
  <2>3. QED
    BY <1>2, <1>3, <1>4, <1>5, <2>2
<1>8. p = i
  BY <1>1, <1>5, <1>6, <1>7
<1>9. QED
  BY <1>3, <1>8 DEF j, p

\* A datalog packet's payload is as long as its table wants, of bytes that say whose they are.
LEMMA DataType ==
  ASSUME NEW l \in Lists, NEW n \in Nat
  PROVE  /\ Data(n, l) \in Seq(Byte) /\ Len(Data(n, l)) = PacketSize(l)
         /\ \A i \in 1..Len(l) : \A k \in 1..Size[l[i]] :
              Data(n, l)[Offset(l)[i] + k] = DataByte(n, l, l[i], k)
<1> DEFINE D == Data(n, l)
           E(j) == DataByte(n, l, l[Place(l, j)], j - Offset(l)[Place(l, j)])
<1>1. D = [j \in 1..PacketSize(l) |-> E(j)] /\ PacketSize(l) \in Nat
  BY OffsetFacts DEF Data
<1>2. ASSUME NEW j \in 1..PacketSize(l) PROVE E(j) \in Byte
  <2> DEFINE p == Place(l, j)
  <2>1. p \in 1..Len(l) /\ Offset(l)[p] < j
    BY PlaceExists
  <2> HIDE DEF p
  <2>2. p \in 1..(Len(l) + 1)
    BY <2>1, ListType
  <2>3. Offset(l)[p] \in Nat /\ l[p] \in DOMAIN Size /\ j \in Nat
    BY <1>1, <2>1, <2>2, OffsetFacts, ListType
  <2>4. j - Offset(l)[p] \in Nat
    BY <2>1, <2>3
  <2>5. DataByte(n, l, l[p], j - Offset(l)[p]) \in Byte
    BY <2>3, <2>4 DEF DataByte, Byte
  <2>6. QED
    BY <2>5 DEF p
<1>3. D \in [1..PacketSize(l) -> Byte]
  <2> HIDE DEF E, D
  <2>1. QED
    BY <1>1, <1>2
<1>4. D \in Seq(Byte) /\ Len(D) = PacketSize(l)
  <2> HIDE DEF D
  <2>1. QED
    BY <1>1, <1>3
<1>5. ASSUME NEW i \in 1..Len(l), NEW k \in 1..Size[l[i]]
      PROVE  D[Offset(l)[i] + k] = DataByte(n, l, l[i], k)
  <2>1. Offset(l)[i] + k \in 1..PacketSize(l) /\ Place(l, Offset(l)[i] + k) = i
    BY PlaceOf
  <2>2. i \in 1..(Len(l) + 1) /\ Size[l[i]] \in Nat
    BY ListType
  <2>3. Offset(l)[i] \in Nat /\ k \in Nat
    BY <2>2, OffsetFacts
  <2>4. (Offset(l)[i] + k) - Offset(l)[i] = k
    BY <2>3
  <2>5. D[Offset(l)[i] + k] = E(Offset(l)[i] + k)
    BY <1>1, <2>1
  <2>6. QED
    BY <2>1, <2>4, <2>5
<1>6. QED
  BY <1>4, <1>5

(* The fields tile the packet: decoded with the table of its own channel   *)
(* list, a packet gives each channel the bytes the ECU put in for it, all  *)
(* of them and no other's (build_offset_table, decode_packet).             *)
THEOREM FieldsTile ==
  ASSUME NEW l \in Lists, NEW n \in Nat
  PROVE  Decodes(l, Data(n, l)) /\ Decode(l, Data(n, l)) \in TrueValues(n)
<1> DEFINE D == Data(n, l)
           I(c) == CHOOSE i \in DOMAIN l : l[i] = c
           V(c) == SubSeq(D, Offset(l)[I(c)] + 1, Offset(l)[I(c) + 1])
           W(c) == [k \in 1..Size[c] |-> DataByte(n, l, c, k)]
<1>1. D \in Seq(Byte) /\ Len(D) = PacketSize(l) /\ PacketSize(l) \in Nat
  BY DataType, OffsetFacts
<1>2. Decodes(l, D)
  BY <1>1 DEF Decodes
<1>3. ASSUME NEW c \in Range(l) PROVE V(c) = W(c)
  <2> DEFINE i == I(c)
  <2>1. i \in 1..Len(l) /\ l[i] = c /\ Len(l) \in Nat
    BY ListType DEF Range
  <2> HIDE DEF i
  <2> DEFINE a == Offset(l)[i]
             b == Offset(l)[i + 1]
  <2>2. i \in 1..(Len(l) + 1) /\ i + 1 \in 1..(Len(l) + 1)
    BY <2>1
  <2>3. a \in Nat /\ b \in Nat /\ b = a + Size[c] /\ b <= PacketSize(l) /\ Size[c] \in Nat \ {0}
    BY <2>1, <2>2, OffsetFacts, ListType
  <2>4. \A k \in 1..Size[c] : D[a + k] = DataByte(n, l, c, k)
    BY <2>1, DataType
  <2> HIDE DEF a, b, D
  <2>5. \A k \in (a + 1)..b : D[k] \in Byte
    BY <1>1, <2>3
  <2> DEFINE s == SubSeq(D, a + 1, b)
  <2>6. s \in Seq(Byte) /\ Len(s) = Size[c] /\ \A k \in 1..Size[c] : s[k] = D[a + k]
    <3>1. a + 1 \in Int /\ b \in Int /\ a + 1 <= b /\ b - (a + 1) + 1 = Size[c]
      BY <2>3
    <3>2. /\ s \in Seq(Byte) /\ Len(s) = Size[c]
          /\ \A k \in 1..Size[c] : s[k] = D[(a + 1) + k - 1]
      BY <2>5, <3>1, SubSeqProperties
    <3>3. \A k \in 1..Size[c] : (a + 1) + k - 1 = a + k
      BY <2>3
    <3>4. QED
      BY <3>2, <3>3
  <2> HIDE DEF s
  <2>7. s = [k \in 1..Size[c] |-> DataByte(n, l, c, k)]
    BY <2>4, <2>6
  <2>8. QED
    BY <2>7 DEF s, a, b, i
<1>4. Decode(l, D) = [c \in Range(l) |-> V(c)]
  BY DEF Decode
<1>5. Decode(l, D) = [c \in Range(l) |-> W(c)]
  <2> HIDE DEF V, W, D
  <2>1. QED
    BY <1>3, <1>4
<1>6. Decode(l, D) \in TrueValues(n)
  BY <1>5 DEF TrueValues
<1>7. QED
  BY <1>2, <1>6

-----------------------------------------------------------------------------
(* Packets in the stream (read_packet). *)

LEMMA PacketType ==
  ASSUME NEW cmd \in {"ids", "data"}, NEW payload \in Seq(Byte)
  PROVE  /\ Packet(cmd, payload) \in Seq(Byte)
         /\ Len(Packet(cmd, payload)) = HEADER_SIZE + Len(payload)
         /\ \A k \in 1..HEADER_SIZE :
              Packet(cmd, payload)[k] = HeaderByte(cmd, HEADER_SIZE + Len(payload), k)
         /\ \A k \in 1..Len(payload) : Packet(cmd, payload)[HEADER_SIZE + k] = payload[k]
<1> DEFINE z == HEADER_SIZE + Len(payload)
           h == [k \in 1..HEADER_SIZE |-> HeaderByte(cmd, z, k)]
<1>1. HEADER_SIZE \in Nat \ {0} /\ Len(payload) \in Nat /\ z \in Nat
  BY CaptureAssumption
<1> HIDE DEF z
<1>2. h \in [1..HEADER_SIZE -> Byte]
  <2>1. \A k \in 1..HEADER_SIZE : HeaderByte(cmd, z, k) \in Byte
    BY <1>1 DEF HeaderByte, Byte
  <2>2. QED
    BY <2>1
<1>3. h \in Seq(Byte) /\ Len(h) = HEADER_SIZE /\ \A k \in 1..HEADER_SIZE : h[k] = HeaderByte(cmd, z, k)
  BY <1>1, <1>2
<1>4. Packet(cmd, payload) = h \o payload
  BY DEF Packet, z
<1> HIDE DEF h
<1>5. /\ h \o payload \in Seq(Byte) /\ Len(h \o payload) = HEADER_SIZE + Len(payload)
      /\ \A k \in 1..(HEADER_SIZE + Len(payload)) :
           (h \o payload)[k] = IF k <= HEADER_SIZE THEN h[k] ELSE payload[k - HEADER_SIZE]
  BY <1>3, ConcatProperties
<1>6. \A k \in 1..HEADER_SIZE : (h \o payload)[k] = HeaderByte(cmd, z, k)
  BY <1>1, <1>3, <1>5
<1>7. \A k \in 1..Len(payload) : (h \o payload)[HEADER_SIZE + k] = payload[k]
  BY <1>1, <1>5
<1>8. QED
  BY <1>4, <1>5, <1>6, <1>7 DEF z

\* The two packets of the stream.
LEMMA DataPacketType ==
  ASSUME NEW l \in Lists, NEW n \in Nat
  PROVE  /\ HEADER_SIZE \in Nat \ {0} /\ HEADER_SIZE + PacketSize(l) \in Nat
         /\ DataPacket(n, l) = Packet("data", Data(n, l)) /\ Data(n, l) \in Seq(Byte)
         /\ Len(Data(n, l)) = PacketSize(l) /\ PacketSize(l) \in Nat
         /\ DataPacket(n, l) \in Seq(Byte) /\ Len(DataPacket(n, l)) = HEADER_SIZE + PacketSize(l)
<1>1. Data(n, l) \in Seq(Byte) /\ Len(Data(n, l)) = PacketSize(l) /\ PacketSize(l) \in Nat
  BY DataType, OffsetFacts
<1>2. HEADER_SIZE \in Nat \ {0}
  BY CaptureAssumption
<1> DEFINE D == Data(n, l)
<1> HIDE DEF D
<1>3. D \in Seq(Byte) /\ Len(D) = PacketSize(l)
  BY <1>1 DEF D
<1>4. Packet("data", D) \in Seq(Byte) /\ Len(Packet("data", D)) = HEADER_SIZE + Len(D)
  BY <1>3, PacketType
<1>5. QED
  BY <1>1, <1>2, <1>3, <1>4 DEF DataPacket, D

LEMMA IdsPacketType ==
  ASSUME NEW l \in Lists
  PROVE  /\ IdsPacket(l) = Packet("ids", [i \in DOMAIN l |-> IdUnit(l[i])])
         /\ [i \in DOMAIN l |-> IdUnit(l[i])] \in Seq(Byte)
         /\ Len([i \in DOMAIN l |-> IdUnit(l[i])]) = Len(l)
         /\ IdsPacket(l) \in Seq(Byte) /\ Len(IdsPacket(l)) = HEADER_SIZE + Len(l)
<1> DEFINE u == [i \in DOMAIN l |-> IdUnit(l[i])]
<1>1. \A i \in 1..Len(l) : IdUnit(l[i]) \in Byte
  BY ListType DEF IdUnit, Byte
<1>2. DOMAIN l = 1..Len(l) /\ Len(l) \in Nat
  BY ListType
<1>3. u \in [1..Len(l) -> Byte]
  BY <1>1, <1>2
<1>4. u \in Seq(Byte) /\ Len(u) = Len(l)
  BY <1>2, <1>3
<1> HIDE DEF u
<1>5. Packet("ids", u) \in Seq(Byte) /\ Len(Packet("ids", u)) = HEADER_SIZE + Len(l)
  BY <1>4, PacketType
<1>6. QED
  BY <1>4, <1>5 DEF IdsPacket, u

\* What is left of the bytes after the first z.
LEMMA SuffixOf ==
  ASSUME NEW s \in Seq(Byte), NEW z \in Nat, z <= Len(s)
  PROVE  /\ SubSeq(s, z + 1, Len(s)) \in Seq(Byte)
         /\ Len(SubSeq(s, z + 1, Len(s))) = Len(s) - z
         /\ \A i \in 1..(Len(s) - z) : SubSeq(s, z + 1, Len(s))[i] = s[z + i]
<1> DEFINE r == SubSeq(s, z + 1, Len(s))
<1>1. Len(s) \in Nat /\ \A i \in (z + 1)..Len(s) : s[i] \in Byte
  OBVIOUS
<1>2. /\ r \in Seq(Byte) /\ Len(r) = IF z + 1 <= Len(s) THEN Len(s) - (z + 1) + 1 ELSE 0
      /\ \A i \in 1..(Len(s) - (z + 1) + 1) : r[i] = s[(z + 1) + i - 1]
  BY <1>1, SubSeqProperties
<1> HIDE DEF r
<1>3. Len(r) = Len(s) - z
  BY <1>1, <1>2
<1>4. ASSUME NEW i \in 1..(Len(s) - z) PROVE r[i] = s[z + i]
  <2>1. i \in 1..(Len(s) - (z + 1) + 1) /\ (z + 1) + i - 1 = z + i
    BY <1>1
  <2>2. QED
    BY <1>2, <2>1
<1>5. QED
  BY <1>2, <1>3, <1>4 DEF r

\* Of which part are in the buffer.
LEMMA RestOfStream ==
  ASSUME NEW b \in Seq(Byte), NEW w \in Seq(Byte), NEW z \in Nat, z <= Len(b)
  PROVE  /\ SubSeq(b, z + 1, Len(b)) \in Seq(Byte)
         /\ SubSeq(b, z + 1, Len(b)) \o w = SubSeq(b \o w, z + 1, Len(b \o w))
<1> DEFINE r == SubSeq(b, z + 1, Len(b))
           S == b \o w
           R == SubSeq(S, z + 1, Len(S))
<1>1. Len(b) \in Nat /\ Len(w) \in Nat
  OBVIOUS
<1>2. /\ r \in Seq(Byte) /\ Len(r) = Len(b) - z
      /\ \A i \in 1..(Len(b) - z) : r[i] = b[z + i]
  BY SuffixOf
<1>3. /\ S \in Seq(Byte) /\ Len(S) = Len(b) + Len(w)
      /\ \A i \in 1..(Len(b) + Len(w)) : S[i] = IF i <= Len(b) THEN b[i] ELSE w[i - Len(b)]
  BY ConcatProperties
<1> HIDE DEF S
<1>4. /\ R \in Seq(Byte) /\ Len(R) = Len(S) - z
      /\ \A i \in 1..(Len(S) - z) : R[i] = S[z + i]
  <2>1. z <= Len(S)
    BY <1>1, <1>3
  <2>2. QED
    BY <1>3, <2>1, SuffixOf
<1> HIDE DEF r, R
<1>5. /\ r \o w \in Seq(Byte) /\ Len(r \o w) = Len(r) + Len(w)
      /\ \A i \in 1..(Len(r) + Len(w)) : (r \o w)[i] = IF i <= Len(r) THEN r[i] ELSE w[i - Len(r)]
  BY <1>2, ConcatProperties
<1>6. Len(r \o w) = Len(R)
  BY <1>1, <1>2, <1>3, <1>4, <1>5
<1>7. ASSUME NEW i \in 1..Len(r \o w) PROVE (r \o w)[i] = R[i]
  <2>1. /\ i \in Nat /\ i \in 1..(Len(r) + Len(w)) /\ i \in 1..(Len(S) - z)
        /\ z + i \in 1..(Len(b) + Len(w)) /\ i - Len(r) = (z + i) - Len(b)
    BY <1>1, <1>2, <1>3, <1>5
  <2>2. R[i] = IF z + i <= Len(b) THEN b[z + i] ELSE w[(z + i) - Len(b)]
    BY <1>3, <1>4, <2>1
  <2>3. CASE z + i <= Len(b)
    <3>1. i \in 1..(Len(b) - z) /\ i <= Len(r)
      BY <1>1, <1>2, <2>1, <2>3
    <3>2. QED
      BY <1>2, <1>5, <2>1, <2>2, <2>3, <3>1
  <2>4. CASE ~(z + i <= Len(b))
    <3>1. ~(i <= Len(r))
      BY <1>1, <1>2, <2>1, <2>4
    <3>2. QED
      BY <1>5, <2>1, <2>2, <2>4, <3>1
  <2>5. QED
    BY <2>3, <2>4
<1>8. r \o w = R
  BY <1>4, <1>5, <1>6, <1>7, SeqEqual
<1>9. QED
  BY <1>2, <1>8 DEF r, R, S

\* A packet at the front of the stream: the buffer's first bytes are its header and say so,
\* and once all of it is there the payload is its own.
LEMMA FrontPacket ==
  ASSUME NEW b \in Seq(Byte), NEW w \in Seq(Byte),
         NEW cmd \in {"ids", "data"}, NEW payload \in Seq(Byte),
         PacketAt(b \o w, 0, Packet(cmd, payload)), Len(b) >= HEADER_SIZE
  PROVE  /\ Headers(b) = {[cmd |-> cmd, size |-> HEADER_SIZE + Len(payload)]}
         /\ Len(b) >= HEADER_SIZE + Len(payload) =>
              SubSeq(b, HEADER_SIZE + 1, HEADER_SIZE + Len(payload)) = payload
<1> DEFINE S == b \o w
           P == Packet(cmd, payload)
           z == HEADER_SIZE + Len(payload)
<1>1. HEADER_SIZE \in Nat \ {0} /\ Len(payload) \in Nat /\ z \in Nat /\ Len(b) \in Nat /\ Len(w) \in Nat
  BY CaptureAssumption
<1>2. /\ Len(S) = Len(b) + Len(w)
      /\ \A i \in 1..(Len(b) + Len(w)) : S[i] = IF i <= Len(b) THEN b[i] ELSE w[i - Len(b)]
  BY ConcatProperties
<1>3. /\ Len(P) = z
      /\ \A k \in 1..HEADER_SIZE : P[k] = HeaderByte(cmd, z, k)
      /\ \A k \in 1..Len(payload) : P[HEADER_SIZE + k] = payload[k]
  BY PacketType
<1>4. z <= Len(S) /\ \A j \in 1..z : S[j] = P[j]
  BY <1>1, <1>3 DEF PacketAt
<1> HIDE DEF S, P, z
<1>5. \A j \in 1..z : j <= Len(b) => b[j] = P[j]
  BY <1>1, <1>2, <1>4
<1>6. \A k \in 1..HEADER_SIZE : b[k] = HeaderByte(cmd, z, k)
  BY <1>1, <1>3, <1>5 DEF z
<1>7. Headers(b) = {[cmd |-> cmd, size |-> z]}
  <2>1. b[1] = HeaderByte(cmd, z, 1)
    BY <1>1, <1>6
  <2>2. b[1].kind = "header" /\ b[1].cmd = cmd /\ b[1].size = z
    BY <2>1 DEF HeaderByte
  <2>3. \A k \in 1..HEADER_SIZE : b[k] = [b[1] EXCEPT !.k = k]
    BY <1>6, <2>1 DEF HeaderByte
  <2>4. QED
    BY <2>2, <2>3 DEF Headers
<1>8. ASSUME Len(b) >= z PROVE SubSeq(b, HEADER_SIZE + 1, z) = payload
  <2> DEFINE s == SubSeq(b, HEADER_SIZE + 1, z)
  <2>1. \A i \in (HEADER_SIZE + 1)..z : b[i] \in Byte
    BY <1>1, <1>8 DEF z
  <2>2. z - (HEADER_SIZE + 1) + 1 = Len(payload) /\ (HEADER_SIZE + 1 <= z <=> Len(payload) # 0)
    BY <1>1 DEF z
  <2>3. /\ s \in Seq(Byte) /\ Len(s) = Len(payload)
        /\ \A i \in 1..Len(payload) : s[i] = b[(HEADER_SIZE + 1) + i - 1]
    BY <1>1, <2>1, <2>2, SubSeqProperties
  <2> HIDE DEF s
  <2>4. ASSUME NEW i \in 1..Len(payload) PROVE s[i] = payload[i]
    <3>1. (HEADER_SIZE + 1) + i - 1 = HEADER_SIZE + i /\ HEADER_SIZE + i \in 1..z /\ HEADER_SIZE + i <= Len(b)
      BY <1>1, <1>8 DEF z
    <3>2. QED
      BY <1>3, <1>5, <2>3, <3>1
  <2>5. s = payload
    BY <2>3, <2>4, SeqEqual
  <2>6. QED
    BY <2>5 DEF s
<1>9. QED
  BY <1>7, <1>8 DEF z

-----------------------------------------------------------------------------
(* The stream of a connection: it is empty, the ECU adds a packet, or one  *)
(* is taken from its front.                                                *)

LEMMA StreamEmpty ==
  ASSUME NEW f \in Nat, NEW cl
  PROVE  Stream(<<>>, f, f, cl)
<1> DEFINE start == [n \in (f + 1)..(f + 1) |-> 0]
           list == [n \in (f + 1)..f |-> CHOOSE l \in Lists : TRUE]
<1>1. start \in [(f + 1)..(f + 1) -> Nat] /\ list \in [(f + 1)..f -> Lists]
  OBVIOUS
<1>2. StreamOf(<<>>, f, f, cl, start, list)
  BY DEF StreamOf
<1>3. QED
  BY <1>1, <1>2 DEF Stream

LEMMA StreamAppend ==
  ASSUME NEW S \in Seq(Byte), NEW f \in Nat, NEW t \in Nat, f <= t, NEW cl,
         NEW l \in Lists, Telling(l, cl), Stream(S, f, t, cl)
  PROVE  Stream(S \o DataPacket(t + 1, l), f, t + 1, cl)
<1> DEFINE P == DataPacket(t + 1, l)
           R == S \o P
           z == HEADER_SIZE + PacketSize(l)
<1>1. PICK start \in [(f + 1)..(t + 1) -> Nat], list \in [(f + 1)..t -> Lists] :
        StreamOf(S, f, t, cl, start, list)
  BY DEF Stream
<1>2. P \in Seq(Byte) /\ Len(P) = z /\ z \in Nat
  <2>1. t + 1 \in Nat
    OBVIOUS
  <2>2. QED
    BY <2>1, DataPacketType
<1>3. z = HEADER_SIZE + PacketSize(l)
  OBVIOUS
<1> HIDE DEF P, z
<1>4. /\ Len(R) = Len(S) + z /\ Len(S) \in Nat
      /\ \A i \in 1..(Len(S) + z) : R[i] = IF i <= Len(S) THEN S[i] ELSE P[i - Len(S)]
  <2>1. /\ Len(S \o P) = Len(S) + Len(P)
        /\ \A i \in 1..(Len(S) + Len(P)) : (S \o P)[i] = IF i <= Len(S) THEN S[i] ELSE P[i - Len(S)]
    BY <1>2, ConcatProperties
  <2>2. QED
    BY <1>2, <2>1
<1> HIDE DEF R
<1> DEFINE start2 == [n \in (f + 1)..((t + 1) + 1) |-> IF n = (t + 1) + 1 THEN Len(S) + z ELSE start[n]]
           list2 == [n \in (f + 1)..(t + 1) |-> IF n = t + 1 THEN l ELSE list[n]]
<1>5. start2 \in [(f + 1)..((t + 1) + 1) -> Nat] /\ list2 \in [(f + 1)..(t + 1) -> Lists]
  BY <1>2, <1>4
<1>6. /\ \A n \in (f + 1)..(t + 1) : start2[n] = start[n]
      /\ start2[(t + 1) + 1] = Len(S) + z
      /\ \A n \in (f + 1)..t : list2[n] = list[n]
      /\ list2[t + 1] = l
  OBVIOUS
<1> HIDE DEF start2, list2
<1>7. start[f + 1] = 0 /\ start[t + 1] = Len(S)
  BY <1>1 DEF StreamOf
<1>8. ASSUME NEW n \in (f + 1)..(t + 1)
      PROVE  /\ Telling(list2[n], cl) /\ PacketAt(R, start2[n], DataPacket(n, list2[n]))
             /\ start2[n + 1] = start2[n] + HEADER_SIZE + PacketSize(list2[n])
  <2>1. CASE n = t + 1
    <3>1. start2[n] = Len(S) /\ list2[n] = l /\ start2[n + 1] = Len(S) + z /\ DataPacket(n, list2[n]) = P
      BY <1>6, <1>7, <2>1 DEF P
    <3>2. PacketAt(R, Len(S), P)
      <4>1. \A j \in 1..z : Len(S) + j \in 1..(Len(S) + z) /\ ~(Len(S) + j <= Len(S)) /\ (Len(S) + j) - Len(S) = j
        BY <1>2, <1>4
      <4>2. QED
        BY <1>2, <1>4, <4>1 DEF PacketAt
    <3>3. Len(S) + z = Len(S) + HEADER_SIZE + PacketSize(l)
      BY <1>3, <1>4, DataPacketType
    <3>4. QED
      BY <3>1, <3>2, <3>3
  <2>2. CASE n # t + 1
    <3>1. n \in (f + 1)..t /\ n \in (f + 1)..(t + 1) /\ n + 1 \in (f + 1)..(t + 1)
      BY <2>2
    <3>2. start2[n] = start[n] /\ list2[n] = list[n] /\ start2[n + 1] = start[n + 1] /\ start[n] \in Nat
      BY <1>6, <3>1
    <3>3. /\ Telling(list[n], cl) /\ PacketAt(S, start[n], DataPacket(n, list[n]))
          /\ start[n + 1] = start[n] + HEADER_SIZE + PacketSize(list[n])
      BY <1>1, <3>1 DEF StreamOf
    <3> DEFINE Q == DataPacket(n, list[n])
    <3>4. Len(Q) \in Nat
      BY <3>1, DataPacketType
    <3> HIDE DEF Q
    <3>5. PacketAt(R, start[n], Q)
      <4>1. start[n] + Len(Q) <= Len(S) /\ \A j \in 1..Len(Q) : S[start[n] + j] = Q[j]
        BY <3>3 DEF PacketAt, Q
      <4>2. \A j \in 1..Len(Q) : start[n] + j \in 1..(Len(S) + z) /\ start[n] + j <= Len(S)
        BY <1>2, <1>4, <3>2, <3>4, <4>1
      <4>3. start[n] + Len(Q) <= Len(R)
        BY <1>2, <1>4, <3>2, <3>4, <4>1
      <4>4. QED
        BY <1>4, <4>1, <4>2, <4>3 DEF PacketAt
    <3>6. QED
      BY <3>2, <3>3, <3>5 DEF Q
  <2>3. QED
    BY <2>1, <2>2
<1>9. ASSUME NEW m \in (f + 1)..((t + 1) + 1), NEW n \in (f + 1)..((t + 1) + 1), m <= n
      PROVE  start2[m] <= start2[n]
  <2>1. t + 1 \in (f + 1)..(t + 1)
    OBVIOUS
  <2>2. CASE n = (t + 1) + 1
    <3>1. CASE m = (t + 1) + 1
      BY <1>2, <1>4, <1>6, <2>2, <3>1
    <3>2. CASE m # (t + 1) + 1
      <4>1. m \in (f + 1)..(t + 1) /\ m <= t + 1
        BY <3>2
      <4>2. start[m] <= Len(S) /\ start[m] \in Nat
        BY <1>1, <1>7, <2>1, <4>1 DEF StreamOf
      <4>3. QED
        BY <1>2, <1>4, <1>6, <2>2, <4>1, <4>2
    <3>3. QED
      BY <3>1, <3>2
  <2>3. CASE n # (t + 1) + 1
    <3>1. m \in (f + 1)..(t + 1) /\ n \in (f + 1)..(t + 1)
      BY <1>9, <2>3
    <3>2. QED
      BY <1>1, <1>6, <1>9, <3>1 DEF StreamOf
  <2>4. QED
    BY <2>2, <2>3
<1>10. start2[f + 1] = 0 /\ start2[(t + 1) + 1] = Len(R)
  BY <1>4, <1>6, <1>7
<1>11. StreamOf(R, f, t + 1, cl, start2, list2)
  BY <1>5, <1>8, <1>9, <1>10 DEF StreamOf
<1>12. QED
  BY <1>5, <1>11 DEF Stream, R, P

LEMMA StreamFront ==
  ASSUME NEW S \in Seq(Byte), NEW f \in Nat, NEW t \in Nat, f <= t, NEW cl,
         Stream(S, f, t, cl), Len(S) > 0
  PROVE  /\ f < t
         /\ \E l \in Lists :
              /\ Telling(l, cl) /\ PacketAt(S, 0, DataPacket(f + 1, l))
              /\ Stream(SubSeq(S, HEADER_SIZE + PacketSize(l) + 1, Len(S)), f + 1, t, cl)
<1>1. PICK start \in [(f + 1)..(t + 1) -> Nat], list \in [(f + 1)..t -> Lists] :
        StreamOf(S, f, t, cl, start, list)
  BY DEF Stream
<1>2. start[f + 1] = 0 /\ start[t + 1] = Len(S) /\ Len(S) \in Nat
  BY <1>1 DEF StreamOf
<1>3. f < t
  <2>1. f # t
    BY <1>2
  <2>2. QED
    BY <2>1
<1> DEFINE l == list[f + 1]
           z == HEADER_SIZE + PacketSize(l)
           R == SubSeq(S, z + 1, Len(S))
<1>4. f + 1 \in (f + 1)..t /\ l \in Lists /\ (f + 1) + 1 \in (f + 1)..(t + 1)
  BY <1>3
<1>5. HEADER_SIZE \in Nat /\ PacketSize(l) \in Nat /\ z \in Nat
  <2> HIDE DEF l
  <2>1. QED
    BY <1>4, DataPacketType
<1>6. Telling(l, cl) /\ PacketAt(S, 0, DataPacket(f + 1, l)) /\ start[(f + 1) + 1] = z
  <2>1. /\ Telling(l, cl) /\ PacketAt(S, start[f + 1], DataPacket(f + 1, l))
        /\ start[(f + 1) + 1] = start[f + 1] + HEADER_SIZE + PacketSize(l)
    BY <1>1, <1>4 DEF StreamOf
  <2> HIDE DEF l
  <2>2. QED
    BY <1>2, <1>5, <2>1
<1> HIDE DEF l, z
<1>7. z <= Len(S)
  BY <1>1, <1>2, <1>4, <1>6 DEF StreamOf
<1>8. Len(R) = Len(S) - z /\ \A i \in 1..(Len(S) - z) : R[i] = S[z + i]
  BY <1>5, <1>7, SuffixOf
<1> HIDE DEF R
<1>9. ASSUME NEW n \in ((f + 1) + 1)..(t + 1)
      PROVE  n \in (f + 1)..(t + 1) /\ start[n] \in Nat /\ start[n] - z \in Nat
  <2>1. n \in (f + 1)..(t + 1) /\ (f + 1) + 1 <= n
    BY <1>9
  <2>2. start[n] \in Nat /\ z <= start[n]
    BY <1>1, <1>4, <1>6, <2>1 DEF StreamOf
  <2>3. QED
    BY <1>5, <2>1, <2>2
<1> DEFINE start2 == [n \in ((f + 1) + 1)..(t + 1) |-> start[n] - z]
           list2 == [n \in ((f + 1) + 1)..t |-> list[n]]
<1>10. start2 \in [((f + 1) + 1)..(t + 1) -> Nat] /\ list2 \in [((f + 1) + 1)..t -> Lists]
  BY <1>9
<1>11. /\ \A n \in ((f + 1) + 1)..(t + 1) : start2[n] = start[n] - z
       /\ \A n \in ((f + 1) + 1)..t : list2[n] = list[n]
  OBVIOUS
<1> HIDE DEF start2, list2
<1>12. start2[(f + 1) + 1] = 0 /\ start2[t + 1] = Len(R)
  BY <1>2, <1>3, <1>5, <1>6, <1>8, <1>11
<1>13. ASSUME NEW n \in ((f + 1) + 1)..t
       PROVE  /\ Telling(list2[n], cl) /\ PacketAt(R, start2[n], DataPacket(n, list2[n]))
              /\ start2[n + 1] = start2[n] + HEADER_SIZE + PacketSize(list2[n])
  <2>1. /\ n \in (f + 1)..t /\ n \in ((f + 1) + 1)..(t + 1) /\ n + 1 \in ((f + 1) + 1)..(t + 1)
        /\ n \in Nat
    OBVIOUS
  <2>2. /\ start2[n] = start[n] - z /\ start2[n + 1] = start[n + 1] - z /\ list2[n] = list[n]
        /\ start[n] - z \in Nat /\ start[n] \in Nat /\ start[n + 1] \in Nat /\ list[n] \in Lists
    BY <1>9, <1>11, <2>1
  <2>3. /\ Telling(list[n], cl) /\ PacketAt(S, start[n], DataPacket(n, list[n]))
        /\ start[n + 1] = start[n] + HEADER_SIZE + PacketSize(list[n])
    BY <1>1, <2>1 DEF StreamOf
  <2> DEFINE Q == DataPacket(n, list[n])
  <2>4. Len(Q) \in Nat /\ PacketSize(list[n]) \in Nat
    BY <2>1, <2>2, DataPacketType
  <2> HIDE DEF Q
  <2> DEFINE a == start[n]
             c == start[n + 1]
  <2> HIDE DEF a, c
  <2>5. PacketAt(R, a - z, Q)
    <3>1. a + Len(Q) <= Len(S) /\ \A j \in 1..Len(Q) : S[a + j] = Q[j]
      BY <2>3 DEF PacketAt, Q, a
    <3>2. a \in Nat /\ a - z \in Nat
      BY <2>2 DEF a
    <3>3. ASSUME NEW j \in 1..Len(Q) PROVE R[(a - z) + j] = Q[j]
      <4>1. (a - z) + j \in 1..(Len(S) - z) /\ z + ((a - z) + j) = a + j
        BY <1>2, <1>5, <2>4, <3>1, <3>2
      <4>2. QED
        BY <1>8, <3>1, <4>1
    <3>4. (a - z) + Len(Q) <= Len(R)
      BY <1>2, <1>5, <1>8, <2>4, <3>1, <3>2
    <3>5. QED
      BY <3>3, <3>4 DEF PacketAt
  <2>6. start2[n + 1] = start2[n] + HEADER_SIZE + PacketSize(list2[n])
    <3>1. /\ start2[n + 1] = c - z /\ start2[n] = a - z /\ list2[n] = list[n] /\ a \in Nat /\ c \in Nat
          /\ c = a + HEADER_SIZE + PacketSize(list[n])
      BY <2>2, <2>3 DEF a, c
    <3>2. (a + HEADER_SIZE + PacketSize(list[n])) - z = (a - z) + HEADER_SIZE + PacketSize(list[n])
      BY <1>5, <2>4, <3>1
    <3>3. QED
      BY <3>1, <3>2
  <2>7. QED
    BY <2>2, <2>3, <2>5, <2>6 DEF Q, a
<1>14. ASSUME NEW m \in ((f + 1) + 1)..(t + 1), NEW n \in ((f + 1) + 1)..(t + 1), m <= n
       PROVE  start2[m] <= start2[n]
  <2>1. start[m] \in Nat /\ start[n] \in Nat /\ start[m] <= start[n]
    BY <1>1, <1>9, <1>14 DEF StreamOf
  <2>2. QED
    BY <1>5, <1>11, <2>1
<1>15. StreamOf(R, f + 1, t, cl, start2, list2)
  BY <1>10, <1>12, <1>13, <1>14 DEF StreamOf
<1>16. Stream(R, f + 1, t, cl)
  BY <1>10, <1>15 DEF Stream
<1>17. QED
  BY <1>3, <1>4, <1>6, <1>16 DEF R, z

-----------------------------------------------------------------------------
(* The steps of a recording. *)

LEMMA UpToMore ==
  ASSUME NEW frames, NEW f \in Nat, NEW g \in Nat, f <= g, UpTo(frames, f)
  PROVE  UpTo(frames, g)
<1>1. \A m \in 1..f : m \in 1..g
  OBVIOUS
<1>2. QED
  BY <1>1 DEF UpTo

LEMMA BytesAssociative ==
  \A s, t, u \in Seq(Byte) : (s \o t) \o u = s \o (t \o u)
  BY ConcatAssociative

\* The answer to an 0x35 goes to the end of the stream, of whole packets.
LEMMA AnswersStream ==
  ASSUME NEW b \in Seq(Byte), wire \in Seq(Byte), sent \in 0..MaxPackets, ecu \in Lists,
         NEW cl, Telling(ecu, cl), NEW f \in 0..sent, Stream(b \o wire, f, sent, cl), Answers
  PROVE  /\ wire' \in Seq(Byte) /\ sent' \in sent..MaxPackets
         /\ Stream(b \o wire', f, sent', cl)
<1> DEFINE S == b \o wire
           P == DataPacket(sent + 1, ecu)
           Q == DataPacket((sent + 1) + 1, ecu)
<1>1. MaxPackets \in Nat
  BY CaptureAssumption
<1>2. sent \in Nat /\ f \in Nat /\ sent + 1 \in Nat /\ (sent + 1) + 1 \in Nat /\ f <= sent /\ f <= sent + 1
  BY <1>1
<1>3. S \in Seq(Byte) /\ P \in Seq(Byte) /\ Q \in Seq(Byte)
  BY <1>2, DataPacketType, ConcatProperties
<1>4. Stream(S \o P, f, sent + 1, cl)
  BY <1>2, <1>3, StreamAppend
<1>5. Stream((S \o P) \o Q, f, (sent + 1) + 1, cl)
  <2>1. S \o P \in Seq(Byte)
    BY <1>3, ConcatProperties
  <2> HIDE DEF S, P
  <2>2. QED
    BY <1>2, <1>4, <2>1, StreamAppend
<1> HIDE DEF P, Q
<1>6. S \o P = b \o (wire \o P)
  BY <1>3, ConcatAssociative
<1>7. (S \o P) \o Q = b \o ((wire \o P) \o Q)
  <2>1. wire \o P \in Seq(Byte)
    BY <1>3, ConcatProperties
  <2> DEFINE X == wire \o P
  <2> HIDE DEF X
  <2>2. X \in Seq(Byte)
    BY <2>1 DEF X
  <2>3. (b \o X) \o Q = b \o (X \o Q)
    BY <1>3, <2>2, BytesAssociative
  <2>4. QED
    BY <1>6, <2>3 DEF X
<1>8. sent' \in {sent, sent + 1, sent + 2} /\ sent' <= MaxPackets
  BY DEF Answers
<1>9. CASE sent' = sent
  <2>1. wire' = wire
    BY <1>9 DEF Answers
  <2>2. QED
    BY <1>1, <1>8, <1>9, <2>1
<1>10. CASE sent' = sent + 1
  <2>1. wire' = wire \o P
    BY <1>2, <1>10 DEF Answers, P
  <2>2. wire' \in Seq(Byte)
    BY <1>3, <2>1, ConcatProperties
  <2>3. QED
    BY <1>1, <1>2, <1>4, <1>6, <1>8, <1>10, <2>1, <2>2
<1>11. CASE sent' = sent + 2
  <2>1. wire' = (wire \o P) \o Q
    <3>1. sent' # sent /\ sent' # sent + 1 /\ sent' = (sent + 1) + 1
      BY <1>2, <1>11
    <3>2. wire' = wire \o DataPacket(sent + 1, ecu) \o DataPacket(sent', ecu)
      BY <3>1 DEF Answers
    <3>3. QED
      BY <3>1, <3>2 DEF P, Q
  <2>2. wire' \in Seq(Byte)
    <3>1. wire \o P \in Seq(Byte)
      BY <1>3, ConcatProperties
    <3>2. QED
      BY <1>3, <2>1, <3>1, ConcatProperties
  <2>3. sent' = (sent + 1) + 1
    BY <1>2, <1>11
  <2>4. QED
    BY <1>1, <1>2, <1>5, <1>7, <1>8, <2>1, <2>2, <2>3
<1>12. QED
  BY <1>8, <1>9, <1>10, <1>11

\* A packet that _stream reads and whose size is right is the next one, of the channels of
\* its table, and what follows it is the rest of the stream.
LEMMA DataFront ==
  ASSUME TypeOK, RecordInv, asked = "data", Len(buf) >= HEADER_SIZE,
         NEW h \in Headers(buf), Whole(h), Len(Payload(h)) = PacketSize(channel_list)
  PROVE  \E f \in 1..sent :
           /\ Payload(h) = Data(f, channel_list) /\ UpTo(live, f - 1)
           /\ Rest(h) \in Seq(Byte) /\ Stream(Rest(h) \o wire, f, sent, channel_list)
<1>1. buf \in Seq(Byte) /\ wire \in Seq(Byte) /\ sent \in 0..MaxPackets /\ MaxPackets \in Nat
  BY CaptureAssumption DEF TypeOK
<1>2. PICK e \in 0..sent : UpTo(live, e) /\ Stream(Unread, e, sent, channel_list)
  BY DEF RecordInv
<1>3. Unread \in Seq(Byte) /\ Len(Unread) = Len(buf) + Len(wire)
  BY <1>1, ConcatProperties DEF Unread
<1>4. Len(Unread) > 0
  <2>1. HEADER_SIZE \in Nat \ {0}
    BY CaptureAssumption
  <2>2. Len(buf) \in Nat /\ Len(wire) \in Nat
    BY <1>1
  <2>3. QED
    BY <1>3, <2>1, <2>2
<1>5. e \in Nat /\ sent \in Nat /\ e <= sent
  BY <1>1
<1>6. PICK l \in Lists :
        /\ e < sent /\ Telling(l, channel_list) /\ PacketAt(Unread, 0, DataPacket(e + 1, l))
        /\ Stream(SubSeq(Unread, HEADER_SIZE + PacketSize(l) + 1, Len(Unread)), e + 1, sent, channel_list)
  BY <1>2, <1>3, <1>4, <1>5, StreamFront
<1> DEFINE D == Data(e + 1, l)
           z == HEADER_SIZE + Len(D)
<1>7. /\ DataPacket(e + 1, l) = Packet("data", D) /\ D \in Seq(Byte) /\ Len(D) = PacketSize(l)
      /\ PacketSize(l) \in Nat /\ HEADER_SIZE \in Nat
  BY <1>5, DataPacketType
<1> HIDE DEF D
<1>8. /\ Headers(buf) = {[cmd |-> "data", size |-> z]}
      /\ Len(buf) >= z => SubSeq(buf, HEADER_SIZE + 1, z) = D
  <2>1. PacketAt(buf \o wire, 0, Packet("data", D))
    BY <1>6, <1>7 DEF Unread
  <2>2. QED
    BY <1>1, <1>7, <2>1, FrontPacket
<1>9. h.size = z /\ Len(buf) >= z
  BY <1>8 DEF Whole
<1>10. Payload(h) = D
  BY <1>8, <1>9 DEF Payload
<1>11. l = channel_list
  BY <1>6, <1>7, <1>10 DEF Telling
<1>12. Rest(h) \in Seq(Byte) /\ Rest(h) \o wire = SubSeq(Unread, z + 1, Len(Unread))
  <2>1. z \in Nat
    BY <1>7
  <2> HIDE DEF z
  <2>2. QED
    BY <1>1, <1>9, <2>1, RestOfStream DEF Rest, Unread
<1>13. e + 1 \in 1..sent /\ (e + 1) - 1 = e
  BY <1>5, <1>6
<1>14. QED
  BY <1>2, <1>6, <1>7, <1>10, <1>11, <1>12, <1>13 DEF D

\* What _handshake takes for the 0x31 reply is it, with nothing after it.
LEMMA IdsFront ==
  ASSUME TypeOK, RecordInv, asked = "ids", Len(buf) >= HEADER_SIZE,
         NEW h \in Headers(buf), Whole(h), h.cmd = "ids"
  PROVE  ecu \in Lists /\ ParsedLists(Payload(h)) = {ecu} /\ Rest(h) = <<>> /\ wire = <<>>
<1>1. buf \in Seq(Byte) /\ wire \in Seq(Byte) /\ sent \in Nat /\ ecu \in Lists
  BY CaptureAssumption DEF TypeOK, RecordInv
<1>2. CASE PacketAt(Unread, 0, DataPacket(sent, ecu))
  <2> DEFINE D == Data(sent, ecu)
  <2>1. DataPacket(sent, ecu) = Packet("data", D) /\ D \in Seq(Byte)
    BY <1>1, DataPacketType
  <2> HIDE DEF D
  <2>2. PacketAt(buf \o wire, 0, Packet("data", D))
    BY <1>2, <2>1 DEF Unread
  <2>3. Headers(buf) = {[cmd |-> "data", size |-> HEADER_SIZE + Len(D)]}
    BY <1>1, <2>1, <2>2, FrontPacket
  <2>4. h.cmd = "data"
    BY <2>3
  <2>5. QED
    BY <2>4
<1>3. CASE Unread = IdsPacket(ecu)
  <2> DEFINE u == [i \in DOMAIN ecu |-> IdUnit(ecu[i])]
             z == HEADER_SIZE + Len(u)
  <2>1. /\ IdsPacket(ecu) = Packet("ids", u) /\ u \in Seq(Byte) /\ Len(u) = Len(ecu)
        /\ IdsPacket(ecu) \in Seq(Byte) /\ Len(IdsPacket(ecu)) = z /\ HEADER_SIZE \in Nat
    BY <1>1, IdsPacketType, CaptureAssumption
  <2> HIDE DEF u
  <2>2. PacketAt(buf \o wire, 0, Packet("ids", u))
    <3> DEFINE P == Packet("ids", u)
    <3>1. buf \o wire = P /\ P \in Seq(Byte)
      BY <1>3, <2>1 DEF Unread
    <3> HIDE DEF P
    <3>2. PacketAt(P, 0, P)
      <4>1. Len(P) \in Nat /\ \A j \in 1..Len(P) : 0 + j = j
        BY <3>1
      <4>2. QED
        BY <4>1 DEF PacketAt
    <3>3. QED
      BY <3>1, <3>2 DEF P
  <2>3. /\ Headers(buf) = {[cmd |-> "ids", size |-> z]}
        /\ Len(buf) >= z => SubSeq(buf, HEADER_SIZE + 1, z) = u
    BY <1>1, <2>1, <2>2, FrontPacket
  <2>4. h.size = z /\ Len(buf) >= z /\ z \in Nat
    BY <2>1, <2>3 DEF Whole
  <2>5. Payload(h) = u
    BY <2>3, <2>4 DEF Payload
  <2>6. Len(buf) = z /\ wire = <<>>
    <3>1. Len(buf) + Len(wire) = z /\ Len(buf) \in Nat /\ Len(wire) \in Nat
      BY <1>1, <1>3, <2>1, ConcatProperties DEF Unread
    <3>2. Len(wire) = 0 /\ Len(buf) = z
      BY <2>4, <3>1
    <3>3. QED
      BY <1>1, <3>2, EmptySeq
  <2>7. Rest(h) = <<>>
    <3>1. z + 1 \in Int /\ z \in Int /\ z < z + 1
      BY <2>4
    <3>2. Rest(h) = SubSeq(buf, z + 1, z)
      BY <2>4, <2>6 DEF Rest
    <3> HIDE DEF z
    <3>3. QED
      BY <3>1, <3>2, SubSeqEmpty
  <2>8. ParsedLists(u) = {ecu}
    <3>1. DOMAIN ecu = 1..Len(ecu) /\ ecu \in Seq(DOMAIN Size)
      BY <1>1, ListType
    <3>2. \A x \in Range(u) : x.kind = "id"
      BY DEF u, Range, IdUnit
    <3>3. [i \in DOMAIN u |-> u[i].c] = [i \in DOMAIN ecu |-> ecu[i]]
      BY DEF u, IdUnit
    <3>4. [i \in DOMAIN ecu |-> ecu[i]] = ecu
      BY <3>1
    <3>5. QED
      BY <3>2, <3>3, <3>4 DEF ParsedLists
  <2>9. QED
    BY <1>1, <2>5, <2>6, <2>7, <2>8
<1>4. QED
  BY <1>2, <1>3 DEF RecordInv

\* Nothing but Frame and StopRecording touches the frames and the file while recording.
LEMMA LinkStep ==
  ASSUME Inv, UNCHANGED <<phase, file, written_list, live, replayer>>
  PROVE  FramesWhole' /\ FileInv' /\ DiesOnHalfALine'
<1>1. /\ phase' = phase /\ file' = file /\ written_list' = written_list /\ live' = live
      /\ at' = at /\ pos' = pos /\ out' = out /\ table' = table
  BY DEF replayer
<1>2. FramesWhole'
  BY <1>1 DEF Inv, FramesWhole
<1>3. FileInv'
  <2>1. PICK count, under :
          FileOf(file, live, count, under) /\ Records(count, under) /\ Plays(count, under)
    BY DEF Inv, FileInv
  <2>2. FileOf(file', live', count, under)
    BY <1>1, <2>1
  <2>3. Records(count, under)' /\ Plays(count, under)'
    BY <1>1, <2>1 DEF Records, Plays
  <2>4. /\ Len(out') <= Len(live') /\ \A i \in DOMAIN out' : out'[i] = live'[i]
        /\ phase' = "record" => at' = "top" /\ out' = <<>>
    BY <1>1 DEF Inv, FileInv
  <2>5. QED
    BY <1>1, <2>1, <2>2, <2>3, <2>4 DEF FileInv
<1>4. DiesOnHalfALine'
  BY <1>1 DEF Inv, DiesOnHalfALine
<1>5. QED
  BY <1>2, <1>3, <1>4

LEMMA EcuChangesStep == Inv /\ EcuChanges => Inv'
<1> SUFFICES ASSUME Inv, EcuChanges PROVE Inv'
  OBVIOUS
<1>1. /\ phase = "record" /\ phase' = phase /\ UNCHANGED replayer
      /\ UNCHANGED <<asked, wire, buf, channel_list, young, file, written_list, conns, sent, live>>
      /\ asked = "data" /\ ecu' \in Lists /\ Telling(ecu', channel_list)
  BY DEF EcuChanges, RecordOnly, Recording, Telling
<1>2. TypeOK'
  BY <1>1 DEF Inv, TypeOK, replayer
<1>3. RecordInv'
  BY <1>1 DEF Inv, RecordInv, Unread, Telling
<1>4. QED
  BY <1>1, <1>2, <1>3, LinkStep DEF Inv

LEMMA ConnectStep == Inv /\ Connect => Inv'
<1> SUFFICES ASSUME Inv, Connect PROVE Inv'
  OBVIOUS
<1>1. /\ phase = "record" /\ phase' = phase /\ UNCHANGED replayer
      /\ UNCHANGED <<buf, channel_list, file, written_list, live>>
      /\ asked = "none" /\ asked' = "ids"
  BY DEF Connect, RecordOnly, Recording
<1>2. PICK l \in Lists :
        /\ ecu' = l
        /\ \/ wire' = IdsPacket(l) /\ sent' = sent
           \/ sent < MaxPackets /\ sent' = sent + 1 /\ wire' = DataPacket(sent', l) \o IdsPacket(l)
  BY DEF Connect
<1>3. sent \in 0..MaxPackets /\ MaxPackets \in Nat /\ buf = <<>> /\ RecordInv
  BY <1>1, CaptureAssumption DEF Inv, TypeOK, RecordInv
<1>4. sent' \in 0..MaxPackets /\ sent <= sent' /\ sent' \in Nat
  BY <1>2, <1>3
<1> DEFINE P == DataPacket(sent', l)
           Q == IdsPacket(l)
<1>5. P \in Seq(Byte) /\ Q \in Seq(Byte) /\ P \o Q \in Seq(Byte)
  BY <1>4, DataPacketType, IdsPacketType, ConcatProperties
<1>6. wire' = Q \/ wire' = P \o Q
  BY <1>2
<1>7. PacketAt(P \o Q, 0, P)
  <2> HIDE DEF P, Q
  <2>1. /\ Len(P \o Q) = Len(P) + Len(Q) /\ Len(P) \in Nat /\ Len(Q) \in Nat
        /\ \A i \in 1..(Len(P) + Len(Q)) : (P \o Q)[i] = IF i <= Len(P) THEN P[i] ELSE Q[i - Len(P)]
    BY <1>5, ConcatProperties
  <2>2. \A j \in 1..Len(P) : 0 + j = j /\ j \in 1..(Len(P) + Len(Q)) /\ j <= Len(P)
    BY <2>1
  <2>3. QED
    BY <2>1, <2>2 DEF PacketAt
<1> HIDE DEF P, Q
<1>8. wire' \in Seq(Byte) /\ Unread' = wire'
  <2>1. wire' \in Seq(Byte)
    BY <1>5, <1>6
  <2>2. buf' = <<>>
    BY <1>1, <1>3
  <2>3. QED
    BY <2>1, <2>2, ConcatEmptySeq DEF Unread
<1>9. TypeOK'
  BY <1>1, <1>2, <1>4, <1>8 DEF Inv, TypeOK, replayer
<1>10. RecordInv'
  <2>1. PICK f \in 0..sent : UpTo(live, f)
    BY <1>3 DEF RecordInv
  <2>2. UpTo(live', sent') /\ sent' \in 0..sent'
    <3>1. f \in Nat /\ f <= sent'
      BY <1>3, <1>4
    <3>2. QED
      BY <1>1, <1>4, <2>1, <3>1, UpToMore
  <2>3. Unread' = IdsPacket(ecu') \/ PacketAt(Unread', 0, DataPacket(sent', ecu'))
    BY <1>2, <1>6, <1>7, <1>8 DEF P, Q
  <2>4. QED
    BY <1>1, <1>2, <2>2, <2>3 DEF RecordInv
<1>11. QED
  BY <1>1, <1>9, <1>10, LinkStep DEF Inv

\* What is read moves from the bytes in flight to the buffer.
LEMMA ReceiveStep == Inv /\ Receive => Inv'
<1> SUFFICES ASSUME Inv, Receive PROVE Inv'
  OBVIOUS
<1>1. /\ phase = "record" /\ phase' = phase /\ UNCHANGED replayer /\ asked # "none"
      /\ UNCHANGED <<ecu, asked, channel_list, young, file, written_list, conns, sent, live>>
  BY DEF Receive, RecordOnly, Recording
<1>2. PICK n \in 1..Len(wire) :
        buf' = buf \o SubSeq(wire, 1, n) /\ wire' = SubSeq(wire, n + 1, Len(wire))
  BY DEF Receive
<1>3. buf \in Seq(Byte) /\ wire \in Seq(Byte) /\ Len(wire) \in Nat /\ n \in Nat /\ n <= Len(wire)
  BY DEF Inv, TypeOK
<1> DEFINE a == SubSeq(wire, 1, n)
           b == SubSeq(wire, n + 1, Len(wire))
<1>4. a \in Seq(Byte) /\ Len(a) = n /\ \A i \in 1..n : a[i] = wire[i]
  <2>1. \A i \in 1..n : wire[i] \in Byte /\ 1 + i - 1 = i
    BY <1>3
  <2>2. n - 1 + 1 = n /\ 1 <= n
    BY <1>3
  <2>3. a \in Seq(Byte) /\ Len(a) = n - 1 + 1 /\ \A i \in 1..(n - 1 + 1) : a[i] = wire[1 + i - 1]
    BY <1>3, <2>1, <2>2, SubSeqProperties
  <2>4. QED
    BY <2>1, <2>2, <2>3
<1>5. b \in Seq(Byte) /\ Len(b) = Len(wire) - n /\ \A i \in 1..(Len(wire) - n) : b[i] = wire[n + i]
  BY <1>3, SuffixOf
<1> HIDE DEF a, b
<1>6. a \o b = wire
  <2>1. /\ a \o b \in Seq(Byte) /\ Len(a \o b) = Len(a) + Len(b)
        /\ \A i \in 1..(Len(a) + Len(b)) : (a \o b)[i] = IF i <= Len(a) THEN a[i] ELSE b[i - Len(a)]
    BY <1>4, <1>5, ConcatProperties
  <2>2. Len(a \o b) = Len(wire)
    BY <1>3, <1>4, <1>5, <2>1
  <2>3. ASSUME NEW i \in 1..Len(wire) PROVE (a \o b)[i] = wire[i]
    <3>1. i \in 1..(Len(a) + Len(b)) /\ (~(i <= n) => i - n \in 1..(Len(wire) - n) /\ n + (i - n) = i)
      BY <1>3, <1>4, <1>5
    <3>2. QED
      BY <1>3, <1>4, <1>5, <2>1, <3>1
  <2>4. QED
    BY <1>3, <2>1, <2>2, <2>3, SeqEqual
<1>7. Unread' = Unread /\ buf' \in Seq(Byte) /\ wire' \in Seq(Byte)
  <2>1. buf' = buf \o a /\ wire' = b
    BY <1>2 DEF a, b
  <2>2. (buf \o a) \o b = buf \o (a \o b) /\ buf \o a \in Seq(Byte)
    BY <1>3, <1>4, <1>5, BytesAssociative, ConcatProperties
  <2>3. QED
    BY <1>5, <1>6, <2>1, <2>2 DEF Unread
<1>8. TypeOK'
  BY <1>1, <1>7 DEF Inv, TypeOK, replayer
<1>9. RecordInv'
  BY <1>1, <1>7 DEF Inv, RecordInv
<1>10. QED
  BY <1>1, <1>8, <1>9, LinkStep DEF Inv

\* A connection that ends leaves no bytes behind.
LEMMA TeardownStep == Inv /\ (LinkFails \/ ProtocolError) => Inv'
<1> SUFFICES ASSUME Inv, LinkFails \/ ProtocolError PROVE Inv'
  OBVIOUS
<1>1. /\ phase = "record" /\ phase' = phase /\ UNCHANGED replayer
      /\ UNCHANGED <<channel_list, young, file, written_list, conns, sent, live>>
      /\ asked' = "none" /\ ecu' = None /\ wire' = <<>> /\ buf' = <<>>
  BY DEF LinkFails, ProtocolError, RecordOnly, Recording, Teardown
<1>2. TypeOK'
  BY <1>1, EmptySeq DEF Inv, TypeOK, replayer
<1>3. RecordInv'
  BY <1>1 DEF Inv, RecordInv
<1>4. QED
  BY <1>1, <1>2, <1>3, LinkStep DEF Inv

LEMMA HandshakeStep == Inv /\ Handshake => Inv'
<1> SUFFICES ASSUME Inv, Handshake PROVE Inv'
  OBVIOUS
<1>1. /\ phase = "record" /\ phase' = phase /\ UNCHANGED replayer /\ asked = "ids" /\ asked' = "data"
      /\ UNCHANGED <<ecu, young, file, written_list, conns, live>>
      /\ Len(buf) >= HEADER_SIZE /\ Answers
  BY DEF Handshake, RecordOnly, Recording
<1>2. PICK h \in Headers(buf) :
        /\ Whole(h) /\ h.cmd = "ids"
        /\ channel_list' \in ParsedLists(Payload(h)) /\ buf' = Rest(h)
  BY DEF Handshake
<1>3. TypeOK /\ RecordInv /\ sent \in 0..MaxPackets /\ MaxPackets \in Nat
  BY <1>1, CaptureAssumption DEF Inv, TypeOK
<1>4. ecu \in Lists /\ channel_list' = ecu /\ buf' = <<>> /\ wire = <<>>
  BY <1>1, <1>2, <1>3, IdsFront
<1>5. Telling(ecu, ecu)
  BY <1>4 DEF Telling
<1>6. Stream(<<>> \o wire, sent, sent, ecu) /\ <<>> \in Seq(Byte) /\ wire \in Seq(Byte)
  <2>1. <<>> \o wire = <<>> /\ <<>> \in Seq(Byte)
    BY <1>4, EmptySeq, ConcatEmptySeq
  <2>2. QED
    BY <1>3, <1>4, <2>1, StreamEmpty
<1>7. /\ wire' \in Seq(Byte) /\ sent' \in sent..MaxPackets
      /\ Stream(<<>> \o wire', sent, sent', ecu)
  <2>1. sent \in 0..sent
    BY <1>3
  <2>2. QED
    BY <1>1, <1>3, <1>4, <1>5, <1>6, <2>1, AnswersStream
<1>8. TypeOK'
  BY <1>1, <1>3, <1>4, <1>6, <1>7 DEF Inv, TypeOK, replayer
<1>9. RecordInv'
  <2>1. PICK f \in 0..sent : UpTo(live, f)
    BY <1>3 DEF RecordInv
  <2>2. UpTo(live, sent) /\ sent \in 0..sent'
    <3>1. f \in Nat /\ f <= sent /\ sent \in Nat
      BY <1>3
    <3>2. UpTo(live, sent)
      BY <2>1, <3>1, UpToMore
    <3>3. QED
      BY <1>3, <1>7, <3>2
  <2>3. QED
    BY <1>1, <1>4, <1>5, <1>7, <2>2 DEF RecordInv, Unread
<1>10. QED
  BY <1>1, <1>8, <1>9, LinkStep DEF Inv

-----------------------------------------------------------------------------
(* The lines of the file, as they are written and as they are lost. *)

LEMMA FileBegins ==
  ASSUME NEW frames, Len(frames) \in Nat
  PROVE  FileOf(<<>>, frames, [p \in 0..0 |-> 0], [p \in 0..0 |-> None])
  BY DEF FileOf

\* write_channels.
LEMMA ChannelsLine ==
  ASSUME NEW lines \in Seq(Line), NEW frames \in Seq(Values), NEW count, NEW under,
         FileOf(lines, frames, count, under), NEW l \in Lists
  PROVE  \E count2, under2 :
           /\ FileOf(Append(lines, [type |-> "channels", list |-> l]), frames, count2, under2)
           /\ count2[Len(lines) + 1] = count[Len(lines)] /\ under2[Len(lines) + 1] = l
<1> DEFINE N == Len(lines)
           line == [type |-> "channels", list |-> l]
           F == Append(lines, line)
           c == [p \in 0..(N + 1) |-> IF p = N + 1 THEN count[N] ELSE count[p]]
           u == [p \in 0..(N + 1) |-> IF p = N + 1 THEN l ELSE under[p]]
<1>1. N \in Nat /\ Len(frames) \in Nat /\ N \in 0..N
  OBVIOUS
<1>2. Len(F) = N + 1 /\ F[N + 1] = line /\ \A p \in 1..N : F[p] = lines[p]
  <2> HIDE DEF line
  <2>1. QED
    OBVIOUS
<1> HIDE DEF N, F
<1>3. /\ c \in [0..(N + 1) -> 0..Len(frames)] /\ c[0] = 0
      /\ u \in [0..(N + 1) -> Lists \cup {None}] /\ u[0] = None
  <2>1. /\ count \in [0..N -> 0..Len(frames)] /\ count[0] = 0
        /\ under \in [0..N -> Lists \cup {None}] /\ under[0] = None
    BY DEF FileOf, N
  <2>2. count[N] \in 0..Len(frames) /\ under[N] \in Lists \cup {None}
    BY <1>1, <2>1
  <2>3. QED
    BY <1>1, <2>1, <2>2
<1>4. /\ \A p \in 0..N : c[p] = count[p] /\ u[p] = under[p]
      /\ c[N + 1] = count[N] /\ u[N + 1] = l
  BY <1>1
<1> HIDE DEF c, u
<1>5. ASSUME NEW p \in 1..N
      PROVE  /\ F[p] = lines[p] /\ c[p] = count[p] /\ c[p - 1] = count[p - 1]
             /\ u[p] = under[p] /\ u[p - 1] = under[p - 1]
  BY <1>1, <1>2, <1>4
<1>6. LineOf(F[N + 1], frames, c[(N + 1) - 1], c[N + 1], u[(N + 1) - 1], u[N + 1])
  <2>1. F[N + 1].type = "channels" /\ c[N + 1] = c[(N + 1) - 1] /\ u[N + 1] = F[N + 1].list
    BY <1>1, <1>2, <1>4
  <2>2. QED
    BY <2>1 DEF LineOf
<1>7. \A p \in 1..(N + 1) : LineOf(F[p], frames, c[p - 1], c[p], u[p - 1], u[p])
  <2>1. \A p \in 1..N : LineOf(lines[p], frames, count[p - 1], count[p], under[p - 1], under[p])
    BY DEF FileOf, N
  <2>2. \A p \in 1..N : LineOf(F[p], frames, c[p - 1], c[p], u[p - 1], u[p])
    BY <1>5, <2>1
  <2>3. \A p \in 1..(N + 1) : p \in 1..N \/ p = N + 1
    BY <1>1
  <2>4. QED
    BY <1>6, <2>2, <2>3
<1>8. FileOf(F, frames, c, u)
  BY <1>2, <1>3, <1>7 DEF FileOf
<1>9. QED
  BY <1>4, <1>8 DEF F, N

\* The line of a frame.
LEMMA PacketLine ==
  ASSUME NEW lines \in Seq(Line), NEW frames \in Seq(Values), NEW count, NEW under,
         FileOf(lines, frames, count, under), NEW l \in Lists, NEW raw, Decodes(l, raw),
         count[Len(lines)] = Len(frames), under[Len(lines)] = l, Decode(l, raw) \in Values
  PROVE  \E count2, under2 :
           /\ FileOf(Append(lines, [type |-> "packet", raw |-> raw]), Append(frames, Decode(l, raw)),
                     count2, under2)
           /\ count2[Len(lines) + 1] = Len(frames) + 1 /\ under2[Len(lines) + 1] = l
<1> DEFINE N == Len(lines)
           M == Len(frames)
           v == Decode(l, raw)
           line == [type |-> "packet", raw |-> raw]
           F == Append(lines, line)
           G == Append(frames, v)
           c == [p \in 0..(N + 1) |-> IF p = N + 1 THEN M + 1 ELSE count[p]]
           u == [p \in 0..(N + 1) |-> IF p = N + 1 THEN l ELSE under[p]]
<1>1. N \in Nat /\ M \in Nat /\ N \in 0..N
  OBVIOUS
<1>2. Len(F) = N + 1 /\ F[N + 1] = line /\ \A p \in 1..N : F[p] = lines[p]
  <2> HIDE DEF line
  <2>1. QED
    OBVIOUS
<1>3. Len(G) = M + 1 /\ G[M + 1] = v /\ \A i \in 1..M : G[i] = frames[i]
  <2> HIDE DEF v
  <2>1. QED
    OBVIOUS
<1> HIDE DEF N, M, F, G, v
<1>4. /\ count \in [0..N -> 0..M] /\ count[0] = 0 /\ under \in [0..N -> Lists \cup {None}]
      /\ under[0] = None /\ count[N] = M /\ under[N] = l
  BY DEF FileOf, N, M
<1>5. /\ c \in [0..(N + 1) -> 0..(M + 1)] /\ c[0] = 0
      /\ u \in [0..(N + 1) -> Lists \cup {None}] /\ u[0] = None
  BY <1>1, <1>4
<1>6. /\ \A p \in 0..N : c[p] = count[p] /\ u[p] = under[p]
      /\ c[N + 1] = M + 1 /\ u[N + 1] = l
  BY <1>1
<1> HIDE DEF c, u
<1>7. ASSUME NEW p \in 1..N
      PROVE  LineOf(F[p], G, c[p - 1], c[p], u[p - 1], u[p])
  <2>1. /\ F[p] = lines[p] /\ c[p] = count[p] /\ c[p - 1] = count[p - 1]
        /\ u[p] = under[p] /\ u[p - 1] = under[p - 1]
    BY <1>1, <1>2, <1>6
  <2>2. count[p] = count[p - 1] + 1 => G[count[p]] = frames[count[p]]
    <3>1. count[p] \in 0..M /\ count[p - 1] \in 0..M
      BY <1>1, <1>4
    <3>2. QED
      BY <1>1, <1>3, <3>1
  <2>3. LineOf(lines[p], frames, count[p - 1], count[p], under[p - 1], under[p])
    BY DEF FileOf, N
  <2>4. LineOf(lines[p], G, count[p - 1], count[p], under[p - 1], under[p])
    BY <2>2, <2>3 DEF LineOf
  <2>5. QED
    BY <2>1, <2>4
<1>8. LineOf(F[N + 1], G, c[(N + 1) - 1], c[N + 1], u[(N + 1) - 1], u[N + 1])
  <2>1. (N + 1) - 1 = N /\ c[N] = M /\ u[N] = l
    BY <1>1, <1>4, <1>6
  <2>2. F[N + 1].type = "packet" /\ F[N + 1].raw = raw
    BY <1>2
  <2>3. QED
    BY <1>3, <1>6, <2>1, <2>2 DEF v, LineOf
<1>9. FileOf(F, G, c, u)
  <2>1. \A p \in 1..(N + 1) : p \in 1..N \/ p = N + 1
    BY <1>1
  <2>2. QED
    BY <1>2, <1>3, <1>5, <1>7, <1>8, <2>1 DEF FileOf
<1>10. QED
  BY <1>6, <1>9 DEF F, G, N, M, v

\* Half a line.
LEMMA TornLine ==
  ASSUME NEW lines \in Seq(Line), NEW frames \in Seq(Values), NEW count, NEW under,
         FileOf(lines, frames, count, under)
  PROVE  \E count2, under2 : FileOf(Append(lines, Torn), frames, count2, under2)
<1> DEFINE N == Len(lines)
           F == Append(lines, Torn)
           c == [p \in 0..(N + 1) |-> IF p = N + 1 THEN count[N] ELSE count[p]]
           u == [p \in 0..(N + 1) |-> IF p = N + 1 THEN under[N] ELSE under[p]]
<1>1. N \in Nat /\ Len(frames) \in Nat /\ N \in 0..N
  OBVIOUS
<1>2. Len(F) = N + 1 /\ F[N + 1] = Torn /\ \A p \in 1..N : F[p] = lines[p]
  OBVIOUS
<1> HIDE DEF N, F
<1>3. /\ c \in [0..(N + 1) -> 0..Len(frames)] /\ c[0] = 0
      /\ u \in [0..(N + 1) -> Lists \cup {None}] /\ u[0] = None
  <2>1. /\ count \in [0..N -> 0..Len(frames)] /\ count[0] = 0
        /\ under \in [0..N -> Lists \cup {None}] /\ under[0] = None
    BY DEF FileOf, N
  <2>2. count[N] \in 0..Len(frames) /\ under[N] \in Lists \cup {None}
    BY <1>1, <2>1
  <2>3. QED
    BY <1>1, <2>1, <2>2
<1>4. /\ \A p \in 0..N : c[p] = count[p] /\ u[p] = under[p]
      /\ c[N + 1] = count[N] /\ u[N + 1] = under[N]
  BY <1>1
<1> HIDE DEF c, u
<1>5. ASSUME NEW p \in 1..N
      PROVE  /\ F[p] = lines[p] /\ c[p] = count[p] /\ c[p - 1] = count[p - 1]
             /\ u[p] = under[p] /\ u[p - 1] = under[p - 1]
  BY <1>1, <1>2, <1>4
<1>6. LineOf(F[N + 1], frames, c[(N + 1) - 1], c[N + 1], u[(N + 1) - 1], u[N + 1])
  <2>1. F[N + 1] = Torn /\ c[N + 1] = c[(N + 1) - 1] /\ u[N + 1] = u[(N + 1) - 1]
    BY <1>1, <1>2, <1>4
  <2>2. QED
    BY <2>1 DEF LineOf
<1>7. \A p \in 1..(N + 1) : LineOf(F[p], frames, c[p - 1], c[p], u[p - 1], u[p])
  <2>1. \A p \in 1..N : LineOf(lines[p], frames, count[p - 1], count[p], under[p - 1], under[p])
    BY DEF FileOf, N
  <2>2. \A p \in 1..N : LineOf(F[p], frames, c[p - 1], c[p], u[p - 1], u[p])
    BY <1>5, <2>1
  <2>3. \A p \in 1..(N + 1) : p \in 1..N \/ p = N + 1
    BY <1>1
  <2>4. QED
    BY <1>6, <2>2, <2>3
<1>8. FileOf(F, frames, c, u)
  BY <1>2, <1>3, <1>7 DEF FileOf
<1>9. QED
  BY <1>8 DEF F

\* The part of the file that was written.
LEMMA PartOfFile ==
  ASSUME NEW lines \in Seq(Line), NEW frames \in Seq(Values), NEW count, NEW under,
         FileOf(lines, frames, count, under), NEW n \in 0..Len(lines)
  PROVE  /\ SubSeq(lines, 1, n) \in Seq(Line)
         /\ \E count2, under2 : FileOf(SubSeq(lines, 1, n), frames, count2, under2)
<1> DEFINE F == SubSeq(lines, 1, n)
           c == [p \in 0..n |-> count[p]]
           u == [p \in 0..n |-> under[p]]
<1>1. Len(lines) \in Nat /\ n \in Nat /\ n <= Len(lines) /\ n - 1 + 1 = n
  OBVIOUS
<1>2. F \in Seq(Line) /\ Len(F) = n /\ \A p \in 1..n : F[p] = lines[p]
  <2>1. \A p \in 1..n : lines[p] \in Line /\ 1 + p - 1 = p
    BY <1>1
  <2>2. /\ F \in Seq(Line) /\ Len(F) = IF 1 <= n THEN n - 1 + 1 ELSE 0
        /\ \A p \in 1..(n - 1 + 1) : F[p] = lines[1 + p - 1]
    BY <1>1, <2>1, SubSeqProperties
  <2> HIDE DEF F
  <2>3. Len(F) = n
    BY <1>1, <2>2
  <2>4. QED
    BY <1>1, <2>1, <2>2, <2>3
<1> HIDE DEF F
<1>3. \A p \in 0..n : c[p] = count[p] /\ u[p] = under[p] /\ p \in 0..Len(lines)
  BY <1>1
<1>4. /\ c \in [0..n -> 0..Len(frames)] /\ c[0] = 0
      /\ u \in [0..n -> Lists \cup {None}] /\ u[0] = None
  <2>1. /\ count \in [0..Len(lines) -> 0..Len(frames)] /\ count[0] = 0
        /\ under \in [0..Len(lines) -> Lists \cup {None}] /\ under[0] = None
    BY DEF FileOf
  <2>2. \A p \in 0..n : count[p] \in 0..Len(frames) /\ under[p] \in Lists \cup {None}
    BY <1>3, <2>1
  <2>3. 0 \in 0..n
    BY <1>1
  <2>4. QED
    BY <2>1, <2>2, <2>3
<1> HIDE DEF c, u
<1>5. ASSUME NEW p \in 1..n
      PROVE  /\ F[p] = lines[p] /\ c[p] = count[p] /\ c[p - 1] = count[p - 1]
             /\ u[p] = under[p] /\ u[p - 1] = under[p - 1] /\ p \in 1..Len(lines)
  BY <1>1, <1>2, <1>3
<1>6. FileOf(F, frames, c, u)
  <2>1. \A p \in 1..n : LineOf(lines[p], frames, count[p - 1], count[p], under[p - 1], under[p])
    BY <1>5 DEF FileOf
  <2>2. \A p \in 1..n : LineOf(F[p], frames, c[p - 1], c[p], u[p - 1], u[p])
    BY <1>5, <2>1
  <2>3. QED
    BY <1>2, <1>4, <2>2 DEF FileOf
<1>7. QED
  BY <1>2, <1>6 DEF F

LEMMA AppendTwice ==
  ASSUME NEW s \in Seq(Line), NEW a \in Line, NEW b \in Line
  PROVE  s \o (<<a>> \o <<b>>) = Append(Append(s, a), b)
<1>1. <<a>> \in Seq(Line) /\ <<b>> \in Seq(Line)
  OBVIOUS
<1>2. s \o (<<a>> \o <<b>>) = (s \o <<a>>) \o <<b>>
  BY <1>1, ConcatAssociative
<1>3. s \o <<a>> = Append(s, a) /\ Append(s, a) \in Seq(Line)
  OBVIOUS
<1>4. Append(s, a) \o <<b>> = Append(Append(s, a), b)
  BY <1>3
<1>5. QED
  BY <1>2, <1>3, <1>4

\* What record() writes for a frame gives it back.
LEMMA LinesStep ==
  ASSUME TypeOK, FileInv, phase = "record", phase' = phase, UNCHANGED replayer,
         channel_list \in Lists, NEW raw \in Seq(Byte), Decodes(channel_list, raw),
         Decode(channel_list, raw) \in Values,
         live' = Append(live, Decode(channel_list, raw)), file' = file \o Lines(raw),
         written_list' = channel_list
  PROVE  FileInv' /\ file' \in Seq(Line)
<1> DEFINE v == Decode(channel_list, raw)
           ch == [type |-> "channels", list |-> channel_list]
           pk == [type |-> "packet", raw |-> raw]
<1>1. PICK count, under : FileOf(file, live, count, under) /\ Records(count, under)
  BY DEF FileInv
<1>2. /\ file \in Seq(Line) /\ live \in Seq(Values) /\ ch \in Line /\ pk \in Line
      /\ count[Len(file)] = Len(live) /\ under[Len(file)] = written_list
  BY <1>1 DEF TypeOK, Line, Records
<1>3. \E count2, under2 :
        /\ FileOf(file', live', count2, under2)
        /\ count2[Len(file')] = Len(live') /\ under2[Len(file')] = channel_list
        /\ file' \in Seq(Line)
  <2> HIDE DEF ch, pk
  <2>1. CASE channel_list = written_list
    <3>1. file' = Append(file, pk)
      <4>1. Lines(raw) = <<>> \o <<pk>>
        BY <2>1 DEF Lines, pk
      <4>2. QED
        BY <1>2, <4>1
    <3>2. PICK count2, under2 :
            /\ FileOf(Append(file, pk), live', count2, under2)
            /\ count2[Len(file) + 1] = Len(live) + 1 /\ under2[Len(file) + 1] = channel_list
      <4>1. /\ FileOf(file, live, count, under) /\ file \in Seq(Line) /\ live \in Seq(Values)
            /\ count[Len(file)] = Len(live) /\ under[Len(file)] = channel_list
            /\ channel_list \in Lists /\ Decodes(channel_list, raw)
            /\ Decode(channel_list, raw) \in Values
        BY <1>1, <1>2, <2>1
      <4>2. \E count2, under2 :
              /\ FileOf(Append(file, [type |-> "packet", raw |-> raw]),
                        Append(live, Decode(channel_list, raw)), count2, under2)
              /\ count2[Len(file) + 1] = Len(live) + 1 /\ under2[Len(file) + 1] = channel_list
        BY ONLY <4>1, PacketLine
      <4>3. QED
        BY <4>2 DEF pk
    <3>3. Len(file') = Len(file) + 1 /\ file' \in Seq(Line)
      BY <1>2, <3>1
    <3>4. Len(live') = Len(live) + 1
      BY <1>2
    <3>5. QED
      BY <3>1, <3>2, <3>3, <3>4
  <2>2. CASE channel_list # written_list
    <3> DEFINE g == Append(file, ch)
    <3>1. file' = Append(g, pk)
      <4>1. Lines(raw) = <<ch>> \o <<pk>>
        BY <2>2 DEF Lines, ch, pk
      <4>2. file' = file \o (<<ch>> \o <<pk>>)
        BY <4>1
      <4>3. QED
        BY <1>2, <4>2, AppendTwice
    <3>2. PICK count1, under1 :
            /\ FileOf(g, live, count1, under1)
            /\ count1[Len(file) + 1] = count[Len(file)] /\ under1[Len(file) + 1] = channel_list
      <4>1. /\ FileOf(file, live, count, under)
            /\ file \in Seq(Line) /\ live \in Seq(Values) /\ channel_list \in Lists
        BY <1>1, <1>2
      <4>2. \E count1, under1 :
              /\ FileOf(Append(file, [type |-> "channels", list |-> channel_list]), live, count1, under1)
              /\ count1[Len(file) + 1] = count[Len(file)] /\ under1[Len(file) + 1] = channel_list
        BY ONLY <4>1, ChannelsLine
      <4>3. QED
        BY <4>2 DEF ch
    <3>3. g \in Seq(Line) /\ Len(g) = Len(file) + 1
      BY <1>2
    <3> HIDE DEF g
    <3>4. PICK count2, under2 :
            /\ FileOf(Append(g, pk), live', count2, under2)
            /\ count2[Len(g) + 1] = Len(live) + 1 /\ under2[Len(g) + 1] = channel_list
      <4>1. /\ count1[Len(g)] = Len(live) /\ under1[Len(g)] = channel_list
            /\ FileOf(g, live, count1, under1) /\ g \in Seq(Line) /\ live \in Seq(Values)
            /\ channel_list \in Lists /\ Decodes(channel_list, raw)
            /\ Decode(channel_list, raw) \in Values
        BY <1>2, <3>2, <3>3
      <4>2. \E count2, under2 :
              /\ FileOf(Append(g, [type |-> "packet", raw |-> raw]),
                        Append(live, Decode(channel_list, raw)), count2, under2)
              /\ count2[Len(g) + 1] = Len(live) + 1 /\ under2[Len(g) + 1] = channel_list
        BY ONLY <4>1, PacketLine
      <4>3. QED
        BY <4>2 DEF pk
    <3>5. Len(file') = Len(g) + 1 /\ file' \in Seq(Line)
      BY <1>2, <3>1, <3>3
    <3>6. Len(live') = Len(live) + 1
      BY <1>2
    <3>7. QED
      BY <3>1, <3>4, <3>5, <3>6
  <2>3. QED
    BY <2>1, <2>2
<1>4. PICK count2, under2 :
        /\ FileOf(file', live', count2, under2)
        /\ count2[Len(file')] = Len(live') /\ under2[Len(file')] = channel_list
  BY <1>3
<1>5. at' = "top" /\ out' = <<>>
  BY DEF FileInv, replayer
<1>6. Records(count2, under2)' /\ Plays(count2, under2)'
  BY <1>4, <1>5 DEF Records, Plays
<1>7. Len(out') <= Len(live') /\ \A i \in DOMAIN out' : out'[i] = live'[i]
  <2>1. Len(live') \in Nat
    BY <1>2
  <2>2. QED
    BY <1>5, <2>1
<1>8. FileInv'
  BY <1>4, <1>5, <1>6, <1>7 DEF FileInv
<1>9. QED
  BY <1>3, <1>8

LEMMA FrameStep == Inv /\ Frame => Inv'
<1> SUFFICES ASSUME Inv, Frame PROVE Inv'
  OBVIOUS
<1>1. /\ phase = "record" /\ phase' = phase /\ UNCHANGED replayer
      /\ asked = "data" /\ asked' = "data" /\ Len(buf) >= HEADER_SIZE
      /\ UNCHANGED <<ecu, asked, channel_list, conns>> /\ Answers
  BY DEF Frame, RecordOnly, Recording
<1>2. PICK h \in Headers(buf) :
        /\ Whole(h) /\ Len(Payload(h)) = PacketSize(channel_list) /\ buf' = Rest(h)
        /\ \/ /\ young' = FALSE /\ live' = Append(live, Decode(channel_list, Payload(h)))
              /\ file' = file \o Lines(Payload(h)) /\ written_list' = channel_list
           \/ young /\ UNCHANGED <<young, live, file, written_list>>
  BY DEF Frame
<1>3. TypeOK /\ RecordInv /\ FileInv /\ FramesWhole /\ DiesOnHalfALine
  BY <1>1 DEF Inv
<1>4. /\ wire \in Seq(Byte) /\ sent \in 0..MaxPackets /\ MaxPackets \in Nat
      /\ channel_list \in Lists /\ Telling(ecu, channel_list) /\ ecu \in Lists
      /\ live \in Seq(Values)
  BY <1>1, <1>3, CaptureAssumption DEF TypeOK, RecordInv, Telling
<1>5. PICK f \in 1..sent :
        /\ Payload(h) = Data(f, channel_list) /\ UpTo(live, f - 1)
        /\ Rest(h) \in Seq(Byte) /\ Stream(Rest(h) \o wire, f, sent, channel_list)
  BY <1>1, <1>2, <1>3, DataFront
<1>6. f \in Nat /\ f - 1 \in Nat /\ f - 1 <= f /\ f \in 0..sent /\ f \in 1..MaxPackets
  BY <1>4
<1>7. /\ wire' \in Seq(Byte) /\ sent' \in sent..MaxPackets
      /\ Stream(buf' \o wire', f, sent', channel_list)
  <2>1. buf' \in Seq(Byte) /\ Stream(buf' \o wire, f, sent, channel_list)
    BY <1>2, <1>5
  <2> DEFINE b == Rest(h)
  <2>2. b \in Seq(Byte) /\ Stream(b \o wire, f, sent, channel_list) /\ buf' = b
    BY <1>2, <1>5
  <2> HIDE DEF b
  <2>3. QED
    BY <1>1, <1>4, <1>6, <2>2, AnswersStream
<1> DEFINE raw == Payload(h)
           v == Decode(channel_list, raw)
<1>8. raw \in Seq(Byte) /\ Decodes(channel_list, raw) /\ v \in TrueValues(f) /\ v \in Values
  <2>1. Data(f, channel_list) \in Seq(Byte) /\ Decodes(channel_list, Data(f, channel_list))
    BY <1>4, <1>6, DataType, FieldsTile
  <2>2. Decode(channel_list, Data(f, channel_list)) \in TrueValues(f)
    BY <1>4, <1>6, FieldsTile
  <2>3. QED
    BY <1>5, <1>6, <2>1, <2>2 DEF Values
<1> HIDE DEF raw, v
<1>9. UpTo(live, f)
  BY <1>5, <1>6, UpToMore
<1>10. FramesWhole' /\ FileInv' /\ file' \in Seq(Line) /\ live' \in Seq(Values) /\ UpTo(live', f)
       /\ written_list' \in Lists \cup {None}
  <2>1. CASE /\ live' = Append(live, v) /\ file' = file \o Lines(raw)
             /\ written_list' = channel_list
    <3>1. FileInv' /\ file' \in Seq(Line)
      BY <1>1, <1>3, <1>4, <1>8, <2>1, LinesStep DEF v
    <3>2. /\ Len(live') = Len(live) + 1 /\ live' \in Seq(Values) /\ Len(live) \in Nat
          /\ live'[Len(live) + 1] = v /\ \A j \in 1..Len(live) : live'[j] = live[j]
      BY <1>4, <1>8, <2>1
    <3>3. DOMAIN live = 1..Len(live) /\ DOMAIN live' = 1..(Len(live) + 1)
      BY <1>4, <3>2
    <3>4. FramesWhole'
      <4> SUFFICES ASSUME NEW i \in DOMAIN live'
                   PROVE  \E n \in 1..MaxPackets :
                            /\ live'[i] \in TrueValues(n)
                            /\ \A j \in 1..(i - 1) : \E m \in 1..(n - 1) : live'[j] \in TrueValues(m)
        BY DEF FramesWhole, TrueValues, DataByte
      <4>1. i \in Nat /\ \A j \in 1..(i - 1) : j \in 1..Len(live)
        BY <3>2, <3>3
      <4>2. CASE i \in 1..Len(live)
        <5>1. PICK n \in 1..MaxPackets :
                /\ live[i] \in TrueValues(n)
                /\ \A j \in 1..(i - 1) : \E m \in 1..(n - 1) : live[j] \in TrueValues(m)
          BY <1>3, <3>3, <4>2 DEF FramesWhole
        <5>2. QED
          BY <3>2, <4>1, <4>2, <5>1
      <4>3. CASE i = Len(live) + 1
        <5>1. live'[i] \in TrueValues(f)
          BY <1>8, <3>2, <4>3
        <5>2. \A j \in 1..(i - 1) : \E m \in 1..(f - 1) : live'[j] \in TrueValues(m)
          BY <1>5, <3>2, <3>3, <4>1 DEF UpTo
        <5>3. QED
          BY <1>6, <5>1, <5>2
      <4>4. QED
        BY <3>2, <3>3, <4>2, <4>3
    <3>5. UpTo(live', f)
      <4>1. f \in 1..f
        BY <1>6
      <4>2. \A j \in 1..(Len(live) + 1) : j \in 1..Len(live) \/ j = Len(live) + 1
        BY <3>2
      <4>3. QED
        BY <1>8, <1>9, <3>2, <3>3, <4>1, <4>2 DEF UpTo
    <3>6. QED
      BY <1>4, <2>1, <3>1, <3>2, <3>4, <3>5
  <2>2. CASE UNCHANGED <<young, live, file, written_list>>
    <3>1. FramesWhole' /\ FileInv' /\ DiesOnHalfALine'
      BY <1>1, <2>2, LinkStep
    <3>2. QED
      BY <1>3, <1>9, <2>2, <3>1 DEF TypeOK
  <2>3. QED
    BY <1>2, <2>1, <2>2 DEF raw, v
<1>11. TypeOK'
  BY <1>1, <1>2, <1>3, <1>4, <1>5, <1>7, <1>10 DEF TypeOK, replayer
<1>12. RecordInv'
  <2>1. f \in 0..sent'
    BY <1>4, <1>6, <1>7
  <2>2. QED
    BY <1>1, <1>4, <1>7, <1>10, <2>1 DEF RecordInv, Unread, Telling
<1>13. DiesOnHalfALine'
  BY <1>1, <1>3 DEF DiesOnHalfALine, FileInv, replayer
<1>14. QED
  BY <1>1, <1>10, <1>11, <1>12, <1>13 DEF Inv

\* The recording ends, and the file may lose its end.
LEMMA StopRecordingStep == Inv /\ StopRecording => Inv'
<1> SUFFICES ASSUME Inv, StopRecording PROVE Inv'
  OBVIOUS
<1>1. /\ phase = "record" /\ phase' = "replay" /\ UNCHANGED replayer /\ live' = live
      /\ asked' = "none" /\ ecu' = None /\ wire' = <<>> /\ buf' = <<>> /\ channel_list' = None
      /\ written_list' = None /\ sent' = 0
      /\ \/ file' = file
         \/ \E n \in 0..(Len(file) - 1) :
              file' = SubSeq(file, 1, n) \/ file' = Append(SubSeq(file, 1, n), Torn)
  BY DEF StopRecording, Recording
<1>2. /\ at' = "top" /\ out' = <<>> /\ file \in Seq(Line) /\ live \in Seq(Values) /\ MaxPackets \in Nat
      /\ Torn \in Line
  BY <1>1, CaptureAssumption DEF Inv, FileInv, TypeOK, replayer, Line
<1>3. PICK count, under : FileOf(file, live, count, under)
  BY DEF Inv, FileInv
<1>4. file' \in Seq(Line) /\ \E count2, under2 : FileOf(file', live', count2, under2)
  <2>1. CASE file' = file
    BY <1>1, <1>2, <1>3, <2>1
  <2>2. ASSUME NEW n \in 0..(Len(file) - 1),
               file' = SubSeq(file, 1, n) \/ file' = Append(SubSeq(file, 1, n), Torn)
        PROVE  file' \in Seq(Line) /\ \E count2, under2 : FileOf(file', live', count2, under2)
    <3> DEFINE g == SubSeq(file, 1, n)
    <3>1. n \in 0..Len(file)
      BY <1>2
    <3>2. g \in Seq(Line) /\ \E count1, under1 : FileOf(g, live, count1, under1)
      BY <1>2, <1>3, <3>1, PartOfFile
    <3> HIDE DEF g
    <3>3. PICK count1, under1 : FileOf(g, live, count1, under1)
      BY <3>2
    <3>4. Append(g, Torn) \in Seq(Line) /\ \E count2, under2 : FileOf(Append(g, Torn), live, count2, under2)
      <4>1. Append(g, Torn) \in Seq(Line)
        BY <1>2, <3>2
      <4>2. QED
        BY <1>2, <3>2, <3>3, <4>1, TornLine
    <3>5. QED
      BY <1>1, <2>2, <3>2, <3>4 DEF g
  <2>3. QED
    BY <1>1, <2>1, <2>2
<1>5. FileInv'
  <2>1. PICK count2, under2 : FileOf(file', live', count2, under2)
    BY <1>4
  <2>2. Records(count2, under2)' /\ Plays(count2, under2)'
    BY <1>1, <1>2 DEF Records, Plays
  <2>3. Len(out') <= Len(live') /\ \A i \in DOMAIN out' : out'[i] = live'[i]
    <3>1. Len(live') \in Nat
      BY <1>1, <1>2
    <3>2. QED
      BY <1>2, <3>1
  <2>4. QED
    BY <1>1, <2>1, <2>2, <2>3 DEF FileInv
<1>6. TypeOK'
  BY <1>1, <1>2, <1>4, EmptySeq DEF Inv, TypeOK, replayer
<1>7. FramesWhole' /\ DiesOnHalfALine'
  BY <1>1, <1>2 DEF Inv, FramesWhole, DiesOnHalfALine
<1>8. QED
  BY <1>1, <1>5, <1>6, <1>7 DEF Inv

-----------------------------------------------------------------------------
(* The steps of a replay. *)

\* A replay changes nothing of the recording: what is left to show is where it is.
LEMMA ReplayStep ==
  ASSUME Inv, phase = "replay", phase' = phase, UNCHANGED recorder,
         NEW count, NEW under, FileOf(file, live, count, under), Plays(count, under)',
         table' \in Table \cup {None}, scaling_overrides' \in Scalings,
         at' \in {"top", "rec", "due", "end", "died"}, pos' \in Nat, out' \in Seq(Values),
         Len(out') <= Len(live), \A i \in DOMAIN out' : out'[i] = live[i],
         at' = "died" => pos' \in DOMAIN file /\ file[pos'] = Torn
  PROVE  Inv'
<1>1. /\ ecu' = ecu /\ asked' = asked /\ wire' = wire /\ buf' = buf /\ channel_list' = channel_list
      /\ file' = file /\ written_list' = written_list /\ sent' = sent /\ live' = live
      /\ phase' = "replay"
  BY DEF recorder
<1>2. TypeOK'
  BY <1>1 DEF Inv, TypeOK
<1>3. FramesWhole' /\ DiesOnHalfALine'
  BY <1>1 DEF Inv, FramesWhole, DiesOnHalfALine
<1>4. FileInv'
  <2>1. FileOf(file', live', count, under)
    BY <1>1
  <2>2. Records(count, under)'
    BY <1>1 DEF Records
  <2>3. QED
    BY <1>1, <2>1, <2>2 DEF FileInv
<1>5. QED
  BY <1>1, <1>2, <1>3, <1>4 DEF Inv

\* A step that leaves the position, the table and the frames, or ends the pass.
LEMMA StillStep ==
  ASSUME Inv, phase = "replay", phase' = phase, UNCHANGED <<recorder, table, pos, out>>,
         scaling_overrides' \in Scalings, at' = at \/ at' \in {"top", "end"}
  PROVE  Inv'
<1>1. PICK count, under : FileOf(file, live, count, under) /\ Plays(count, under)
  BY DEF Inv, FileInv
<1>2. /\ UNCHANGED recorder /\ file' = file /\ live' = live /\ table' = table /\ pos' = pos /\ out' = out
  BY DEF recorder
<1>3. Plays(count, under)'
  BY <1>1, <1>2 DEF Plays
<1>4. /\ table' \in Table \cup {None} /\ pos' \in Nat /\ out' \in Seq(Values)
      /\ at' \in {"top", "rec", "due", "end", "died"}
      /\ Len(out') <= Len(live) /\ \A i \in DOMAIN out' : out'[i] = live[i]
      /\ at' = "died" => pos' \in DOMAIN file /\ file[pos'] = Torn
  BY <1>2 DEF Inv, TypeOK, FileInv, DiesOnHalfALine
<1>5. QED
  BY <1>1, <1>2, <1>3, <1>4, ReplayStep

\* What the replay knows of the line it is at.
LEMMA AtLine ==
  ASSUME TypeOK, NEW count, NEW under, FileOf(file, live, count, under), Plays(count, under),
         at \in {"rec", "due"}, pos <= Len(file)
  PROVE  /\ pos \in 1..Len(file) /\ file[pos] \in Line /\ Len(out) = count[pos - 1]
         /\ LineOf(file[pos], live, count[pos - 1], count[pos], under[pos - 1], under[pos])
         /\ count[pos] \in 0..Len(live) /\ Len(live) \in Nat
         /\ under[pos - 1] \in Lists => table \in Table /\ table.list = under[pos - 1]
<1>1. pos \in 1..Len(file) /\ Len(file) \in Nat /\ Len(live) \in Nat
  BY DEF TypeOK, Plays
<1>2. file[pos] \in Line /\ pos \in 0..Len(file)
  BY <1>1 DEF TypeOK
<1>3. QED
  BY <1>1, <1>2 DEF Plays, FileOf

\* A packet has its table, long enough for it, and its frame is the next one.
LEMMA AtPacket ==
  ASSUME TypeOK, NEW count, NEW under, FileOf(file, live, count, under), Plays(count, under),
         at \in {"rec", "due"}, pos <= Len(file), file[pos].type = "packet"
  PROVE  /\ table \in Table /\ Decodes(table.list, file[pos].raw)
         /\ count[pos] = Len(out) + 1 /\ under[pos] = under[pos - 1] /\ table.list = under[pos]
         /\ live[Len(out) + 1] = Decode(table.list, file[pos].raw)
<1>1. /\ Len(out) = count[pos - 1]
      /\ LineOf(file[pos], live, count[pos - 1], count[pos], under[pos - 1], under[pos])
      /\ under[pos - 1] \in Lists => table \in Table /\ table.list = under[pos - 1]
  BY AtLine
<1>2. file[pos] # Torn
  BY DEF Torn
<1>3. /\ under[pos - 1] \in Lists /\ count[pos] = count[pos - 1] + 1 /\ under[pos] = under[pos - 1]
      /\ Decodes(under[pos], file[pos].raw) /\ live[count[pos]] = Decode(under[pos], file[pos].raw)
  BY <1>1, <1>2 DEF LineOf
<1>4. QED
  BY <1>1, <1>3

LEMMA PassStep == Inv /\ Pass => Inv'
<1> SUFFICES ASSUME Inv, Pass PROVE Inv'
  OBVIOUS
<1>1. phase = "replay" /\ phase' = phase /\ UNCHANGED <<recorder, table>> /\ scaling_overrides' = scaling_overrides
  BY DEF Pass, Replaying, FramesUnchanged
<1>2. TypeOK /\ scaling_overrides' \in Scalings
  BY <1>1 DEF Inv, TypeOK
<1>3. CASE closed
  <2>1. at' = "end" /\ UNCHANGED <<pos, out>>
    BY <1>3 DEF Pass
  <2>2. QED
    BY <1>1, <1>2, <2>1, StillStep
<1>4. CASE ~closed
  <2>1. at' = "rec" /\ pos' = 1 /\ out' = <<>>
    BY <1>4 DEF Pass
  <2>2. PICK count, under : FileOf(file, live, count, under)
    BY DEF Inv, FileInv
  <2>3. Len(file) \in Nat /\ Len(live) \in Nat /\ file' = file /\ table' = table
    BY <1>1, <1>2 DEF TypeOK, recorder
  <2>4. Plays(count, under)'
    <3>1. count[0] = 0 /\ under[0] = None /\ None \notin Lists
      BY <2>2, CaptureAssumption DEF FileOf
    <3>2. Len(out') = 0 /\ pos' - 1 = 0 /\ pos' \in 1..(Len(file) + 1)
      BY <2>1, <2>3
    <3>3. QED
      BY <2>1, <2>3, <3>1, <3>2 DEF Plays
  <2>5. /\ table' \in Table \cup {None} /\ pos' \in Nat /\ out' \in Seq(Values)
        /\ Len(out') <= Len(live) /\ \A i \in DOMAIN out' : out'[i] = live[i]
    BY <1>2, <2>1, <2>3 DEF TypeOK
  <2>6. QED
    BY <1>1, <1>2, <2>1, <2>2, <2>4, <2>5, ReplayStep
<1>5. QED
  BY <1>3, <1>4

LEMMA StillSteps ==
  Inv /\ (PassEnds \/ Held \/ SeesClose \/ Release \/ Resume \/ Close \/ ReloadScaling) => Inv'
<1> SUFFICES ASSUME Inv, PassEnds \/ Held \/ SeesClose \/ Release \/ Resume \/ Close \/ ReloadScaling
             PROVE  Inv'
  OBVIOUS
<1>1. scaling_overrides \in Scalings
  BY DEF Inv, TypeOK
<1>2. CASE PassEnds \/ Held \/ SeesClose
  <2>1. /\ phase = "replay" /\ phase' = phase /\ UNCHANGED <<recorder, table, pos, out>>
        /\ scaling_overrides' = scaling_overrides /\ (at' = at \/ at' \in {"top", "end"})
    BY <1>2 DEF PassEnds, Held, SeesClose, Reading, Replaying, FramesUnchanged
  <2>2. QED
    BY <1>1, <2>1, StillStep
<1>3. CASE Release \/ Resume \/ Close \/ ReloadScaling
  <2>1. /\ phase = "replay" /\ phase' = phase /\ UNCHANGED <<recorder, table, pos, out>>
        /\ at' = at /\ scaling_overrides' \in Scalings
    BY <1>1, <1>3 DEF Release, Resume, Close, ReloadScaling, Control, Replaying
  <2>2. QED
    BY <2>1, StillStep
<1>4. QED
  BY <1>2, <1>3

\* The table is that of the channels just read.
LEMMA ChannelsRecordStep == Inv /\ ChannelsRecord => Inv'
<1> SUFFICES ASSUME Inv, ChannelsRecord PROVE Inv'
  OBVIOUS
<1>1. /\ phase = "replay" /\ phase' = phase /\ UNCHANGED recorder
      /\ scaling_overrides' = scaling_overrides /\ at' = at /\ out' = out /\ at = "rec"
      /\ pos <= Len(file) /\ file[pos].type = "channels" /\ table' = NewTable(file[pos].list)
      /\ pos' = pos + 1
  BY DEF ChannelsRecord, Reading, Replaying, FramesUnchanged
<1>2. TypeOK /\ scaling_overrides \in Scalings /\ file \in Seq(Line)
  BY DEF Inv, TypeOK
<1>3. PICK count, under : FileOf(file, live, count, under) /\ Plays(count, under)
  BY DEF Inv, FileInv
<1>4. /\ pos \in 1..Len(file) /\ file[pos] \in Line /\ Len(out) = count[pos - 1]
      /\ LineOf(file[pos], live, count[pos - 1], count[pos], under[pos - 1], under[pos])
  BY <1>1, <1>2, <1>3, AtLine
<1>5. count[pos] = count[pos - 1] /\ under[pos] = file[pos].list
  BY <1>1, <1>4 DEF LineOf, Torn
<1>6. file[pos].list \in Lists
  BY <1>1, <1>4 DEF Line, Torn
<1>7. table' \in Table /\ table'.list = file[pos].list
  BY <1>1, <1>2, <1>6 DEF NewTable, Table
<1>8. Len(file) \in Nat /\ pos' \in 1..(Len(file) + 1) /\ pos' - 1 = pos /\ pos' \in Nat
  BY <1>1, <1>2, <1>4
<1>9. Plays(count, under)'
  <2>1. file' = file
    BY <1>1 DEF recorder
  <2>2. QED
    BY <1>1, <1>4, <1>5, <1>7, <1>8, <2>1 DEF Plays
<1>10. /\ out' \in Seq(Values) /\ at' \in {"top", "rec", "due", "end", "died"} /\ at' # "died"
       /\ Len(out') <= Len(live) /\ \A i \in DOMAIN out' : out'[i] = live[i]
  BY <1>1, <1>2 DEF Inv, TypeOK, FileInv
<1>11. QED
  BY <1>1, <1>2, <1>3, <1>7, <1>8, <1>9, <1>10, ReplayStep

LEMMA PacketRecordStep == Inv /\ PacketRecord => Inv'
<1> SUFFICES ASSUME Inv, PacketRecord PROVE Inv'
  OBVIOUS
<1>1. /\ phase = "replay" /\ phase' = phase /\ UNCHANGED recorder
      /\ scaling_overrides' = scaling_overrides /\ at' = "due" /\ at = "rec"
      /\ table' = table /\ out' = out /\ pos' = pos
      /\ pos <= Len(file) /\ file[pos].type = "packet"
  BY DEF PacketRecord, Reading, Replaying, FramesUnchanged
<1>2. PICK count, under : FileOf(file, live, count, under) /\ Plays(count, under)
  BY DEF Inv, FileInv
<1>3. file' = file
  BY <1>1 DEF recorder
<1>4. Plays(count, under)'
  BY <1>1, <1>2, <1>3 DEF Plays
<1>5. /\ table' \in Table \cup {None} /\ pos' \in Nat /\ out' \in Seq(Values)
      /\ scaling_overrides' \in Scalings
      /\ Len(out') <= Len(live) /\ \A i \in DOMAIN out' : out'[i] = live[i]
  BY <1>1 DEF Inv, TypeOK, FileInv
<1>6. QED
  BY <1>1, <1>2, <1>4, <1>5, ReplayStep

\* The frame that is due is the next the recorder got.
LEMMA DueStep == Inv /\ Due => Inv'
<1> SUFFICES ASSUME Inv, Due PROVE Inv'
  OBVIOUS
<1>1. /\ phase = "replay" /\ phase' = phase /\ UNCHANGED recorder
      /\ scaling_overrides' = scaling_overrides /\ at' = "rec" /\ at = "due" /\ table' = table
      /\ out' = Append(out, Decode(table.list, file[pos].raw)) /\ pos' = pos + 1
  BY DEF Due, Replaying, FramesUnchanged
<1>2. /\ TypeOK /\ scaling_overrides' \in Scalings /\ out \in Seq(Values) /\ live \in Seq(Values)
      /\ table' \in Table \cup {None}
      /\ Len(out) <= Len(live) /\ \A i \in DOMAIN out : out[i] = live[i]
  BY <1>1 DEF Inv, TypeOK, FileInv
<1>3. PICK count, under : FileOf(file, live, count, under) /\ Plays(count, under)
  BY DEF Inv, FileInv
<1>4. pos <= Len(file) /\ file[pos].type = "packet"
  BY <1>1, <1>3 DEF Plays
<1>5. /\ table \in Table /\ count[pos] = Len(out) + 1 /\ table.list = under[pos]
      /\ live[Len(out) + 1] = Decode(table.list, file[pos].raw)
  BY <1>1, <1>2, <1>3, <1>4, AtPacket
<1>6. pos \in 1..Len(file) /\ count[pos] \in 0..Len(live) /\ Len(live) \in Nat /\ Len(file) \in Nat
  <2>1. pos \in 1..Len(file) /\ count[pos] \in 0..Len(live) /\ Len(live) \in Nat
    BY <1>1, <1>2, <1>3, <1>4, AtLine
  <2>2. QED
    BY <1>2, <2>1 DEF TypeOK
<1> DEFINE v == Decode(table.list, file[pos].raw)
           n == Len(out) + 1
<1>7. n \in 1..Len(live) /\ Len(out) \in Nat
  BY <1>2, <1>5, <1>6
<1>8. v \in Values /\ v = live[n]
  <2>1. live[n] \in Values
    BY <1>2, <1>7
  <2>2. QED
    BY <1>5, <2>1
<1> HIDE DEF v
<1>9. /\ out' \in Seq(Values) /\ Len(out') = n /\ out'[n] = v
      /\ \A i \in 1..Len(out) : out'[i] = out[i]
  <2>1. out' = Append(out, v)
    BY <1>1 DEF v
  <2>2. QED
    BY <1>2, <1>8, <2>1
<1>10. \A i \in DOMAIN out' : out'[i] = live[i]
  <2>1. DOMAIN out' = 1..n /\ DOMAIN out = 1..Len(out)
    BY <1>2, <1>9
  <2>2. \A i \in 1..n : i \in 1..Len(out) \/ i = n
    BY <1>7
  <2>3. QED
    BY <1>2, <1>8, <1>9, <2>1, <2>2
<1>11. pos' \in 1..(Len(file) + 1) /\ pos' - 1 = pos /\ pos' \in Nat
  BY <1>1, <1>6
<1>12. Plays(count, under)'
  <2>1. file' = file
    BY <1>1 DEF recorder
  <2>2. QED
    BY <1>1, <1>5, <1>9, <1>11, <2>1 DEF Plays
<1>13. Len(out') <= Len(live)
  BY <1>7, <1>9
<1>14. QED
  BY <1>1, <1>2, <1>3, <1>9, <1>10, <1>11, <1>12, <1>13, ReplayStep

\* Of the ways to raise, half a line is the only one.
LEMMA RaisesStep == Inv /\ Raises => Inv'
<1> SUFFICES ASSUME Inv, Raises PROVE Inv'
  OBVIOUS
<1>1. /\ phase = "replay" /\ phase' = phase /\ UNCHANGED recorder
      /\ scaling_overrides' = scaling_overrides /\ at' = "died"
      /\ table' = table /\ out' = out /\ pos' = pos
      /\ \/ at = "rec" /\ pos <= Len(file) /\ file[pos] = Torn
         \/ at = "due" /\ ~Decodes(table.list, file[pos].raw)
         \/ at = "rec" /\ pos <= Len(file) /\ file[pos].type = "packet" /\ table = None
  BY DEF Raises, Replaying, FramesUnchanged
<1>2. PICK count, under : FileOf(file, live, count, under) /\ Plays(count, under)
  BY DEF Inv, FileInv
<1>3. /\ TypeOK /\ table' \in Table \cup {None} /\ pos' \in Nat /\ out' \in Seq(Values)
      /\ scaling_overrides' \in Scalings
      /\ Len(out') <= Len(live) /\ \A i \in DOMAIN out' : out'[i] = live[i]
  BY <1>1 DEF Inv, TypeOK, FileInv
<1>4. ~(at = "due" /\ ~Decodes(table.list, file[pos].raw))
  <2> SUFFICES ASSUME at = "due" PROVE Decodes(table.list, file[pos].raw)
    OBVIOUS
  <2>1. pos <= Len(file) /\ file[pos].type = "packet"
    BY <1>2 DEF Plays
  <2>2. QED
    BY <1>2, <1>3, <2>1, AtPacket
<1>5. ~(at = "rec" /\ pos <= Len(file) /\ file[pos].type = "packet" /\ table = None)
  <2> SUFFICES ASSUME at = "rec", pos <= Len(file), file[pos].type = "packet" PROVE table # None
    OBVIOUS
  <2>1. table \in Table
    BY <1>2, <1>3, AtPacket
  <2>2. None \notin Table
    BY CaptureAssumption DEF Table
  <2>3. QED
    BY <2>1, <2>2
<1>6. at = "rec" /\ pos <= Len(file) /\ file[pos] = Torn
  BY <1>1, <1>4, <1>5
<1>7. pos' \in DOMAIN file /\ file[pos'] = Torn
  <2>1. pos \in 1..Len(file) /\ file \in Seq(Line)
    BY <1>2, <1>3, <1>6, AtLine DEF TypeOK
  <2>2. QED
    BY <1>1, <1>6, <2>1
<1>8. Plays(count, under)'
  BY <1>1 DEF Plays
<1>9. QED
  BY <1>1, <1>2, <1>3, <1>7, <1>8, ReplayStep

-----------------------------------------------------------------------------
(* The theorems. *)

LEMMA InitInv == Init => Inv
<1> SUFFICES ASSUME Init PROVE Inv
  OBVIOUS
<1>1. MaxPackets \in Nat
  BY CaptureAssumption
<1>2. TypeOK
  BY <1>1, EmptySeq DEF Init, TypeOK
<1>3. FramesWhole /\ DiesOnHalfALine
  BY DEF Init, FramesWhole, DiesOnHalfALine
<1>4. FileInv
  <2>1. file = <<>> /\ live = <<>> /\ out = <<>> /\ at = "top" /\ written_list = None
    BY DEF Init
  <2>2. Len(live) = 0 /\ Len(file) = 0 /\ Len(out) = 0
    BY <2>1
  <2> DEFINE count == [p \in 0..0 |-> 0]
             under == [p \in 0..0 |-> None]
  <2>3. FileOf(file, live, count, under)
    BY <2>1, <2>2, FileBegins
  <2>4. count[0] = 0 /\ under[0] = None
    OBVIOUS
  <2> HIDE DEF count, under
  <2>5. Records(count, under) /\ Plays(count, under)
    BY <2>1, <2>2, <2>4 DEF Records, Plays
  <2>6. QED
    BY <2>1, <2>2, <2>3, <2>5 DEF FileInv
<1>5. RecordInv
  <2>1. sent = 0 /\ live = <<>> /\ asked = "none" /\ buf = <<>> /\ wire = <<>>
    BY DEF Init
  <2>2. UpTo(live, 0) /\ 0 \in 0..sent
    BY <2>1 DEF UpTo
  <2>3. QED
    BY <2>1, <2>2 DEF RecordInv
<1>6. QED
  BY <1>2, <1>3, <1>4, <1>5 DEF Inv

LEMMA NextInv == Inv /\ [Next]_vars => Inv'
<1> SUFFICES ASSUME Inv, [Next]_vars PROVE Inv'
  OBVIOUS
<1>1. CASE EcuChanges
  BY <1>1, EcuChangesStep
<1>2. CASE Connect
  BY <1>2, ConnectStep
<1>3. CASE Receive
  BY <1>3, ReceiveStep
<1>4. CASE LinkFails \/ ProtocolError
  BY <1>4, TeardownStep
<1>5. CASE Handshake
  BY <1>5, HandshakeStep
<1>6. CASE Frame
  BY <1>6, FrameStep
<1>7. CASE StopRecording
  BY <1>7, StopRecordingStep
<1>8. CASE Pass
  BY <1>8, PassStep
<1>9. CASE PassEnds \/ Held \/ SeesClose \/ Release \/ Resume \/ Close \/ ReloadScaling
  BY <1>9, StillSteps
<1>10. CASE ChannelsRecord
  BY <1>10, ChannelsRecordStep
<1>11. CASE PacketRecord
  BY <1>11, PacketRecordStep
<1>12. CASE Due
  BY <1>12, DueStep
<1>13. CASE Raises
  BY <1>13, RaisesStep
<1>14. CASE UNCHANGED vars
  <2>1. UNCHANGED <<phase, file, written_list, live, replayer>>
    BY <1>14 DEF vars, recorder
  <2>2. FramesWhole' /\ FileInv' /\ DiesOnHalfALine'
    BY <2>1, LinkStep
  <2>3. TypeOK'
    BY <1>14 DEF Inv, TypeOK, vars, recorder, replayer
  <2>4. phase' = "record" => RecordInv'
    BY <1>14 DEF Inv, RecordInv, Unread, vars, recorder
  <2>5. QED
    BY <2>2, <2>3, <2>4 DEF Inv
<1>15. QED
  BY <1>1, <1>2, <1>3, <1>4, <1>5, <1>6, <1>7, <1>8, <1>9, <1>10, <1>11, <1>12, <1>13, <1>14
     DEF Next, Source

LEMMA Invariant == Spec => []Inv
  BY InitInv, NextInv, PTL DEF Spec

(* Every frame the recorder gets is whole, of its own channels and in its  *)
(* order, for any channels, sizes, cuts of the stream and lost connections *)
(* (read_packet, _stream, _teardown).                                      *)
THEOREM FramesAreWhole == Spec => []FramesWhole
<1>1. Inv => FramesWhole
  BY DEF Inv
<1>2. QED
  BY <1>1, Invariant, PTL

(* A replay gives those frames in their order, each with the channels it   *)
(* was recorded under, wherever the file ends and whatever the control     *)
(* thread does in the meantime (record, ReplaySource.frames).              *)
THEOREM ReplayIsFaithful == Spec => []ReplayFaithful
<1>1. Inv => ReplayFaithful
  BY DEF Inv, FileInv, ReplayFaithful
<1>2. QED
  BY <1>1, Invariant, PTL

(* The source thread of a replay ends by an exception at nothing but half  *)
(* a line: no file record() leaves has a packet before its channels or one *)
(* too short for its table (record, ReplaySource.frames, decode_packet).   *)
THEOREM ReplayDiesOnHalfALine == Spec => []DiesOnHalfALine
<1>1. Inv => DiesOnHalfALine
  BY DEF Inv
<1>2. QED
  BY <1>1, Invariant, PTL

-----------------------------------------------------------------------------
(* The refinement of Drive. *)

\* A frame that the recorder gets is of a later packet than those it has.
LEMMA FrameIsLater ==
  ASSUME Inv, Frame, live' # live
  PROVE  \E f \in 1..MaxPackets :
           UpTo(live, f - 1) /\ \E v \in TrueValues(f) : live' = Append(live, v)
<1>1. PICK h \in Headers(buf) :
        /\ Whole(h) /\ Len(Payload(h)) = PacketSize(channel_list)
        /\ live' = Append(live, Decode(channel_list, Payload(h)))
  BY DEF Frame
<1>2. TypeOK /\ RecordInv /\ asked = "data" /\ Len(buf) >= HEADER_SIZE
  BY DEF Frame, RecordOnly, Recording, Inv
<1>3. channel_list \in Lists /\ sent \in 0..MaxPackets /\ MaxPackets \in Nat
  BY <1>2, CaptureAssumption DEF TypeOK, RecordInv
<1>4. PICK f \in 1..sent : Payload(h) = Data(f, channel_list) /\ UpTo(live, f - 1)
  BY <1>1, <1>2, DataFront
<1>5. f \in 1..MaxPackets /\ f \in Nat
  BY <1>3
<1>6. Decode(channel_list, Data(f, channel_list)) \in TrueValues(f)
  BY <1>3, <1>5, FieldsTile
<1>7. live' = Append(live, Decode(channel_list, Data(f, channel_list)))
  BY <1>1, <1>4
<1>8. QED
  BY <1>4, <1>5, <1>6, <1>7

\* A step of the recorder.
LEMMA DriveRecords == ASSUME Inv, Frame PROVE Contract!Record \/ UNCHANGED Contract!vars
<1>1. phase = "record" /\ phase' = phase /\ out' = out
  BY DEF Frame, RecordOnly, Recording, replayer
<1>2. CASE live' = live
  BY <1>1, <1>2 DEF Contract!vars
<1>3. CASE live' # live
  <2>1. PICK f \in 1..MaxPackets :
          UpTo(live, f - 1) /\ \E v \in TrueValues(f) : live' = Append(live, v)
    BY <1>3, FrameIsLater
  <2> DEFINE Of == [n \in 1..MaxPackets |-> TrueValues(n)]
  <2>2. /\ DOMAIN Of = 1..MaxPackets /\ f \in DOMAIN Of
        /\ \A n \in 1..MaxPackets : Of[n] = TrueValues(n)
    OBVIOUS
  <2>3. MaxPackets \in Nat /\ \A m \in 1..(f - 1) : m \in 1..MaxPackets /\ m < f
    BY CaptureAssumption
  <2>4. \A i \in DOMAIN live : \E m \in DOMAIN Of : m < f /\ live[i] \in Of[m]
    <3> HIDE DEF Of
    <3>1. QED
      BY <2>1, <2>2, <2>3 DEF UpTo
  <2>5. \E v \in Of[f] : live' = Append(live, v)
    <3> HIDE DEF Of
    <3>1. QED
      BY <2>1, <2>2
  <2>6. QED
    BY <1>1, <2>2, <2>4, <2>5 DEF Contract!Record, Contract!Later
<1>4. QED
  BY <1>2, <1>3

\* A step of the replay that shows a frame.
LEMMA DriveWatches == ASSUME Inv, Due PROVE Contract!Watch
<1>1. /\ phase = "replay" /\ phase' = phase /\ UNCHANGED recorder /\ at = "due"
      /\ out' = Append(out, Decode(table.list, file[pos].raw))
  BY DEF Due, Replaying
<1>2. PICK count, under : FileOf(file, live, count, under) /\ Plays(count, under)
  BY DEF Inv, FileInv
<1>3. TypeOK /\ pos <= Len(file) /\ file[pos].type = "packet"
  BY <1>1, <1>2 DEF Inv, Plays
<1>4. count[pos] = Len(out) + 1 /\ live[Len(out) + 1] = Decode(table.list, file[pos].raw)
  BY <1>1, <1>2, <1>3, AtPacket
<1>5. count[pos] \in 0..Len(live) /\ Len(live) \in Nat /\ Len(out) \in Nat
  <2>1. count[pos] \in 0..Len(live) /\ Len(live) \in Nat
    BY <1>1, <1>2, <1>3, AtLine
  <2>2. QED
    BY <1>3, <2>1 DEF TypeOK
<1>6. Len(out) < Len(live)
  BY <1>4, <1>5
<1>7. QED
  BY <1>1, <1>4, <1>6 DEF Contract!Watch, recorder

LEMMA DriveStep == ASSUME Inv, [Next]_vars PROVE [Contract!Next]_(Contract!vars)
<1>1. CASE Frame
  BY <1>1, DriveRecords DEF Contract!Next
<1>2. CASE StopRecording
  BY <1>2 DEF StopRecording, Recording, replayer, Contract!Next, Contract!Stop
<1>3. CASE Due
  BY <1>3, DriveWatches DEF Contract!Next
<1>4. CASE Pass
  <2>1. phase = "replay" /\ phase' = phase /\ live' = live /\ (out' = out \/ out' = <<>>)
    BY <1>4 DEF Pass, Replaying, recorder
  <2>2. QED
    BY <2>1 DEF Contract!Next, Contract!Rewind, Contract!vars
<1>5. CASE EcuChanges \/ Connect \/ Receive \/ LinkFails \/ ProtocolError \/ Handshake
  <2>1. phase' = phase /\ live' = live /\ out' = out
    BY <1>5 DEF EcuChanges, Connect, Receive, LinkFails, ProtocolError, Handshake, RecordOnly,
       Recording, replayer
  <2>2. QED
    BY <2>1 DEF Contract!vars
<1>6. CASE PassEnds \/ ChannelsRecord \/ PacketRecord \/ Held \/ SeesClose \/ Raises
  <2>1. phase' = phase /\ live' = live /\ out' = out
    BY <1>6 DEF PassEnds, ChannelsRecord, PacketRecord, Held, SeesClose, Raises, Reading,
       Replaying, recorder
  <2>2. QED
    BY <2>1 DEF Contract!vars
<1>7. CASE Release \/ Resume \/ Close \/ ReloadScaling
  <2>1. phase' = phase /\ live' = live /\ out' = out
    BY <1>7 DEF Release, Resume, Close, ReloadScaling, Control, Replaying, recorder
  <2>2. QED
    BY <2>1 DEF Contract!vars
<1>8. CASE UNCHANGED vars
  BY <1>8 DEF vars, recorder, replayer, Contract!vars
<1>9. QED
  BY <1>1, <1>2, <1>3, <1>4, <1>5, <1>6, <1>7, <1>8 DEF Next, Source

(* A capture keeps the promise of Drive, for any channel lists, sizes and  *)
(* bounds: the recorder adds whole frames of later and later packets, and  *)
(* a replay shows them from the first on, leaving none out                 *)
(* (record, ReplaySource.frames).                                          *)
THEOREM CaptureImplementsDrive == Spec => ImplementsDrive
<1>1. Init => Contract!Init
  BY DEF Init, Contract!Init
<1>2. Inv /\ [Next]_vars => [Contract!Next]_(Contract!vars)
  BY DriveStep
<1>3. QED
  BY <1>1, <1>2, Invariant, PTL DEF Spec, ImplementsDrive, Contract!Spec
=============================================================================

-------------------------------- MODULE WALProofs --------------------------------
(***************************************************************************)
(* WAL for every buffer size, sync policy and number of appends, crashes    *)
(* and rotations.                                                          *)
(***************************************************************************)
EXTENDS WAL, TLAPS

\* Most steps are first-order; those that need arithmetic or records say SMT.
USE ZenonT(20)

-----------------------------------------------------------------------------
(* The shape of the file *)

Cell == [part : {"magic", "len", "body"}, entry : Nat, seq : Nat, val : Nat]

\* concatenation, under a name that provers do not look into
Cat(f, g) == f \o g

\* what the i-th cell of a log is
Kind(i) == Part[((i - 1) % 3) + 1]

\* The file consists of records, the last of which may be cut short.
Intact(f) == \A i \in DOMAIN f : f[i].part = Kind(i) /\ f[i].val = 1

\* The same, but the last body may be garbled.
Garbled(f) == /\ Len(f) > 0 /\ Kind(Len(f)) = "body"
              /\ \A i \in DOMAIN f : f[i].part = Kind(i)
              /\ \A i \in DOMAIN f : i # Len(f) => f[i].val = 1
              /\ f[Len(f)].val # 1

\* Bodies further on have greater numbers, and none a greater one than s.
Ordered(f) == \A i, j \in DOMAIN f : i < j /\ Kind(i) = "body" /\ Kind(j) = "body" => f[i].seq < f[j].seq
Below(f, s) == \A i \in DOMAIN f : Kind(i) = "body" => f[i].seq <= s

\* Every third cell is a body, and the cells between are its magic and length.
LEMMA Kinds ==
    ASSUME NEW k \in Nat
    PROVE  Kind(3 * k + 1) = "magic" /\ Kind(3 * k + 2) = "len" /\ Kind(3 * k + 3) = "body"
<1>1. (3 * k) % 3 = 0 /\ (3 * k + 1) % 3 = 1 /\ (3 * k + 2) % 3 = 2
  BY SMTT(30)
<1>2. (3 * k + 1) - 1 = 3 * k /\ (3 * k + 2) - 1 = 3 * k + 1 /\ (3 * k + 3) - 1 = 3 * k + 2
  BY SMTT(30)
<1>3. 0 + 1 = 1 /\ 1 + 1 = 2 /\ 2 + 1 = 3
  BY SMTT(30)
<1>4. Part[1] = "magic" /\ Part[2] = "len" /\ Part[3] = "body"
  BY SMTT(30) DEF Part
<1> QED BY <1>1, <1>2, <1>3, <1>4 DEF Kind

\* The cells of a record, counted from its number.
LEMMA Thirds ==
    ASSUME NEW i \in Nat, i # 0
    PROVE  \E k \in Nat : \/ i = 3 * k + 1 /\ Kind(i) = "magic"
                          \/ i = 3 * k + 2 /\ Kind(i) = "len"
                          \/ i = 3 * k + 3 /\ Kind(i) = "body"
<1>1. PICK k \in Nat : i = 3 * k + 1 \/ i = 3 * k + 2 \/ i = 3 * k + 3
  <2>1. (i - 1) \div 3 \in Nat
    BY SMTT(30)
  <2>2. LET q == (i - 1) \div 3 IN i = 3 * q + 1 \/ i = 3 * q + 2 \/ i = 3 * q + 3
    BY SMTT(30)
  <2> QED BY <2>1, <2>2
<1> QED BY <1>1, Kinds

LEMMA BodyKind ==
    ASSUME NEW i \in Nat, i # 0, Kind(i) = "body"
    PROVE  \E k \in Nat : i = 3 * k + 3
BY Thirds

-----------------------------------------------------------------------------
(* Prefixes *)

LEMMA LenFacts == ASSUME NEW S, NEW s \in Seq(S) PROVE Len(s) \in Nat /\ DOMAIN s = 1 .. Len(s)
BY SMTT(30)

LEMMA SameSeq ==
    ASSUME NEW S, NEW s \in Seq(S), NEW t \in Seq(S), Len(s) = Len(t), \A i \in 1 .. Len(s) : s[i] = t[i]
    PROVE  s = t
BY SMTT(30)

LEMMA FunctionIsSeq == ASSUME NEW S, NEW n \in Nat, NEW r \in [1 .. n -> S] PROVE r \in Seq(S) /\ Len(r) = n
BY SMTT(30)

LEMMA TakeFacts ==
    ASSUME NEW f \in Seq(Cell), NEW n \in 0 .. Len(f)
    PROVE  /\ Take(f, n) \in Seq(Cell) /\ Len(Take(f, n)) = n /\ DOMAIN Take(f, n) = 1 .. n
           /\ \A i \in 1 .. n : i \in DOMAIN f /\ Take(f, n)[i] = f[i]
           /\ n \in Nat /\ Len(f) \in Nat /\ n <= Len(f)
BY SMTT(30) DEF Take

LEMMA DropFacts ==
    ASSUME NEW f \in Seq(Cell), NEW n \in 0 .. Len(f)
    PROVE  /\ Drop(f, n) \in Seq(Cell) /\ Len(Drop(f, n)) = Len(f) - n
           /\ \A i \in 1 .. Len(f) - n : Drop(f, n)[i] = f[n + i]
BY SMTT(30) DEF Drop

LEMMA CatFacts ==
    ASSUME NEW f \in Seq(Cell), NEW g \in Seq(Cell)
    PROVE  /\ Cat(f, g) \in Seq(Cell) /\ Len(Cat(f, g)) = Len(f) + Len(g)
           /\ DOMAIN Cat(f, g) = 1 .. Len(f) + Len(g)
           /\ \A i \in 1 .. Len(f) : Cat(f, g)[i] = f[i]
           /\ \A i \in 1 .. Len(g) : Cat(f, g)[Len(f) + i] = g[i]
BY SMTT(30) DEF Cat

\* Cells that move from the buffer to the file stay where they are in the log.
LEMMA Moved ==
    ASSUME NEW f \in Seq(Cell), NEW t \in Seq(Cell), NEW d \in Seq(Cell)
    PROVE  Cat(Cat(f, t), d) = Cat(f, Cat(t, d))
BY SMTT(30) DEF Cat

LEMMA SplitFacts ==
    ASSUME NEW f \in Seq(Cell), NEW g \in Seq(Cell), NEW n \in 0 .. Len(g)
    PROVE  Cat(Cat(f, Take(g, n)), Drop(g, n)) = Cat(f, g)
<1> DEFINE u == Take(g, n)
           v == Drop(g, n)
<1>1. /\ u \in Seq(Cell) /\ Len(u) = n /\ v \in Seq(Cell) /\ Len(v) = Len(g) - n
      /\ \A i \in 1 .. n : u[i] = g[i]
      /\ \A i \in 1 .. Len(g) - n : v[i] = g[n + i]
  BY TakeFacts, DropFacts
<1> HIDE DEF u, v
<1>2. Cat(u, v) = g
  <2>1. Cat(u, v) \in Seq(Cell) /\ Len(Cat(u, v)) = Len(u) + Len(v)
    BY <1>1, CatFacts
  <2>2. ASSUME NEW i \in 1 .. Len(g) PROVE Cat(u, v)[i] = g[i]
    <3>1. CASE i \in 1 .. Len(u)
      <4>1. Cat(u, v)[i] = u[i]
        BY <1>1, <3>1, CatFacts
      <4>2. i \in 1 .. n
        BY <1>1, <3>1
      <4> QED BY <1>1, <4>1, <4>2
    <3>2. CASE i \notin 1 .. Len(u)
      <4>1. i - n \in 1 .. Len(g) - n /\ i - n \in 1 .. Len(v) /\ n + (i - n) = i
        BY SMTT(30), <1>1, <3>2
      <4>2. Cat(u, v)[Len(u) + (i - n)] = v[i - n]
        BY <1>1, <4>1, CatFacts
      <4>3. v[i - n] = g[n + (i - n)]
        BY <1>1, <4>1
      <4> QED BY <1>1, <4>1, <4>2, <4>3
    <3> QED BY <3>1, <3>2
  <2>3. Len(Cat(u, v)) = Len(g)
    BY SMTT(30), <1>1, <2>1
  <2> QED BY <2>1, <2>2, <2>3, SameSeq
<1>3. \A t, d \in Seq(Cell) : Cat(Cat(f, t), d) = Cat(f, Cat(t, d))
  BY Moved
<1>4. Cat(Cat(f, u), v) = Cat(f, Cat(u, v))
  BY <1>1, <1>3
<1> QED BY <1>2, <1>4 DEF u, v

LEMMA EmptyRest ==
    ASSUME NEW f \in Seq(Cell)
    PROVE  Cat(f, <<>>) = f /\ Cat(<<>>, f) = f /\ Take(f, Len(f)) = f /\ Take(f, 0) = <<>>
BY SMTT(30) DEF Take, Cat

-----------------------------------------------------------------------------
(* What Replay makes of such a file *)

LEMMA RoundsIs ==
    ASSUME NEW f \in Seq(Cell), NEW n \in Nat, n <= Len(f),
           ~Reads(f, 3 * n + 1), \A k \in 1 .. n : Reads(f, 3 * k - 2)
    PROVE  Rounds(f) = n
<1> DEFINE P(m) == ~Reads(f, 3 * m + 1) /\ \A k \in 1 .. m : Reads(f, 3 * k - 2)
<1>1. n \in 0 .. Len(f) /\ P(n)
  BY SMTT(30)
<1>2. ASSUME NEW m \in 0 .. Len(f), P(m)
      PROVE  m = n
  <2>1. m \in Nat
    BY SMTT(30)
  <2>2. m < n => m + 1 \in 1 .. n /\ 3 * (m + 1) - 2 = 3 * m + 1
    BY SMTT(30), <2>1
  <2>3. n < m => n + 1 \in 1 .. m /\ 3 * (n + 1) - 2 = 3 * n + 1
    BY SMTT(30), <2>1
  <2>4. ~(m < n) /\ ~(n < m)
    BY <1>2, <2>2, <2>3
  <2> QED BY SMTT(30), <2>1, <2>4
<1>3. Rounds(f) = CHOOSE m \in 0 .. Len(f) : P(m)
  BY DEF Rounds
<1> HIDE DEF P
<1> QED BY <1>1, <1>2, <1>3

\* Three sound cells in a row are a record that the loop reads.
LEMMA SoundReads ==
    ASSUME NEW f \in Seq(Cell), NEW k \in Nat, 3 * k + 3 <= Len(f),
           \A i \in {3 * k + 1, 3 * k + 2, 3 * k + 3} : f[i].part = Kind(i) /\ f[i].val = 1
    PROVE  Reads(f, 3 * k + 1)
<1>1. (3 * k + 1) + 1 = 3 * k + 2 /\ (3 * k + 1) + 2 = 3 * k + 3
  BY SMTT(30)
<1> QED BY <1>1, Kinds DEF Reads, Announced

\* A file that a crash leaves has all its whole records read, and a rest that
\* Replay takes for a torn write.
LEMMA IntactRounds ==
    ASSUME NEW f \in Seq(Cell), Intact(f)
    PROVE  /\ Rounds(f) \in Nat /\ 3 * Rounds(f) <= Len(f) /\ Len(f) < 3 * Rounds(f) + 3
           /\ ~Corrupt(f, 3 * Rounds(f) + 1)
<1> DEFINE n == Len(f) \div 3
<1>1. Len(f) \in Nat /\ DOMAIN f = 1 .. Len(f)
  BY SMTT(30)
<1>2. n \in Nat /\ n <= Len(f) /\ 3 * n <= Len(f) /\ Len(f) < 3 * n + 3
  BY SMTT(30), <1>1
<1> HIDE DEF n
<1>3. ~Reads(f, 3 * n + 1)
  <2>1. ~((3 * n + 1) + 2 <= Len(f))
    BY SMTT(30), <1>1, <1>2
  <2> QED BY <2>1 DEF Reads
<1>4. ASSUME NEW k \in 1 .. n
      PROVE  Reads(f, 3 * k - 2)
  <2>1. /\ k - 1 \in Nat /\ 3 * (k - 1) + 3 <= Len(f) /\ 3 * (k - 1) + 1 = 3 * k - 2
        /\ {3 * (k - 1) + 1, 3 * (k - 1) + 2, 3 * (k - 1) + 3} \subseteq 1 .. Len(f)
    BY SMTT(30), <1>1, <1>2
  <2>2. \A i \in {3 * (k - 1) + 1, 3 * (k - 1) + 2, 3 * (k - 1) + 3} : f[i].part = Kind(i) /\ f[i].val = 1
    BY <1>1, <2>1 DEF Intact
  <2>3. Reads(f, 3 * (k - 1) + 1)
    BY <2>1, <2>2, SoundReads
  <2> QED BY <2>1, <2>3
<1>5. Rounds(f) = n
  BY <1>2, <1>3, <1>4, RoundsIs
<1>6. ~Corrupt(f, 3 * n + 1)
  <2>1. SUFFICES ASSUME Corrupt(f, 3 * n + 1)
                 PROVE  FALSE
    OBVIOUS
  <2>2. 3 * n + 1 <= Len(f)
    BY <2>1 DEF Corrupt
  <2>3. 3 * n + 1 \in DOMAIN f
    BY SMTT(30), <1>1, <1>2, <2>2
  <2>4. f[3 * n + 1].part = "magic" /\ f[3 * n + 1].val = 1
    BY <2>3, <1>2, Kinds DEF Intact
  <2>5. 3 * n + 1 < Len(f) /\ (Announced(f, (3 * n + 1) + 1) = 0 \/ (3 * n + 1) + 1 + Announced(f, (3 * n + 1) + 1) <= Len(f))
    BY <2>1, <2>4 DEF Corrupt
  <2>6. (3 * n + 1) + 1 = 3 * n + 2 /\ 3 * n + 2 \in DOMAIN f
    BY SMTT(30), <1>1, <1>2, <2>5
  <2>7. Announced(f, (3 * n + 1) + 1) = 1
    BY <2>6, <1>2, Kinds DEF Intact, Announced
  <2>8. 1 # 0 /\ ~((3 * n + 1) + 1 + 1 <= Len(f))
    BY SMTT(30), <1>1, <1>2
  <2> QED BY <2>5, <2>7, <2>8
<1> QED BY <1>2, <1>5, <1>6

LEMMA GarbledRounds ==
    ASSUME NEW f \in Seq(Cell), Garbled(f)
    PROVE  /\ Rounds(f) \in Nat /\ Len(f) = 3 * Rounds(f) + 3
           /\ ~Corrupt(f, 3 * Rounds(f) + 1)
<1>1. Len(f) \in Nat /\ Len(f) # 0 /\ DOMAIN f = 1 .. Len(f)
  BY SMTT(30) DEF Garbled
<1>2. PICK n \in Nat : Len(f) = 3 * n + 3
  BY <1>1, BodyKind DEF Garbled
<1>3. /\ n <= Len(f) /\ 3 * n + 1 \in DOMAIN f /\ 3 * n + 2 \in DOMAIN f /\ 3 * n + 3 \in DOMAIN f
      /\ (3 * n + 1) + 1 = 3 * n + 2 /\ (3 * n + 1) + 2 = 3 * n + 3
      /\ 3 * n + 1 # Len(f) /\ 3 * n + 2 # Len(f)
  BY SMTT(30), <1>1, <1>2
<1>4. /\ f[3 * n + 1].part = "magic" /\ f[3 * n + 1].val = 1
      /\ f[3 * n + 2].part = "len" /\ f[3 * n + 2].val = 1
      /\ f[3 * n + 3].val # 1
  BY <1>2, <1>3, Kinds DEF Garbled
<1>5. ~Reads(f, 3 * n + 1)
  BY <1>3, <1>4 DEF Reads
<1>6. ASSUME NEW k \in 1 .. n
      PROVE  Reads(f, 3 * k - 2)
  <2> DEFINE s == {3 * (k - 1) + 1, 3 * (k - 1) + 2, 3 * (k - 1) + 3}
  <2>1. /\ k - 1 \in Nat /\ 3 * (k - 1) + 3 <= Len(f) /\ 3 * (k - 1) + 1 = 3 * k - 2
        /\ s \subseteq 1 .. Len(f) /\ Len(f) \notin s
    BY SMTT(30), <1>1, <1>2
  <2>2. \A i \in s : f[i].part = Kind(i) /\ f[i].val = 1
    BY <1>1, <2>1 DEF Garbled
  <2>3. Reads(f, 3 * (k - 1) + 1)
    BY <2>1, <2>2, SoundReads
  <2> QED BY <2>1, <2>3
<1>7. Rounds(f) = n
  BY <1>3, <1>5, <1>6, RoundsIs
<1>8. ~Corrupt(f, 3 * n + 1)
  <2>1. Announced(f, (3 * n + 1) + 1) = 1
    BY <1>3, <1>4 DEF Announced
  <2>2. 1 # 0 /\ ~((3 * n + 1) + 1 + 1 < Len(f))
    BY SMTT(30), <1>1, <1>2
  <2> QED BY <1>4, <2>1, <2>2 DEF Corrupt, BadChecksum
<1> QED BY <1>2, <1>7, <1>8

-----------------------------------------------------------------------------
(* Prefixes and extensions of a log *)

\* What begins as a sound log does is a sound log.
LEMMA Prefix ==
    ASSUME NEW f \in Seq(Cell), NEW g \in Seq(Cell), Len(g) <= Len(f), \A i \in 1 .. Len(g) : g[i] = f[i]
    PROVE  /\ Intact(f) => Intact(g)
           /\ Ordered(f) => Ordered(g)
           /\ \A s \in Nat : Below(f, s) => Below(g, s)
<1>1. DOMAIN g = 1 .. Len(g) /\ DOMAIN f = 1 .. Len(f) /\ 1 .. Len(g) \subseteq 1 .. Len(f)
  BY SMTT(30)
<1>2. Intact(f) => Intact(g)
  <2> SUFFICES ASSUME Intact(f), NEW i \in 1 .. Len(g)
               PROVE  g[i].part = Kind(i) /\ g[i].val = 1
    BY <1>1 DEF Intact
  <2>1. f[i].part = Kind(i) /\ f[i].val = 1
    BY <1>1 DEF Intact
  <2>2. g[i] = f[i]
    OBVIOUS
  <2> QED BY <2>1, <2>2
<1>3. Ordered(f) => Ordered(g)
  <2> SUFFICES ASSUME Ordered(f), NEW i \in 1 .. Len(g), NEW j \in 1 .. Len(g),
                      i < j, Kind(i) = "body", Kind(j) = "body"
               PROVE  g[i].seq < g[j].seq
    BY <1>1 DEF Ordered
  <2>1. f[i].seq < f[j].seq
    BY <1>1 DEF Ordered
  <2>2. g[i] = f[i] /\ g[j] = f[j]
    OBVIOUS
  <2> QED BY <2>1, <2>2
<1>4. \A s \in Nat : Below(f, s) => Below(g, s)
  BY <1>1 DEF Below
<1> QED BY <1>2, <1>3, <1>4

LEMMA FrameFacts ==
    ASSUME NEW e \in Nat, NEW s \in Nat
    PROVE  /\ Frame(e, s) \in Seq(Cell) /\ Len(Frame(e, s)) = 3
           /\ \A i \in 1 .. 3 : /\ Frame(e, s)[i].part = Part[i] /\ Frame(e, s)[i].val = 1
                                /\ Frame(e, s)[i].entry = e /\ Frame(e, s)[i].seq = s
<1>1. \A i \in 1 .. 3 : Part[i] \in {"magic", "len", "body"}
  BY SMTT(30) DEF Part
<1>2. \A i \in 1 .. 3 : [part |-> Part[i], entry |-> e, seq |-> s, val |-> 1] \in Cell
  BY SMTT(30), <1>1 DEF Cell
<1>3. Frame(e, s) \in [1 .. 3 -> Cell]
  BY <1>2 DEF Frame
<1>4. Frame(e, s) \in Seq(Cell) /\ Len(Frame(e, s)) = 3
  <2> DEFINE t == Frame(e, s)
  <2>1. t \in [1 .. 3 -> Cell]
    BY <1>3
  <2> HIDE DEF t
  <2>2. 3 \in Nat
    BY SMTT(30)
  <2>3. t \in Seq(Cell) /\ Len(t) = 3
    BY <2>1, <2>2, FunctionIsSeq
  <2> QED BY <2>3 DEF t
<1> QED BY <1>4 DEF Frame

LEMMA CellSeq ==
    ASSUME NEW f \in Seq(Cell)
    PROVE  \A i \in DOMAIN f : f[i] \in Cell /\ f[i].seq \in Nat /\ f[i].entry \in Nat
<1>1. \A i \in DOMAIN f : f[i] \in Cell
  BY SMTT(30)
<1>2. \A c \in Cell : c.seq \in Nat /\ c.entry \in Nat
  BY SMTT(30) DEF Cell
<1> QED BY <1>1, <1>2

\* g is f with one more whole record, of entry e and with the number after s.
Grown(f, g, e, s) == /\ g \in Seq(Cell) /\ Len(g) = Len(f) + 3 /\ Len(g) % 3 = 0
                     /\ Intact(g) /\ Ordered(g) /\ Below(g, s + 1)
                     /\ g[Len(g)].entry = e
                     /\ \A i \in 1 .. Len(f) : g[i] = f[i]

\* A whole record with the next number goes on from whole records.
LEMMA Extended ==
    ASSUME NEW f \in Seq(Cell), NEW e \in Nat, NEW s \in Nat, NEW t, NEW g, t = Frame(e, s + 1), g = Cat(f, t),
           Intact(f), Ordered(f), Below(f, s), Len(f) % 3 = 0
    PROVE  Grown(f, g, e, s)
<1>1. s + 1 \in Nat /\ Len(f) \in Nat /\ DOMAIN f = 1 .. Len(f)
  BY SMTT(30)
<1>2. /\ t \in Seq(Cell) /\ Len(t) = 3
      /\ \A i \in 1 .. 3 : t[i].part = Part[i] /\ t[i].val = 1 /\ t[i].entry = e /\ t[i].seq = s + 1
  <2> DEFINE n == s + 1
  <2>1. n \in Nat
    BY <1>1
  <2> HIDE DEF n
  <2>2. /\ Frame(e, n) \in Seq(Cell) /\ Len(Frame(e, n)) = 3
        /\ \A i \in 1 .. 3 : /\ Frame(e, n)[i].part = Part[i] /\ Frame(e, n)[i].val = 1
                             /\ Frame(e, n)[i].entry = e /\ Frame(e, n)[i].seq = n
    BY ZenonT(60), <2>1, FrameFacts
  <2> QED BY <2>2 DEF n
<1>3. /\ g \in Seq(Cell) /\ Len(g) = Len(f) + 3 /\ DOMAIN g = 1 .. Len(f) + 3
      /\ \A i \in 1 .. Len(f) : g[i] = f[i]
      /\ \A i \in 1 .. 3 : g[Len(f) + i] = t[i]
  <2>1. /\ g \in Seq(Cell) /\ Len(g) = Len(f) + Len(t) /\ DOMAIN g = 1 .. Len(f) + Len(t)
        /\ \A i \in 1 .. Len(f) : g[i] = f[i]
        /\ \A i \in 1 .. Len(t) : g[Len(f) + i] = t[i]
    BY <1>2, CatFacts
  <2> QED BY <2>1, <1>2
<1>4. PICK k \in Nat : Len(f) = 3 * k
  <2> DEFINE n == Len(f)
  <2>1. n \in Nat /\ n % 3 = 0
    BY <1>1
  <2> HIDE DEF n
  <2>2. n \div 3 \in Nat /\ n = 3 * (n \div 3)
    BY SMTT(30), <2>1
  <2> QED BY <2>2 DEF n
<1>5. \A i \in 1 .. Len(f) + 3 : i \in 1 .. Len(f) \/ \E j \in 1 .. 3 : i = Len(f) + j
  BY SMTT(30), <1>1
<1>6. \A j \in 1 .. 3 : Kind(Len(f) + j) = Part[j]
  <2>1. \A j \in 1 .. 3 : j = 1 \/ j = 2 \/ j = 3
    BY SMTT(30)
  <2>2. Part[1] = "magic" /\ Part[2] = "len" /\ Part[3] = "body"
    BY SMTT(30) DEF Part
  <2> QED BY <1>4, <2>1, <2>2, Kinds
<1>7. Intact(g)
  <2> SUFFICES ASSUME NEW i \in 1 .. Len(f) + 3
               PROVE  g[i].part = Kind(i) /\ g[i].val = 1
    BY <1>3 DEF Intact
  <2>1. CASE i \in 1 .. Len(f)
    BY <2>1, <1>1, <1>3 DEF Intact
  <2>2. CASE \E j \in 1 .. 3 : i = Len(f) + j
    <3>1. PICK j \in 1 .. 3 : i = Len(f) + j
      BY <2>2
    <3>2. g[i] = t[j] /\ Kind(i) = Part[j]
      BY <3>1, <1>3, <1>6
    <3>3. t[j].part = Part[j] /\ t[j].val = 1
      BY <1>2
    <3> QED BY <3>2, <3>3
  <2> QED BY <1>5, <2>1, <2>2
<1>8. \A j \in 1 .. 3 : Kind(Len(f) + j) = "body" => j = 3
  <2>1. \A j \in 1 .. 3 : Part[j] = "body" => j = 3
    BY SMTT(30) DEF Part
  <2> QED BY <2>1, <1>6
<1>9. ASSUME NEW i \in 1 .. Len(f) + 3, Kind(i) = "body"
      PROVE  (i \in DOMAIN f /\ g[i].seq = f[i].seq) \/ (i = Len(f) + 3 /\ g[i].seq = s + 1)
  <2>1. CASE i \in 1 .. Len(f)
    <3>1. g[i] = f[i]
      BY <2>1, <1>3
    <3> QED BY <2>1, <3>1, <1>1
  <2>2. CASE \E j \in 1 .. 3 : i = Len(f) + j
    <3>1. PICK j \in 1 .. 3 : i = Len(f) + j
      BY <2>2
    <3>2. j = 3
      BY <3>1, <1>8, <1>9
    <3>3. g[i] = t[3] /\ t[3].seq = s + 1
      BY <3>1, <3>2, <1>2, <1>3
    <3> QED BY <3>1, <3>2, <3>3
  <2> QED BY <1>5, <2>1, <2>2
<1>10. \A i \in DOMAIN f : f[i].seq \in Nat
  BY CellSeq
<1>11. Below(g, s + 1)
  <2> SUFFICES ASSUME NEW i \in 1 .. Len(f) + 3, Kind(i) = "body"
               PROVE  g[i].seq <= s + 1
    BY <1>3 DEF Below
  <2>1. CASE i \in DOMAIN f /\ g[i].seq = f[i].seq
    <3>1. g[i].seq \in Nat /\ g[i].seq <= s
      BY <2>1, <1>10 DEF Below
    <3> DEFINE q == g[i].seq
    <3> HIDE DEF q
    <3>2. q \in Nat /\ q <= s
      BY <3>1 DEF q
    <3>3. q <= s + 1
      BY SMTT(30), <3>2
    <3> QED BY <3>3 DEF q
  <2>2. CASE g[i].seq = s + 1
    BY SMTT(30), <2>2
  <2> QED BY <1>9, <2>1, <2>2
<1>12. Ordered(g)
  <2> SUFFICES ASSUME NEW i \in 1 .. Len(f) + 3, NEW j \in 1 .. Len(f) + 3, i < j, Kind(i) = "body", Kind(j) = "body"
               PROVE  g[i].seq < g[j].seq
    BY <1>3 DEF Ordered
  <2>1. i # Len(f) + 3
    BY SMTT(30), <1>1
  <2>2. i \in DOMAIN f /\ g[i].seq = f[i].seq /\ f[i].seq <= s
    BY <1>9, <2>1 DEF Below
  <2>3. CASE j \in DOMAIN f /\ g[j].seq = f[j].seq
    BY <2>2, <2>3 DEF Ordered
  <2>4. CASE g[j].seq = s + 1
    <3> DEFINE q == f[i].seq
    <3>1. q \in Nat /\ q <= s
      BY <1>10, <2>2
    <3> HIDE DEF q
    <3>2. q < s + 1
      BY SMTT(30), <3>1
    <3> QED BY <2>2, <2>4, <3>2 DEF q
  <2> QED BY <1>9, <2>3, <2>4
<1>13. g[Len(g)].entry = e
  <2>1. 3 \in 1 .. 3
    BY SMTT(30)
  <2>2. g[Len(g)] = t[3] /\ t[3].entry = e
    BY <1>2, <1>3, <2>1
  <2> QED BY <2>2
<1>14. (Len(f) + 3) % 3 = 0
  BY SMTT(30), <1>1
<1> QED BY <1>3, <1>7, <1>11, <1>12, <1>13, <1>14 DEF Grown

LEMMA CutShort ==
    ASSUME NEW f \in Seq(Cell), NEW g \in Seq(Cell), NEW n \in 0 .. Len(g)
    PROVE  /\ Cat(f, Take(g, n)) \in Seq(Cell) /\ Cat(f, g) \in Seq(Cell)
           /\ Len(Cat(f, Take(g, n))) = Len(f) + n /\ Len(Cat(f, g)) = Len(f) + Len(g)
           /\ Len(Cat(f, Take(g, n))) <= Len(Cat(f, g))
           /\ \A i \in 1 .. Len(Cat(f, Take(g, n))) : Cat(f, Take(g, n))[i] = Cat(f, g)[i]
<1> DEFINE t == Take(g, n)
<1>1. /\ t \in Seq(Cell) /\ Len(t) = n /\ n \in Nat /\ Len(g) \in Nat /\ n <= Len(g)
      /\ \A i \in 1 .. n : t[i] = g[i]
  BY TakeFacts
<1> HIDE DEF t
<1>2. /\ Cat(f, t) \in Seq(Cell) /\ Len(Cat(f, t)) = Len(f) + n
      /\ \A i \in 1 .. Len(f) : Cat(f, t)[i] = f[i]
      /\ \A i \in 1 .. n : Cat(f, t)[Len(f) + i] = t[i]
  <2>1. /\ Cat(f, t) \in Seq(Cell) /\ Len(Cat(f, t)) = Len(f) + Len(t)
        /\ \A i \in 1 .. Len(f) : Cat(f, t)[i] = f[i]
        /\ \A i \in 1 .. Len(t) : Cat(f, t)[Len(f) + i] = t[i]
    BY <1>1, CatFacts
  <2> QED BY <1>1, <2>1
<1>3. /\ Cat(f, g) \in Seq(Cell) /\ Len(Cat(f, g)) = Len(f) + Len(g)
      /\ \A i \in 1 .. Len(f) : Cat(f, g)[i] = f[i]
      /\ \A i \in 1 .. Len(g) : Cat(f, g)[Len(f) + i] = g[i]
  BY CatFacts
<1>4. Len(f) \in Nat
  BY LenFacts
<1>5. /\ Len(f) + n <= Len(f) + Len(g) /\ 1 .. n \subseteq 1 .. Len(g)
      /\ \A i \in 1 .. Len(f) + n : i \in 1 .. Len(f) \/ \E j \in 1 .. n : i = Len(f) + j
  <2>1. \A i \in 1 .. Len(f) + n : i \in 1 .. Len(f) \/ (i - Len(f) \in 1 .. n /\ i = Len(f) + (i - Len(f)))
    BY SMTT(30), <1>1, <1>4
  <2>2. Len(f) + n <= Len(f) + Len(g) /\ 1 .. n \subseteq 1 .. Len(g)
    BY SMTT(30), <1>1, <1>4
  <2> QED BY <2>1, <2>2
<1>6. ASSUME NEW i \in 1 .. Len(f) + n
      PROVE  Cat(f, t)[i] = Cat(f, g)[i]
  <2>1. CASE i \in 1 .. Len(f)
    BY <2>1, <1>2, <1>3
  <2>2. CASE \E j \in 1 .. n : i = Len(f) + j
    <3>1. PICK j \in 1 .. n : i = Len(f) + j
      BY <2>2
    <3>2. Cat(f, t)[Len(f) + j] = t[j] /\ t[j] = g[j]
      BY <1>1, <1>2
    <3>3. Cat(f, g)[Len(f) + j] = g[j]
      BY <1>3, <1>5
    <3> QED BY <3>1, <3>2, <3>3
  <2> QED BY <1>5, <2>1, <2>2
<1> QED BY <1>2, <1>3, <1>5, <1>6 DEF t

\* A record that is cut short after whole records adds no body.
LEMMA TornBelow ==
    ASSUME NEW f \in Seq(Cell), NEW h \in Seq(Cell), NEW s \in Nat, Below(f, s), Len(f) % 3 = 0,
           Len(h) < Len(f) + 3, \A i \in 1 .. Len(h) : i \in 1 .. Len(f) => h[i] = f[i]
    PROVE  Below(h, s)
<1>1. Len(f) \in Nat /\ Len(h) \in Nat /\ DOMAIN f = 1 .. Len(f) /\ DOMAIN h = 1 .. Len(h)
  BY LenFacts
<1> SUFFICES ASSUME NEW i \in 1 .. Len(h), Kind(i) = "body"
             PROVE  h[i].seq <= s
  BY <1>1 DEF Below
<1>2. i \in Nat /\ i # 0
  BY SMTT(30), <1>1
<1>3. PICK k \in Nat : i = 3 * k + 3
  BY <1>2, BodyKind
<1>4. i \in 1 .. Len(f)
  <2> DEFINE m == Len(f)
             n == Len(h)
  <2>1. m \in Nat /\ n \in Nat /\ m % 3 = 0 /\ n < m + 3 /\ i \in 1 .. n
    BY <1>1
  <2> HIDE DEF m, n
  <2>2. i \in 1 .. m
    BY SMTT(20), <1>3, <2>1
  <2> QED BY <2>2 DEF m
<1>5. h[i] = f[i] /\ f[i].seq <= s
  BY <1>1, <1>4 DEF Below
<1> QED BY <1>5

\* g is f but for the cell n, of which Replay sees the value v.
Damaged(f, g, n, v) == /\ g \in Seq(Cell) /\ Len(g) = Len(f)
                       /\ \A i \in 1 .. Len(f) : g[i].part = f[i].part /\ g[i].entry = f[i].entry /\ g[i].seq = f[i].seq
                       /\ \A i \in 1 .. Len(f) : i # n => g[i] = f[i]
                       /\ g[n].val = v

LEMMA Damage ==
    ASSUME NEW f \in Seq(Cell), NEW n \in 1 .. Len(f), NEW v \in Nat, NEW g, g = [f EXCEPT ![n].val = v]
    PROVE  Damaged(f, g, n, v)
<1> DEFINE c == [f[n] EXCEPT !.val = v]
<1>1. f[n] \in Cell /\ DOMAIN f = 1 .. Len(f)
  BY CellSeq, LenFacts
<1>2. c \in Cell /\ c.part = f[n].part /\ c.entry = f[n].entry /\ c.seq = f[n].seq /\ c.val = v
  <2>1. c \in Cell
    BY <1>1 DEF Cell
  <2>2. c.part = f[n].part /\ c.entry = f[n].entry
    BY <1>1 DEF Cell
  <2>3. c.seq = f[n].seq /\ c.val = v
    BY <1>1 DEF Cell
  <2> QED BY <2>1, <2>2, <2>3
<1> HIDE DEF c
<1>3. g = [f EXCEPT ![n] = c]
  BY DEF c
<1>4. /\ g \in Seq(Cell) /\ Len(g) = Len(f)
      /\ \A j \in 1 .. Len(f) : g[j] = IF j = n THEN c ELSE f[j]
  <2>1. /\ [f EXCEPT ![n] = c] \in Seq(Cell) /\ Len([f EXCEPT ![n] = c]) = Len(f)
    BY SMTT(30), <1>2
  <2>2. \A j \in 1 .. Len(f) : [f EXCEPT ![n] = c][j] = IF j = n THEN c ELSE f[j]
    BY <1>1
  <2> QED BY <1>3, <2>1, <2>2
<1>5. g[n] = c
  BY <1>4
<1>6. \A i \in 1 .. Len(f) : i # n => g[i] = f[i]
  BY <1>4
<1>7. ASSUME NEW i \in 1 .. Len(f)
      PROVE  g[i].part = f[i].part /\ g[i].entry = f[i].entry /\ g[i].seq = f[i].seq
  <2>1. CASE i = n
    BY <2>1, <1>2, <1>5
  <2>2. CASE i # n
    <3>1. g[i] = f[i]
      BY <2>2, <1>6
    <3> QED BY <3>1
  <2> QED BY <2>1, <2>2
<1> QED BY <1>2, <1>4, <1>5, <1>6, <1>7 DEF Damaged
-----------------------------------------------------------------------------
(* The invariant *)

Stream == Cat(file, buf)

Types == /\ policy \in Policies
         /\ file \in Seq(Cell) /\ buf \in Seq(Cell) /\ synced \in 0 .. Len(file) /\ Len(buf) <= BufSize
         /\ werr \in BOOLEAN /\ closed \in BOOLEAN /\ cerr \in BOOLEAN
         /\ seq \in Nat /\ issued \in 0 .. MaxAppends
         /\ pc \in {"idle", "flush", "fsync", "rename", "open", "exit"}
         /\ call \in {"none", "append", "flush", "sync", "rotate", "stop"}
         /\ phase \in {"down", "up"}

\* A process that is down has no log; what the open call implies.
Calls == /\ phase = "down" => buf = <<>> /\ closed /\ ~werr /\ ~cerr /\ pc = "idle"
         /\ pc = "idle" <=> call = "none"
         /\ call \in {"append", "flush", "sync"} => ~closed /\ pc \in {"flush", "fsync"}
         /\ call = "append" => policy = "every" /\ ~werr
         /\ call \in {"rotate", "stop"} => closed
         /\ ~closed => ~cerr
         /\ pc = "fsync" => buf = <<>> \/ cerr
         /\ pc = "open" => file = <<>> /\ buf = <<>>

\* Only a power failure garbles a body, and then all that is left is on the disk.
Shape == /\ Intact(Stream) \/ (phase = "down" /\ Garbled(file) /\ synced = Len(file))
         /\ phase = "up" /\ ~closed /\ ~werr => Len(Stream) % 3 = 0

\* A log that was closed without an error is on the disk.
Saved == phase = "up" /\ closed /\ ~cerr /\ pc \notin {"flush", "fsync"} => buf = <<>> /\ synced = Len(file)

\* The numbers of the bodies increase and have been given out.
Numbered == Ordered(Stream) /\ (phase = "up" => Below(Stream, seq))

\* What Append is about to acknowledge is the last record; what it has
\* acknowledged is on the disk.
Held(e) == \E i \in 1 .. synced : Kind(i) = "body" /\ file[i].val = 1 /\ file[i].entry = e

Durable == /\ call = "append" => Len(Stream) > 0 /\ Stream[Len(Stream)].entry = issued
           /\ policy = "every" => \A e \in acked : Held(e)

Inv == Types /\ Calls /\ Shape /\ Saved /\ Numbered /\ Durable

LEMMA StreamFacts ==
    ASSUME Types
    PROVE  /\ file \in Seq(Cell) /\ buf \in Seq(Cell) /\ Stream \in Seq(Cell)
           /\ Len(file) \in Nat /\ Len(buf) \in Nat /\ Len(Stream) = Len(file) + Len(buf)
           /\ Len(file) <= Len(Stream) /\ synced \in Nat /\ synced <= Len(file)
           /\ \A i \in 1 .. Len(file) : Stream[i] = file[i]
           /\ buf = <<>> => Stream = file
<1>1. file \in Seq(Cell) /\ buf \in Seq(Cell) /\ synced \in 0 .. Len(file)
  BY DEF Types
<1>2. /\ Stream \in Seq(Cell) /\ Len(Stream) = Len(file) + Len(buf)
      /\ \A i \in 1 .. Len(file) : Stream[i] = file[i]
  BY <1>1, CatFacts DEF Stream
<1>3. Len(file) \in Nat /\ Len(buf) \in Nat
  BY <1>1, LenFacts
<1>4. Len(file) <= Len(file) + Len(buf) /\ synced \in Nat /\ synced <= Len(file)
  BY SMTT(30), <1>1, <1>3
<1>5. buf = <<>> => Stream = file
  BY <1>1, EmptyRest DEF Stream
<1> QED BY <1>1, <1>2, <1>3, <1>4, <1>5

\* What is on the disk stays there while the file only grows.
LEMMA HeldKept ==
    ASSUME synced \in Nat, synced' \in Nat, synced <= synced', \A i \in 1 .. synced : file'[i] = file[i]
    PROVE  \A e : Held(e) => Held(e)'
<1>1. 1 .. synced \subseteq 1 .. synced'
  BY SMTT(30)
<1> SUFFICES ASSUME NEW e, Held(e)
             PROVE  Held(e)'
  OBVIOUS
<1>2. PICK i \in 1 .. synced : Kind(i) = "body" /\ file[i].val = 1 /\ file[i].entry = e
  BY DEF Held
<1>3. file'[i] = file[i] /\ i \in 1 .. synced'
  BY <1>1
<1>4. file'[i].val = 1 /\ file'[i].entry = e
  BY <1>2, <1>3
<1> QED BY <1>2, <1>3, <1>4 DEF Held

\* A step that leaves the log, its place in the file and the record that Append
\* waits for as they are.
LEMMA SameStream ==
    ASSUME Inv, Types', Stream' = Stream, synced' = synced, phase' = phase, policy' = policy, issued' = issued,
           seq' = seq, acked' = acked, phase = "up",
           \A i \in 1 .. synced : file'[i] = file[i],
           call' = "append" => call = "append",
           ~closed' /\ ~werr' => ~closed /\ ~werr
    PROVE  Shape' /\ Numbered' /\ Durable'
<1>1. Intact(Stream)
  BY DEF Inv, Shape
<1>2. Shape'
  BY <1>1 DEF Inv, Shape
<1>3. Numbered'
  BY DEF Inv, Numbered
<1>4. synced \in Nat /\ synced' \in Nat /\ synced <= synced'
  <2>1. synced \in Nat
    BY StreamFacts DEF Inv
  <2>2. synced <= synced
    BY SMTT(30), <2>1
  <2> QED BY <2>1, <2>2
<1>5. \A e : Held(e) => Held(e)'
  BY <1>4, HeldKept
<1>6. Durable'
  BY <1>5 DEF Inv, Durable
<1> QED BY <1>2, <1>3, <1>6

LEMMA Idle ==
    ASSUME Inv, pc # "idle"
    PROVE  phase = "up" /\ call # "none" /\ Intact(Stream)
BY DEF Inv, Calls, Shape, Types

-----------------------------------------------------------------------------
(* The steps that leave the file alone *)

LEMMA CallSyncInv ==
    ASSUME Inv, CallSync
    PROVE  Inv'
<1>1. /\ policy' = policy /\ file' = file /\ synced' = synced /\ buf' = buf /\ werr' = werr /\ seq' = seq
      /\ closed' = closed /\ cerr' = cerr /\ phase' = phase /\ issued' = issued /\ acked' = acked
      /\ phase = "up" /\ ~closed /\ pc' = "flush" /\ call' \in {"flush", "sync"}
  BY DEF CallSync, Ready, object
<1>2. Types'
  BY <1>1 DEF Inv, Types
<1>3. Stream' = Stream
  BY <1>1 DEF Stream
<1>4. Calls'
  BY <1>1 DEF Inv, Calls
<1>5. Saved'
  BY <1>1 DEF Saved
<1>6. Shape' /\ Numbered' /\ Durable'
  BY <1>1, <1>2, <1>3, SameStream
<1> QED BY <1>2, <1>4, <1>5, <1>6 DEF Inv

\* Close, for a rotation and at the end
LEMMA CloseInv ==
    ASSUME Inv, NEW c \in {"rotate", "stop"}, Ready, Close(c),
           UNCHANGED <<policy, file, synced, buf, werr, seq, cerr, phase, issued, acked>>
    PROVE  Inv'
<1>1. /\ policy' = policy /\ file' = file /\ synced' = synced /\ buf' = buf /\ werr' = werr /\ seq' = seq
      /\ closed' = TRUE /\ cerr' = cerr /\ phase' = phase /\ issued' = issued /\ acked' = acked
      /\ phase = "up" /\ pc = "idle" /\ call' = c
      /\ closed => pc' \in {"rename", "exit"}
      /\ ~closed => pc' = "flush"
  BY DEF Close, Ready
<1>2. Types'
  BY <1>1 DEF Inv, Types
<1>3. Stream' = Stream
  BY <1>1 DEF Stream
<1>4. Calls'
  BY <1>1 DEF Inv, Calls, Types
<1>5. Saved'
  <2>1. CASE closed
    <3>1. pc \notin {"flush", "fsync"}
      BY <1>1
    <3>2. ~cerr => buf = <<>> /\ synced = Len(file)
      BY <1>1, <2>1, <3>1 DEF Inv, Saved
    <3>3. buf' = buf /\ synced' = synced /\ Len(file') = Len(file) /\ cerr' = cerr
      BY <1>1
    <3>4. ~cerr' => ~cerr
      BY SMTT(30), <3>3
    <3> QED BY <3>2, <3>3, <3>4 DEF Saved
  <2>2. CASE ~closed
    BY <1>1, <2>2 DEF Saved
  <2> QED BY <2>1, <2>2
<1>6. Shape' /\ Numbered' /\ Durable'
  BY <1>1, <1>2, <1>3, SameStream
<1> QED BY <1>2, <1>4, <1>5, <1>6 DEF Inv

LEMMA RotateInv ==
    ASSUME Inv, Rotate \/ StopLog
    PROVE  Inv'
BY CloseInv DEF Rotate, StopLog

LEMMA RotateOpenInv ==
    ASSUME Inv, RotateOpen
    PROVE  Inv'
<1>1. /\ policy' = policy /\ file' = file /\ synced' = synced /\ buf' = buf /\ seq' = seq
      /\ phase' = phase /\ issued' = issued /\ acked' = acked
      /\ pc = "open" /\ pc' = "idle" /\ call' = "none"
      /\ \/ ~closed' /\ ~werr' /\ ~cerr' /\ closed' \in BOOLEAN /\ werr' \in BOOLEAN /\ cerr' \in BOOLEAN
         \/ closed' = closed /\ werr' = werr /\ cerr' = cerr
  BY DEF RotateOpen, Return
<1>2. Types'
  BY <1>1 DEF Inv, Types
<1>3. Stream' = Stream
  BY <1>1 DEF Stream
<1>4. phase = "up" /\ Intact(Stream) /\ file = <<>> /\ buf = <<>>
  BY <1>1, Idle DEF Inv, Calls
<1>5. Calls'
  <2>1. CASE ~closed' /\ ~cerr'
    BY <1>1, <1>4, <2>1 DEF Calls
  <2>2. CASE closed' = closed /\ cerr' = cerr
    BY <1>1, <1>4, <2>2 DEF Inv, Calls
  <2> QED BY <1>1, <2>1, <2>2
<1>6. Saved'
  BY <1>1 DEF Inv, Saved
<1>7. Shape'
  <2>1. Len(Stream) % 3 = 0
    <3>1. Stream = <<>>
      BY <1>4, StreamFacts DEF Inv
    <3>2. Len(<<>>) % 3 = 0
      BY SMTT(30)
    <3> QED BY <3>1, <3>2
  <2> QED BY <1>3, <1>4, <2>1 DEF Shape
<1>8. Numbered'
  BY <1>1, <1>3 DEF Inv, Numbered
<1>9. Durable'
  BY <1>1, <1>3 DEF Inv, Durable, Held
<1> QED BY <1>2, <1>5, <1>6, <1>7, <1>8, <1>9 DEF Inv

-----------------------------------------------------------------------------
(* The steps that write *)

\* The first n of the cells g go to the file and the others to the buffer.
LEMMA Shifted ==
    ASSUME Types, NEW g \in Seq(Cell), NEW n \in 0 .. Len(g), Len(g) - n <= BufSize,
           file' = file \o Take(g, n), buf' = Drop(g, n), synced' = synced
    PROVE  /\ file' \in Seq(Cell) /\ buf' \in Seq(Cell) /\ Len(buf') <= BufSize /\ synced' \in 0 .. Len(file')
           /\ Stream' = Cat(file, g)
           /\ \A i \in 1 .. Len(file) : file'[i] = file[i]
           /\ \A i \in 1 .. synced : file'[i] = file[i]
<1>1. /\ file \in Seq(Cell) /\ Len(file) \in Nat /\ synced \in Nat /\ synced <= Len(file)
  BY StreamFacts
<1>2. Take(g, n) \in Seq(Cell) /\ Len(Take(g, n)) = n /\ n \in Nat /\ Drop(g, n) \in Seq(Cell) /\ Len(Drop(g, n)) = Len(g) - n
  BY TakeFacts, DropFacts
<1>3. file' = Cat(file, Take(g, n))
  BY DEF Cat
<1>4. /\ file' \in Seq(Cell) /\ Len(file') = Len(file) + Len(Take(g, n))
      /\ \A i \in 1 .. Len(file) : file'[i] = file[i]
  <2> DEFINE t == Take(g, n)
  <2>1. t \in Seq(Cell)
    BY <1>2
  <2> HIDE DEF t
  <2>2. /\ Cat(file, t) \in Seq(Cell) /\ Len(Cat(file, t)) = Len(file) + Len(t)
        /\ \A i \in 1 .. Len(file) : Cat(file, t)[i] = file[i]
    BY <1>1, <2>1, CatFacts
  <2> QED BY <1>3, <2>2 DEF t
<1>5. Len(file') = Len(file) + n
  BY <1>2, <1>4
<1>6. synced \in 0 .. Len(file') /\ 1 .. synced \subseteq 1 .. Len(file)
  BY SMTT(30), <1>1, <1>2, <1>5
<1>7. Stream' = Cat(Cat(file, Take(g, n)), Drop(g, n))
  BY <1>3 DEF Stream
<1>8. Stream' = Cat(file, g)
  BY <1>1, <1>7, SplitFacts
<1>9. Len(buf') <= BufSize
  BY <1>2
<1> QED BY <1>2, <1>4, <1>6, <1>8, <1>9

LEMMA FlushStepInv ==
    ASSUME Inv, FlushStep
    PROVE  Inv'
<1>1. /\ policy' = policy /\ synced' = synced /\ closed' = closed /\ phase' = phase /\ issued' = issued
      /\ pc = "flush" /\ seq' = seq /\ acked' = acked
  BY DEF FlushStep, Fails
<1>2. phase = "up" /\ call # "none"
  BY <1>1, Idle
<1>3. buf \in Seq(Cell) /\ Len(buf) \in Nat /\ Len(buf) <= BufSize /\ BufSize \in Nat
  BY StreamFacts, WALAssumption DEF Inv, Types
<1>4. CASE /\ ~werr /\ file' = file \o buf /\ buf' = <<>> /\ werr' = werr /\ cerr' = cerr
           /\ IF call = "flush" THEN Return ELSE pc' = "fsync" /\ UNCHANGED call
  <2>1. Len(buf) \in 0 .. Len(buf) /\ Len(buf) - Len(buf) <= BufSize
    BY SMTT(30), <1>3
  <2>2. Take(buf, Len(buf)) = buf /\ Drop(buf, Len(buf)) = <<>>
    <3>1. Take(buf, Len(buf)) = buf
      BY <1>3, EmptyRest
    <3>2. Drop(buf, Len(buf)) = <<>>
      BY SMTT(30), <1>3 DEF Drop
    <3> QED BY <3>1, <3>2
  <2>3. file' = file \o Take(buf, Len(buf)) /\ buf' = Drop(buf, Len(buf))
    BY <1>4, <2>2
  <2>4. /\ file' \in Seq(Cell) /\ buf' \in Seq(Cell) /\ Len(buf') <= BufSize /\ synced' \in 0 .. Len(file')
        /\ Stream' = Cat(file, buf)
        /\ \A i \in 1 .. synced : file'[i] = file[i]
    BY <1>1, <1>3, <2>1, <2>3, Shifted DEF Inv
  <2>5. Types'
    BY <1>1, <1>4, <2>4 DEF Inv, Types, Return
  <2>6. Stream' = Stream
    BY <2>4 DEF Stream
  <2>7. Calls'
    <3>1. CASE call = "flush"
      BY <1>1, <1>2, <1>4, <3>1 DEF Inv, Calls, Return
    <3>2. CASE call # "flush"
      <4>1. pc' = "fsync" /\ call' = call
        BY <1>4, <3>2
      <4>2. werr' = werr /\ cerr' = cerr /\ buf' = <<>>
        BY <1>4
      <4> QED BY <1>1, <1>2, <4>1, <4>2 DEF Inv, Calls
    <3> QED BY <3>1, <3>2
  <2>8. Saved'
    <3>1. CASE call = "flush"
      BY <1>1, <3>1 DEF Inv, Calls, Saved
    <3>2. CASE call # "flush"
      BY <1>4, <3>2 DEF Saved
    <3> QED BY <3>1, <3>2
  <2>9. Shape' /\ Numbered' /\ Durable'
    <3>1. call' = "append" => call = "append"
      BY <1>4 DEF Return
    <3> QED BY <1>1, <1>2, <1>4, <2>4, <2>5, <2>6, <3>1, SameStream
  <2> QED BY <2>5, <2>7, <2>8, <2>9 DEF Inv
<1>5. CASE /\ werr' = TRUE
           /\ \E n \in IF werr THEN {0} ELSE 0 .. Len(buf) - 1 :
                file' = file \o Take(buf, n) /\ buf' = Drop(buf, n)
           /\ IF closed THEN pc' = "fsync" /\ cerr' = TRUE /\ UNCHANGED call
                        ELSE Return /\ UNCHANGED cerr
  <2>1. PICK n \in 0 .. Len(buf) : file' = file \o Take(buf, n) /\ buf' = Drop(buf, n)
    <3>1. 0 \in 0 .. Len(buf) /\ 0 .. Len(buf) - 1 \subseteq 0 .. Len(buf)
      BY SMTT(30), <1>3
    <3> QED BY <1>5, <3>1
  <2>2. Len(buf) - n <= BufSize
    BY SMTT(30), <1>3
  <2>3. /\ file' \in Seq(Cell) /\ buf' \in Seq(Cell) /\ Len(buf') <= BufSize /\ synced' \in 0 .. Len(file')
        /\ Stream' = Cat(file, buf)
        /\ \A i \in 1 .. synced : file'[i] = file[i]
    BY <1>1, <1>3, <2>1, <2>2, Shifted DEF Inv
  <2>4. Types'
    BY <1>1, <1>5, <2>3 DEF Inv, Types, Return
  <2>5. Stream' = Stream
    BY <2>3 DEF Stream
  <2>6. Calls'
    <3>1. CASE closed
      <4>1. call \in {"rotate", "stop"}
        BY <1>2, <3>1 DEF Inv, Calls, Types
      <4>2. pc' = "fsync" /\ cerr' /\ call' = call
        BY <1>5, <3>1
      <4> QED BY <1>1, <1>2, <3>1, <4>1, <4>2 DEF Calls
    <3>2. CASE ~closed
      <4>1. pc' = "idle" /\ call' = "none" /\ cerr' = cerr
        BY <1>5, <3>2 DEF Return
      <4>2. ~cerr
        BY <3>2 DEF Inv, Calls
      <4> QED BY <1>1, <1>2, <3>2, <4>1, <4>2 DEF Calls
    <3> QED BY <3>1, <3>2
  <2>7. Saved'
    BY <1>1, <1>5 DEF Saved
  <2>8. Shape' /\ Numbered' /\ Durable'
    <3>1. call' = "append" => call = "append"
      BY <1>5 DEF Return
    <3> QED BY <1>1, <1>2, <1>5, <2>3, <2>4, <2>5, <3>1, SameStream
  <2> QED BY <2>4, <2>6, <2>7, <2>8 DEF Inv
<1> QED BY <1>4, <1>5 DEF FlushStep

LEMMA SyncStepInv ==
    ASSUME Inv, SyncStep
    PROVE  Inv'
<1>1. /\ policy' = policy /\ file' = file /\ buf' = buf /\ werr' = werr /\ closed' = closed
      /\ phase' = phase /\ issued' = issued /\ seq' = seq /\ pc = "fsync"
  BY DEF SyncStep, Fails
<1>2. phase = "up" /\ call # "none" /\ Intact(Stream)
  BY <1>1, Idle
<1>3. /\ Stream' = Stream /\ Len(file) \in Nat /\ synced \in Nat /\ synced <= Len(file)
      /\ file \in Seq(Cell) /\ (buf = <<>> => Stream = file)
  BY <1>1, StreamFacts DEF Inv, Stream
<1>4. call \in {"append", "sync", "rotate", "stop", "flush"}
  BY <1>2 DEF Inv, Types
<1>5. closed <=> call \in {"rotate", "stop"}
  BY <1>4 DEF Inv, Calls
<1>6. buf = <<>> \/ cerr
  BY <1>1 DEF Inv, Calls
<1>7. Shape' /\ Numbered'
  BY <1>1, <1>2, <1>3 DEF Inv, Shape, Numbered
\* where the call goes on
<1>8. /\ closed => (pc' \in {"rename", "exit"} /\ call' = call) \/ (pc' = "idle" /\ call' = "none" /\ cerr')
      /\ ~closed => pc' = "idle" /\ call' = "none" /\ cerr' = cerr
      /\ cerr' \in BOOLEAN /\ (cerr => cerr')
  <2>1. cerr \in BOOLEAN
    BY DEF Inv, Types
  <2>2. CASE (IF closed THEN AfterClose(cerr) ELSE Return) /\ cerr' = cerr
    BY <2>1, <2>2 DEF AfterClose, Return
  <2>3. CASE IF closed THEN AfterClose(TRUE) /\ cerr' = TRUE ELSE Return /\ cerr' = cerr
    BY <2>1, <2>3 DEF AfterClose, Return
  <2> QED BY <2>2, <2>3 DEF SyncStep
<1>9. Calls'
  <2>1. CASE closed
    BY <1>1, <1>2, <1>5, <1>8, <2>1 DEF Calls
  <2>2. CASE ~closed
    <3>1. ~cerr /\ cerr' = cerr
      BY <1>8, <2>2 DEF Inv, Calls
    <3>2. ~cerr'
      BY SMTT(30), <3>1
    <3> QED BY <1>1, <1>2, <1>8, <2>2, <3>2 DEF Calls
  <2> QED BY <2>1, <2>2
<1>10. CASE synced' = Len(file) /\ (acked' = IF call = "append" THEN acked \cup {issued} ELSE acked)
  <2>1. synced' \in 0 .. Len(file) /\ synced' \in Nat /\ synced <= synced'
    BY SMTT(30), <1>3, <1>10
  <2>2. Types'
    BY <1>1, <1>8, <2>1 DEF Inv, Types
  <2>3. Saved'
    <3>1. ~cerr' => buf' = <<>> /\ synced' = Len(file')
      BY <1>1, <1>6, <1>8, <1>10
    <3> QED BY <3>1 DEF Saved
  <2>4. \A e : Held(e) => Held(e)'
    BY <1>1, <1>3, <2>1, HeldKept
  <2>5. call = "append" => Held(issued)'
    <3> SUFFICES ASSUME call = "append"
                 PROVE  Held(issued)'
      OBVIOUS
    <3>1. ~closed /\ ~werr /\ ~cerr
      BY DEF Inv, Calls
    <3>2. Stream = file /\ Len(Stream) % 3 = 0 /\ Len(Stream) > 0 /\ Stream[Len(Stream)].entry = issued
      BY <1>2, <1>3, <1>6, <3>1 DEF Inv, Shape, Durable
    <3> DEFINE n == Len(file)
    <3>3. n \in Nat /\ n % 3 = 0 /\ n > 0
      BY <1>3, <3>2
    <3> HIDE DEF n
    <3>4. n \div 3 - 1 \in Nat /\ n = 3 * (n \div 3 - 1) + 3 /\ n \in 1 .. n
      BY SMTT(30), <3>3
    <3>5. Kind(n) = "body"
      BY <3>4, Kinds
    <3>6. n \in DOMAIN file
      BY <1>3, <3>4, LenFacts DEF n
    <3>7. file[n].val = 1
      BY <1>2, <3>2, <3>6 DEF Intact
    <3>8. file[n].entry = issued
      BY <3>2 DEF n
    <3>9. n \in 1 .. synced'
      BY <1>10, <3>4 DEF n
    <3> QED BY <1>1, <3>5, <3>7, <3>8, <3>9 DEF Held
  <2>6. Durable'
    <3>1. call' # "append"
      BY <1>5, <1>8
    <3>2. ASSUME policy = "every", NEW e \in acked'
          PROVE  Held(e)'
      <4>1. \A x \in acked : Held(x)
        BY <3>2 DEF Inv, Durable
      <4>2. e \in acked \/ (call = "append" /\ e = issued')
        BY <1>1, <1>10
      <4> QED BY <2>4, <2>5, <4>1, <4>2
    <3> QED BY <1>1, <3>1, <3>2 DEF Durable
  <2> QED BY <1>7, <1>9, <2>2, <2>3, <2>6 DEF Inv
<1>11. CASE /\ synced' = synced /\ acked' = acked
            /\ IF closed THEN AfterClose(TRUE) /\ cerr' = TRUE ELSE Return /\ UNCHANGED cerr
  <2>1. Types'
    BY <1>1, <1>8, <1>11 DEF Inv, Types
  <2>2. Saved'
    BY <1>1, <1>11 DEF Saved
  <2>3. Durable'
    <3>1. call' # "append"
      BY <1>5, <1>8
    <3> QED BY <1>1, <1>11, <3>1 DEF Inv, Durable, Held
  <2> QED BY <1>7, <1>9, <2>1, <2>2, <2>3 DEF Inv
<1> QED BY <1>10, <1>11 DEF SyncStep, Fails

LEMMA RotateRenameInv ==
    ASSUME Inv, RotateRename
    PROVE  Inv'
<1>1. /\ policy' = policy /\ werr' = werr /\ seq' = seq /\ closed' = closed /\ cerr' = cerr
      /\ phase' = phase /\ issued' = issued /\ pc = "rename"
  BY DEF RotateRename
<1>2. phase = "up" /\ call # "none" /\ Intact(Stream)
  BY <1>1, Idle
<1>3. call \in {"rotate", "stop"} /\ closed
  BY <1>1, <1>2 DEF Inv, Calls, Types
<1>4. CASE file' = <<>> /\ synced' = 0 /\ acked' = {} /\ buf' = <<>> /\ pc' = "open" /\ call' = call
  <2>1. <<>> \in Seq(Cell) /\ 0 \in 0 .. Len(<<>>) /\ Len(<<>>) = 0 /\ DOMAIN <<>> = {} /\ 0 <= BufSize
    BY SMTT(30), WALAssumption
  <2>2. Types'
    BY <1>1, <1>4, <2>1 DEF Inv, Types
  <2>3. Stream' = <<>>
    BY <1>4, <2>1, EmptyRest DEF Stream
  <2>4. Calls'
    BY <1>1, <1>2, <1>3, <1>4 DEF Calls
  <2>5. Shape'
    BY <1>1, <1>2, <1>3, <2>1, <2>3 DEF Shape, Intact
  <2>6. Saved'
    BY <1>4, <2>1 DEF Saved
  <2>7. Numbered'
    BY <2>1, <2>3 DEF Numbered, Ordered, Below
  <2>8. Durable'
    BY <1>3, <1>4 DEF Durable
  <2> QED BY <2>2, <2>4, <2>5, <2>6, <2>7, <2>8 DEF Inv
<1>5. CASE pc' = "idle" /\ call' = "none" /\ file' = file /\ synced' = synced /\ acked' = acked /\ buf' = buf
  <2>1. Types'
    BY <1>1, <1>5 DEF Inv, Types
  <2>2. Stream' = Stream
    BY <1>5 DEF Stream
  <2>3. Calls'
    BY <1>1, <1>2, <1>3, <1>5 DEF Calls
  <2>4. Saved'
    <3>1. ~cerr => buf = <<>> /\ synced = Len(file)
      BY <1>1, <1>2, <1>3 DEF Inv, Saved
    <3>2. ~cerr' => ~cerr
      BY SMTT(30), <1>1
    <3> QED BY <1>5, <3>1, <3>2 DEF Saved
  <2>5. Shape' /\ Numbered' /\ Durable'
    BY <1>1, <1>2, <1>5, <2>1, <2>2, SameStream
  <2> QED BY <2>1, <2>3, <2>4, <2>5 DEF Inv
<1> QED BY <1>4, <1>5 DEF RotateRename, Return

\* The records of g are those of f, and a part of another.
Torn(f, g) == /\ g \in Seq(Cell) /\ Len(f) % 3 = 0 /\ Len(f) <= Len(g) /\ Len(g) < Len(f) + 3
              /\ \A i \in 1 .. Len(f) : g[i] = f[i]

\* What Append has written when it goes on to Flush or returns.
Written == /\ \A i \in 1 .. synced : file'[i] = file[i]
           /\ policy = "every" => acked' = acked
           /\ Stream' = Stream \/ Grown(Stream, Stream', issued + 1, seq) \/ Torn(Stream, Stream')

LEMMA AppendWriteInv ==
    ASSUME Inv, AppendWrite
    PROVE  Inv' /\ Written
<1> DEFINE t == Frame(issued + 1, seq + 1)
           cells == buf \o t
<1>1. /\ phase = "up" /\ pc = "idle" /\ issued' = issued + 1 /\ issued < MaxAppends
      /\ policy' = policy /\ synced' = synced /\ phase' = phase
  BY DEF AppendWrite, Ready
<1>2. /\ issued \in Nat /\ seq \in Nat /\ BufSize \in Nat /\ BufSize >= 3 /\ MaxAppends \in Nat
      /\ file \in Seq(Cell) /\ buf \in Seq(Cell) /\ Len(buf) \in Nat /\ Len(buf) <= BufSize
  <2>1. issued \in 0 .. MaxAppends /\ MaxAppends \in Nat
    BY WALAssumption DEF Inv, Types
  <2>2. issued \in Nat
    BY SMTT(30), <2>1
  <2> QED BY <2>1, <2>2, StreamFacts, WALAssumption DEF Inv, Types
<1>3. issued + 1 \in Nat /\ seq + 1 \in Nat /\ issued + 1 \in 0 .. MaxAppends
  BY SMTT(30), <1>1, <1>2
<1>4. call = "none" /\ Intact(Stream) /\ Ordered(Stream) /\ Below(Stream, seq)
  BY <1>1 DEF Inv, Calls, Shape, Numbered
<1>5. t \in Seq(Cell) /\ Len(t) = 3
  BY <1>3, FrameFacts
<1> HIDE DEF t
<1>6. cells = Cat(buf, t)
  BY DEF Cat
<1>7. cells \in Seq(Cell) /\ Len(cells) = Len(buf) + 3 /\ Len(cells) \in Nat
  <2>1. Cat(buf, t) \in Seq(Cell) /\ Len(Cat(buf, t)) = Len(buf) + Len(t)
    BY <1>2, <1>5, CatFacts
  <2>2. Len(buf) + 3 \in Nat
    BY SMTT(30), <1>2
  <2> QED BY <1>5, <1>6, <2>1, <2>2
<1>8. Cat(file, cells) = Cat(Stream, t)
  <2>1. Cat(file, Cat(buf, t)) = Cat(Cat(file, buf), t)
    BY <1>2, <1>5, Moved
  <2> QED BY <1>6, <2>1 DEF Stream
<1> HIDE DEF cells
<1>9. CASE /\ closed \/ werr
           /\ UNCHANGED <<file, object, pc, call, acked>>
  <2>1. Types'
    BY <1>1, <1>3, <1>9 DEF Inv, Types, object
  <2>2. Calls'
    BY <1>1, <1>9 DEF Inv, Calls, object
  <2>3. Stream' = Stream
    BY <1>9 DEF Stream, object
  <2>4. Shape' /\ Numbered'
    BY <1>1, <1>9, <2>3 DEF Inv, Shape, Numbered, object
  <2>5. Saved'
    BY <1>1, <1>9 DEF Inv, Saved, object
  <2>6. Durable'
    BY <1>1, <1>4, <1>9 DEF Inv, Durable, Held
  <2> QED BY <1>9, <2>1, <2>2, <2>3, <2>4, <2>5, <2>6 DEF Inv, Written
\* what both outcomes of a write have in common
<1> DEFINE h == Cat(Stream, t)
<1>10. ASSUME ~closed, ~werr
       PROVE  /\ Grown(Stream, h, issued + 1, seq)
              /\ h \in Seq(Cell) /\ Len(h) = Len(Stream) + 3 /\ Len(h) % 3 = 0
              /\ Intact(h) /\ Ordered(h) /\ Below(h, seq + 1)
              /\ h[Len(h)].entry = issued + 1
              /\ \A i \in 1 .. Len(Stream) : h[i] = Stream[i]
  <2>1. Len(Stream) % 3 = 0 /\ Stream \in Seq(Cell)
    BY <1>1, <1>10, StreamFacts DEF Inv, Shape
  <2> DEFINE e == issued + 1
  <2>2. e \in Nat /\ t = Frame(e, seq + 1) /\ h = Cat(Stream, t)
    BY <1>3 DEF t
  <2> HIDE DEF e, h
  <2>3. Grown(Stream, h, e, seq)
    BY <1>2, <1>4, <2>1, <2>2, Extended
  <2> QED BY <2>3 DEF e, Grown
<1>h. h = Cat(Stream, t)
  OBVIOUS
<1> HIDE DEF h
<1>11. CASE /\ ~closed /\ ~werr
            /\ file' = file \o Take(cells, Spill(cells)) /\ buf' = Drop(cells, Spill(cells))
            /\ seq' = seq + 1
            /\ \/ policy = "every" /\ pc' = "flush" /\ call' = "append" /\ UNCHANGED acked
               \/ policy # "every" /\ acked' = acked \cup {issued'} /\ UNCHANGED <<pc, call>>
            /\ UNCHANGED <<werr, closed, cerr>>
  <2> DEFINE n == Spill(cells)
  <2>1. n \in 0 .. Len(cells) /\ Len(cells) - n <= BufSize
    <3>1. n = IF Len(cells) > BufSize THEN BufSize ELSE 0
      BY DEF Spill
    <3> DEFINE m == Len(cells)
               b == Len(buf)
    <3>2. m = b + 3 /\ b \in Nat /\ b <= BufSize /\ (n = IF m > BufSize THEN BufSize ELSE 0)
      BY <1>2, <1>7, <3>1
    <3> HIDE DEF m, b, n
    <3>3. n \in 0 .. m /\ m - n <= BufSize
      BY SMTT(30), <1>2, <3>2
    <3> QED BY <3>3 DEF m
  <2> HIDE DEF n
  <2>2. file' = file \o Take(cells, n) /\ buf' = Drop(cells, n)
    BY <1>11 DEF n
  <2>3. /\ file' \in Seq(Cell) /\ buf' \in Seq(Cell) /\ Len(buf') <= BufSize /\ synced' \in 0 .. Len(file')
        /\ Stream' = Cat(file, cells)
        /\ \A i \in 1 .. synced : file'[i] = file[i]
    BY <1>1, <1>7, <2>1, <2>2, Shifted DEF Inv
  <2>4. Types'
    BY <1>1, <1>3, <1>11, <2>3 DEF Inv, Types
  <2>5. Stream' = h
    BY <1>8, <1>h, <2>3
  <2>6. /\ Len(Stream') % 3 = 0 /\ Len(Stream') = Len(Stream) + 3 /\ Stream'[Len(Stream')].entry = issued + 1
        /\ Intact(Stream') /\ Ordered(Stream') /\ Below(Stream', seq + 1)
    BY <1>10, <1>11, <2>5
  <2>7. Calls'
    BY <1>1, <1>4, <1>11 DEF Inv, Calls
  <2>8. Shape' /\ Numbered'
    BY <1>11, <2>6 DEF Shape, Numbered
  <2>9. Saved'
    BY <1>11 DEF Saved
  <2>10. Durable'
    <3>1. Len(Stream') > 0
      <4>1. Len(Stream) \in Nat
        BY StreamFacts, LenFacts DEF Inv
      <4> QED BY SMTT(30), <2>6, <4>1
    <3>2. synced \in Nat /\ synced' \in Nat /\ synced <= synced'
      <4>1. synced \in Nat
        BY StreamFacts DEF Inv
      <4> QED BY SMTT(30), <1>1, <4>1
    <3>3. \A e : Held(e) => Held(e)'
      BY <2>3, <3>2, HeldKept
    <3>4. policy = "every" => acked' = acked /\ \A e \in acked : Held(e)
      BY <1>11 DEF Inv, Durable
    <3>5. policy = "every" => \A e \in acked' : Held(e)'
      BY <3>3, <3>4
    <3> QED BY <1>1, <2>6, <3>1, <3>5 DEF Durable
  <2>11. Written
    BY <1>10, <1>11, <2>3, <2>5 DEF Written
  <2> QED BY <2>4, <2>7, <2>8, <2>9, <2>10, <2>11 DEF Inv
<1>12. CASE /\ ~closed /\ ~werr
            /\ \E n \in 0 .. Spill(cells) - 1 :
                 file' = file \o Take(cells, n) /\ buf' = Drop(Take(cells, BufSize), n)
            /\ werr' = TRUE
            /\ UNCHANGED <<seq, closed, cerr, pc, call, acked>>
  <2> DEFINE g == Take(cells, BufSize)
  <2>1. PICK n \in 0 .. Spill(cells) - 1 : file' = file \o Take(cells, n) /\ buf' = Drop(g, n)
    BY <1>12
  <2>2. n \in Nat /\ n < BufSize /\ BufSize < Len(cells)
    <3> DEFINE m == Len(cells)
               p == Spill(cells)
    <3>1. (p = IF m > BufSize THEN BufSize ELSE 0) /\ n \in 0 .. p - 1 /\ m \in Nat
      BY <1>7 DEF Spill
    <3> HIDE DEF m, p
    <3>2. n \in Nat /\ n < BufSize /\ BufSize < m
      BY SMTT(30), <1>2, <3>1
    <3> QED BY <3>2 DEF m
  <2>3. /\ BufSize \in 0 .. Len(cells) /\ n \in 0 .. Len(cells) /\ n \in 0 .. BufSize /\ BufSize - n <= BufSize
        /\ 1 .. n \subseteq 1 .. BufSize
    BY SMTT(30), <1>2, <1>7, <2>2
  <2>4. /\ g \in Seq(Cell) /\ Len(g) = BufSize
        /\ \A i \in 1 .. BufSize : g[i] = cells[i]
    BY <1>7, <2>3, TakeFacts
  <2> HIDE DEF g
  <2>5. Take(g, n) = Take(cells, n)
    <3>1. /\ Take(g, n) \in Seq(Cell) /\ Len(Take(g, n)) = n
          /\ \A i \in 1 .. n : Take(g, n)[i] = g[i]
      BY <2>3, <2>4, TakeFacts
    <3>2. /\ Take(cells, n) \in Seq(Cell) /\ Len(Take(cells, n)) = n
          /\ \A i \in 1 .. n : Take(cells, n)[i] = cells[i]
      BY <1>7, <2>3, TakeFacts
    <3>3. \A i \in 1 .. n : Take(g, n)[i] = Take(cells, n)[i]
      BY <2>3, <2>4, <3>1, <3>2
    <3> QED BY <3>1, <3>2, <3>3, SameSeq
  <2>6. /\ file' \in Seq(Cell) /\ buf' \in Seq(Cell) /\ Len(buf') <= BufSize /\ synced' \in 0 .. Len(file')
        /\ Stream' = Cat(file, g)
        /\ \A i \in 1 .. synced : file'[i] = file[i]
    BY <1>1, <2>1, <2>3, <2>4, <2>5, Shifted DEF Inv
  <2>7. Types'
    BY <1>1, <1>3, <1>12, <2>6 DEF Inv, Types
  <2>8. Intact(Stream') /\ Ordered(Stream') /\ Below(Stream', seq) /\ Torn(Stream, Stream')
    <3>1. /\ Stream' \in Seq(Cell) /\ h \in Seq(Cell) /\ Len(Stream') = Len(file) + BufSize /\ Len(Stream') <= Len(h)
          /\ \A i \in 1 .. Len(Stream') : Stream'[i] = h[i]
      <4> DEFINE a == Cat(file, Take(cells, BufSize))
                 b == Cat(file, cells)
      <4>1. /\ a \in Seq(Cell) /\ b \in Seq(Cell) /\ Len(a) = Len(file) + BufSize /\ Len(a) <= Len(b)
            /\ \A i \in 1 .. Len(a) : a[i] = b[i]
        BY <1>2, <1>7, <2>3, CutShort
      <4>2. Stream' = a /\ h = b
        BY <1>8, <1>h, <2>6 DEF g
      <4> HIDE DEF a, b
      <4> QED BY <4>1, <4>2
    <3>2. /\ Intact(h) /\ Ordered(h)
          /\ \A i \in 1 .. Len(Stream) : h[i] = Stream[i]
      BY <1>10, <1>12
    <3>3. Intact(Stream') /\ Ordered(Stream')
      BY <3>1, <3>2, Prefix
    <3>4. Stream \in Seq(Cell) /\ Len(Stream) = Len(file) + Len(buf) /\ Len(file) \in Nat /\ Len(Stream) % 3 = 0
      BY <1>1, <1>12, StreamFacts DEF Inv, Shape
    <3>5. Len(Stream) <= Len(Stream') /\ Len(Stream') < Len(Stream) + 3
      <4>1. BufSize < Len(buf) + 3
        BY <1>7, <2>2
      <4> DEFINE a == Len(file)
                 b == Len(buf)
      <4>2. a \in Nat /\ b \in Nat /\ BufSize < b + 3 /\ b <= BufSize
        BY <1>2, <3>4, <4>1
      <4> HIDE DEF a, b
      <4>3. a + b <= a + BufSize /\ a + BufSize < (a + b) + 3
        BY SMTT(30), <1>2, <4>2
      <4> QED BY <3>1, <3>4, <4>3 DEF a, b
    <3>6. Below(Stream', seq)
      BY <1>2, <1>4, <3>1, <3>2, <3>4, <3>5, TornBelow
    <3>7. \A i \in 1 .. Len(Stream) : Stream'[i] = Stream[i]
      <4> SUFFICES ASSUME NEW i \in 1 .. Len(Stream) PROVE Stream'[i] = Stream[i]
        OBVIOUS
      <4>1. Len(Stream) \in Nat /\ Len(Stream') \in Nat
        BY <3>1, <3>4, LenFacts
      <4>2. i \in 1 .. Len(Stream')
        BY SMTT(30), <3>5, <4>1
      <4> QED BY <3>1, <3>2, <4>2
    <3> QED BY <3>1, <3>3, <3>4, <3>5, <3>6, <3>7 DEF Torn
  <2>9. Calls'
    BY <1>1, <1>4, <1>12 DEF Inv, Calls
  <2>10. Shape' /\ Numbered'
    BY <1>12, <2>8 DEF Shape, Numbered
  <2>11. Saved'
    BY <1>12 DEF Saved
  <2>12. Durable'
    <3>1. synced \in Nat /\ synced' \in Nat /\ synced <= synced'
      <4>1. synced \in Nat
        BY StreamFacts DEF Inv
      <4> QED BY SMTT(30), <1>1, <4>1
    <3>2. \A e : Held(e) => Held(e)'
      BY <2>6, <3>1, HeldKept
    <3>3. call' # "append" /\ acked' = acked
      BY <1>4, <1>12
    <3> QED BY <1>1, <3>2, <3>3 DEF Inv, Durable
  <2>13. Written
    BY <1>12, <2>6, <2>8 DEF Written
  <2> QED BY <2>7, <2>9, <2>10, <2>11, <2>12, <2>13 DEF Inv
<1> QED BY <1>9, <1>11, <1>12 DEF AppendWrite, cells, t

-----------------------------------------------------------------------------
(* Crashes and recovery *)

\* What the file looks like whatever the process does.
LEMMA FileShape ==
    ASSUME Inv
    PROVE  /\ Intact(file) \/ (Garbled(file) /\ synced = Len(file) /\ phase = "down")
           /\ phase = "up" => Intact(file)
           /\ Ordered(file)
<1>1. /\ file \in Seq(Cell) /\ Stream \in Seq(Cell) /\ Len(file) <= Len(Stream)
      /\ \A i \in 1 .. Len(file) : file[i] = Stream[i]
  BY StreamFacts DEF Inv
<1>2. (Intact(Stream) => Intact(file)) /\ (Ordered(Stream) => Ordered(file))
  BY <1>1, Prefix
<1> QED BY <1>2 DEF Inv, Shape, Numbered

\* The process is gone, and the file is left in a state that Replay can take.
LEMMA ForgetInv ==
    ASSUME Inv, Forget, file' \in Seq(Cell), synced' \in 0 .. Len(file'),
           Intact(file') \/ (Garbled(file') /\ synced' = Len(file')),
           Ordered(file'), \A e : Held(e) => Held(e)'
    PROVE  Inv'
<1>1. /\ buf' = <<>> /\ ~werr' /\ seq' = 0 /\ closed' /\ ~cerr' /\ pc' = "idle" /\ call' = "none" /\ phase' = "down"
      /\ policy' = policy /\ issued' = issued /\ acked' = acked
      /\ werr' \in BOOLEAN /\ closed' \in BOOLEAN /\ cerr' \in BOOLEAN
  BY DEF Forget, Return
<1>2. <<>> \in Seq(Cell) /\ Len(<<>>) <= BufSize /\ 0 \in Nat
  BY SMTT(30), WALAssumption
<1>3. Types'
  BY <1>1, <1>2 DEF Inv, Types
<1>4. Stream' = file'
  BY <1>1, EmptyRest DEF Stream
<1>5. Calls'
  BY <1>1 DEF Calls
<1>6. Shape'
  BY <1>1, <1>4 DEF Shape
<1>7. Saved'
  BY <1>1 DEF Saved
<1>8. Numbered'
  BY <1>1, <1>4 DEF Numbered
<1>9. Durable'
  BY <1>1 DEF Inv, Durable
<1> QED BY <1>3, <1>5, <1>6, <1>7, <1>8, <1>9 DEF Inv

LEMMA KillInv ==
    ASSUME Inv, Exit \/ Kill
    PROVE  Inv'
<1>1. phase = "up" /\ Forget /\ file' = file /\ synced' = synced
  BY Idle DEF Exit, Kill
<1>2. file \in Seq(Cell) /\ synced \in 0 .. Len(file)
  BY DEF Inv, Types
<1>3. Intact(file) /\ Ordered(file)
  BY <1>1, FileShape
<1>4. \A e : Held(e) => Held(e)'
  BY <1>1 DEF Held
<1> QED BY <1>1, <1>2, <1>3, <1>4, ForgetInv

LEMMA PowerFailureInv ==
    ASSUME Inv, PowerFailure
    PROVE  Inv'
<1>1. PICK n \in synced .. Len(file) :
        /\ \/ file' = Take(file, n)
           \/ n > synced /\ file[n].part = "body" /\ file' = [Take(file, n) EXCEPT ![n].val = 0]
        /\ synced' = n
  BY DEF PowerFailure
<1>2. Forget
  BY DEF PowerFailure
<1>3. file \in Seq(Cell) /\ Len(file) \in Nat /\ synced \in Nat /\ synced <= Len(file)
  BY StreamFacts DEF Inv
<1>4. n \in Nat /\ n \in 0 .. Len(file) /\ synced <= n /\ n <= Len(file) /\ n \in 0 .. n /\ 1 .. synced \subseteq 1 .. n
  BY SMTT(30), <1>3
<1> DEFINE g == Take(file, n)
<1>5. /\ g \in Seq(Cell) /\ Len(g) = n /\ DOMAIN g = 1 .. n
      /\ \A i \in 1 .. n : i \in DOMAIN file /\ g[i] = file[i]
  BY <1>3, <1>4, TakeFacts
<1>6. Ordered(g) /\ (Intact(file) => Intact(g))
  BY <1>3, <1>4, <1>5, FileShape, Prefix
<1>7. CASE file' = g
  <2>1. Intact(g) \/ (Garbled(g) /\ n = Len(g))
    <3>1. CASE Intact(file)
      BY <1>6, <3>1
    <3>2. CASE Garbled(file) /\ synced = Len(file)
      <4>1. n = Len(file)
        BY SMTT(30), <1>3, <1>4, <3>2
      <4>2. g = file
        BY <1>3, <4>1, EmptyRest
      <4> QED BY <3>2, <4>1, <4>2
    <3> QED BY <3>1, <3>2, FileShape
  <2>2. \A e : Held(e) => Held(e)'
    <3>1. \A i \in 1 .. synced : file'[i] = file[i]
      BY <1>4, <1>5, <1>7
    <3> QED BY <1>1, <1>3, <1>4, <3>1, HeldKept
  <2>3. file' \in Seq(Cell) /\ synced' \in 0 .. Len(file') /\ Ordered(file')
    BY <1>1, <1>4, <1>5, <1>6, <1>7
  <2> QED BY <1>1, <1>2, <1>7, <2>1, <2>2, <2>3, ForgetInv
<1>8. CASE n > synced /\ file[n].part = "body" /\ file' = [g EXCEPT ![n].val = 0]
  <2>1. n \in 1 .. n /\ n # 0 /\ n > 0 /\ n # synced /\ ~(synced = Len(file)) /\ 0 \in Nat /\ 0 # 1
    BY SMTT(30), <1>3, <1>4, <1>8
  <2>2. Intact(file)
    BY <2>1, FileShape
  <2> HIDE DEF g
  <2>3. n \in 1 .. Len(g)
    BY <1>5, <2>1
  <2> DEFINE h == file'
  <2>4. /\ h \in Seq(Cell) /\ Len(h) = Len(g)
        /\ \A i \in 1 .. Len(g) : h[i].part = g[i].part /\ h[i].entry = g[i].entry /\ h[i].seq = g[i].seq
        /\ \A i \in 1 .. Len(g) : i # n => h[i] = g[i]
        /\ h[n].val = 0
    <3>1. Damaged(g, h, n, 0)
      BY <1>5, <1>8, <2>1, <2>3, Damage
    <3> QED BY <3>1 DEF Damaged
  <2>5. Len(h) = n /\ DOMAIN h = 1 .. n
    BY <1>5, <2>4, LenFacts
  <2>6. \A i \in 1 .. n : g[i].part = Kind(i) /\ g[i].val = 1
    BY <1>5, <1>6, <2>2 DEF Intact
  <2>7. Kind(n) = "body"
    <3>1. g[n] = file[n]
      BY <1>5, <2>1
    <3> QED BY <1>8, <2>1, <2>6, <3>1
  <2>8. Garbled(h)
    <3>1. ASSUME NEW i \in 1 .. n
          PROVE  h[i].part = Kind(i) /\ (i # n => h[i].val = 1)
      <4>1. h[i].part = g[i].part /\ (i # n => h[i] = g[i])
        BY <1>5, <2>4
      <4> QED BY <2>6, <4>1
    <3> QED BY <2>1, <2>4, <2>5, <2>7, <3>1 DEF Garbled
  <2>9. Ordered(h)
    <3> SUFFICES ASSUME NEW i \in 1 .. n, NEW j \in 1 .. n, i < j, Kind(i) = "body", Kind(j) = "body"
                 PROVE  h[i].seq < h[j].seq
      BY <2>5 DEF Ordered
    <3>1. g[i].seq < g[j].seq
      BY <1>5, <1>6 DEF Ordered
    <3>2. h[i].seq = g[i].seq /\ h[j].seq = g[j].seq
      BY <1>5, <2>4
    <3> QED BY <3>1, <3>2
  <2>10. \A e : Held(e) => Held(e)'
    <3>1. ASSUME NEW i \in 1 .. synced
          PROVE  file'[i] = file[i]
      <4>1. i # n /\ i \in 1 .. n
        BY SMTT(30), <1>3, <1>4, <1>8
      <4>2. h[i] = g[i] /\ g[i] = file[i]
        BY <1>5, <2>4, <4>1
      <4> QED BY <4>2
    <3> QED BY <1>1, <1>3, <1>4, <3>1, HeldKept
  <2>11. synced' \in 0 .. Len(file') /\ synced' = Len(file')
    BY <1>1, <1>4, <2>5
  <2> QED BY <1>2, <2>4, <2>8, <2>9, <2>10, <2>11, ForgetInv
<1> QED BY <1>1, <1>7, <1>8

\* What Replay makes of the file of a process that is down.
LEMMA ReplayFacts ==
    ASSUME Inv, phase = "down"
    PROVE  LET n == Rounds(file)
           IN  /\ n \in Nat /\ 3 * n <= Len(file) /\ 3 * n \in 0 .. Len(file) /\ Len(file) <= 3 * n + 3
               /\ Intact(file) => Len(file) < 3 * n + 3
               /\ ~Intact(file) => Len(file) = 3 * n + 3 /\ synced = Len(file) /\ file[Len(file)].val # 1
               /\ ~Corrupt(file, 3 * n + 1)
               /\ Intact(Take(file, 3 * n))
<1>1. file \in Seq(Cell) /\ Len(file) \in Nat /\ DOMAIN file = 1 .. Len(file)
  BY StreamFacts, LenFacts DEF Inv
<1> DEFINE n == Rounds(file)
           m == Len(file)
<1>2. CASE Intact(file)
  <2>1. n \in Nat /\ 3 * n <= m /\ m < 3 * n + 3 /\ ~Corrupt(file, 3 * n + 1)
    BY <1>1, <1>2, IntactRounds
  <2> HIDE DEF n, m
  <2>2. 3 * n \in 0 .. m /\ m <= 3 * n + 3
    BY SMTT(30), <1>1, <2>1 DEF m
  <2>3. Intact(Take(file, 3 * n))
    <3> DEFINE q == 3 * n
    <3>1. q \in 0 .. Len(file)
      BY <2>2 DEF m
    <3> HIDE DEF q
    <3>2. /\ Take(file, q) \in Seq(Cell) /\ Len(Take(file, q)) = q /\ q <= Len(file)
          /\ \A i \in 1 .. q : Take(file, q)[i] = file[i]
      BY <1>1, <3>1, TakeFacts
    <3>3. Intact(Take(file, q))
      BY <1>1, <1>2, <3>2, Prefix
    <3> QED BY <3>3 DEF q
  <2> QED BY <1>2, <2>1, <2>2, <2>3 DEF n, m
<1>3. CASE ~Intact(file)
  <2>1. Garbled(file) /\ synced = m
    BY <1>3, FileShape
  <2>2. n \in Nat /\ m = 3 * n + 3 /\ ~Corrupt(file, 3 * n + 1)
    BY <1>1, <2>1, GarbledRounds
  <2>3. file[m].val # 1
    BY <2>1 DEF Garbled
  <2> HIDE DEF n, m
  <2>4. 3 * n \in 0 .. m /\ m <= 3 * n + 3 /\ 3 * n <= m /\ \A i \in 1 .. 3 * n : i # m
    BY SMTT(30), <2>2
  <2>5. Intact(Take(file, 3 * n))
    <3> DEFINE q == 3 * n
    <3>1. q \in 0 .. Len(file) /\ \A i \in 1 .. q : i # Len(file)
      BY <2>4 DEF m
    <3> HIDE DEF q
    <3>2. /\ DOMAIN Take(file, q) = 1 .. q
          /\ \A i \in 1 .. q : i \in DOMAIN file /\ Take(file, q)[i] = file[i]
      BY <1>1, <3>1, TakeFacts
    <3>3. ASSUME NEW i \in 1 .. q
          PROVE  Take(file, q)[i].part = Kind(i) /\ Take(file, q)[i].val = 1
      <4>1. file[i].part = Kind(i) /\ file[i].val = 1
        BY <2>1, <3>1, <3>2 DEF Garbled
      <4>2. Take(file, q)[i] = file[i]
        BY <3>2
      <4> QED BY <4>1, <4>2
    <3>4. Intact(Take(file, q))
      BY <3>2, <3>3 DEF Intact
    <3> QED BY <3>4 DEF q
  <2> QED BY <1>3, <2>1, <2>2, <2>3, <2>4, <2>5 DEF n, m
<1> QED BY <1>2, <1>3

\* The records that Replay returns.
LEMMA RecsFacts ==
    ASSUME NEW f \in Seq(Cell), Rounds(f) \in Nat
    PROVE  /\ Replay(f).end = 3 * Rounds(f) /\ Replay(f).err = Corrupt(f, 3 * Rounds(f) + 1)
           /\ DOMAIN Replay(f).recs = 1 .. Rounds(f)
           /\ \A k \in 1 .. Rounds(f) : Replay(f).recs[k] = [entry |-> f[3 * k].entry, seq |-> f[3 * k].seq]
           /\ Replay(f).recs = <<>> <=> Rounds(f) = 0
           /\ Len(Replay(f).recs) = Rounds(f)
<1> DEFINE n == Rounds(f)
           r == [k \in 1 .. n |-> [entry |-> f[3 * k].entry, seq |-> f[3 * k].seq]]
<1>1. Replay(f) = [recs |-> r, end |-> 3 * n, err |-> Corrupt(f, 3 * n + 1)]
  BY DEF Replay
<1>2. DOMAIN r = 1 .. n /\ \A k \in 1 .. n : r[k] = [entry |-> f[3 * k].entry, seq |-> f[3 * k].seq]
  OBVIOUS
<1>3. r \in [1 .. n -> {r[k] : k \in 1 .. n}]
  OBVIOUS
<1> HIDE DEF r, n
<1>4. n \in Nat
  BY DEF n
<1> DEFINE S == {r[k] : k \in 1 .. n}
<1> HIDE DEF S
<1>5. r \in [1 .. n -> S]
  BY <1>3 DEF S
<1>6. r \in Seq(S) /\ Len(r) = n
  BY <1>4, <1>5, FunctionIsSeq
<1>7. r = <<>> <=> n = 0
  <2>1. Len(<<>>) = 0 /\ DOMAIN <<>> = {}
    BY SMTT(30)
  <2>2. ASSUME n = 0
        PROVE  r = <<>>
    BY SMTT(30), <1>6, <2>2
  <2> QED BY <1>6, <2>1, <2>2
<1>8. Replay(f).recs = r /\ Replay(f).end = 3 * n /\ Replay(f).err = Corrupt(f, 3 * n + 1)
  BY SMTT(30), <1>1
<1> QED BY <1>2, <1>6, <1>7, <1>8 DEF n

LEMMA RecoverInv ==
    ASSUME Inv, Recover
    PROVE  Inv'
<1> DEFINE n == Rounds(file)
           q == 3 * n
<1>1. phase = "down"
  BY DEF Recover
<1>2. file \in Seq(Cell) /\ Len(file) \in Nat /\ DOMAIN file = 1 .. Len(file) /\ synced \in Nat /\ synced <= Len(file)
  BY StreamFacts, LenFacts DEF Inv
<1>3. /\ n \in Nat /\ q <= Len(file) /\ q \in 0 .. Len(file) /\ Len(file) <= q + 3
      /\ Intact(file) => Len(file) < q + 3
      /\ ~Intact(file) => Len(file) = q + 3 /\ file[Len(file)].val # 1
      /\ ~Corrupt(file, q + 1) /\ Intact(Take(file, q))
  BY <1>1, ReplayFacts
<1>4. /\ Replay(file).end = q /\ ~Replay(file).err
      /\ Replay(file).recs = <<>> <=> n = 0
      /\ Len(Replay(file).recs) = n
      /\ \A k \in 1 .. n : Replay(file).recs[k] = [entry |-> file[3 * k].entry, seq |-> file[3 * k].seq]
  BY <1>2, <1>3, RecsFacts
<1>5. /\ phase' = "up" /\ ~closed' /\ closed' \in BOOLEAN /\ file' = Take(file, q)
      /\ policy' = policy /\ buf' = buf /\ werr' = werr /\ cerr' = cerr /\ pc' = pc /\ call' = call
      /\ issued' = issued /\ acked' = acked
      /\ synced' = IF synced > Len(file') THEN Len(file') ELSE synced
  <2> DEFINE r == Replay(file)
  <2>1. ~r.err /\ Repair(file) = Take(file, q)
    BY <1>4 DEF Repair
  <2>2. /\ phase' = IF r.err THEN "refused" ELSE "up"
        /\ closed' = r.err
        /\ file' = IF r.err THEN file ELSE Repair(file)
        /\ synced' = IF synced > Len(file') THEN Len(file') ELSE synced
        /\ UNCHANGED <<policy, buf, werr, cerr, pc, call, issued, acked, bounds>>
    BY DEF Recover
  <2>3. r.err \in BOOLEAN
    <3>1. r.err = Corrupt(file, 3 * Rounds(file) + 1)
      BY <1>2, <1>3, RecsFacts
    <3>2. Corrupt(file, 3 * Rounds(file) + 1) \in BOOLEAN
      BY DEF Corrupt
    <3> QED BY <3>1, <3>2
  <2> HIDE DEF r
  <2> QED BY <2>1, <2>2, <2>3
<1>6. seq' = IF n = 0 THEN 0 ELSE file[q].seq
  <2> DEFINE r == Replay(file)
  <2>1. seq' = IF r.err \/ r.recs = <<>> THEN 0 ELSE r.recs[Len(r.recs)].seq
    BY DEF Recover
  <2>2. CASE n = 0
    BY <1>4, <2>1, <2>2
  <2>3. CASE n # 0
    <3>1. r.recs[Len(r.recs)] = r.recs[n]
      BY <1>4
    <3>2. n \in 1 .. n
      BY SMTT(30), <1>3, <2>3
    <3>3. r.recs[n] = [entry |-> file[3 * n].entry, seq |-> file[3 * n].seq]
      BY <1>4, <3>2
    <3>4. r.recs[n].seq = file[3 * n].seq
      BY SMTT(30), <3>3
    <3> QED BY <1>4, <2>1, <2>3, <3>1, <3>4
  <2> QED BY <2>2, <2>3
<1>7. pc = "idle" /\ call = "none" /\ buf = <<>> /\ ~werr /\ ~cerr
  BY <1>1 DEF Inv, Calls
<1>8. /\ file' \in Seq(Cell) /\ Len(file') = q /\ DOMAIN file' = 1 .. q
      /\ \A i \in 1 .. q : i \in DOMAIN file /\ file'[i] = file[i]
  BY <1>2, <1>3, <1>5, TakeFacts
<1>9. q \in Nat /\ q % 3 = 0 /\ (n # 0 => q \in 1 .. q)
  BY SMTT(30), <1>3
<1>10. synced' \in 0 .. Len(file') /\ synced' \in Nat
  <2> HIDE DEF q
  <2>1. synced' = IF synced > q THEN q ELSE synced
    BY <1>5, <1>8
  <2>2. synced' \in 0 .. q /\ synced' \in Nat
    BY SMTT(30), <1>2, <1>9, <2>1
  <2> QED BY <1>8, <2>2
<1>11. seq' \in Nat
  <2>1. CASE n = 0
    BY SMTT(30), <1>6, <2>1
  <2>2. CASE n # 0
    BY <1>2, <1>6, <1>8, <1>9, <2>2, CellSeq
  <2> QED BY <2>1, <2>2
<1>12. Types'
  BY <1>5, <1>8, <1>10, <1>11 DEF Inv, Types
<1>13. Stream' = file'
  BY <1>5, <1>7, <1>8, EmptyRest DEF Stream
<1>14. Calls'
  BY <1>5, <1>7 DEF Calls
<1>15. Shape'
  BY <1>3, <1>5, <1>8, <1>9, <1>13 DEF Shape
<1>16. Saved'
  BY <1>5 DEF Saved
<1>17. Ordered(file)
  BY FileShape
<1>18. Ordered(file')
  BY <1>2, <1>3, <1>8, <1>17, Prefix
<1>19. Below(file', seq')
  <2> SUFFICES ASSUME NEW i \in 1 .. q, Kind(i) = "body"
               PROVE  file'[i].seq <= seq'
    BY <1>8 DEF Below
  <2>1. n # 0 /\ i <= q /\ i \in Nat
    BY SMTT(30), <1>3
  <2>2. seq' = file[q].seq /\ q \in 1 .. q /\ q \in DOMAIN file
    BY <1>6, <1>8, <1>9, <2>1
  <2>3. Kind(q) = "body"
    <3>1. n - 1 \in Nat /\ q = 3 * (n - 1) + 3
      BY SMTT(30), <1>3, <2>1
    <3> QED BY <3>1, Kinds
  <2>4. file'[i] = file[i] /\ i \in DOMAIN file
    BY <1>8
  <2>5. CASE i = q
    <3>1. file'[i].seq = seq'
      BY <2>2, <2>4, <2>5
    <3>2. seq' <= seq'
      BY SMTT(30), <1>11
    <3> QED BY <3>1, <3>2
  <2>6. CASE i # q
    <3>1. i < q
      BY SMTT(30), <1>9, <2>1, <2>6
    <3>2. file[i].seq < file[q].seq
      BY <1>17, <2>2, <2>3, <2>4, <3>1 DEF Ordered
    <3> DEFINE a == file[i].seq
               b == file[q].seq
    <3>3. a \in Nat /\ b \in Nat /\ a < b
      BY <1>2, <2>2, <2>4, <3>2, CellSeq
    <3> HIDE DEF a, b
    <3>4. a <= b
      BY SMTT(30), <3>3
    <3> QED BY <2>2, <2>4, <3>4 DEF a, b
  <2> QED BY <2>5, <2>6
<1>20. Numbered'
  BY <1>13, <1>18, <1>19 DEF Numbered
<1>21. \A e : Held(e) => Held(e)'
  <2> SUFFICES ASSUME NEW e, Held(e)
               PROVE  Held(e)'
    OBVIOUS
  <2>1. PICK i \in 1 .. synced : Kind(i) = "body" /\ file[i].val = 1 /\ file[i].entry = e
    BY DEF Held
  <2>2. i \in Nat /\ i # 0 /\ i <= Len(file) /\ i <= synced
    BY SMTT(30), <1>2
  <2>3. PICK k \in Nat : i = 3 * k + 3
    BY <2>1, <2>2, BodyKind
  <2>4. i <= q
    <3>1. CASE Intact(file)
      <4> DEFINE m == Len(file)
      <4>1. m \in Nat /\ m < q + 3 /\ i <= m
        BY <1>2, <1>3, <2>2, <3>1
      <4> HIDE DEF m
      <4> QED BY SMTT(30), <1>3, <2>3, <4>1
    <3>2. CASE ~Intact(file)
      <4> DEFINE m == Len(file)
      <4>1. m = q + 3 /\ i # m /\ i <= m
        BY <1>3, <2>1, <2>2, <3>2
      <4> HIDE DEF m
      <4> QED BY SMTT(30), <1>3, <2>3, <4>1
    <3> QED BY <3>1, <3>2
  <2>5. i \in 1 .. q /\ i \in 1 .. synced'
    <3> HIDE DEF q
    <3>1. synced' = IF synced > q THEN q ELSE synced
      BY <1>5, <1>8
    <3> QED BY SMTT(30), <1>2, <1>9, <2>2, <2>4, <3>1
  <2>6. file'[i] = file[i]
    BY <1>8, <2>5
  <2>7. file'[i].val = 1 /\ file'[i].entry = e
    BY <2>1, <2>6
  <2> QED BY <2>1, <2>5, <2>7 DEF Held
<1>22. Durable'
  BY <1>5, <1>7, <1>21 DEF Inv, Durable
<1> QED BY <1>12, <1>14, <1>15, <1>16, <1>20, <1>22 DEF Inv

-----------------------------------------------------------------------------
(* The invariant holds *)

LEMMA InitInv == ASSUME Init PROVE Inv
<1>1. <<>> \in Seq(Cell) /\ 0 \in 0 .. Len(<<>>) /\ Len(<<>>) <= BufSize /\ 0 \in Nat /\ 0 \in 0 .. MaxAppends /\ DOMAIN <<>> = {}
  BY SMTT(30), WALAssumption
<1>2. Types
  BY <1>1 DEF Init, Types
<1>3. Stream = <<>>
  BY <1>1, EmptyRest DEF Init, Stream
<1>4. Calls
  BY DEF Init, Calls
<1>5. Shape
  BY <1>1, <1>3 DEF Init, Shape, Intact
<1>6. Saved
  BY DEF Init, Saved
<1>7. Numbered
  BY <1>1, <1>3 DEF Init, Numbered, Ordered
<1>8. Durable
  BY DEF Init, Durable
<1> QED BY <1>2, <1>4, <1>5, <1>6, <1>7, <1>8 DEF Inv

LEMMA StutterInv == ASSUME Inv, UNCHANGED vars PROVE Inv'
<1>1. /\ policy' = policy /\ file' = file /\ synced' = synced /\ buf' = buf /\ werr' = werr /\ seq' = seq
      /\ closed' = closed /\ cerr' = cerr /\ pc' = pc /\ call' = call /\ phase' = phase /\ issued' = issued /\ acked' = acked
  BY DEF vars, object
<1>2. Stream' = Stream
  BY <1>1 DEF Stream
<1>3. Types'
  BY <1>1 DEF Inv, Types
<1>4. Calls'
  BY <1>1 DEF Inv, Calls
<1>5. Shape' /\ Numbered'
  BY <1>1, <1>2 DEF Inv, Shape, Numbered
<1>6. Saved'
  BY <1>1 DEF Inv, Saved
<1>7. Durable'
  BY <1>1, <1>2 DEF Inv, Durable, Held
<1> QED BY <1>3, <1>4, <1>5, <1>6, <1>7 DEF Inv

LEMMA StepInv == ASSUME Inv, [Next]_vars PROVE Inv'
<1>1. CASE AppendWrite
  BY <1>1, AppendWriteInv
<1>2. CASE CallSync
  BY <1>2, CallSyncInv
<1>3. CASE FlushStep
  BY <1>3, FlushStepInv
<1>4. CASE SyncStep
  BY <1>4, SyncStepInv
<1>5. CASE Rotate \/ StopLog
  BY <1>5, RotateInv
<1>6. CASE RotateRename
  BY <1>6, RotateRenameInv
<1>7. CASE RotateOpen
  BY <1>7, RotateOpenInv
<1>8. CASE Exit \/ Kill
  BY <1>8, KillInv
<1>9. CASE PowerFailure
  BY <1>9, PowerFailureInv
<1>10. CASE Recover
  BY <1>10, RecoverInv
<1>11. CASE UNCHANGED vars
  BY <1>11, StutterInv
<1> QED BY <1>1, <1>2, <1>3, <1>4, <1>5, <1>6, <1>7, <1>8, <1>9, <1>10, <1>11 DEF Next

LEMMA AlwaysInv == Spec => []Inv
<1>1. Init => Inv
  BY InitInv
<1>2. Inv /\ [Next]_vars => Inv'
  BY StepInv
<1> QED BY <1>1, <1>2, PTL DEF Spec

\* A crash at any point leaves a file that Recover accepts: no power failure, kill
\* or I/O error, at any step of Append, Close or a rotation, makes Replay return an
\* error, whatever the sync policy.
THEOREM WALNeverRefused == Spec => []NeverRefused
<1>1. Inv => NeverRefused
  BY DEF Inv, Types, NeverRefused
<1> QED BY <1>1, AlwaysInv, PTL

\* Close that returns nil has flushed and synced everything, under every policy:
\* what rotateWAL renames and what Shutdown leaves is on the disk.
THEOREM WALCloseKeepsAll == Spec => []CloseKeepsAll
<1>1. ASSUME Inv
      PROVE  CloseKeepsAll
  <2> SUFFICES ASSUME pc \in {"rename", "exit"}, ~cerr
               PROVE  buf = <<>> /\ synced = Len(file)
    BY DEF CloseKeepsAll
  <2>1. phase = "up" /\ call # "none"
    BY <1>1, Idle
  <2>2. closed
    BY <1>1, <2>1 DEF Inv, Calls, Types
  <2> QED BY <1>1, <2>1, <2>2 DEF Inv, Saved
<1>2. Inv => CloseKeepsAll
  BY <1>1
<1> QED BY <1>2, AlwaysInv, PTL

\* What Replay reads of a prefix of the file, or of all that was written.
LEMMA GoodRounds ==
    ASSUME NEW f \in Seq(Cell), Intact(f) \/ Garbled(f)
    PROVE  /\ Rounds(f) \in Nat /\ 3 * Rounds(f) <= Len(f) /\ Len(f) <= 3 * Rounds(f) + 3
           /\ Intact(f) => Len(f) < 3 * Rounds(f) + 3
           /\ Garbled(f) => Len(f) = 3 * Rounds(f) + 3
<1> DEFINE n == Rounds(f)
           m == Len(f)
<1>1. m \in Nat
  BY LenFacts
<1>2. CASE Intact(f)
  <2>1. n \in Nat /\ 3 * n <= m /\ m < 3 * n + 3
    BY <1>2, IntactRounds
  <2>2. ~Garbled(f)
    <3>1. ASSUME Garbled(f)
          PROVE  FALSE
      <4>1. m > 0 /\ f[m].val # 1 /\ DOMAIN f = 1 .. m
        BY <3>1, LenFacts DEF Garbled
      <4>2. m \in 1 .. m
        BY SMTT(30), <1>1, <4>1
      <4> QED BY <1>2, <4>1, <4>2 DEF Intact
    <3> QED BY <3>1
  <2> HIDE DEF n, m
  <2>3. m <= 3 * n + 3
    BY SMTT(30), <1>1, <2>1
  <2> QED BY <2>1, <2>2, <2>3 DEF n, m
<1>3. CASE Garbled(f) /\ ~Intact(f)
  <2>1. n \in Nat /\ m = 3 * n + 3
    BY <1>3, GarbledRounds
  <2> HIDE DEF n, m
  <2>2. 3 * n <= m /\ m <= 3 * n + 3
    BY SMTT(30), <2>1
  <2> QED BY <1>3, <2>1, <2>2 DEF n, m
<1> QED BY <1>2, <1>3

LEMMA GoodStream ==
    ASSUME Inv
    PROVE  /\ Intact(Stream) \/ Garbled(Stream)
           /\ Intact(file) \/ (Garbled(file) /\ synced = Len(file) /\ phase = "down" /\ Stream = file)
<1>1. phase = "down" => Stream = file
  BY StreamFacts DEF Inv, Calls
<1> QED BY <1>1, FileShape DEF Inv, Shape

\* The part of the file that is on the disk.
LEMMA SyncedFacts ==
    ASSUME Inv, NEW n \in synced .. Len(file)
    PROVE  LET g == Take(file, n)
           IN  /\ g \in Seq(Cell) /\ Len(g) = n /\ n \in Nat
               /\ \A i \in 1 .. n : g[i] = file[i]
               /\ Intact(file) => Intact(g)
               /\ ~Intact(file) => g = file /\ n = Len(file) /\ Garbled(g)
<1> DEFINE g == Take(file, n)
<1>1. file \in Seq(Cell) /\ Len(file) \in Nat /\ synced \in Nat /\ synced <= Len(file)
  BY StreamFacts DEF Inv
<1>2. n \in 0 .. Len(file) /\ n \in Nat /\ n <= Len(file) /\ synced <= n
  BY SMTT(30), <1>1
<1>3. g \in Seq(Cell) /\ Len(g) = n /\ \A i \in 1 .. n : g[i] = file[i]
  BY <1>1, <1>2, TakeFacts
<1>4. Intact(file) => Intact(g)
  BY <1>1, <1>2, <1>3, Prefix
<1>5. ASSUME ~Intact(file)
      PROVE  g = file /\ n = Len(file) /\ Garbled(g)
  <2>1. Garbled(file) /\ synced = Len(file)
    BY <1>5, GoodStream
  <2>2. n = Len(file)
    BY SMTT(30), <1>1, <1>2, <2>1
  <2>3. g = file
    BY <1>1, <2>2, EmptyRest
  <2> QED BY <2>1, <2>2, <2>3
<1> QED BY <1>2, <1>3, <1>4, <1>5

LEMMA EntriesFacts ==
    ASSUME NEW f \in Seq(Cell), Rounds(f) \in Nat, 3 * Rounds(f) <= Len(f)
    PROVE  /\ Entries(f) \in Seq(Nat) /\ Len(Entries(f)) = Rounds(f) /\ DOMAIN Entries(f) = 1 .. Rounds(f)
           /\ \A k \in 1 .. Rounds(f) : Entries(f)[k] = f[3 * k].entry
<1> DEFINE n == Rounds(f)
           r == Entries(f)
<1>1. r = [k \in 1 .. n |-> f[3 * k].entry]
  BY DEF Entries
<1>2. DOMAIN r = 1 .. n /\ \A k \in 1 .. n : r[k] = f[3 * k].entry
  BY <1>1
<1>3. \A k \in 1 .. n : r[k] \in Nat
  <2>1. \A k \in 1 .. n : 3 * k \in 1 .. Len(f)
    <3>1. Len(f) \in Nat
      BY LenFacts
    <3> DEFINE m == Len(f)
    <3>2. n \in Nat /\ m \in Nat /\ 3 * n <= m
      BY <3>1
    <3> HIDE DEF n, m
    <3>3. \A k \in 1 .. n : 3 * k \in 1 .. m
      BY SMTT(30), <3>2
    <3> QED BY <3>3 DEF m
  <2>2. DOMAIN f = 1 .. Len(f)
    BY LenFacts
  <2> QED BY <1>2, <2>1, <2>2, CellSeq
<1>4. r \in [1 .. n -> Nat]
  BY <1>1, <1>3
<1>5. n \in Nat
  OBVIOUS
<1> HIDE DEF n, r
<1>6. r \in Seq(Nat) /\ Len(r) = n
  BY <1>4, <1>5, FunctionIsSeq
<1> QED BY <1>2, <1>6 DEF n, r

\* A body that is on the disk and matches its checksum is in a record that Replay reads.
LEMMA HeldIsRead ==
    ASSUME Inv, NEW e, Held(e)
    PROVE  e \in Range(Entries(Take(file, synced)))
<1> DEFINE g == Take(file, synced)
           n == Rounds(g)
<1>1. synced \in Nat /\ synced \in synced .. Len(file)
  <2>1. synced \in Nat /\ synced <= Len(file) /\ Len(file) \in Nat
    BY StreamFacts DEF Inv
  <2> QED BY SMTT(30), <2>1
<1>2. /\ g \in Seq(Cell) /\ Len(g) = synced
      /\ \A i \in 1 .. synced : g[i] = file[i]
      /\ Intact(g) \/ (Garbled(g) /\ g = file)
  BY <1>1, SyncedFacts
<1> HIDE DEF g
<1>3. PICK i \in 1 .. synced : Kind(i) = "body" /\ file[i].val = 1 /\ file[i].entry = e
  BY DEF Held
<1>4. i \in Nat /\ i # 0 /\ i <= synced
  BY SMTT(30), <1>1
<1>5. PICK k \in Nat : i = 3 * k + 3
  BY <1>3, <1>4, BodyKind
<1>6. n \in Nat /\ 3 * n <= synced
  BY <1>2, GoodRounds
<1>7. k + 1 \in 1 .. n
  <2>1. CASE Intact(g)
    <3>1. synced < 3 * n + 3
      BY <1>2, <2>1, GoodRounds
    <3> HIDE DEF n
    <3> QED BY SMTT(30), <1>1, <1>4, <1>5, <1>6, <3>1
  <2>2. CASE Garbled(g)
    <3>1. synced = 3 * n + 3
      BY <1>2, <2>2, GoodRounds
    <3>2. g[synced].val # 1
      BY <1>2, <2>2 DEF Garbled
    <3>3. g[i].val = 1
      <4>1. g[i] = file[i]
        BY <1>2
      <4> QED BY <1>3, <4>1
    <3>4. i # synced
      BY <3>2, <3>3
    <3> HIDE DEF n
    <3> QED BY SMTT(30), <1>1, <1>4, <1>5, <1>6, <3>1, <3>4
  <2> QED BY <1>2, <2>1, <2>2
<1>8. 3 * (k + 1) = i
  BY SMTT(30), <1>5
<1>9. /\ DOMAIN Entries(g) = 1 .. n
      /\ \A j \in 1 .. n : Entries(g)[j] = g[3 * j].entry
  BY <1>2, <1>6, EntriesFacts
<1>10. Entries(g)[k + 1] = e
  <2>1. Entries(g)[k + 1] = g[i].entry
    BY <1>7, <1>8, <1>9
  <2>2. g[i] = file[i]
    BY <1>2
  <2> QED BY <1>3, <2>1, <2>2
<1>11. e \in Range(Entries(g))
  BY <1>7, <1>9, <1>10 DEF Range
<1> QED BY <1>11 DEF g

\* With sync_policy every, an entry whose Append returned nil is on the disk, in a
\* record that Replay returns, until a rotation: through failed writes and syncs of
\* later appends, kills, power failures and the truncation by Replay.
THEOREM WALAckedDurable == Spec => []AckedDurable
<1>1. ASSUME Inv
      PROVE  AckedDurable
  <2>1. policy = "every" => \A e \in acked : Held(e)
    BY <1>1 DEF Inv, Durable
  <2> QED BY <1>1, <2>1, HeldIsRead DEF AckedDurable
<1>2. Inv => AckedDurable
  BY <1>1
<1> QED BY <1>2, AlwaysInv, PTL

\* The numbers of the records in the log increase strictly, although Append rolls
\* its number back when the write fails, Recover takes the last number that it can
\* read, and a torn record leaves a part of itself behind.
THEOREM WALSeqIncreasing == Spec => []SeqIncreasing
<1>1. ASSUME Inv
      PROVE  SeqIncreasing
  <2> DEFINE n == Rounds(Stream)
             r == Replay(Stream).recs
  <2>1. Stream \in Seq(Cell) /\ Ordered(Stream) /\ DOMAIN Stream = 1 .. Len(Stream) /\ Len(Stream) \in Nat
    BY <1>1, StreamFacts, LenFacts DEF Inv, Numbered
  <2>2. n \in Nat /\ 3 * n <= Len(Stream)
    BY <1>1, <2>1, GoodStream, GoodRounds
  <2>3. /\ DOMAIN r = 1 .. n
        /\ \A k \in 1 .. n : r[k] = [entry |-> Stream[3 * k].entry, seq |-> Stream[3 * k].seq]
    BY <2>1, <2>2, RecsFacts
  <2>4. ASSUME NEW k \in 1 .. n
        PROVE  r[k].seq = Stream[3 * k].seq /\ 3 * k \in 1 .. Len(Stream) /\ Kind(3 * k) = "body"
    <3>1. r[k] = [entry |-> Stream[3 * k].entry, seq |-> Stream[3 * k].seq]
      BY <2>3
    <3>2. r[k].seq = Stream[3 * k].seq
      BY SMTT(30), <3>1
    <3> HIDE DEF n
    <3>3. k - 1 \in Nat /\ 3 * k = 3 * (k - 1) + 3 /\ 3 * k \in 1 .. Len(Stream)
      BY SMTT(30), <2>1, <2>2
    <3>4. Kind(3 * k) = "body"
      BY <3>3, Kinds
    <3> QED BY <3>2, <3>3, <3>4
  <2>5. ASSUME NEW i \in 1 .. n, NEW j \in 1 .. n, i < j
        PROVE  r[i].seq < r[j].seq
    <3>1. 3 * i < 3 * j
      <4> HIDE DEF n
      <4> QED BY SMTT(30), <2>2, <2>5
    <3>2. Stream[3 * i].seq < Stream[3 * j].seq
      BY <2>1, <2>4, <3>1 DEF Ordered
    <3> QED BY <2>4, <3>2
  <2>6. Stream = file \o buf
    BY DEF Stream, Cat
  <2>7. \A i, j \in DOMAIN r : i < j => r[i].seq < r[j].seq
    BY <2>3, <2>5
  <2> QED BY <2>6, <2>7 DEF SeqIncreasing
<1>2. Inv => SeqIncreasing
  BY <1>1
<1> QED BY <1>2, AlwaysInv, PTL

-----------------------------------------------------------------------------
(* Damage *)

\* Damage to one cell of the k-th record after the first: Replay reads the k
\* records before it.
LEMMA DamagedRounds ==
    ASSUME NEW f \in Seq(Cell), NEW g, NEW n \in Nat, NEW k \in Nat, NEW p, NEW v, Damaged(f, g, p, v), v # 1,
           3 * n <= Len(f), k < n, p = 3 * k + 1 \/ p = 3 * k + 2 \/ p = 3 * k + 3,
           \A i \in 1 .. 3 * n : f[i].part = Kind(i) /\ f[i].val = 1
    PROVE  Rounds(g) = k
<1>1. /\ g \in Seq(Cell) /\ Len(g) = Len(f) /\ g[p].val = v
      /\ \A i \in 1 .. Len(f) : i # p => g[i] = f[i]
  BY DEF Damaged
<1>2. Len(f) \in Nat
  BY LenFacts
<1>3. k <= Len(g)
  <2> DEFINE m == Len(f)
  <2>1. m \in Nat /\ 3 * n <= m /\ m = Len(g)
    BY <1>1, <1>2
  <2> HIDE DEF m
  <2>2. k <= m
    BY SMTT(30), <2>1
  <2> QED BY <2>1, <2>2
<1>4. ~Reads(g, 3 * k + 1)
  <2>1. (3 * k + 1) + 1 = 3 * k + 2 /\ (3 * k + 1) + 2 = 3 * k + 3
    BY SMTT(30)
  <2>2. CASE p = 3 * k + 1
    BY <1>1, <2>2 DEF Reads
  <2>3. CASE p = 3 * k + 2
    <3>1. Announced(g, p) # 1
      <4>1. 0 # 1
        BY SMTT(30)
      <4> QED BY <1>1, <4>1 DEF Announced
    <3> QED BY <2>1, <2>3, <3>1 DEF Reads
  <2>4. CASE p = 3 * k + 3
    BY <1>1, <2>1, <2>4 DEF Reads
  <2> QED BY <2>2, <2>3, <2>4
<1>5. ASSUME NEW j \in 1 .. k
      PROVE  Reads(g, 3 * j - 2)
  <2> DEFINE s == {3 * (j - 1) + 1, 3 * (j - 1) + 2, 3 * (j - 1) + 3}
             m == Len(f)
  <2>1. m \in Nat /\ 3 * n <= m
    BY <1>2
  <2> HIDE DEF m
  <2>2. /\ j - 1 \in Nat /\ 3 * (j - 1) + 3 <= m /\ 3 * (j - 1) + 1 = 3 * j - 2
        /\ s \subseteq 1 .. 3 * n /\ s \subseteq 1 .. m /\ p \notin s
    BY SMTT(30), <2>1
  <2>3. ASSUME NEW i \in s
        PROVE  g[i].part = Kind(i) /\ g[i].val = 1
    <3>1. g[i] = f[i]
      BY <1>1, <2>2 DEF m
    <3>2. f[i].part = Kind(i) /\ f[i].val = 1
      BY <2>2
    <3> QED BY <3>1, <3>2
  <2>4. 3 * (j - 1) + 3 <= Len(g)
    BY <1>1, <2>2 DEF m
  <2>5. Reads(g, 3 * (j - 1) + 1)
    BY <1>1, <2>2, <2>3, <2>4, SoundReads
  <2> QED BY <2>2, <2>5
<1> QED BY <1>1, <1>3, <1>4, <1>5, RoundsIs

\* The cells that Replay has read of a file that a crash left.
LEMMA SoundCells ==
    ASSUME Inv, phase = "down"
    PROVE  \A i \in 1 .. 3 * Rounds(file) : file[i].part = Kind(i) /\ file[i].val = 1
<1> DEFINE q == 3 * Rounds(file)
<1>1. q \in 0 .. Len(file) /\ Intact(Take(file, q))
  BY ReplayFacts
<1> HIDE DEF q
<1>2. file \in Seq(Cell)
  BY StreamFacts DEF Inv
<1>3. DOMAIN Take(file, q) = 1 .. q /\ \A i \in 1 .. q : Take(file, q)[i] = file[i]
  BY <1>1, <1>2, TakeFacts
<1>4. ASSUME NEW i \in 1 .. q
      PROVE  file[i].part = Kind(i) /\ file[i].val = 1
  <2>1. Take(file, q)[i].part = Kind(i) /\ Take(file, q)[i].val = 1
    BY <1>1, <1>3 DEF Intact
  <2>2. Take(file, q)[i] = file[i]
    BY <1>3
  <2> QED BY <2>1, <2>2
<1> QED BY <1>4 DEF q

\* While the process is down, damage to the magic or the body of any record but the
\* last makes Replay return an error: it does not take it for a torn write and cut
\* off the records that follow.
THEOREM WALDamageReported == Spec => []DamageReported
<1>1. ASSUME Inv, phase = "down", NEW p \in 1 .. 3 * (Len(Replay(file).recs) - 1), file[p].part # "len"
      PROVE  Replay([file EXCEPT ![p].val = 0]).err
  <2> DEFINE n == Rounds(file)
             m == Len(file)
             g == [file EXCEPT ![p].val = 0]
  <2>1. file \in Seq(Cell) /\ m \in Nat
    BY <1>1, StreamFacts DEF Inv
  <2>2. n \in Nat /\ 3 * n <= m
    BY <1>1, ReplayFacts
  <2>3. Len(Replay(file).recs) = n
    BY <2>1, <2>2, RecsFacts
  <2>4. \A i \in 1 .. 3 * n : file[i].part = Kind(i) /\ file[i].val = 1
    BY <1>1, SoundCells
  <2>5. p \in 1 .. 3 * (n - 1)
    BY <1>1, <2>3
  <2> HIDE DEF n, m
  <2>6. p \in Nat /\ p # 0 /\ p \in 1 .. m /\ p \in 1 .. 3 * n /\ p <= 3 * n - 3
    BY SMTT(30), <2>1, <2>2, <2>5
  <2>7. Damaged(file, g, p, 0)
    <3>1. p \in 1 .. Len(file) /\ 0 \in Nat
      BY SMTT(30), <2>6 DEF m
    <3> QED BY <2>1, <3>1, Damage
  <2> HIDE DEF g
  <2>8. PICK k \in Nat : \/ p = 3 * k + 1 /\ Kind(p) = "magic"
                         \/ p = 3 * k + 2 /\ Kind(p) = "len"
                         \/ p = 3 * k + 3 /\ Kind(p) = "body"
    BY <2>6, Thirds
  <2>9. p # 3 * k + 2
    <3>1. file[p].part = Kind(p)
      BY <2>4, <2>6
    <3>2. "body" # "len" /\ "magic" # "len"
      OBVIOUS
    <3>3. p = 3 * k + 2 => Kind(p) = "len"
      BY Kinds
    <3> QED BY <1>1, <3>1, <3>3
  <2>10. k < n /\ 3 * k + 3 < m /\ 3 * k + 1 <= m /\ 3 * k + 1 < m /\ 3 * k + 2 \in 1 .. 3 * n /\ 3 * k + 2 \in 1 .. m
    BY SMTT(30), <2>1, <2>2, <2>6, <2>8
  <2>11. Rounds(g) = k
    <3>1. 0 # 1 /\ 3 * n <= Len(file)
      BY <2>2, SMT DEF m
    <3>2. p = 3 * k + 1 \/ p = 3 * k + 2 \/ p = 3 * k + 3
      BY <2>8
    <3> QED BY <2>1, <2>2, <2>4, <2>7, <2>10, <3>1, <3>2, DamagedRounds
  <2>12. /\ g \in Seq(Cell) /\ Len(g) = m /\ g[p].val = 0
         /\ \A i \in 1 .. m : i # p => g[i] = file[i]
    BY <2>7 DEF Damaged, m
  <2>13. Corrupt(g, 3 * k + 1)
    <3>1. CASE p = 3 * k + 1
      <4>1. g[3 * k + 1].val # 1
        <5>1. 0 # 1
          BY SMTT(30)
        <5> QED BY <2>12, <3>1, <5>1
      <4> QED BY <2>10, <2>12, <4>1 DEF Corrupt
    <3>2. CASE p = 3 * k + 3
      <4>1. (3 * k + 1) + 1 = 3 * k + 2 /\ 3 * k + 2 # p
        BY SMTT(30), <3>2
      <4>2. g[3 * k + 2] = file[3 * k + 2] /\ file[3 * k + 2].part = "len" /\ file[3 * k + 2].val = 1
        BY <2>4, <2>10, <2>12, <4>1, Kinds
      <4>3. Announced(g, (3 * k + 1) + 1) = 1
        BY <4>1, <4>2 DEF Announced
      <4>4. (3 * k + 1) + 1 + 1 <= Len(g) /\ (3 * k + 1) + 1 + 1 < Len(g)
        <5>1. (3 * k + 1) + 1 + 1 <= m /\ (3 * k + 1) + 1 + 1 < m
          BY SMTT(30), <2>1, <2>10
        <5> QED BY <2>12, <5>1
      <4>5. 3 * k + 1 <= Len(g) /\ 3 * k + 1 < Len(g)
        BY <2>10, <2>12
      <4> QED BY <4>3, <4>4, <4>5 DEF Corrupt, BadChecksum
    <3> QED BY <2>8, <2>9, <3>1, <3>2
  <2>14. Replay(g).err = Corrupt(g, 3 * k + 1)
    BY <2>11, <2>12, RecsFacts
  <2>15. Replay(g).err
    BY <2>13, <2>14
  <2> QED BY <2>15 DEF g
<1>2. Inv => DamageReported
  BY <1>1 DEF DamageReported
<1> QED BY <1>2, AlwaysInv, PTL

Record == [entry : Nat, seq : Nat]

LEMMA RecsType ==
    ASSUME NEW f \in Seq(Cell), Rounds(f) \in Nat, 3 * Rounds(f) <= Len(f)
    PROVE  Replay(f).recs \in Seq(Record)
<1> DEFINE n == Rounds(f)
           r == [k \in 1 .. n |-> [entry |-> f[3 * k].entry, seq |-> f[3 * k].seq]]
<1>1. Replay(f).recs = r
  BY DEF Replay
<1>2. \A k \in 1 .. n : 3 * k \in 1 .. Len(f)
  <2> DEFINE m == Len(f)
  <2>1. n \in Nat /\ m \in Nat /\ 3 * n <= m
    BY LenFacts
  <2> HIDE DEF n, m
  <2>2. \A k \in 1 .. n : 3 * k \in 1 .. m
    BY SMTT(30), <2>1
  <2> QED BY <2>2 DEF m
<1>3. ASSUME NEW k \in 1 .. n
      PROVE  [entry |-> f[3 * k].entry, seq |-> f[3 * k].seq] \in Record
  <2>1. f[3 * k].entry \in Nat /\ f[3 * k].seq \in Nat
    BY <1>2, CellSeq, LenFacts
  <2> QED BY <2>1 DEF Record
<1>4. r \in [1 .. n -> Record]
  BY <1>3
<1>5. n \in Nat
  OBVIOUS
<1> HIDE DEF n, r
<1>6. r \in Seq(Record)
  BY <1>4, <1>5, FunctionIsSeq
<1> QED BY <1>1, <1>6

\* Fewer rounds over the same bodies yield a prefix of the records.
LEMMA RecsPrefix ==
    ASSUME NEW f \in Seq(Cell), NEW g \in Seq(Cell), Rounds(f) \in Nat, Rounds(g) \in Nat,
           Rounds(g) <= Rounds(f), 3 * Rounds(f) <= Len(f), Len(g) = Len(f),
           \A i \in 1 .. Len(f) : g[i].entry = f[i].entry /\ g[i].seq = f[i].seq
    PROVE  StartsWith(Replay(f).recs, Replay(g).recs)
<1> DEFINE s == Replay(g).recs
           t == Replay(f).recs
           a == Rounds(g)
           b == Rounds(f)
           m == Len(f)
<1>1. a \in Nat /\ b \in Nat /\ m \in Nat /\ a <= b /\ 3 * b <= m
  BY LenFacts
<1> HIDE DEF a, b, m
<1>2. 3 * a <= m /\ \A k \in 1 .. a : k \in 1 .. b /\ 3 * k \in 1 .. m
  BY SMTT(30), <1>1
<1>3. s \in Seq(Record) /\ t \in Seq(Record)
  BY <1>1, <1>2, RecsType DEF a, b, m
<1>4. Len(s) = a /\ Len(t) = b
  BY <1>1, RecsFacts DEF a, b
<1>5. ASSUME NEW k \in 1 .. a
      PROVE  s[k] = t[k]
  <2>1. s[k] = [entry |-> g[3 * k].entry, seq |-> g[3 * k].seq]
    BY <1>1, RecsFacts DEF a
  <2>2. t[k] = [entry |-> f[3 * k].entry, seq |-> f[3 * k].seq]
    BY <1>1, <1>2, RecsFacts DEF b
  <2>3. g[3 * k].entry = f[3 * k].entry /\ g[3 * k].seq = f[3 * k].seq
    BY <1>2 DEF m
  <2> QED BY <2>1, <2>2, <2>3
<1> HIDE DEF s, t
<1>6. DOMAIN s = 1 .. a
  BY <1>3, <1>4, LenFacts
<1> QED BY <1>1, <1>4, <1>5, <1>6 DEF StartsWith, s, t

\* Whatever a damaged length field says, Replay reads no more records than before.
LEMMA LengthRounds ==
    ASSUME Inv, phase = "down", NEW p \in 1 .. Len(file), NEW v \in Nat, NEW g,
           file[p].part = "len", Damaged(file, g, p, v)
    PROVE  Rounds(g) \in Nat /\ Rounds(g) <= Rounds(file)
<1> DEFINE n == Rounds(file)
           m == Len(file)
<1>1. file \in Seq(Cell) /\ m \in Nat /\ DOMAIN file = 1 .. m
  BY StreamFacts, LenFacts DEF Inv
<1>2. /\ n \in Nat /\ 3 * n <= m /\ m <= 3 * n + 3
      /\ Intact(file) => m < 3 * n + 3
      /\ ~Intact(file) => m = 3 * n + 3 /\ file[m].val # 1 /\ Garbled(file)
  BY ReplayFacts, GoodStream
<1>3. \A i \in 1 .. 3 * n : file[i].part = Kind(i) /\ file[i].val = 1
  BY SoundCells
<1>4. /\ g \in Seq(Cell) /\ Len(g) = m /\ g[p].val = v
      /\ \A i \in 1 .. m : g[i].part = file[i].part
      /\ \A i \in 1 .. m : i # p => g[i] = file[i]
  BY DEF Damaged
<1>5. Kind(p) = "len"
  BY <1>1, <1>2 DEF Intact, Garbled
<1> HIDE DEF n, m
<1>6. p \in 1 .. m /\ p \in Nat /\ p # 0
  <2>1. p \in 1 .. m
    BY DEF m
  <2> QED BY SMTT(30), <1>1, <2>1
<1>7. PICK k \in Nat : p = 3 * k + 2
  BY <1>5, <1>6, Thirds
<1>8. CASE v # 1 /\ k < n
  <2>1. Rounds(g) = k
    <3>1. 3 * n <= Len(file)
      BY <1>2 DEF m
    <3> QED BY <1>1, <1>2, <1>3, <1>7, <1>8, <3>1, DamagedRounds
  <2>2. k <= n
    BY SMTT(30), <1>2, <1>8
  <2> QED BY <2>1, <2>2 DEF n
<1>9. CASE v = 1 \/ ~(k < n)
  <2>1. ~Reads(g, 3 * n + 1)
    <3>1. (3 * n + 1) + 2 = 3 * n + 3
      BY SMTT(30), <1>2
    <3>2. CASE Intact(file)
      <4>1. ~((3 * n + 1) + 2 <= m)
        BY SMTT(30), <1>1, <1>2, <3>2
      <4> QED BY <1>4, <4>1 DEF Reads
    <3>3. CASE ~Intact(file)
      <4>1. m # p /\ m \in 1 .. m
        BY SMTT(30), <1>1, <1>2, <1>7, <3>3
      <4>2. g[m] = file[m]
        BY <1>4, <4>1
      <4>3. g[3 * n + 3].val # 1
        BY <1>2, <3>3, <4>2
      <4> QED BY <3>1, <4>3 DEF Reads
    <3> QED BY <3>2, <3>3
  <2>2. ASSUME NEW j \in 1 .. n
        PROVE  Reads(g, 3 * j - 2)
    <3> DEFINE s == {3 * (j - 1) + 1, 3 * (j - 1) + 2, 3 * (j - 1) + 3}
    <3>1. /\ j - 1 \in Nat /\ 3 * (j - 1) + 3 <= m /\ 3 * (j - 1) + 1 = 3 * j - 2
          /\ s \subseteq 1 .. 3 * n /\ s \subseteq 1 .. m
      BY SMTT(30), <1>1, <1>2
    <3>2. p \in s => v = 1
      <4>1. ~(k < n) => p \notin s
        BY SMTT(30), <1>2, <1>7
      <4> QED BY <1>9, <4>1
    <3> HIDE DEF s
    <3>3. ASSUME NEW i \in s
          PROVE  g[i].part = Kind(i) /\ g[i].val = 1
      <4>1. file[i].part = Kind(i) /\ file[i].val = 1 /\ g[i].part = file[i].part
        BY <1>3, <1>4, <3>1
      <4>2. CASE i = p
        BY <1>4, <3>2, <4>1, <4>2
      <4>3. CASE i # p
        <5>1. g[i] = file[i]
          BY <1>4, <3>1, <4>3
        <5> QED BY <4>1, <5>1
      <4> QED BY <4>2, <4>3
    <3>4. 3 * (j - 1) + 3 <= Len(g)
      BY <1>4, <3>1
    <3>5. Reads(g, 3 * (j - 1) + 1)
      BY <1>4, <3>1, <3>3, <3>4, SoundReads DEF s
    <3> QED BY <3>1, <3>5
  <2>3. n <= Len(g)
    <3>1. n <= m
      BY SMTT(30), <1>1, <1>2
    <3> QED BY <1>4, <3>1
  <2>4. Rounds(g) = n
    BY <1>2, <1>4, <2>1, <2>2, <2>3, RoundsIs
  <2>5. n <= n
    BY SMTT(30), <1>2
  <2> QED BY <1>2, <2>4, <2>5 DEF n
<1> QED BY <1>8, <1>9

\* Whatever a damaged length field says, while the process is down, Replay yields no
\* record that was not written, and none after a gap.
THEOREM WALLengthNeverMisread == Spec => []LengthNeverMisread
<1>1. ASSUME Inv, phase = "down", NEW p \in DOMAIN file, NEW v \in 0 .. 4, file[p].part = "len"
      PROVE  StartsWith(Replay(file).recs, Replay([file EXCEPT ![p].val = v]).recs)
  <2> DEFINE g == [file EXCEPT ![p].val = v]
  <2>1. file \in Seq(Cell) /\ p \in 1 .. Len(file)
    BY <1>1, StreamFacts, LenFacts DEF Inv
  <2>2. v \in Nat
    BY SMTT(30)
  <2>3. Damaged(file, g, p, v)
    BY <2>1, <2>2, Damage
  <2> HIDE DEF g
  <2>4. Rounds(g) \in Nat /\ Rounds(g) <= Rounds(file)
    BY <1>1, <2>1, <2>2, <2>3, LengthRounds
  <2>5. Rounds(file) \in Nat /\ 3 * Rounds(file) <= Len(file)
    BY <1>1, ReplayFacts
  <2>6. /\ g \in Seq(Cell) /\ Len(g) = Len(file)
        /\ \A i \in 1 .. Len(file) : g[i].entry = file[i].entry /\ g[i].seq = file[i].seq
    BY <2>3 DEF Damaged
  <2>7. StartsWith(Replay(file).recs, Replay(g).recs)
    BY <2>1, <2>4, <2>5, <2>6, RecsPrefix
  <2> QED BY <2>7 DEF g
<1>2. Inv => LengthNeverMisread
  BY <1>1 DEF LengthNeverMisread
<1> QED BY <1>2, AlwaysInv, PTL

-----------------------------------------------------------------------------
(* The log as a sequence of entries *)

\* What the log promises to keep, in terms of its files.
LogOf == Entries(Stream)
Mark == Len(Entries(Take(file, synced)))
Sure == IF policy = "every" THEN acked ELSE {}

\* A log that Replay reads less of, with the same entries, yields the first of them.
LEMMA FirstEntries ==
    ASSUME NEW f \in Seq(Cell), NEW g \in Seq(Cell), NEW n \in Nat, Rounds(f) \in Nat, Rounds(g) = n,
           3 * Rounds(f) <= Len(f), 3 * n <= Len(g), n <= Rounds(f),
           \A i \in 1 .. 3 * n : g[i].entry = f[i].entry
    PROVE  Entries(g) = SubSeq(Entries(f), 1, n) /\ n \in 0 .. Len(Entries(f))
<1> DEFINE m == Rounds(f)
           a == Entries(f)
           b == Entries(g)
<1>1. a \in Seq(Nat) /\ Len(a) = m /\ \A k \in 1 .. m : a[k] = f[3 * k].entry
  BY EntriesFacts
<1>2. b \in Seq(Nat) /\ Len(b) = n /\ \A k \in 1 .. n : b[k] = g[3 * k].entry
  BY EntriesFacts
<1>3. m \in Nat /\ n <= m
  OBVIOUS
<1> HIDE DEF m, a, b
<1>4. n \in 0 .. Len(a) /\ n \in 0 .. m
  BY SMTT(30), <1>1, <1>3
<1>5. \A k \in 1 .. n : k \in 1 .. m /\ 3 * k \in 1 .. 3 * n
  BY SMTT(30), <1>3
<1>6. \A k \in 1 .. n : b[k] = a[k]
  BY <1>1, <1>2, <1>5
<1>7. SubSeq(a, 1, n) \in Seq(Nat) /\ Len(SubSeq(a, 1, n)) = n /\ \A k \in 1 .. n : SubSeq(a, 1, n)[k] = a[k]
  <2>1. 1 .. n \subseteq DOMAIN a
    BY SMTT(30), <1>1, <1>3
  <2> QED BY SMTT(20), <1>1, <1>3, <2>1
<1>8. \A k \in 1 .. n : b[k] = SubSeq(a, 1, n)[k]
  BY <1>6, <1>7
<1>9. b = SubSeq(a, 1, n)
  BY <1>2, <1>7, <1>8, SameSeq
<1> QED BY <1>4, <1>9 DEF a, b

LEMMA AllEntries ==
    ASSUME NEW f \in Seq(Cell), NEW g \in Seq(Cell), Rounds(f) \in Nat, Rounds(g) = Rounds(f),
           3 * Rounds(f) <= Len(f), 3 * Rounds(f) <= Len(g), \A i \in 1 .. 3 * Rounds(f) : g[i].entry = f[i].entry
    PROVE  Entries(g) = Entries(f)
<1> DEFINE n == Rounds(f)
           a == Entries(f)
<1>1. n \in Nat /\ n <= n
  BY SMTT(30)
<1>2. Entries(g) = SubSeq(a, 1, n)
  BY <1>1, FirstEntries
<1>3. a \in Seq(Nat) /\ Len(a) = n
  BY EntriesFacts
<1> HIDE DEF a, n
<1>4. SubSeq(a, 1, n) = a
  BY SMTT(30), <1>1, <1>3
<1> QED BY <1>2, <1>4 DEF a

\* A part of a record adds no entry.
LEMMA TornEntries ==
    ASSUME NEW f \in Seq(Cell), NEW g, Intact(f), Intact(g), Torn(f, g)
    PROVE  Entries(g) = Entries(f)
<1> DEFINE n == Rounds(f)
           m == Rounds(g)
           a == Len(f)
           b == Len(g)
<1>1. g \in Seq(Cell) /\ a % 3 = 0 /\ a <= b /\ b < a + 3 /\ \A i \in 1 .. a : g[i] = f[i]
  BY DEF Torn
<1>2. n \in Nat /\ 3 * n <= a /\ a < 3 * n + 3 /\ a \in Nat
  BY GoodRounds, LenFacts
<1>3. m \in Nat /\ 3 * m <= b /\ b < 3 * m + 3 /\ b \in Nat
  BY <1>1, GoodRounds, LenFacts
<1> HIDE DEF n, m, a, b
<1>4. a = 3 * n
  BY SMTT(30), <1>1, <1>2
<1>5. m = n /\ 3 * n <= b
  BY SMTT(30), <1>1, <1>2, <1>3, <1>4
<1>6. \A i \in 1 .. 3 * n : g[i].entry = f[i].entry
  BY <1>1, <1>4
<1>7. /\ Rounds(f) \in Nat /\ Rounds(g) = Rounds(f) /\ 3 * Rounds(f) <= Len(f) /\ 3 * Rounds(f) <= Len(g)
      /\ \A i \in 1 .. 3 * Rounds(f) : g[i].entry = f[i].entry
  BY <1>2, <1>5, <1>6 DEF n, m, a, b
<1> QED BY <1>1, <1>7, AllEntries

\* A whole record adds its entry.
LEMMA GrownEntries ==
    ASSUME NEW f \in Seq(Cell), NEW g, NEW e, NEW s, Intact(f), Len(f) % 3 = 0, Grown(f, g, e, s)
    PROVE  Entries(g) = Append(Entries(f), e)
<1> DEFINE n == Rounds(f)
           m == Rounds(g)
           a == Len(f)
           b == Len(g)
           u == Entries(f)
           v == Entries(g)
<1>1. /\ g \in Seq(Cell) /\ Intact(g) /\ b = a + 3 /\ g[b].entry = e
      /\ \A i \in 1 .. a : g[i] = f[i]
  BY DEF Grown
<1>2. n \in Nat /\ 3 * n <= a /\ a < 3 * n + 3 /\ a \in Nat /\ a % 3 = 0
  BY GoodRounds, LenFacts
<1>3. m \in Nat /\ 3 * m <= b /\ b < 3 * m + 3
  BY <1>1, GoodRounds
<1>4. u \in Seq(Nat) /\ Len(u) = n /\ \A k \in 1 .. n : u[k] = f[3 * k].entry
  BY <1>2, EntriesFacts
<1>5. v \in Seq(Nat) /\ Len(v) = m /\ \A k \in 1 .. m : v[k] = g[3 * k].entry
  BY <1>1, <1>3, EntriesFacts
<1> HIDE DEF n, m, a, b, u, v
<1>6. a = 3 * n
  BY SMTT(30), <1>2
<1>7. m = n + 1 /\ b = 3 * (n + 1) /\ n + 1 \in 1 .. m
  BY SMTT(30), <1>1, <1>2, <1>3, <1>6
<1>8. v[n + 1] = e
  BY <1>1, <1>5, <1>7
<1>9. \A k \in 1 .. n : v[k] = u[k]
  <2> SUFFICES ASSUME NEW k \in 1 .. n PROVE v[k] = u[k]
    OBVIOUS
  <2>1. k \in 1 .. m /\ 3 * k \in 1 .. a
    BY SMTT(30), <1>2, <1>6, <1>7
  <2> QED BY <1>1, <1>4, <1>5, <2>1
<1>10. e \in Nat
  BY SMTT(30), <1>5, <1>7, <1>8
<1>11. /\ Append(u, e) \in Seq(Nat) /\ Len(Append(u, e)) = n + 1 /\ Append(u, e)[n + 1] = e
       /\ \A k \in 1 .. n : Append(u, e)[k] = u[k]
  BY SMTT(30), <1>2, <1>4, <1>10
<1>12. \A k \in 1 .. m : v[k] = Append(u, e)[k]
  <2> SUFFICES ASSUME NEW k \in 1 .. m PROVE v[k] = Append(u, e)[k]
    OBVIOUS
  <2>1. k \in 1 .. n \/ k = n + 1
    BY SMTT(30), <1>2, <1>7
  <2> QED BY <1>8, <1>9, <1>11, <2>1
<1>13. v = Append(u, e)
  BY <1>5, <1>7, <1>11, <1>12, SameSeq
<1> QED BY <1>13 DEF u, v

\* The entries, the mark and their number, as Replay counts them.
LEMMA Marked ==
    ASSUME Inv
    PROVE  LET n == Rounds(Stream)
               d == Rounds(Take(file, synced))
           IN  /\ n \in Nat /\ Len(LogOf) = n /\ 3 * n <= Len(Stream) /\ LogOf \in Seq(Nat)
               /\ d \in Nat /\ Mark = d /\ 3 * d <= synced
               /\ Intact(file) => synced < 3 * d + 3
               /\ Rounds(file) \in Nat /\ 3 * Rounds(file) <= Len(file)
               /\ d <= Rounds(file) /\ Rounds(file) <= n
<1> DEFINE g == Take(file, synced)
           n == Rounds(Stream)
           d == Rounds(g)
           r == Rounds(file)
           a == Len(file)
           b == Len(Stream)
<1>1. /\ file \in Seq(Cell) /\ Stream \in Seq(Cell) /\ a \in Nat /\ b \in Nat /\ a <= b
      /\ synced \in Nat /\ synced <= a
  BY StreamFacts, LenFacts DEF Inv
<1>2. synced \in synced .. a
  BY SMTT(30), <1>1
<1>3. /\ g \in Seq(Cell) /\ Len(g) = synced
      /\ Intact(file) => Intact(g)
      /\ ~Intact(file) => g = file /\ synced = a /\ Garbled(g)
  BY <1>2, SyncedFacts
<1>4. /\ Intact(Stream) \/ Garbled(Stream)
      /\ Intact(file) \/ (Garbled(file) /\ Stream = file)
  BY GoodStream
<1>5. n \in Nat /\ 3 * n <= b /\ (Intact(Stream) => b < 3 * n + 3) /\ (Garbled(Stream) => b = 3 * n + 3)
  BY <1>1, <1>4, GoodRounds
<1>6. r \in Nat /\ 3 * r <= a /\ (Intact(file) => a < 3 * r + 3) /\ (Garbled(file) => a = 3 * r + 3)
  BY <1>1, <1>4, GoodRounds
<1>7. d \in Nat /\ 3 * d <= synced /\ (Intact(g) => synced < 3 * d + 3)
  BY <1>3, GoodRounds
<1>8. Len(LogOf) = n /\ LogOf \in Seq(Nat) /\ Mark = d
  BY <1>1, <1>3, <1>5, <1>7, EntriesFacts DEF LogOf, Mark
<1> HIDE DEF g, n, d, r, a, b
<1>9. d <= r
  <2>1. CASE Intact(file)
    BY SMTT(30), <1>1, <1>6, <1>7, <2>1
  <2>2. CASE ~Intact(file)
    <3>1. d = r
      BY <1>3, <2>2 DEF d, r
    <3> QED BY SMTT(30), <1>6, <3>1
  <2> QED BY <2>1, <2>2
<1>10. r <= n
  <2>1. CASE Intact(Stream)
    BY SMTT(30), <1>1, <1>5, <1>6, <2>1
  <2>2. CASE ~Intact(Stream)
    <3>1. Garbled(Stream) /\ ~Intact(file)
      <4>1. Garbled(Stream)
        BY <1>4, <2>2
      <4>2. ASSUME Intact(file) PROVE FALSE
        <5>1. phase = "down"
          BY <2>2 DEF Inv, Shape
        <5>2. Stream = file
          BY <5>1, StreamFacts DEF Inv, Calls
        <5> QED BY <2>2, <4>2, <5>2
      <4> QED BY <4>1, <4>2
    <3>2. n = r
      BY <1>4, <3>1 DEF n, r
    <3> QED BY SMTT(30), <1>6, <3>2
  <2> QED BY <2>1, <2>2
<1> QED BY <1>3, <1>5, <1>6, <1>7, <1>8, <1>9, <1>10 DEF g, n, d, r, a, b

\* The cells on the disk are where they were.
LEMMA SameMark ==
    ASSUME Inv, Inv', synced' = synced, \A i \in 1 .. synced : file'[i] = file[i]
    PROVE  Take(file', synced') = Take(file, synced) /\ Mark' = Mark
<1> DEFINE f == file'
<1>1. file \in Seq(Cell) /\ f \in Seq(Cell) /\ synced \in 0 .. Len(file) /\ synced \in 0 .. Len(f)
  BY DEF Inv, Types
<1>2. \A i \in 1 .. synced : f[i] = file[i]
  OBVIOUS
<1> HIDE DEF f
<1>3. /\ Take(file, synced) \in Seq(Cell) /\ Len(Take(file, synced)) = synced
      /\ \A i \in 1 .. synced : Take(file, synced)[i] = file[i]
  BY <1>1, TakeFacts
<1>4. /\ Take(f, synced) \in Seq(Cell) /\ Len(Take(f, synced)) = synced
      /\ \A i \in 1 .. synced : Take(f, synced)[i] = f[i]
  BY <1>1, TakeFacts
<1>5. \A i \in 1 .. synced : Take(f, synced)[i] = Take(file, synced)[i]
  BY <1>2, <1>3, <1>4
<1>6. Take(f, synced) = Take(file, synced)
  BY <1>3, <1>4, <1>5, SameSeq
<1> QED BY <1>6 DEF f, Mark

\* What a step may do to the promise.
Stays == LogOf' = LogOf /\ Mark' = Mark /\ Sure' = Sure
Writes(e) == LogOf' = Append(LogOf, e) /\ Mark' = Mark /\ Sure' = Sure
Hardens == /\ Mark' \in Mark .. Len(LogOf)
           /\ Sure' \in {Sure} \cup {Sure \cup {e} : e \in Range(SubSeq(LogOf, 1, Mark'))}
           /\ LogOf' = LogOf
Loses == /\ \E k \in Mark .. Len(LogOf) : LogOf' = SubSeq(LogOf, 1, k)
         /\ Mark' = Mark /\ Sure' = Sure
Settles == /\ \E k \in Mark .. Len(LogOf) : LogOf' = SubSeq(LogOf, 1, k) /\ Mark' = k
           /\ Sure' = Sure
Resets == LogOf' = <<>> /\ Mark' = 0 /\ Sure' = {}

\* Cells go from the buffer to the file, or nothing is done to the file.
LEMMA QuietStays ==
    ASSUME Inv, Inv', \/ CallSync \/ FlushStep \/ Rotate \/ RotateOpen \/ StopLog \/ UNCHANGED vars
                      \/ SyncStep /\ UNCHANGED <<synced, acked>>
                      \/ RotateRename /\ UNCHANGED <<file, synced, acked, buf>>
    PROVE  Stays
<1>1. synced' = synced /\ acked' = acked /\ policy' = policy
  BY DEF CallSync, FlushStep, Fails, Rotate, RotateOpen, StopLog, SyncStep, RotateRename, vars
<1>2. Stream' = Stream /\ \A i \in 1 .. synced : file'[i] = file[i]
  <2>1. CASE FlushStep
    <3>1. \E n \in 0 .. Len(buf) : file' = file \o Take(buf, n) /\ buf' = Drop(buf, n)
      <4>1. buf \in Seq(Cell) /\ Len(buf) \in Nat
        BY StreamFacts DEF Inv
      <4>2. CASE file' = file \o buf /\ buf' = <<>>
        <5>1. Len(buf) \in 0 .. Len(buf)
          BY SMTT(30), <4>1
        <5>2. Take(buf, Len(buf)) = buf
          BY <4>1, EmptyRest
        <5>3. Drop(buf, Len(buf)) = <<>>
          BY SMTT(30), <4>1 DEF Drop
        <5> QED BY <4>2, <5>1, <5>2, <5>3
      <4>3. CASE \E n \in IF werr THEN {0} ELSE 0 .. Len(buf) - 1 : file' = file \o Take(buf, n) /\ buf' = Drop(buf, n)
        <5>1. \A n \in IF werr THEN {0} ELSE 0 .. Len(buf) - 1 : n \in 0 .. Len(buf)
          BY SMTT(30), <4>1
        <5> QED BY <4>3, <5>1
      <4> QED BY <2>1, <4>2, <4>3 DEF FlushStep
    <3>2. PICK n \in 0 .. Len(buf) : file' = file \o Take(buf, n) /\ buf' = Drop(buf, n)
      BY <3>1
    <3>3. buf \in Seq(Cell) /\ Len(buf) - n <= BufSize
      <4>1. buf \in Seq(Cell) /\ Len(buf) \in Nat /\ Len(buf) <= BufSize /\ BufSize \in Nat
        BY StreamFacts, WALAssumption DEF Inv, Types
      <4> QED BY SMTT(30), <4>1
    <3> QED BY <1>1, <3>2, <3>3, Shifted DEF Inv, Stream
  <2>2. CASE UNCHANGED <<file, buf>>
    BY <2>2 DEF Stream
  <2> QED BY <2>1, <2>2 DEF CallSync, object, Rotate, RotateOpen, StopLog, SyncStep, RotateRename, vars
<1> QED BY <1>1, <1>2, SameMark DEF Stays, LogOf, Sure

LEMMA AppendWrites ==
    ASSUME Inv, Inv', AppendWrite
    PROVE  Stays \/ \E e \in 1 .. MaxAppends : Writes(e)
<1>1. phase = "up" /\ phase' = "up" /\ policy' = policy /\ synced' = synced /\ issued + 1 \in 1 .. MaxAppends
  <2>1. phase = "up" /\ phase' = "up" /\ policy' = policy /\ synced' = synced /\ issued < MaxAppends
    BY DEF AppendWrite, Ready
  <2>2. issued \in 0 .. MaxAppends /\ MaxAppends \in Nat
    BY WALAssumption DEF Inv, Types
  <2>3. issued + 1 \in 1 .. MaxAppends
    BY SMTT(30), <2>1, <2>2
  <2> QED BY <2>1, <2>3
<1>2. Written
  BY AppendWriteInv
<1>3. Mark' = Mark /\ Sure' = Sure
  <2>1. policy = "every" => acked' = acked
    BY <1>2 DEF Written
  <2>2. Mark' = Mark
    BY <1>1, <1>2, SameMark DEF Written
  <2> QED BY <1>1, <2>1, <2>2 DEF Sure
<1>4. Stream \in Seq(Cell) /\ Intact(Stream) /\ Intact(Stream')
  BY <1>1, StreamFacts DEF Inv, Shape
<1>5. CASE Stream' = Stream
  BY <1>3, <1>5 DEF Stays, LogOf
<1>6. CASE Torn(Stream, Stream')
  <2>1. Entries(Stream') = Entries(Stream)
    BY <1>4, <1>6, TornEntries
  <2> QED BY <1>3, <2>1 DEF Stays, LogOf
<1>7. CASE Grown(Stream, Stream', issued + 1, seq)
  <2>1. Len(Stream) % 3 = 0
    <3> DEFINE a == Len(Stream)
               b == Len(Stream')
    <3>1. a \in Nat /\ b = a + 3 /\ b % 3 = 0
      BY <1>4, <1>7, LenFacts DEF Grown
    <3> HIDE DEF a, b
    <3>2. a % 3 = 0
      BY SMTT(30), <3>1
    <3> QED BY <3>2 DEF a
  <2>2. Entries(Stream') = Append(Entries(Stream), issued + 1)
    BY <1>4, <1>7, <2>1, GrownEntries
  <2> QED BY <1>1, <1>3, <2>2 DEF Writes, LogOf
<1> QED BY <1>2, <1>5, <1>6, <1>7 DEF Written

LEMMA NothingWritten ==
    Entries(Cat(<<>>, <<>>)) = <<>> /\ Len(Entries(Take(<<>>, 0))) = 0
<1> DEFINE e == <<>>
<1>1. e \in Seq(Cell) /\ Len(e) = 0 /\ DOMAIN e = {}
  BY SMTT(30)
<1>2. Intact(e)
  BY <1>1 DEF Intact
<1>3. Cat(e, e) = e /\ Take(e, 0) = e
  BY <1>1, EmptyRest
<1> HIDE DEF e
<1>4. Rounds(e) \in Nat /\ 3 * Rounds(e) <= 0
  BY <1>1, <1>2, GoodRounds
<1>5. Rounds(e) = 0
  BY SMTT(30), <1>4
<1>6. Entries(e) \in Seq(Nat) /\ Len(Entries(e)) = 0
  BY <1>1, <1>4, <1>5, EntriesFacts
<1>7. Entries(e) = <<>>
  BY SMTT(30), <1>6
<1> QED BY <1>3, <1>6, <1>7 DEF e

\* The file holds the first entries of the log, and those on the disk first.
LEMMA FileEntries ==
    ASSUME Inv
    PROVE  /\ Entries(file) = SubSeq(LogOf, 1, Rounds(file)) /\ Len(Entries(file)) = Rounds(file)
           /\ Rounds(file) \in Mark .. Len(LogOf)
<1> DEFINE r == Rounds(file)
           n == Rounds(Stream)
<1>1. /\ r \in Nat /\ 3 * r <= Len(file) /\ n \in Nat /\ 3 * n <= Len(Stream) /\ r <= n /\ Len(LogOf) = n
      /\ Mark \in Nat /\ Mark <= r
  BY Marked
<1>2. /\ file \in Seq(Cell) /\ Stream \in Seq(Cell) /\ Len(file) \in Nat
      /\ \A i \in 1 .. Len(file) : Stream[i] = file[i]
  BY StreamFacts DEF Inv
<1>3. Len(Entries(file)) = r
  BY <1>1, <1>2, EntriesFacts
<1>4. Entries(file) = SubSeq(LogOf, 1, r)
  <2> DEFINE a == Len(file)
  <2>1. a \in Nat /\ r \in Nat /\ 3 * r <= a
    BY <1>1, <1>2
  <2> HIDE DEF a, r, n
  <2>2. \A i \in 1 .. 3 * r : i \in 1 .. a
    BY SMTT(30), <2>1
  <2>3. \A i \in 1 .. 3 * r : file[i].entry = Stream[i].entry
    BY <1>2, <2>2 DEF a
  <2> QED BY <1>1, <1>2, <2>3, FirstEntries DEF LogOf, r, n
<1>5. r \in Mark .. Len(LogOf)
  <2> DEFINE d == Mark
             l == Len(LogOf)
  <2> HIDE DEF d, l, r, n
  <2>1. d \in Nat /\ d <= r /\ r \in Nat /\ r <= n /\ n \in Nat /\ l = n
    BY <1>1 DEF d, l
  <2>2. r \in d .. l
    BY SMTT(30), <2>1
  <2> QED BY <2>2 DEF d, l
<1> QED BY <1>3, <1>4, <1>5

\* An fsync that succeeds makes all that is in the file durable.
LEMMA SyncHardens ==
    ASSUME Inv, Inv', AckedDurable', SyncStep
    PROVE  Stays \/ Hardens
<1>1. CASE UNCHANGED <<synced, acked>>
  BY <1>1, QuietStays
<1>2. CASE /\ synced' = Len(file)
           /\ acked' = IF call = "append" THEN acked \cup {issued} ELSE acked
  <2>1. policy' = policy /\ file' = file /\ buf' = buf
    BY DEF SyncStep
  <2>2. LogOf' = LogOf
    BY <2>1 DEF LogOf, Stream
  <2>3. Take(file', synced') = file
    BY <1>2, <2>1, EmptyRest, StreamFacts DEF Inv
  <2>4. Mark' = Rounds(file)
    BY <2>3, FileEntries DEF Mark
  <2>5. Sure' \in {Sure} \cup {Sure \cup {e} : e \in Range(SubSeq(LogOf, 1, Rounds(file)))}
    <3>1. CASE call # "append" \/ policy # "every"
      BY <1>2, <2>1, <3>1 DEF Sure
    <3>2. CASE call = "append" /\ policy = "every"
      <4>1. Sure' = Sure \cup {issued} /\ issued \in acked'
        BY <1>2, <2>1, <3>2 DEF Sure
      <4>2. issued \in Range(Entries(file))
        BY <2>1, <2>3, <3>2, <4>1 DEF AckedDurable
      <4> QED BY <4>1, <4>2, FileEntries
    <3> QED BY <3>1, <3>2
  <2> QED BY <2>2, <2>4, <2>5, FileEntries DEF Hardens
<1> QED BY <1>1, <1>2 DEF SyncStep, Fails

\* The end of the process loses what is in the buffer.
LEMMA KillLoses ==
    ASSUME Inv, Inv', Exit \/ Kill
    PROVE  Loses
<1>1. UNCHANGED <<policy, file, synced, acked>> /\ buf' = <<>>
  BY DEF Exit, Kill, Forget
<1>2. Mark' = Mark /\ Sure' = Sure
  BY <1>1 DEF Mark, Sure
<1>3. LogOf' = Entries(file)
  BY <1>1, EmptyRest, StreamFacts DEF Inv, LogOf, Stream
<1> QED BY <1>2, <1>3, FileEntries DEF Loses

LEMMA RenameResets ==
    ASSUME Inv, Inv', RotateRename
    PROVE  Stays \/ Resets
<1>1. CASE UNCHANGED <<file, synced, acked, buf>>
  BY <1>1, QuietStays
<1>2. CASE file' = <<>> /\ synced' = 0 /\ acked' = {} /\ buf' = <<>>
  BY <1>2, NothingWritten DEF Resets, LogOf, Mark, Sure, Stream
<1> QED BY <1>1, <1>2 DEF RotateRename

\* A power failure leaves a part of the file, and all of that on the disk.
LEMMA PowerFailureSettles ==
    ASSUME Inv, Inv', PowerFailure
    PROVE  Settles
<1>1. UNCHANGED <<policy, acked>> /\ buf' = <<>>
  BY DEF PowerFailure, Forget
<1>2. PICK n \in synced .. Len(file) :
        /\ \/ file' = Take(file, n)
           \/ n > synced /\ file[n].part = "body" /\ file' = [Take(file, n) EXCEPT ![n].val = 0]
        /\ synced' = n
  BY DEF PowerFailure
<1> DEFINE g == file'
           h == Take(file, n)
<1>3. g \in Seq(Cell) /\ Stream' = g /\ (Intact(g) \/ Garbled(g))
  BY <1>1, EmptyRest DEF Inv, Types, Shape, Stream
<1>4. /\ file \in Seq(Cell) /\ Stream \in Seq(Cell) /\ Len(file) \in Nat /\ synced \in Nat
      /\ \A i \in 1 .. Len(file) : Stream[i] = file[i]
  BY StreamFacts DEF Inv
<1>5. /\ h \in Seq(Cell) /\ Len(h) = n /\ n \in Nat
      /\ \A i \in 1 .. n : h[i] = file[i]
      /\ ~Intact(file) => h = file /\ n = Len(file) /\ synced = n
  BY SyncedFacts, FileShape
<1> HIDE DEF g, h
<1>6. Len(g) = n /\ \A i \in 1 .. n : g[i].entry = h[i].entry
  <2>1. CASE g = h
    BY <1>5, <2>1
  <2>2. CASE n > synced /\ g = [h EXCEPT ![n].val = 0]
    <3>1. n \in 1 .. Len(h) /\ 0 \in Nat
      BY SMTT(30), <1>4, <1>5, <2>2
    <3>2. Damaged(h, g, n, 0)
      BY <1>5, <2>2, <3>1, Damage
    <3> QED BY <1>5, <3>2 DEF Damaged
  <2> QED BY <1>2, <2>1, <2>2 DEF g, h
<1>7. Take(g, n) = g
  BY <1>3, <1>6, EmptyRest
<1> DEFINE k == Rounds(g)
           r == Rounds(file)
           d == Mark
<1>8. k \in Nat /\ 3 * k <= n /\ n <= 3 * k + 3 /\ (Intact(g) => n < 3 * k + 3)
  BY <1>3, <1>6, GoodRounds
<1>9. LogOf' = Entries(g) /\ Mark' = k /\ Sure' = Sure
  <2>1. Len(Entries(g)) = k
    BY <1>3, <1>6, <1>8, EntriesFacts
  <2>2. LogOf' = Entries(g)
    BY <1>3 DEF LogOf
  <2>3. Mark' = k
    BY <1>2, <1>7, <2>1 DEF Mark, g
  <2> QED BY <1>1, <2>2, <2>3 DEF Sure
<1>10. /\ r \in Nat /\ d \in Nat /\ 3 * d <= synced /\ d <= r
       /\ Rounds(Stream) \in Nat /\ r <= Rounds(Stream) /\ 3 * Rounds(Stream) <= Len(Stream)
       /\ Len(LogOf) = Rounds(Stream) /\ (Intact(file) => Len(file) < 3 * r + 3)
  <2>1. Intact(file) => Len(file) < 3 * r + 3
    BY <1>4, GoodRounds
  <2> QED BY <2>1, Marked
<1>11. d <= k /\ k <= r
  <2>1. CASE ~Intact(file)
    <3>1. g = file
      <4>1. ~(n > synced)
        BY SMTT(30), <1>5, <2>1, <1>4
      <4> QED BY <1>2, <1>5, <2>1, <4>1 DEF g, h
    <3>2. k = r
      BY <3>1
    <3> HIDE DEF k, r, d
    <3> QED BY SMTT(30), <1>10, <3>2
  <2>2. CASE Intact(file)
    <3> DEFINE a == Len(file)
    <3>1. a < 3 * r + 3 /\ a \in Nat /\ n \in synced .. a
      BY <1>4, <1>10, <2>2
    <3>2. Intact(g) \/ synced < n
      <4>1. CASE g = h
        BY <1>5, <2>2, <4>1, SyncedFacts DEF h
      <4>2. CASE n > synced
        BY SMTT(30), <1>4, <1>5, <4>2
      <4> QED BY <1>2, <4>1, <4>2 DEF g, h
    <3> HIDE DEF k, r, d, a
    <3>3. k <= r
      BY SMTT(20), <1>4, <1>8, <1>10, <3>1
    <3>4. CASE Intact(g)
      BY SMTT(20), <1>4, <1>8, <1>10, <3>1, <3>3, <3>4
    <3>5. CASE synced < n
      BY SMTT(30), <1>4, <1>8, <1>10, <3>1, <3>3, <3>5
    <3> QED BY <3>2, <3>4, <3>5
  <2> QED BY <2>1, <2>2
<1>12. k \in Mark .. Len(LogOf) /\ k <= Rounds(Stream)
  <2> DEFINE l == Len(LogOf)
             m == Rounds(Stream)
  <2>1. l = m /\ m \in Nat /\ r <= m
    BY <1>10
  <2> HIDE DEF d, r, k, l, m
  <2>2. k \in d .. l /\ k <= m
    BY SMTT(30), <1>8, <1>10, <1>11, <2>1
  <2> QED BY <2>2 DEF d, l, m
<1>13. Entries(g) = SubSeq(LogOf, 1, k)
  <2>1. \A i \in 1 .. 3 * k : i \in 1 .. n /\ i \in 1 .. Len(file)
    <3> DEFINE a == Len(file)
    <3>1. n \in synced .. a /\ a \in Nat
      BY <1>4
    <3> HIDE DEF a, k
    <3>2. \A i \in 1 .. 3 * k : i \in 1 .. n /\ i \in 1 .. a
      BY SMTT(30), <1>4, <1>8, <3>1
    <3> QED BY <3>2 DEF a, k
  <2>2. \A i \in 1 .. 3 * k : g[i].entry = Stream[i].entry
    BY <1>4, <1>5, <1>6, <2>1
  <2> QED BY <1>3, <1>4, <1>6, <1>8, <1>10, <1>12, <2>2, FirstEntries DEF LogOf
<1> QED BY <1>9, <1>12, <1>13 DEF Settles

\* Replay cuts off what it does not read, which held no entry.
LEMMA RecoverStays ==
    ASSUME Inv, Inv', Recover
    PROVE  Stays
<1> DEFINE n == Rounds(file)
           q == 3 * n
           h == Take(file, q)
<1>1. phase = "down"
  BY DEF Recover
<1>2. file \in Seq(Cell) /\ Len(file) \in Nat /\ synced \in Nat /\ synced <= Len(file)
  BY StreamFacts DEF Inv
<1>3. /\ n \in Nat /\ q <= Len(file) /\ q \in 0 .. Len(file) /\ Intact(h) /\ ~Corrupt(file, q + 1)
      /\ Intact(file) => Len(file) < q + 3
      /\ ~Intact(file) => synced = Len(file)
  BY <1>1, ReplayFacts
<1>4. ~Replay(file).err /\ Repair(file) = h
  BY <1>2, <1>3, RecsFacts DEF Repair
<1>5. /\ file' = h /\ buf' = buf /\ policy' = policy /\ acked' = acked /\ buf = <<>>
      /\ synced' = IF synced > Len(file') THEN Len(file') ELSE synced
  BY <1>1, <1>4 DEF Recover, Inv, Calls
<1>6. h \in Seq(Cell) /\ Len(h) = q /\ \A i \in 1 .. q : h[i] = file[i]
  BY <1>2, <1>3, TakeFacts
<1> HIDE DEF h
<1>7. Stream = file /\ Stream' = h
  BY <1>2, <1>5, <1>6, EmptyRest DEF Stream
<1>8. Rounds(h) = n
  <2> DEFINE m == Rounds(h)
  <2>1. m \in Nat /\ 3 * m <= q /\ q < 3 * m + 3
    BY <1>3, <1>6, GoodRounds
  <2> HIDE DEF m, n
  <2>2. m = n
    BY SMTT(30), <1>3, <2>1
  <2> QED BY <2>2 DEF m
<1>9. Entries(h) = Entries(file)
  <2>1. 3 * n <= Len(h) /\ \A i \in 1 .. 3 * n : h[i].entry = file[i].entry
    <3>1. q <= q
      BY SMTT(30), <1>3
    <3> QED BY <1>6, <3>1
  <2> QED BY <1>2, <1>3, <1>6, <1>8, <2>1, AllEntries
<1>10. CASE synced > q
  <2>1. Take(file', synced') = h
    BY <1>5, <1>6, <1>10, EmptyRest
  <2>2. Mark' = n
    <3>1. 3 * Rounds(h) <= Len(h)
      BY SMTT(30), <1>3, <1>6, <1>8
    <3>2. Len(Entries(h)) = n
      BY <1>3, <1>6, <1>8, <3>1, EntriesFacts
    <3> QED BY <2>1, <3>2 DEF Mark
  <2>3. Mark = n
    <3> DEFINE d == Mark
               a == Len(file)
    <3>1. d \in Nat /\ d <= n /\ (Intact(file) => synced < 3 * d + 3)
      BY Marked
    <3>2. CASE Intact(file)
      <4> HIDE DEF d, n
      <4>1. d = n
        BY SMTT(30), <1>2, <1>3, <1>10, <3>1, <3>2
      <4> QED BY <4>1 DEF d
    <3>3. CASE ~Intact(file)
      <4>1. Take(file, synced) = file
        BY <1>2, <1>3, <3>3, EmptyRest
      <4> QED BY <1>2, <1>3, <4>1, EntriesFacts DEF Mark
    <3> QED BY <3>2, <3>3
  <2> QED BY <1>5, <1>7, <1>9, <2>2, <2>3 DEF Stays, LogOf, Sure
<1>11. CASE ~(synced > q)
  <2>1. synced' = synced
    BY <1>5, <1>6, <1>11
  <2>2. \A i \in 1 .. synced : i \in 1 .. q
    <3> HIDE DEF n
    <3> QED BY SMTT(30), <1>2, <1>3, <1>11
  <2>3. \A i \in 1 .. synced : file'[i] = file[i]
    BY <1>5, <1>6, <2>2
  <2>4. Mark' = Mark
    BY <2>1, <2>3, SameMark
  <2> QED BY <1>5, <1>7, <1>9, <2>4 DEF Stays, LogOf, Sure
<1> QED BY <1>10, <1>11

LEMMA StepRefines ==
    ASSUME Inv, Inv', AckedDurable', [Next]_vars
    PROVE  Stays \/ (\E e \in 1 .. MaxAppends : Writes(e)) \/ Hardens \/ Loses \/ Settles \/ Resets
<1>1. CASE CallSync \/ FlushStep \/ Rotate \/ RotateOpen \/ StopLog \/ UNCHANGED vars
  BY <1>1, QuietStays
<1>2. CASE AppendWrite
  BY <1>2, AppendWrites
<1>3. CASE SyncStep
  BY <1>3, SyncHardens
<1>4. CASE RotateRename
  BY <1>4, RenameResets
<1>5. CASE Exit \/ Kill
  BY <1>5, KillLoses
<1>6. CASE PowerFailure
  BY <1>6, PowerFailureSettles
<1>7. CASE Recover
  BY <1>7, RecoverStays
<1> QED BY <1>1, <1>2, <1>3, <1>4, <1>5, <1>6, <1>7 DEF Next

\* The log implements an append-only sequence of entries, for every sync policy and
\* buffer size: flushes, torn writes, failed syncs and the truncation by Replay are
\* steps that leave it alone, crashes lose a suffix that was not synced, and only a
\* sync makes an entry one that Append may acknowledge.
THEOREM WALImplementsLog == Spec => ImplementsLog
<1>1. Init => Log!Init
  <2> SUFFICES ASSUME Init PROVE Log!Init
    OBVIOUS
  <2>1. file = <<>> /\ buf = <<>> /\ synced = 0 /\ acked = {}
    BY DEF Init
  <2>2. <<>> \o <<>> = Cat(<<>>, <<>>)
    BY DEF Cat
  <2> QED BY <2>1, <2>2, NothingWritten DEF Log!Init
<1>2. Inv /\ Inv' /\ AckedDurable' /\ [Next]_vars => [Log!Next]_(Log!lvars)
  <2> SUFFICES ASSUME Inv, Inv', AckedDurable', [Next]_vars PROVE Log!Next \/ UNCHANGED Log!lvars
    OBVIOUS
  <2>1. /\ LogOf = Entries(file \o buf) /\ LogOf' = Entries(file' \o buf')
        /\ Mark = Len(Entries(Take(file, synced))) /\ Mark' = Len(Entries(Take(file', synced')))
        /\ Sure = (IF policy = "every" THEN acked ELSE {}) /\ Sure' = (IF policy' = "every" THEN acked' ELSE {})
    BY DEF LogOf, Mark, Sure, Stream, Cat
  <2>2. CASE Stays
    BY <2>1, <2>2 DEF Stays, Log!lvars
  <2>3. CASE \E e \in 1 .. MaxAppends : Writes(e)
    BY <2>1, <2>3 DEF Writes, Log!Write, Log!Next
  <2>4. CASE Hardens
    <3>1. Mark' \in Mark .. Len(LogOf) /\ LogOf' = LogOf
      BY <2>4 DEF Hardens
    <3>2. Sure' \in {Sure} \cup {Sure \cup {e} : e \in Range(SubSeq(LogOf, 1, Mark'))}
      BY <2>4 DEF Hardens
    <3>3. \A u : Log!Range(u) = Range(u)
      BY DEF Range, Log!Range
    <3>4. Sure' \in {Sure} \cup {Sure \cup {e} : e \in Log!Range(SubSeq(LogOf, 1, Mark'))}
      BY <3>2, <3>3
    <3>5. Log!Harden
      BY <2>1, <3>1, <3>4 DEF Log!Harden
    <3> QED BY <3>5 DEF Log!Next
  <2>5. CASE Loses
    BY <2>1, <2>5 DEF Loses, Log!Lose, Log!Next
  <2>6. CASE Settles
    BY <2>1, <2>6 DEF Settles, Log!Settle, Log!Next
  <2>7. CASE Resets
    BY <2>1, <2>7 DEF Resets, Log!Reset, Log!Next
  <2> QED BY <2>2, <2>3, <2>4, <2>5, <2>6, <2>7, StepRefines
<1> QED BY <1>1, <1>2, AlwaysInv, WALAckedDurable, PTL DEF Spec, ImplementsLog, Log!Spec

===============================================================================

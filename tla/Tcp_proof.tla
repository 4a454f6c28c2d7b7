----------------------------- MODULE Tcp_proof -----------------------------
(***************************************************************************)
(* Theorems about the TCP connections: first what one carries (TcpStream), *)
(* for all sizes of FIFOs, segments and words, any number of bytes and any *)
(* bound on the faults of the network; then who keeps which (Connections), *)
(* for every number of server sockets, every idle time and every interval  *)
(* of the heart beat.  What both modules have is called Stream... in       *)
(* TcpStream: Spec, Init, Next and vars are those of Connections.          *)
(***************************************************************************)
EXTENDS TcpStream, Connections, SequenceTheorems, TLAPS

-----------------------------------------------------------------------------
(* Positions in a FIFO.  The byte with number k + 1 is at position At(n, k) *)
(* of a FIFO of n bytes, in which everything began at Start(n).             *)

At(n, k) == ((n - 2 + k) % n) + 1

LEMMA Remainder ==
  ASSUME NEW n \in Nat \ {0}, NEW a \in Int
  PROVE  a % n \in 0 .. n - 1 /\ a \div n \in Int /\ a = n * (a \div n) + (a % n)
OBVIOUS

LEMMA RemainderIs ==
  ASSUME NEW n \in Nat \ {0}, NEW a \in Int, NEW q \in Int, NEW r \in 0 .. n - 1, a = n * q + r
  PROVE  a % n = r
<1>1. PICK p \in Int, t \in 0 .. n - 1 : t = a % n /\ a = n * p + t
  BY Remainder
<1>2. n * (p - q) = r - t
  BY <1>1
<1>3. p - q \in Int /\ r - t < n /\ r - t > -n
  BY <1>1
<1>4. PICK j \in Int : j = p - q
  BY <1>3
<1>5. n * j < n /\ n * j > -n
  BY <1>2, <1>3, <1>4
<1>6. CASE j >= 1
  BY <1>5, <1>6
<1>7. CASE j <= -1
  BY <1>5, <1>7
<1>8. CASE j = 0
  BY <1>1, <1>2, <1>4, <1>8
<1> QED
  BY <1>4, <1>6, <1>7, <1>8

\* Whole turns do not matter.
LEMMA Turns ==
  ASSUME NEW n \in Nat \ {0}, NEW a \in Int, NEW j \in Int
  PROVE  (a + n * j) % n = a % n
<1>1. PICK p \in Int, t \in 0 .. n - 1 : t = a % n /\ a = n * p + t
  BY Remainder
<1>2. a + n * j = n * (p + j) + t
  BY <1>1
<1>3. PICK c \in Int, q \in Int : c = a + n * j /\ q = p + j
  BY <1>1
<1>4. c = n * q + t
  BY <1>2, <1>3
<1>5. c % n = t
  BY <1>1, <1>4, RemainderIs
<1> QED
  BY <1>1, <1>3, <1>5

LEMMA Within ==
  ASSUME NEW n \in Nat \ {0}, NEW a \in 0 .. n - 1
  PROVE  a % n = a
<1>1. a = n * 0 + a
  OBVIOUS
<1> QED
  BY <1>1, RemainderIs

LEMMA AtType ==
  ASSUME NEW n \in Nat \ {0, 1}, NEW a \in Nat
  PROVE  /\ At(n, a) \in 1 .. n
         /\ \E p \in Int : At(n, a) = n - 1 + a + n * p
<1>1. PICK x \in Int : x = n - 2 + a
  OBVIOUS
<1>2. PICK p \in Int, r \in 0 .. n - 1 : r = x % n /\ x = n * p + r
  BY Remainder
<1>3. At(n, a) = r + 1
  BY <1>1, <1>2 DEF At
<1>4. PICK w \in Int : w = -p
  BY <1>2
<1>5. n - 1 + a + n * w = r + 1
  BY <1>1, <1>2, <1>4
<1>6. r + 1 \in 1 .. n
  BY <1>2
<1> QED
  BY <1>3, <1>4, <1>5, <1>6

LEMMA AtIsNat == ASSUME NEW n \in Nat \ {0, 1}, NEW a \in Nat PROVE At(n, a) \in Nat
  BY AtType

\* The way between two positions.
LEMMA Distance ==
  ASSUME NEW n \in Nat \ {0, 1}, NEW a \in Nat, NEW c \in Nat, NEW m \in Int
  PROVE  (At(n, c) - (At(n, a) + m)) % n = (c - a - m) % n
<1>1. PICK p \in Int : At(n, a) = n - 1 + a + n * p
  BY AtType
<1>2. PICK q \in Int : At(n, c) = n - 1 + c + n * q
  BY AtType
<1>3. PICK d \in Int, j \in Int : d = c - a - m /\ j = q - p
  OBVIOUS
<1>4. At(n, c) - (At(n, a) + m) = d + n * j
  BY <1>1, <1>2, <1>3
<1>5. (d + n * j) % n = d % n
  BY <1>3, Turns
<1> QED
  BY <1>3, <1>4, <1>5

\* Going on from a position, wrapped or not.
LEMMA Onwards ==
  ASSUME NEW n \in Nat \ {0, 1}, NEW a \in Nat, NEW c \in Nat, a <= c
  PROVE  ((At(n, a) + (c - a) - 1) % n) + 1 = At(n, c)
<1>1. PICK p \in Int : At(n, a) = n - 1 + a + n * p
  BY AtType
<1>2. PICK x \in Int : x = n - 2 + c
  OBVIOUS
<1>3. At(n, a) + (c - a) - 1 = x + n * p
  BY <1>1, <1>2
<1>4. (At(n, a) + (c - a) - 1) % n = x % n
  BY <1>2, <1>3, Turns
<1> QED
  BY <1>2, <1>4 DEF At

LEMMA Ahead ==
  ASSUME NEW n \in Nat \ {0, 1}, NEW a \in Nat, NEW c \in Nat, a <= c, c - a < n
  PROVE  Between(At(n, a), At(n, c), n) = c - a
<1>1. (At(n, c) - (At(n, a) + 0)) % n = (c - a - 0) % n
  BY Distance
<1>2. PICK d \in 0 .. n - 1 : d = c - a
  OBVIOUS
<1>3. At(n, c) - (At(n, a) + 0) = At(n, c) - At(n, a) /\ c - a - 0 = d
  BY <1>2, AtType
<1>4. d % n = d
  BY <1>2, Within
<1> QED
  BY <1>1, <1>2, <1>3, <1>4 DEF Between

\* A FIFO of n bytes has those with the numbers a + 1 to c.
Has(buf, n, a, c) == \A k \in a .. c - 1 : buf[At(n, k)] = k + 1

\* The len bytes after the first a.
Numbered(bytes, a, len) ==
  bytes \in Seq(Nat) /\ Len(bytes) = len /\ \A j \in 1 .. len : bytes[j] = a + j

\* Of the FIFO old, the bytes with the numbers c + 1 to d have been written, and none of those
\* that it may hold with them is changed.
Written(new, old, n, c, d) ==
  /\ new \in [1 .. n -> Nat]
  /\ \A k \in Nat : k >= d - n /\ k < c + n =>
       new[At(n, k)] = IF k \in c .. d - 1 THEN k + 1 ELSE old[At(n, k)]

LEMMA BufferLen ==
  ASSUME NEW n \in Nat, NEW buf \in [1 .. n -> Nat]
  PROVE  DOMAIN buf = 1 .. n /\ Len(buf) = n
<1>1. buf \in Seq(Nat)
  BY SeqDef
<1> QED
  BY <1>1, LenProperties

\* Copying bytes to where they belong changes no other.
LEMMA FillGives ==
  ASSUME NEW n \in Nat \ {0, 1}, NEW buf \in [1 .. n -> Nat], NEW a \in Nat, NEW m \in Nat,
         NEW len \in 0 .. n, NEW bytes, NEW c \in Nat, c = a + m, NEW d \in Nat, d = c + len,
         Numbered(bytes, c, len)
  PROVE  Written(Fill(buf, At(n, a) + m, bytes), buf, n, c, d)
<1>0. bytes \in Seq(Nat) /\ Len(bytes) = len /\ \A j \in 1 .. len : bytes[j] = a + m + j
  BY DEF Numbered
<1> DEFINE at == At(n, a) + m
           I(p) == ((p - at) % n) + 1
           new == [p \in 1 .. n |-> IF I(p) \in 1 .. len THEN a + m + I(p) ELSE buf[p]]
<1>1. at \in Nat /\ n \in Nat /\ n # 0
  <2>1. At(n, a) \in Nat
    <3> HIDE DEF at, I, new
    <3> QED
      BY AtIsNat
  <2> QED
    BY <2>1
<1>2. DOMAIN buf = 1 .. n /\ Len(buf) = n /\ DOMAIN bytes = 1 .. len
  BY <1>0, BufferLen, LenProperties
<1>3. Fill(buf, at, bytes) = new
  <2>1. ASSUME NEW p \in 1 .. n, I(p) \in 1 .. len PROVE bytes[I(p)] = a + m + I(p)
    <3> HIDE DEF I
    <3> QED
      BY <1>0, <2>1
  <2>2. Fill(buf, at, bytes) = [p \in 1 .. n |-> IF I(p) \in 1 .. len THEN bytes[I(p)] ELSE buf[p]]
    <3> HIDE DEF at
    <3> QED
      BY <1>2 DEF Fill
  <2> HIDE DEF I
  <2> QED
    BY <2>1, <2>2
<1>4. ASSUME NEW p \in 1 .. n PROVE I(p) \in 1 .. n
  <2>1. PICK x \in Int : x = p - at
    BY <1>1
  <2>2. x % n \in 0 .. n - 1
    BY Remainder
  <2> QED
    BY <2>1, <2>2, SMTT(30)
<1>5. new \in [1 .. n -> Nat]
  <2>1. ASSUME NEW p \in 1 .. n
        PROVE  (IF I(p) \in 1 .. len THEN a + m + I(p) ELSE buf[p]) \in Nat
    <3> HIDE DEF I, at
    <3>1. PICK i \in 1 .. n : i = I(p)
      BY <1>4
    <3>2. i \in Nat /\ buf[p] \in Nat /\ a + m + i \in Nat
      BY <3>1
    <3> QED
      BY <3>1, <3>2
  <2> HIDE DEF I, at
  <2> QED
    BY <2>1
<1>6. ASSUME NEW k \in Nat, k >= a + m + len - n, k < a + m + n
      PROVE  new[At(n, k)] = IF k \in a + m .. a + m + len - 1 THEN k + 1 ELSE buf[At(n, k)]
  <2>1. I(At(n, k)) = ((k - a - m) % n) + 1 /\ At(n, k) \in 1 .. n
    <3>1. PICK p : p = At(n, k) /\ p \in 1 .. n
      BY AtType
    <3>2. (p - at) % n = (k - a - m) % n
      BY <3>1, Distance
    <3> QED
      BY <3>1, <3>2
  <2>2. PICK x \in Int : x = k - a - m
    OBVIOUS
  <2>3. CASE x >= 0
    <3>0. x \in 0 .. n - 1
      BY <1>6, <2>2, <2>3
    <3>1. x % n = x
      BY <3>0, Within
    <3>2. I(At(n, k)) = x + 1
      BY <2>1, <2>2, <3>1
    <3> HIDE DEF I
    <3> QED
      BY <2>1, <2>2, <2>3, <3>2
  <2>4. CASE x < 0
    <3>1. PICK e \in 0 .. n - 1, q \in Int : e = x + n /\ q = -1 /\ x = n * q + e
      BY <1>6, <2>2, <2>4
    <3>2. x % n = x + n
      BY <2>2, <3>1, RemainderIs
    <3>3. I(At(n, k)) = x + n + 1
      BY <2>1, <2>2, <3>2
    <3> HIDE DEF I
    <3> QED
      BY <1>6, <2>1, <2>2, <2>4, <3>3
  <2> QED
    BY <2>2, <2>3, <2>4
<1> HIDE DEF new
<1>7. ASSUME NEW k \in Nat, k >= d - n, k < c + n
      PROVE  new[At(n, k)] = IF k \in c .. d - 1 THEN k + 1 ELSE buf[At(n, k)]
  <2>1. k >= a + m + len - n /\ k < a + m + n
    BY <1>7
  <2>2. k \in c .. d - 1 <=> k \in a + m .. a + m + len - 1
    OBVIOUS
  <2> QED
    BY <1>6, <2>1, <2>2
<1> QED
  BY <1>3, <1>5, <1>7 DEF Written

LEMMA WrittenKeeps ==
  ASSUME NEW n \in Nat \ {0, 1}, NEW new, NEW old, NEW c \in Nat, NEW d \in Nat,
         NEW x \in Nat, NEW y \in Nat, Written(new, old, n, c, d), Has(old, n, x, y),
         d - n <= x, y <= c + n
  PROVE  Has(new, n, x, y)
<1>1. ASSUME NEW k \in x .. y - 1 PROVE new[At(n, k)] = k + 1
  <2>1. k \in Nat /\ k >= d - n /\ k < c + n
    OBVIOUS
  <2>2. new[At(n, k)] = IF k \in c .. d - 1 THEN k + 1 ELSE old[At(n, k)]
    BY <2>1 DEF Written
  <2>3. old[At(n, k)] = k + 1
    BY DEF Has
  <2> QED
    BY <2>2, <2>3
<1> QED
  BY <1>1 DEF Has

LEMMA WrittenHas ==
  ASSUME NEW n \in Nat \ {0, 1}, NEW new, NEW old, NEW c \in Nat, NEW d \in Nat,
         Written(new, old, n, c, d), d - n <= c
  PROVE  Has(new, n, c, d)
<1>1. ASSUME NEW k \in c .. d - 1 PROVE new[At(n, k)] = k + 1
  <2>1. k \in Nat /\ k >= d - n /\ k < c + n
    OBVIOUS
  <2> QED
    BY <2>1 DEF Written
<1> QED
  BY <1>1 DEF Has

LEMMA HasJoin ==
  ASSUME NEW n \in Nat \ {0, 1}, NEW buf, NEW a \in Nat, NEW b \in Nat, NEW c \in Nat,
         NEW d \in Nat, Has(buf, n, a, b), Has(buf, n, c, d), c <= b
  PROVE  Has(buf, n, a, d)
  BY DEF Has

LEMMA HasPart ==
  ASSUME NEW n \in Nat \ {0, 1}, NEW buf, NEW a \in Nat, NEW b \in Nat, NEW c \in Nat,
         NEW d \in Nat, Has(buf, n, a, b), a <= c, d <= b
  PROVE  Has(buf, n, c, d)
  BY DEF Has

\* Copying them out.
LEMMA PartGives ==
  ASSUME NEW n \in Nat \ {0, 1}, NEW buf \in [1 .. n -> Nat], NEW a \in Nat, NEW c \in Nat,
         NEW len \in Nat, c = a + len, Has(buf, n, a, c)
  PROVE  Numbered(Part(buf, At(n, a), len), a, len)
<1>1. Len(buf) = n
  BY BufferLen
<1>2. ASSUME NEW j \in 1 .. len
      PROVE  buf[((At(n, a) + j - 2) % n) + 1] = a + j
  <2>1. PICK k \in Nat : k = a + j - 1 /\ a <= k
    BY <1>2
  <2>2. ((At(n, a) + (k - a) - 1) % n) + 1 = At(n, k)
    BY <2>1, Onwards
  <2>3. At(n, a) + (k - a) - 1 = At(n, a) + j - 2
    BY <2>1, AtIsNat
  <2>4. k \in a .. c - 1
    BY <1>2, <2>1
  <2>5. buf[At(n, k)] = k + 1
    BY <2>4 DEF Has
  <2> QED
    BY <2>1, <2>2, <2>3, <2>5
<1>3. PICK part : part = Part(buf, At(n, a), len)
  OBVIOUS
<1>4. part = [j \in 1 .. len |-> buf[((At(n, a) + j - 2) % n) + 1]]
  BY <1>1, <1>3 DEF Part
<1>5. part \in [1 .. len -> Nat] /\ \A j \in 1 .. len : part[j] = a + j
  BY <1>2, <1>4
<1>6. part \in Seq(Nat) /\ Len(part) = len
  BY <1>5, BufferLen, SeqDef
<1> QED
  BY <1>3, <1>5, <1>6 DEF Numbered

-----------------------------------------------------------------------------
(* The sending end.                                                         *)

Segment == [seq : Int, bytes : Seq(Nat)]
Segments == Seq(Segment)
TxBuffer == [1 .. TxSize -> Nat]
Windows == 0 .. WordSize - 1
Retries == 0 .. TCP_MAX_RETRIES
SocketStates == {"TCP_ESTABLISHED", "TCP_FIN_WAIT_1", "TCP_FIN_WAIT_2", "TCP_CLOSED"}
Sender ==
  [txHead : Int, txUnackedTail : Int, txTail : Int, txBuf : TxBuffer,
   MySEQ : Int, remoteWindow : Windows, retryCount : Retries,
   vUnackedKeepalives : Nat, bTimerEnabled : BOOLEAN, bTimer2Enabled : BOOLEAN,
   bHalfFullFlush : BOOLEAN, bTXASAP : BOOLEAN, bTXASAPWithoutTimerReset : BOOLEAN,
   bFINSent : BOOLEAN, bRXNoneACKed1 : BOOLEAN, bRXNoneACKed2 : BOOLEAN, out : Segments]

\* A segment has bytes that were put, m of them so far.
Right(d, m) ==
  /\ d \in Segment /\ d.seq \in Nat /\ d.seq + Len(d.bytes) <= m
  /\ \A k \in 1 .. Len(d.bytes) : d.bytes[k] = d.seq + k

\* The FIFO has the bytes that are not acknowledged, from number b + 1 on, up to those that
\* were put last, and the pointers are where they belong.
Lay(s, b, m) ==
  /\ b \in Nat /\ m \in Nat /\ s.MySEQ \in b .. m /\ m - b < TxSize
  /\ s.txTail = At(TxSize, b) /\ s.txUnackedTail = At(TxSize, s.MySEQ)
  /\ s.txHead = At(TxSize, m) /\ Has(s.txBuf, TxSize, b, m)

\* With the timer off nothing is in flight.
Sound(s, b, m) ==
  /\ s \in Sender /\ Lay(s, b, m) /\ (~s.bTimerEnabled => s.MySEQ = b)
  /\ \A i \in DOMAIN s.out : Right(s.out[i], m)

\* The last byte there is room for, as S believes.
Edge(s) == s.MySEQ + s.remoteWindow

LEMMA Sizes ==
  /\ TxSize \in Nat \ {0, 1} /\ RxSize \in Nat \ {0, 1} /\ RemoteMSS \in Nat \ {0}
  /\ WordSize \in Nat \ {0} /\ TxSize + RxSize < WordSize /\ MaxPut \in Nat \ {0}
  /\ TCP_MAX_RETRIES \in Nat /\ MaxBytes \in Nat
  BY StreamAssumption DEF StreamAssumption

LEMMA LowerIs ==
  ASSUME NEW a \in Int, NEW c \in Int
  PROVE  /\ Lower(a, c) \in Int /\ Lower(a, c) <= a /\ Lower(a, c) <= c
         /\ Lower(a, c) \in {a, c}
  BY DEF Lower

LEMMA Counts ==
  ASSUME NEW s, NEW b, NEW m, Lay(s, b, m)
  PROVE  /\ InFlight(s) = s.MySEQ - b /\ Unsent(s) = m - s.MySEQ
         /\ TCPIsPutReady(s) = TxSize - 1 - (m - b)
<1>1. PICK n \in Nat \ {0, 1} : n = TxSize
  BY Sizes
<1>2. PICK q \in Nat, a \in Nat, c \in Nat :
        q = s.MySEQ /\ a = b /\ c = m /\ a <= q /\ q <= c /\ c - a < n
  BY <1>1 DEF Lay
<1>3. Between(At(n, a), At(n, q), n) = q - a
  <2>1. a <= q /\ q - a < n
    BY <1>2
  <2> QED
    BY <2>1, Ahead
<1>4. Between(At(n, q), At(n, c), n) = c - q
  <2>1. q <= c /\ c - q < n
    BY <1>2
  <2> QED
    BY <2>1, Ahead
<1>5. Between(At(n, c) + 1, At(n, a), n) = n - 1 - (c - a)
  <2>1. Between(At(n, c) + 1, At(n, a), n) = (a - c - 1) % n
    BY Distance DEF Between
  <2>2. PICK d \in Int, r \in 0 .. n - 1, k \in Int :
          d = a - c - 1 /\ r = n - 1 - (c - a) /\ k = -1 /\ d = n * k + r
    BY <1>2
  <2>3. d % n = r
    BY <2>2, RemainderIs
  <2> QED
    BY <2>1, <2>2, <2>3
<1> QED
  BY <1>1, <1>2, <1>3, <1>4, <1>5 DEF Lay, InFlight, Unsent, TCPIsPutReady

LEMMA Wraps ==
  ASSUME NEW a \in Nat, NEW d \in Nat
  PROVE  Wrap(At(TxSize, a) + d) = At(TxSize, a + d)
<1>1. PICK n \in Nat \ {0, 1}, c \in Nat : n = TxSize /\ c = a + d /\ d = c - a /\ a <= c
  BY Sizes
<1>2. ((At(n, a) + (c - a) - 1) % n) + 1 = At(n, c) /\ At(n, a) \in Nat
  BY <1>1, Onwards, AtIsNat
<1>3. At(n, a) + (c - a) - 1 = At(n, a) + d - 1
  BY <1>1, <1>2
<1> QED
  BY <1>1, <1>2, <1>3 DEF Wrap

\* The bytes that a segment takes from the FIFO.
LEMMA TakenRight ==
  ASSUME NEW n \in Nat \ {0, 1}, NEW buf \in [1 .. n -> Nat], NEW q \in Nat, NEW len \in Nat,
         NEW b \in Nat, b <= q, NEW m \in Nat, q + len <= m, Has(buf, n, b, m)
  PROVE  Numbered(Part(buf, At(n, q), len), q, len)
<1>1. PICK c \in Nat : c = q + len
  OBVIOUS
<1>2. Has(buf, n, q, c)
  BY <1>1 DEF Has
<1> QED
  BY <1>1, <1>2, PartGives

\* SendTCP takes what it sends from the window.
LEMMA SendCountedIs ==
  ASSUME NEW s, NEW b, NEW m, Sound(s, b, m), NEW reset \in BOOLEAN
  PROVE  /\ Sound(SendCounted(s, reset), b, m) /\ Edge(SendCounted(s, reset)) = Edge(s)
         /\ SendCounted(s, reset).retryCount \in {0, s.retryCount}
<1>1. /\ s \in Sender /\ Lay(s, b, m) /\ (~s.bTimerEnabled => s.MySEQ = b)
      /\ \A i \in DOMAIN s.out : Right(s.out[i], m)
  BY DEF Sound
<1>2. PICK n \in Nat \ {0, 1} : n = TxSize
  BY Sizes
<1>3. PICK q \in Nat : q = s.MySEQ /\ b \in Nat /\ m \in Nat /\ b <= q /\ q <= m /\ m - b < n
  BY <1>1, <1>2 DEF Lay
<1>4. PICK w \in Nat : w = s.remoteWindow /\ w <= WordSize - 1
  BY <1>1, Sizes DEF Sender, Windows
<1>5. PICK len \in Nat : len = Lower(Lower(Unsent(s), s.remoteWindow), RemoteMSS)
                         /\ len <= m - q /\ len <= w
  <2>1. Unsent(s) = m - q
    BY <1>1, <1>3, Counts
  <2>2. PICK u \in Nat, mss \in Nat : u = m - q /\ mss = RemoteMSS
    BY <1>3, Sizes
  <2>3. PICK room \in Int : room = Lower(u, w) /\ room <= u /\ room <= w /\ room \in {u, w}
    BY DEF Lower
  <2>4. PICK len \in Int : len = Lower(room, mss) /\ len <= room /\ len \in {room, mss}
    BY DEF Lower
  <2> QED
    BY <1>4, <2>1, <2>2, <2>3, <2>4
<1>8. q + len <= m
  BY <1>3, <1>5
<1>6. PICK part : part = Part(s.txBuf, s.txUnackedTail, len)
  OBVIOUS
<1>7. part \in Seq(Nat) /\ Len(part) = len /\ \A j \in 1 .. len : part[j] = q + j
  <2>1. s.txBuf \in [1 .. n -> Nat] /\ s.txUnackedTail = At(n, q) /\ Has(s.txBuf, n, b, m)
    BY <1>1, <1>2, <1>3 DEF Lay, Sender, TxBuffer
  <2>2. Numbered(Part(s.txBuf, At(n, q), len), q, len)
    BY <1>3, <1>8, <2>1, TakenRight
  <2> QED
    BY <1>6, <2>1, <2>2 DEF Numbered
<1>9. PICK d : d = [seq |-> q, bytes |-> part]
  OBVIOUS
<1>10. d \in Segment /\ Right(d, m)
  BY <1>3, <1>5, <1>7, <1>9 DEF Right, Segment
<1>11. PICK t : t = SendCounted(s, reset)
  OBVIOUS
<1>12. PICK o : o = Append(s.out, d)
  OBVIOUS
<1>13. s.out \in Seq(Segment) /\ o \in Seq(Segment) /\ \A i \in DOMAIN o : Right(o[i], m)
  <2>1. s.out \in Seq(Segment)
    BY <1>1 DEF Sender, Segments
  <2> QED
    BY <1>1, <1>10, <1>12, <2>1
<1>14. Wrap(s.txUnackedTail + len) = At(TxSize, q + len)
  BY <1>1, <1>3, Wraps DEF Lay
<1>15. /\ t.MySEQ = q + len /\ t.remoteWindow = w - len /\ t.txUnackedTail = At(TxSize, q + len)
       /\ t.txTail = s.txTail /\ t.txHead = s.txHead /\ t.txBuf = s.txBuf /\ t.out = o
       /\ t.bTimerEnabled = (s.bTimerEnabled \/ len > 0) /\ t.retryCount \in {0, s.retryCount}
       /\ t \in Sender
  <2>1. PICK r, x :
          /\ r = (IF len > 0 /\ reset THEN 0 ELSE s.retryCount)
          /\ x = (Lower(Unsent(s), s.remoteWindow) > RemoteMSS)
          /\ t = [s EXCEPT !.txUnackedTail = Wrap(s.txUnackedTail + len), !.MySEQ = s.MySEQ + len,
                        !.remoteWindow = s.remoteWindow - len,
                        !.bTimerEnabled = s.bTimerEnabled \/ len > 0,
                        !.retryCount = r, !.bTimer2Enabled = FALSE, !.bHalfFullFlush = FALSE,
                        !.bTXASAP = FALSE, !.bTXASAPWithoutTimerReset = x,
                        !.out = Append(s.out, [seq |-> s.MySEQ, bytes |-> part])]
    BY <1>5, <1>6, <1>11, ZenonT(60) DEF SendCounted
  <2>2. At(TxSize, q + len) \in Int
    <3>1. PICK c \in Nat : c = q + len
      OBVIOUS
    <3>2. At(n, c) \in Nat
      BY AtIsNat
    <3> QED
      BY <1>2, <3>1, <3>2
  <2>3. r \in {0, s.retryCount} /\ x \in BOOLEAN /\ r \in Retries
    BY <1>1, <2>1, Sizes DEF Sender, Retries
  <2>4. q + len \in Int /\ w - len \in 0 .. WordSize - 1
    BY <1>3, <1>4, <1>5, Sizes
  <2>5. (s.bTimerEnabled \/ len > 0) \in BOOLEAN
    OBVIOUS
  <2>6. PICK p \in Int, k \in Int, l \in Windows, e \in BOOLEAN :
          p = At(TxSize, q + len) /\ k = q + len /\ l = w - len /\ e = (s.bTimerEnabled \/ len > 0)
    BY <2>2, <2>4 DEF Windows
  <2>7. t = [s EXCEPT !.txUnackedTail = p, !.MySEQ = k, !.remoteWindow = l,
                      !.bTimerEnabled = e, !.retryCount = r, !.bTimer2Enabled = FALSE,
                      !.bHalfFullFlush = FALSE, !.bTXASAP = FALSE,
                      !.bTXASAPWithoutTimerReset = x, !.out = o]
    BY <1>3, <1>4, <1>9, <1>12, <1>14, <2>1, <2>6
  <2>8. s \in Sender /\ o \in Segments
    BY <1>1, <1>13 DEF Segments
  <2>9. x \in BOOLEAN /\ r \in Retries
    BY <2>3
  <2>10. t \in Sender
    BY <2>7, <2>8, <2>9, ZenonT(60) DEF Sender
  <2>11. t.MySEQ = k /\ t.remoteWindow = l /\ t.txUnackedTail = p /\ t.out = o
    BY <2>7, <2>8 DEF Sender
  <2>12. t.txTail = s.txTail /\ t.txHead = s.txHead /\ t.txBuf = s.txBuf
    BY <2>7, <2>8 DEF Sender
  <2>13. t.bTimerEnabled = e /\ t.retryCount = r
    BY <2>7, <2>8 DEF Sender
  <2> QED
    BY <2>3, <2>6, <2>10, <2>11, <2>12, <2>13
<1>16. Lay(t, b, m)
  BY <1>1, <1>3, <1>5, <1>15 DEF Lay
<1>17. ~t.bTimerEnabled => t.MySEQ = b
  <2> SUFFICES ASSUME ~t.bTimerEnabled PROVE t.MySEQ = b
    OBVIOUS
  <2>1. ~s.bTimerEnabled /\ ~(len > 0)
    BY <1>15, Zenon
  <2> QED
    BY <1>1, <1>3, <1>5, <1>15, <2>1
<1>18. q + len + (w - len) = q + w
  BY <1>3, <1>4, <1>5
<1> QED
  BY <1>3, <1>4, <1>11, <1>13, <1>15, <1>16, <1>17, <1>18 DEF Sound, Edge

LEMMA SendIs ==
  ASSUME NEW s, NEW b, NEW m, Sound(s, b, m), NEW reset \in BOOLEAN
  PROVE  Sound(SendTCP(s, reset), b, m) /\ Edge(SendTCP(s, reset)) = Edge(s)
<1>1. PICK t : t = SendCounted(s, reset) /\ Sound(t, b, m) /\ Edge(t) = Edge(s)
  BY SendCountedIs
<1>2. t \in Sender
  BY <1>1 DEF Sound
<1>3. PICK r \in 0 .. TCP_MAX_RETRIES : SendTCP(s, reset) = [t EXCEPT !.retryCount = r]
  <2>1. SendTCP(s, reset) = [t EXCEPT !.retryCount =
          IF BareAck(s) /\ s.bTimerEnabled /\ ~reset /\ t.retryCount > 0 THEN t.retryCount - 1
          ELSE t.retryCount]
    BY <1>1 DEF SendTCP
  <2>2. t.retryCount \in 0 .. TCP_MAX_RETRIES
    BY <1>2 DEF Sender, Retries
  <2>3. t.retryCount > 0 => t.retryCount - 1 \in 0 .. TCP_MAX_RETRIES
    BY <2>2, Sizes
  <2> QED
    BY <2>1, <2>2, <2>3
<1>4. PICK u : u = [t EXCEPT !.retryCount = r]
  OBVIOUS
<1>5. /\ u \in Sender /\ u.MySEQ = t.MySEQ /\ u.remoteWindow = t.remoteWindow
      /\ u.txTail = t.txTail /\ u.txHead = t.txHead /\ u.txUnackedTail = t.txUnackedTail
      /\ u.txBuf = t.txBuf /\ u.out = t.out /\ u.bTimerEnabled = t.bTimerEnabled
  <2>1. r \in Retries
    BY DEF Retries
  <2> QED
    BY <1>2, <1>3, <1>4, <2>1 DEF Sender
<1> QED
  BY <1>1, <1>3, <1>4, <1>5 DEF Sound, Lay, Edge

LEMMA FlushIs ==
  ASSUME NEW s, NEW b, NEW m, Sound(s, b, m)
  PROVE  Sound(TCPFlush(s), b, m) /\ Edge(TCPFlush(s)) = Edge(s)
  BY SendIs DEF TCPFlush

LEMMA RewindIs ==
  ASSUME NEW s, NEW b, NEW m, Sound(s, b, m)
  PROVE  /\ Sound(Rewind(s), b, m) /\ Rewind(s).MySEQ = b
         /\ Rewind(s).remoteWindow = s.remoteWindow
<1>1. s \in Sender /\ Lay(s, b, m)
  BY DEF Sound
<1>2. PICK t : t = Rewind(s)
  OBVIOUS
<1>3. InFlight(s) = s.MySEQ - b /\ s.MySEQ \in Int /\ b \in Nat
  <2>1. InFlight(s) = s.MySEQ - b
    BY <1>1, Counts
  <2> QED
    BY <1>1, <2>1 DEF Sender, Lay
<1>4. t = [s EXCEPT !.MySEQ = s.MySEQ - InFlight(s), !.txUnackedTail = s.txTail]
  BY <1>2 DEF Rewind
<1>5. s.MySEQ - InFlight(s) = b
  BY <1>3
<1>6. /\ t \in Sender /\ t.MySEQ = b /\ t.remoteWindow = s.remoteWindow
      /\ t.txTail = s.txTail /\ t.txHead = s.txHead /\ t.txUnackedTail = s.txTail
      /\ t.txBuf = s.txBuf /\ t.out = s.out /\ t.bTimerEnabled = s.bTimerEnabled
  <2>1. t = [s EXCEPT !.MySEQ = b, !.txUnackedTail = s.txTail]
    BY <1>4, <1>5
  <2>2. b \in Int /\ s.txTail \in Int
    BY <1>1, <1>3 DEF Sender
  <2> QED
    BY <1>1, <2>1, <2>2 DEF Sender
<1>7. Lay(t, b, m)
  BY <1>1, <1>6 DEF Lay
<1> QED
  BY <1>2, <1>6, <1>7 DEF Sound

\* A retransmission takes what was in flight back into the window.
LEMMA RolledBackIs ==
  ASSUME NEW s, NEW b, NEW m, Sound(s, b, m),
         s.retryCount < TCP_MAX_RETRIES
  PROVE  /\ Sound(RolledBack(s), b, m)
         /\ Edge(s) - b < WordSize => Edge(RolledBack(s)) = Edge(s)
<1>1. PICK r : r = Rewind(s) /\ Sound(r, b, m) /\ r.MySEQ = b /\ r.remoteWindow = s.remoteWindow
  BY RewindIs
<1>2. s \in Sender /\ Lay(s, b, m) /\ r \in Sender /\ Lay(r, b, m)
  BY <1>1 DEF Sound
<1>3. InFlight(s) = s.MySEQ - b /\ s.MySEQ \in Int /\ b \in Nat /\ s.MySEQ >= b
  <2>1. InFlight(s) = s.MySEQ - b
    BY <1>2, Counts
  <2> QED
    BY <1>2, <2>1 DEF Sender, Lay
<1>4. r.retryCount = s.retryCount
  BY <1>1, <1>2 DEF Rewind, Sender
<1>5. PICK w : w = (s.remoteWindow + InFlight(s)) % WordSize
  OBVIOUS
<1>6. PICK n \in Nat \ {0} : n = WordSize
  BY Sizes
<1>7. PICK x \in Nat : x = s.remoteWindow + InFlight(s) /\ x = Edge(s) - b
  <2>1. PICK y \in Nat : y = s.remoteWindow
    BY <1>2, <1>6 DEF Sender, Windows
  <2>2. Edge(s) = s.MySEQ + y
    BY <2>1 DEF Edge
  <2> QED
    BY <1>3, <2>1, <2>2
<1>8. w \in 0 .. WordSize - 1 /\ (x < WordSize => w = x)
  <2>1. x % n \in 0 .. n - 1
    BY Remainder
  <2>2. ASSUME x < n PROVE x % n = x
    BY <2>2, Within
  <2> QED
    BY <1>5, <1>6, <1>7, <2>1, <2>2
<1>9. PICK u : u = [r EXCEPT !.retryCount = s.retryCount + 1, !.remoteWindow = w]
  OBVIOUS
<1>10. RolledBack(s) = u
  BY <1>1, <1>4, <1>5, <1>9 DEF RolledBack
<1>11. s.retryCount + 1 \in 0 .. TCP_MAX_RETRIES
  <2>1. s.retryCount \in 0 .. TCP_MAX_RETRIES /\ TCP_MAX_RETRIES \in Nat
    BY <1>2, Sizes DEF Sender, Retries
  <2> QED
    BY <2>1
<1>12. /\ u \in Sender /\ u.MySEQ = b /\ u.remoteWindow = w
       /\ u.txTail = r.txTail /\ u.txHead = r.txHead /\ u.txUnackedTail = r.txUnackedTail
       /\ u.txBuf = r.txBuf /\ u.out = r.out /\ u.bTimerEnabled = r.bTimerEnabled
  <2>1. w \in Windows /\ s.retryCount + 1 \in Retries
    BY <1>8, <1>11 DEF Windows, Retries
  <2> QED
    BY <1>1, <1>2, <1>9, <2>1 DEF Sender
<1>13. Sound(u, b, m)
  BY <1>1, <1>12 DEF Sound, Lay
<1>14. x < WordSize => Edge(u) = Edge(s)
  <2>1. Edge(u) = b + w
    BY <1>12 DEF Edge
  <2>2. Edge(s) = b + x
    <3>1. PICK y \in Int : y = s.remoteWindow
      BY <1>2, <1>6 DEF Sender, Windows
    <3>2. Edge(s) = s.MySEQ + y
      BY <3>1 DEF Edge
    <3> QED
      BY <1>3, <1>7, <3>2
  <2> QED
    BY <1>8, <2>1, <2>2
<1> QED
  BY <1>7, <1>10, <1>13, <1>14

LEMMA RetransmitIs ==
  ASSUME NEW s, NEW b, NEW m, Sound(s, b, m),
         s.retryCount < TCP_MAX_RETRIES
  PROVE  Sound(Retransmit(s), b, m)
<1>1. PICK u : u = RolledBack(s) /\ Sound(u, b, m)
  BY RolledBackIs
<1>2. Retransmit(s) = SendTCP(u, FALSE) /\ FALSE \in BOOLEAN
  BY <1>1 DEF Retransmit
<1> QED
  BY <1>1, <1>2, SendIs

\* A FIN leaves the bytes as they are.
LEMMA SendFinIs ==
  ASSUME NEW s, NEW b, NEW m, Sound(s, b, m), NEW reset \in BOOLEAN
  PROVE  Sound(SendFin(s, reset), b, m) /\ Edge(SendFin(s, reset)) = Edge(s)
<1>1. CASE Unsent(s) >= s.remoteWindow \/ Unsent(s) >= RemoteMSS
  BY <1>1, SendIs DEF SendFin
<1>2. CASE ~(Unsent(s) >= s.remoteWindow \/ Unsent(s) >= RemoteMSS)
  <2>1. PICK t : t = SendCounted(s, reset) /\ Sound(t, b, m) /\ Edge(t) = Edge(s)
    BY SendCountedIs
  <2>2. t \in Sender
    BY <2>1 DEF Sound
  <2>3. PICK r \in Retries :
          SendFin(s, reset) =
            [t EXCEPT !.bFINSent = TRUE, !.bTimerEnabled = TRUE, !.retryCount = r]
    <3>1. SendFin(s, reset) =
            [t EXCEPT !.bFINSent = TRUE, !.bTimerEnabled = TRUE,
                      !.retryCount = IF reset THEN 0 ELSE t.retryCount]
      BY <1>2, <2>1 DEF SendFin
    <3>2. t.retryCount \in Retries /\ 0 \in Retries
      BY <2>2, Sizes DEF Sender, Retries
    <3> QED
      BY <3>1, <3>2
  <2>4. PICK u : u = [t EXCEPT !.bFINSent = TRUE, !.bTimerEnabled = TRUE, !.retryCount = r]
    OBVIOUS
  <2>5. /\ u \in Sender /\ u.MySEQ = t.MySEQ /\ u.remoteWindow = t.remoteWindow
        /\ u.txTail = t.txTail /\ u.txHead = t.txHead /\ u.txUnackedTail = t.txUnackedTail
        /\ u.txBuf = t.txBuf /\ u.out = t.out /\ u.bTimerEnabled = TRUE
    BY <2>2, <2>4 DEF Sender
  <2> QED
    BY <2>1, <2>3, <2>4, <2>5 DEF Sound, Lay, Edge
<1> QED
  BY <1>1, <1>2

LEMMA SendAnyIs ==
  ASSUME NEW s, NEW b, NEW m, Sound(s, b, m), NEW reset \in BOOLEAN
  PROVE  Sound(Send(s, reset), b, m) /\ Edge(Send(s, reset)) = Edge(s)
  BY SendIs, SendFinIs DEF Send

\* What the lay-out does not depend on.
Alike(t, s) ==
  /\ t \in Sender /\ t.MySEQ = s.MySEQ /\ t.remoteWindow = s.remoteWindow
  /\ t.txTail = s.txTail /\ t.txHead = s.txHead /\ t.txUnackedTail = s.txUnackedTail
  /\ t.txBuf = s.txBuf /\ t.out = s.out /\ t.bTimerEnabled = s.bTimerEnabled

LEMMA AlikeIs ==
  ASSUME NEW s, NEW t, NEW b, NEW m, Sound(s, b, m), Alike(t, s)
  PROVE  Sound(t, b, m) /\ Edge(t) = Edge(s)
  BY DEF Sound, Lay, Edge, Alike

LEMMA StillRight ==
  ASSUME NEW d, NEW m \in Nat, NEW e \in Nat, m <= e, Right(d, m)
  PROVE  Right(d, e)
<1>1. d.seq \in Nat /\ d.bytes \in Seq(Nat) /\ d.seq + Len(d.bytes) <= m
  BY DEF Right, Segment
<1>2. PICK q \in Nat, len \in Nat : q = d.seq /\ len = Len(d.bytes) /\ q + len <= m
  BY <1>1, LenProperties
<1>3. q + len <= e
  BY <1>2
<1> QED
  BY <1>2, <1>3 DEF Right

\* What TCPPutArray does before and when the bytes go in.
PutHalf(s) ==
  IF ~s.bHalfFullFlush /\ TCPIsPutReady(s) <= TxSize \div 2
  THEN [TCPFlush(s) EXCEPT !.bHalfFullFlush = TRUE] ELSE s
Filled(a, n) ==
  [a EXCEPT !.txBuf = Fill(@, a.txHead, [k \in 1 .. n |-> sent + k]), !.txHead = Wrap(@ + n)]

LEMMA PutBy ==
  ASSUME NEW s, NEW len, NEW n, NEW w, w = Filled(PutHalf(s), n)
  PROVE  TCPPutArray(s, len, n) = IF TCPIsPutReady(s) = 0 THEN TCPFlush(s)
                                  ELSE IF TCPIsPutReady(s) <= len THEN TCPFlush(w)
                                  ELSE [w EXCEPT !.bTimer2Enabled = TRUE]
  BY DEF TCPPutArray, PutHalf, Filled

LEMMA HalfIs ==
  ASSUME NEW s, NEW b, NEW m, Sound(s, b, m)
  PROVE  Sound(PutHalf(s), b, m) /\ Edge(PutHalf(s)) = Edge(s)
<1>1. PICK a : a = PutHalf(s)
  OBVIOUS
<1>2. CASE a = s
  BY <1>1, <1>2
<1>3. CASE a = [TCPFlush(s) EXCEPT !.bHalfFullFlush = TRUE]
  <2>1. PICK f : f = TCPFlush(s) /\ Sound(f, b, m) /\ Edge(f) = Edge(s)
    BY FlushIs
  <2>2. f \in Sender
    BY <2>1 DEF Sound
  <2>3. Alike(a, f)
    BY <1>3, <2>1, <2>2 DEF Alike, Sender
  <2> QED
    BY <1>1, <2>1, <2>3, AlikeIs
<1> QED
  BY <1>1, <1>2, <1>3 DEF PutHalf

\* Bytes that are put go behind the others.
LEMMA FilledIs ==
  ASSUME NEW a, NEW b, NEW m, Sound(a, b, m), sent = m, NEW n \in Nat,
         n <= TCPIsPutReady(a)
  PROVE  /\ Sound(Filled(a, n), b, m + n) /\ Edge(Filled(a, n)) = Edge(a)
         /\ Filled(a, n).MySEQ = a.MySEQ /\ Filled(a, n).out = a.out
         /\ Filled(a, n).retryCount = a.retryCount
         /\ Filled(a, n).vUnackedKeepalives = a.vUnackedKeepalives
         /\ m \in Nat /\ Filled(a, n) \in Sender
<1> DEFINE bytes == [k \in 1 .. n |-> sent + k]
           buf == Fill(a.txBuf, a.txHead, bytes)
           w == [a EXCEPT !.txBuf = buf, !.txHead = Wrap(a.txHead + n)]
<1>5. Filled(a, n) = w
  BY DEF Filled
<1>7. bytes = [k \in 1 .. n |-> sent + k]
  OBVIOUS
<1>10. buf = Fill(a.txBuf, a.txHead, bytes)
  OBVIOUS
<1>12. w = [a EXCEPT !.txBuf = buf, !.txHead = Wrap(a.txHead + n)]
  OBVIOUS
<1> HIDE DEF bytes, buf, w
<1>1. PICK z \in Nat \ {0, 1} : z = TxSize
  BY Sizes
<1>2. m \in Nat /\ b \in Nat /\ b <= m /\ m - b < z /\ Lay(a, b, m) /\ a \in Sender
  <2>1. Lay(a, b, m) /\ a \in Sender
    BY DEF Sound
  <2>2. PICK q \in Int : q = a.MySEQ /\ q \in b .. m
    BY <2>1 DEF Lay, Sender
  <2> QED
    BY <1>1, <2>1, <2>2 DEF Lay
<1>3. PICK free \in Int : free = TCPIsPutReady(a) /\ free = z - 1 - (m - b)
  BY <1>1, <1>2, Counts
<1>4. n <= free /\ n < z
  BY <1>2, <1>3
<1>8. Numbered(bytes, m, n)
  <2>1. bytes \in [1 .. n -> Nat] /\ \A j \in 1 .. n : bytes[j] = m + j
    BY <1>2, <1>7
  <2>2. bytes \in Seq(Nat) /\ Len(bytes) = n
    BY <2>1, BufferLen, SeqDef
  <2> QED
    BY <2>1, <2>2 DEF Numbered
<1>11. Written(buf, a.txBuf, z, m, m + n)
  <2>1. a.txBuf \in [1 .. z -> Nat] /\ a.txHead = At(z, m)
    BY <1>1, <1>2 DEF Lay, Sender, TxBuffer
  <2>0. PICK i \in Nat, k \in 0 .. z : i = m /\ k = n
    BY <1>2, <1>4
  <2>2. PICK d \in Nat, zero \in Nat : d = i + k /\ zero = 0 /\ i = i + zero
    OBVIOUS
  <2>5. At(z, i) \in Nat
    BY AtIsNat
  <2>3. At(z, i) + zero = At(z, i)
    BY <2>2, <2>5
  <2>4. Written(Fill(a.txBuf, At(z, i) + zero, bytes), a.txBuf, z, i, d)
    BY <1>8, <2>0, <2>1, <2>2, FillGives
  <2> QED
    BY <1>10, <2>0, <2>1, <2>2, <2>3, <2>4
<1>13. Wrap(a.txHead + n) = At(TxSize, m + n) /\ At(TxSize, m + n) \in Int
  <2>1. a.txHead = At(TxSize, m)
    BY <1>2 DEF Lay
  <2>2. m + n \in Nat
    BY <1>2
  <2> QED
    BY <1>1, <1>2, <2>1, <2>2, Wraps, AtIsNat
<1>14. /\ w \in Sender /\ w.MySEQ = a.MySEQ /\ w.remoteWindow = a.remoteWindow
       /\ w.txTail = a.txTail /\ w.txHead = At(TxSize, m + n) /\ w.txUnackedTail = a.txUnackedTail
       /\ w.txBuf = buf /\ w.out = a.out /\ w.bTimerEnabled = a.bTimerEnabled
       /\ w.retryCount = a.retryCount /\ w.vUnackedKeepalives = a.vUnackedKeepalives
  <2>1. buf \in TxBuffer
    BY <1>1, <1>11 DEF Written, TxBuffer
  <2> QED
    BY <1>2, <1>12, <1>13, <2>1 DEF Sender
<1>15. Has(buf, TxSize, b, m + n)
  <2>1. Has(a.txBuf, z, b, m)
    BY <1>1, <1>2 DEF Lay
  <2>0. PICK bb \in Nat, i \in Nat : bb = b /\ i = m /\ bb <= i /\ free = z - 1 - (i - bb)
    BY <1>2, <1>3
  <2>2. PICK d \in Nat : d = m + n /\ d - z <= bb /\ i <= i + z /\ d - z <= i
    BY <1>4, <2>0
  <2>3. Has(buf, z, bb, i)
    BY <1>11, <2>0, <2>1, <2>2, WrittenKeeps
  <2>4. Has(buf, z, i, d)
    BY <1>11, <2>0, <2>2, WrittenHas
  <2>5. i <= i
    BY <2>2
  <2>6. Has(buf, z, bb, d)
    BY <2>3, <2>4, <2>5, HasJoin
  <2> QED
    BY <1>1, <2>0, <2>2, <2>6
<1>16. Sound(w, b, m + n) /\ Edge(w) = Edge(a)
  <2>1. Lay(w, b, m + n)
    <3>1. PICK q \in Int : q = a.MySEQ /\ q \in b .. m
      BY <1>2 DEF Lay, Sender
    <3>2. q \in b .. m + n /\ m + n - b < TxSize /\ m + n \in Nat
      BY <1>1, <1>2, <1>3, <1>4, <3>1
    <3> QED
      BY <1>2, <1>14, <1>15, <3>1, <3>2 DEF Lay
  <2>2. ASSUME NEW i \in DOMAIN w.out PROVE Right(w.out[i], m + n)
    <3>1. Right(w.out[i], m)
      BY <1>14 DEF Sound
    <3>2. PICK x \in Nat, y \in Nat : x = m /\ y = m + n /\ x <= y
      BY <1>2
    <3> QED
      BY <3>1, <3>2, StillRight
  <2> QED
    BY <1>14, <2>1, <2>2 DEF Sound, Edge
<1> QED
  BY <1>2, <1>5, <1>14, <1>16

LEMMA PutIs ==
  ASSUME NEW s, NEW b, NEW m, Sound(s, b, m), sent = m, NEW len \in Nat \ {0},
         NEW n \in Nat, n = Lower(len, TCPIsPutReady(s)), TCPIsPutReady(s) > 0
  PROVE  /\ Sound(TCPPutArray(s, len, n), b, m + n)
         /\ Edge(TCPPutArray(s, len, n)) = Edge(s)
         /\ n <= TCPIsPutReady(PutHalf(s))
<1>1. PICK a : a = PutHalf(s)
  OBVIOUS
<1>2. Sound(a, b, m) /\ Edge(a) = Edge(s)
  BY <1>1, HalfIs
<1>3. TCPIsPutReady(a) = TCPIsPutReady(s) /\ TCPIsPutReady(s) \in Int
  <2>1. Lay(a, b, m) /\ Lay(s, b, m) /\ TxSize \in Nat
    BY <1>2, Sizes DEF Sound
  <2>2. m \in Nat /\ b \in Nat
    BY <2>1 DEF Lay
  <2> QED
    BY <2>1, <2>2, Counts
<1>4. n <= TCPIsPutReady(a)
  BY <1>3, LowerIs
<1>5. PICK w : w = Filled(a, n)
  OBVIOUS
<1>6. Sound(w, b, m + n) /\ Edge(w) = Edge(s) /\ w \in Sender
  BY <1>2, <1>4, <1>5, FilledIs
<1>7. TCPPutArray(s, len, n) = IF TCPIsPutReady(s) <= len THEN TCPFlush(w)
                               ELSE [w EXCEPT !.bTimer2Enabled = TRUE]
  BY <1>1, <1>3, <1>5, PutBy
<1>8. CASE TCPIsPutReady(s) <= len
  BY <1>1, <1>4, <1>6, <1>7, <1>8, FlushIs
<1>9. CASE ~(TCPIsPutReady(s) <= len)
  <2>1. PICK v : v = [w EXCEPT !.bTimer2Enabled = TRUE]
    OBVIOUS
  <2>2. Alike(v, w)
    BY <1>6, <2>1 DEF Alike, Sender
  <2> QED
    BY <1>1, <1>4, <1>6, <1>7, <1>9, <2>1, <2>2, AlikeIs
<1> QED
  BY <1>8, <1>9

LEMMA SamePlace ==
  ASSUME NEW n \in Nat \ {0, 1}, NEW a \in Nat, NEW c \in Nat, a <= c, c - a < n,
         At(n, a) = At(n, c)
  PROVE  a = c
<1>1. Between(At(n, a), At(n, c), n) = c - a
  BY Ahead
<1>2. a <= a /\ a - a < n /\ a - a = 0
  OBVIOUS
<1>3. Between(At(n, a), At(n, a), n) = a - a
  BY <1>2, Ahead
<1> QED
  BY <1>1, <1>2, <1>3

\* The bytes that are acknowledged leave the FIFO.
LEMMA AckedIs ==
  ASSUME NEW s, NEW b, NEW m, Sound(s, b, m), NEW d \in Nat, b + d <= m
  PROVE  /\ Sound(Acked(s, d), b + d, m) /\ Acked(s, d).MySEQ \in {s.MySEQ, b + d}
         /\ Acked(s, d).remoteWindow = s.remoteWindow
<1>1. s \in Sender /\ Lay(s, b, m) /\ (~s.bTimerEnabled => s.MySEQ = b)
  BY DEF Sound
<1>2. PICK z \in Nat \ {0, 1} : z = TxSize
  BY Sizes
<1>3. PICK q \in Nat, i \in Nat, j \in Nat :
        q = s.MySEQ /\ i = b /\ j = m /\ i <= q /\ q <= j /\ j - i < z
  BY <1>1, <1>2 DEF Lay
<1>4. PICK c \in Nat : c = i + d /\ c = b + d /\ c <= j /\ i <= c
  BY <1>3
<1>5. InFlight(s) = q - i
  BY <1>1, <1>3, Counts
<1>6. PICK p \in Int : p = At(TxSize, c) /\ p = Wrap(s.txTail + d)
  <2>1. s.txTail = At(TxSize, i)
    BY <1>1, <1>3 DEF Lay
  <2>2. Wrap(At(TxSize, i) + d) = At(TxSize, i + d)
    BY Wraps
  <2>3. At(z, c) \in Nat
    BY AtIsNat
  <2> QED
    BY <1>2, <1>4, <2>1, <2>2, <2>3
<1>7. PICK a : a = AckedOnly(s, d)
  OBVIOUS
<1>8. /\ a \in Sender /\ a.MySEQ = q /\ a.remoteWindow = s.remoteWindow
      /\ a.txTail = p /\ a.txHead = s.txHead /\ a.txUnackedTail = s.txUnackedTail
      /\ a.txBuf = s.txBuf /\ a.out = s.out /\ a.bTimerEnabled = s.bTimerEnabled
  <2>1. a = [s EXCEPT !.txTail = p, !.bHalfFullFlush = FALSE,
                      !.bRXNoneACKed1 = FALSE, !.bRXNoneACKed2 = FALSE]
    BY <1>6, <1>7 DEF AckedOnly
  <2> QED
    BY <1>1, <1>3, <2>1 DEF Sender
<1>9. Has(s.txBuf, TxSize, c, j)
  <2>1. Has(s.txBuf, z, i, j) /\ j <= j
    BY <1>1, <1>2, <1>3 DEF Lay
  <2> QED
    BY <1>2, <1>4, <2>1, HasPart
<1>10. j - c < TxSize
  BY <1>2, <1>3, <1>4
<1>11. CASE d <= InFlight(s)
  <2>1. Acked(s, d) = a
    BY <1>7, <1>11 DEF Acked
  <2>2. c <= q
    BY <1>4, <1>5, <1>11
  <2>3. Lay(a, c, j)
    BY <1>1, <1>3, <1>6, <1>8, <1>9, <1>10, <2>2 DEF Lay
  <2>4. ~s.bTimerEnabled => q = c
    BY <1>1, <1>3, <1>4, <2>2
  <2> QED
    BY <1>3, <1>4, <1>8, <2>1, <2>3, <2>4 DEF Sound
<1>12. CASE ~(d <= InFlight(s))
  <2>1. s.MySEQ + d - InFlight(s) = c
    BY <1>3, <1>4, <1>5
  <2>2. PICK t : t = [a EXCEPT !.MySEQ = c, !.txUnackedTail = p]
    OBVIOUS
  <2>3. Acked(s, d) = t
    BY <1>3, <1>7, <1>8, <1>12, <2>1, <2>2 DEF Acked
  <2>4. /\ t \in Sender /\ t.MySEQ = c /\ t.remoteWindow = s.remoteWindow
        /\ t.txTail = p /\ t.txHead = s.txHead /\ t.txUnackedTail = p
        /\ t.txBuf = s.txBuf /\ t.out = s.out /\ t.bTimerEnabled = s.bTimerEnabled
    <3>1. c \in Int
      OBVIOUS
    <3>2. /\ t \in Sender /\ t.MySEQ = c /\ t.remoteWindow = a.remoteWindow
          /\ t.txTail = a.txTail /\ t.txHead = a.txHead /\ t.txUnackedTail = p
          /\ t.txBuf = a.txBuf /\ t.out = a.out /\ t.bTimerEnabled = a.bTimerEnabled
      BY <1>8, <2>2, <3>1 DEF Sender
    <3> QED
      BY <1>8, <3>2
  <2>5. Lay(t, c, j)
    BY <1>1, <1>3, <1>4, <1>6, <1>9, <1>10, <2>4 DEF Lay
  <2> QED
    BY <1>3, <1>4, <2>3, <2>4, <2>5 DEF Sound
<1> QED
  BY <1>11, <1>12

LEMMA NoneAckedIs ==
  ASSUME NEW s, NEW b, NEW m, Sound(s, b, m)
  PROVE  /\ Sound(NoneAcked(s), b, m) /\ NoneAcked(s).MySEQ \in {s.MySEQ, b}
         /\ NoneAcked(s).remoteWindow = s.remoteWindow
<1>1. s \in Sender
  BY DEF Sound
<1>2. CASE InFlight(s) = 0
  BY <1>2 DEF NoneAcked
<1>3. CASE InFlight(s) # 0
  <2>1. PICK r : r = Rewind(s) /\ Sound(r, b, m) /\ r.MySEQ = b /\ r.remoteWindow = s.remoteWindow
    BY RewindIs
  <2>2. PICK u : u = IF s.bRXNoneACKed2 THEN [r EXCEPT !.bTXASAPWithoutTimerReset = TRUE] ELSE s
    OBVIOUS
  <2>3. Sound(u, b, m) /\ u.MySEQ \in {s.MySEQ, b} /\ u.remoteWindow = s.remoteWindow
    <3>1. PICK v : v = [r EXCEPT !.bTXASAPWithoutTimerReset = TRUE]
      OBVIOUS
    <3>2. r \in Sender
      BY <2>1 DEF Sound
    <3>3. Alike(v, r)
      BY <3>1, <3>2 DEF Alike, Sender
    <3>4. Sound(v, b, m) /\ v.MySEQ = b /\ v.remoteWindow = s.remoteWindow
      BY <2>1, <3>3, AlikeIs DEF Alike
    <3> QED
      BY <2>2, <3>1, <3>4
  <2>4. PICK t : t = [u EXCEPT !.bRXNoneACKed1 = TRUE, !.bRXNoneACKed2 = s.bRXNoneACKed1]
    OBVIOUS
  <2>5. NoneAcked(s) = t
    BY <1>3, <2>1, <2>2, <2>4 DEF NoneAcked
  <2>6. Alike(t, u)
    <3>1. u \in Sender /\ s.bRXNoneACKed1 \in BOOLEAN
      BY <1>1, <2>3 DEF Sound, Sender
    <3> QED
      BY <2>4, <3>1 DEF Alike, Sender
  <2>7. Sound(t, b, m)
    BY <2>3, <2>6, AlikeIs
  <2> QED
    BY <2>3, <2>5, <2>6, <2>7 DEF Alike
<1> QED
  BY <1>2, <1>3

\* A window that is not smaller than the one before is what S believes afterwards.
LEMMA NewWindowIs ==
  ASSUME NEW s, NEW b, NEW m, Sound(s, b, m), NEW ack \in Nat,
         NEW window \in 0 .. RxSize - 1, ack <= b
  PROVE  /\ Sound(NewWindow(s, ack, window), b, m)
         /\ s.MySEQ <= ack + window => Edge(NewWindow(s, ack, window)) = ack + window
<1>1. s \in Sender /\ Lay(s, b, m)
  BY DEF Sound
<1>2. PICK q \in Nat, i \in Nat : q = s.MySEQ /\ i = b /\ i <= q /\ ack <= i
  BY <1>1 DEF Lay
<1>3. PICK n \in Nat \ {0} : n = WordSize /\ window < n
  BY Sizes
<1>4. PICK x \in Int : x = window - (q - ack)
  OBVIOUS
<1>5. PICK w \in Windows : w = x % n /\ (x >= 0 => w = x)
  <2>1. x % n \in 0 .. n - 1
    BY Remainder
  <2>2. ASSUME x >= 0 PROVE x % n = x
    <3>1. x \in 0 .. n - 1
      BY <1>2, <1>3, <1>4, <2>2
    <3> QED
      BY <3>1, Within
  <2> QED
    BY <1>3, <2>1, <2>2 DEF Windows
<1>6. PICK e \in BOOLEAN : e = (s.bTXASAP \/ (s.remoteWindow = 0 /\ w # 0))
  OBVIOUS
<1>7. PICK t : t = [s EXCEPT !.remoteWindow = w, !.bTXASAP = e]
  OBVIOUS
<1>8. NewWindow(s, ack, window) = t
  BY <1>2, <1>3, <1>4, <1>5, <1>6, <1>7 DEF NewWindow
<1>9. /\ t \in Sender /\ t.MySEQ = s.MySEQ /\ t.remoteWindow = w
      /\ t.txTail = s.txTail /\ t.txHead = s.txHead /\ t.txUnackedTail = s.txUnackedTail
      /\ t.txBuf = s.txBuf /\ t.out = s.out /\ t.bTimerEnabled = s.bTimerEnabled
  BY <1>1, <1>7 DEF Sender
<1>10. Sound(t, b, m)
  BY <1>9 DEF Sound, Lay
<1>11. ASSUME q <= ack + window PROVE q + w = ack + window
  <2>1. x >= 0
    BY <1>4, <1>11
  <2> QED
    BY <1>4, <1>5, <2>1
<1> QED
  BY <1>2, <1>8, <1>9, <1>10, <1>11 DEF Edge

LEMMA HandleAckIs ==
  ASSUME NEW t, NEW b, NEW m, Sound(t, b, m), NEW ack \in Nat, ack <= m,
         NEW window \in 0 .. RxSize - 1
  PROVE  \E c \in {b, ack} :
           /\ Sound(HandleAck(t, ack, window), c, m)
           /\ Edge(t) <= ack + window => Edge(HandleAck(t, ack, window)) = ack + window
<1> DEFINE s == [t EXCEPT !.vUnackedKeepalives = 0]
           d == ack - (s.MySEQ - InFlight(s))
           a == IF d \in 1 .. TxSize THEN Acked(s, d) ELSE NoneAcked(s)
           e == IF a.txTail = a.txHead THEN [a EXCEPT !.bTimerEnabled = FALSE] ELSE a
<1>1. HandleAck(t, ack, window) =
        IF ack > s.MySEQ + Unsent(s) THEN SendTCP(s, FALSE) ELSE NewWindow(e, ack, window)
  BY DEF HandleAck
<1>2. Sound(s, b, m) /\ Edge(s) = Edge(t)
  <2>1. t \in Sender
    BY DEF Sound
  <2>2. Alike(s, t)
    BY <2>1 DEF Alike, Sender
  <2> HIDE DEF s
  <2> QED
    BY <2>2, AlikeIs
<1>3. d = ack - (s.MySEQ - InFlight(s))
  OBVIOUS
<1>4. a = IF d \in 1 .. TxSize THEN Acked(s, d) ELSE NoneAcked(s)
  OBVIOUS
<1>5. e = IF a.txTail = a.txHead THEN [a EXCEPT !.bTimerEnabled = FALSE] ELSE a
  OBVIOUS
<1> HIDE DEF s, d, a, e
<1>6. s \in Sender /\ Lay(s, b, m)
  BY <1>2 DEF Sound
<1>7. PICK n \in Nat \ {0, 1} : n = TxSize
  BY Sizes
<1>8. PICK q \in Nat, i \in Nat, j \in Nat :
        q = s.MySEQ /\ i = b /\ j = m /\ i <= q /\ q <= j /\ j - i < n
  BY <1>6, <1>7 DEF Lay
<1>9. InFlight(s) = q - i /\ Unsent(s) = j - q
  BY <1>6, <1>8, Counts
<1>10. d = ack - i /\ d \in Int
  BY <1>3, <1>8, <1>9
<1>11. ~(ack > s.MySEQ + Unsent(s))
  BY <1>8, <1>9
<1>12. PICK c \in Nat : /\ c \in {b, ack} /\ ack <= c /\ Sound(a, c, m)
                        /\ a.MySEQ \in {s.MySEQ, c} /\ a.remoteWindow = s.remoteWindow
                        /\ (c = b \/ c = ack)
  <2>1. CASE d \in 1 .. TxSize
    <3>1. i + d = ack /\ i + d <= j /\ d \in Nat
      BY <1>7, <1>8, <1>10, <2>1
    <3>2. /\ Sound(Acked(s, d), i + d, m) /\ Acked(s, d).MySEQ \in {s.MySEQ, i + d}
          /\ Acked(s, d).remoteWindow = s.remoteWindow
      BY <1>2, <1>8, <3>1, AckedIs
    <3> QED
      BY <1>4, <2>1, <3>1, <3>2
  <2>2. CASE ~(d \in 1 .. TxSize)
    <3>1. ack <= i
      BY <1>7, <1>8, <1>10, <2>2
    <3>2. /\ Sound(NoneAcked(s), b, m) /\ NoneAcked(s).MySEQ \in {s.MySEQ, b}
          /\ NoneAcked(s).remoteWindow = s.remoteWindow
      BY <1>2, NoneAckedIs
    <3> QED
      BY <1>4, <1>8, <2>2, <3>1, <3>2
  <2> QED
    BY <2>1, <2>2
<1>13. /\ Sound(e, c, m) /\ e.MySEQ = a.MySEQ
  <2>1. CASE a.txTail # a.txHead
    BY <1>5, <1>12, <2>1
  <2>2. CASE a.txTail = a.txHead
    <3>1. a \in Sender /\ Lay(a, c, m)
      BY <1>12 DEF Sound
    <3>2. PICK u \in Nat : u = a.MySEQ /\ c <= u /\ u <= j /\ j - c < n
      BY <1>7, <1>8, <3>1 DEF Lay
    <3>3. At(n, c) = At(n, j)
      BY <1>7, <1>8, <2>2, <3>1 DEF Lay
    <3>4. c <= j /\ j - c < n
      BY <3>2
    <3>5. c = j
      BY <3>3, <3>4, SamePlace
    <3>6. a.MySEQ = c
      BY <3>2, <3>5
    <3>7. e = [a EXCEPT !.bTimerEnabled = FALSE]
      BY <1>5, <2>2
    <3>8. /\ e \in Sender /\ e.MySEQ = a.MySEQ /\ e.remoteWindow = a.remoteWindow
          /\ e.txTail = a.txTail /\ e.txHead = a.txHead /\ e.txUnackedTail = a.txUnackedTail
          /\ e.txBuf = a.txBuf /\ e.out = a.out
      BY <3>1, <3>7 DEF Sender
    <3> QED
      BY <1>12, <3>6, <3>8 DEF Sound, Lay
  <2> QED
    BY <2>1, <2>2
<1>14. Sound(NewWindow(e, ack, window), c, m)
       /\ (e.MySEQ <= ack + window => Edge(NewWindow(e, ack, window)) = ack + window)
  BY <1>12, <1>13, NewWindowIs
<1>15. ASSUME Edge(t) <= ack + window PROVE e.MySEQ <= ack + window
  <2>1. PICK y \in Nat : y = s.remoteWindow
    BY <1>6, Sizes DEF Sender, Windows
  <2>2. q + y <= ack + window
    BY <1>2, <1>8, <1>15, <2>1 DEF Edge
  <2>3. PICK u \in Nat : u = e.MySEQ /\ (u = q \/ u = c)
    BY <1>8, <1>12, <1>13
  <2>4. c = i \/ c = ack
    BY <1>8, <1>12
  <2> QED
    BY <1>8, <2>2, <2>3, <2>4
<1>16. HandleAck(t, ack, window) = NewWindow(e, ack, window)
  BY <1>1, <1>11
<1>17. c \in {b, ack}
  BY <1>12
<1> QED
  BY <1>14, <1>15, <1>16, <1>17

LEMMA HeardIs ==
  ASSUME NEW b, NEW m, Sound(S, b, m), NEW ack \in Nat, ack <= m,
         NEW window \in 0 .. RxSize - 1
  PROVE  \E c \in {b, ack} :
           /\ Sound(Heard(ack, window), c, m)
           /\ Edge(S) <= ack + window => Edge(Heard(ack, window)) = ack + window
<1>1. PICK t : t = HandleAck(S, ack, window)
  OBVIOUS
<1>2. PICK c \in {b, ack} :
        Sound(t, c, m) /\ (Edge(S) <= ack + window => Edge(t) = ack + window)
  BY <1>1, HandleAckIs
<1>3. CASE Established
  BY <1>1, <1>2, <1>3 DEF Heard
<1>4. CASE ~Established
  <2>1. PICK u : u = [t EXCEPT !.bTimerEnabled = TRUE]
    OBVIOUS
  <2>2. Heard(ack, window) = u
    BY <1>1, <1>4, <2>1 DEF Heard
  <2>3. t \in Sender
    BY <1>2 DEF Sound
  <2>4. /\ u \in Sender /\ u.MySEQ = t.MySEQ /\ u.remoteWindow = t.remoteWindow
        /\ u.txTail = t.txTail /\ u.txHead = t.txHead /\ u.txUnackedTail = t.txUnackedTail
        /\ u.txBuf = t.txBuf /\ u.out = t.out /\ u.bTimerEnabled = TRUE
    BY <2>1, <2>3 DEF Sender
  <2>5. Sound(u, c, m) /\ Edge(u) = Edge(t)
    BY <1>2, <2>4 DEF Sound, Lay, Edge
  <2> QED
    BY <1>2, <2>2, <2>5
<1> QED
  BY <1>3, <1>4

-----------------------------------------------------------------------------
(* The receiving end.                                                       *)

Answer == [ack : Int, window : Int]
Answers == Seq(Answer)
RxBuffer == [1 .. RxSize -> Nat]
Receiver ==
  [rxHead : Int, rxTail : Int, rxBuf : RxBuffer, RemoteSEQ : Int, sHoleSize : Int,
   wFutureDataSize : Int, bOneSegmentReceived : BOOLEAN, bDelayedACKTimerEnabled : BOOLEAN,
   bTimer2Enabled : BOOLEAN, bTXASAPWithoutTimerReset : BOOLEAN, out : Answers]

\* The FIFO has the bytes that are not taken, from number g + 1 on, up to the last in sequence.
RxLay(r, g, m) ==
  /\ g \in Nat /\ m \in Nat /\ r.RemoteSEQ \in g .. m /\ r.RemoteSEQ - g < RxSize
  /\ r.rxTail = At(RxSize, g) /\ r.rxHead = At(RxSize, r.RemoteSEQ)
  /\ Has(r.rxBuf, RxSize, g, r.RemoteSEQ)

\* It has those after number x, up to y.
Run(buf, x, y, g, m) ==
  /\ x \in Nat /\ y \in Nat /\ x <= y /\ y <= m /\ y - g < RxSize
  /\ Has(buf, RxSize, x, y)

\* It has those behind the hole.
Future(r, g, m) ==
  /\ r.wFutureDataSize \in 0 .. RxSize - 1 /\ r.sHoleSize \in -1 .. RxSize - 1
  /\ r.sHoleSize # -1 =>
       /\ r.sHoleSize >= 1
       /\ Run(r.rxBuf, r.RemoteSEQ + r.sHoleSize,
              r.RemoteSEQ + r.sHoleSize + r.wFutureDataSize, g, m)

RxSound(r, g, m) == r \in Receiver /\ RxLay(r, g, m) /\ Future(r, g, m)

LEMMA RxCounts ==
  ASSUME NEW r, NEW g, NEW m, RxLay(r, g, m)
  PROVE  /\ TCPIsGetReady(r) = r.RemoteSEQ - g
         /\ FreeSpace(r) = RxSize - 1 - (r.RemoteSEQ - g)
<1>1. PICK n \in Nat \ {0, 1} : n = RxSize
  BY Sizes
<1>2. PICK h \in Nat, a \in Nat : h = r.RemoteSEQ /\ a = g /\ a <= h /\ h - a < n
  BY <1>1 DEF RxLay
<1>3. Between(At(n, a), At(n, h), n) = h - a
  <2>1. a <= h /\ h - a < n
    BY <1>2
  <2> QED
    BY <2>1, Ahead
<1> QED
  BY <1>1, <1>2, <1>3 DEF RxLay, TCPIsGetReady, FreeSpace

LEMMA RxWraps ==
  ASSUME NEW a \in Nat, NEW d \in Nat
  PROVE  RxWrap(At(RxSize, a) + d) = At(RxSize, a + d)
<1>1. PICK n \in Nat \ {0, 1}, c \in Nat : n = RxSize /\ c = a + d /\ d = c - a /\ a <= c
  BY Sizes
<1>2. ((At(n, a) + (c - a) - 1) % n) + 1 = At(n, c) /\ At(n, a) \in Nat
  BY <1>1, Onwards, AtIsNat
<1>3. At(n, a) + (c - a) - 1 = At(n, a) + d - 1
  BY <1>1, <1>2
<1> QED
  BY <1>1, <1>2, <1>3 DEF RxWrap

\* After n bytes went to the head, what was behind the hole before is joined to them.
LEMMA JoinIs ==
  ASSUME NEW r \in Receiver, NEW g, NEW m, RxLay(r, g, m), NEW n \in Nat,
         r.wFutureDataSize \in 0 .. RxSize - 1, r.sHoleSize \in -1 .. RxSize - 1,
         r.sHoleSize # -1 =>
           /\ r.sHoleSize >= 1
           /\ Run(r.rxBuf, r.RemoteSEQ - n + r.sHoleSize,
                  r.RemoteSEQ - n + r.sHoleSize + r.wFutureDataSize, g, m)
  PROVE  /\ RxSound(Join(r, n), g, m) /\ Join(r, n).RemoteSEQ >= r.RemoteSEQ
         /\ Join(r, n).out = r.out
<1>1. PICK z \in Nat \ {0, 1} : z = RxSize
  BY Sizes
<1>2. PICK h \in Nat, i \in Nat, j \in Nat :
        h = r.RemoteSEQ /\ i = g /\ j = m /\ i <= h /\ h <= j /\ h - i < z
  BY <1>1 DEF RxLay
<1>3. PICK s \in Int, f \in Nat :
        s = r.sHoleSize /\ f = r.wFutureDataSize /\ s >= -1 /\ s < z /\ f < z
  BY <1>1
<1>4. PICK hole \in Int, more \in Int : hole = s - n /\ more = f + hole
  OBVIOUS
<1>5. CASE s = -1
  <2>1. Join(r, n) = r
    BY <1>3, <1>5 DEF Join
  <2>2. r.sHoleSize = -1
    BY <1>3, <1>5
  <2>3. Future(r, g, m)
    BY <2>2 DEF Future
  <2>4. r.RemoteSEQ >= r.RemoteSEQ
    BY <1>2
  <2> QED
    BY <2>1, <2>3, <2>4 DEF RxSound
<1>6. CASE s # -1 /\ more < 0
  <2>1. PICK t : t = [r EXCEPT !.sHoleSize = -1]
    OBVIOUS
  <2>2. Join(r, n) = t
    BY <1>3, <1>4, <1>6, <2>1 DEF Join
  <2>3. /\ t \in Receiver /\ t.rxHead = r.rxHead /\ t.rxTail = r.rxTail /\ t.rxBuf = r.rxBuf
        /\ t.RemoteSEQ = r.RemoteSEQ /\ t.sHoleSize = -1
        /\ t.wFutureDataSize = r.wFutureDataSize /\ t.out = r.out
    BY <2>1 DEF Receiver
  <2>4. RxLay(t, g, m)
    BY <2>3 DEF RxLay
  <2>5. Future(t, g, m)
    BY <1>1, <2>3 DEF Future
  <2> QED
    BY <1>2, <2>2, <2>3, <2>4, <2>5 DEF RxSound
<1>7. CASE s # -1 /\ ~(more < 0) /\ hole <= 0
  <2>1. PICK p \in Int : p = RxWrap(r.rxHead + more) /\ p = At(RxSize, h + more)
    <3>1. PICK d \in Nat, c \in Nat : d = more /\ c = h + d
      BY <1>7
    <3>2. r.rxHead = At(RxSize, h)
      BY <1>2 DEF RxLay
    <3>3. RxWrap(At(RxSize, h) + d) = At(RxSize, h + d)
      BY RxWraps
    <3>4. At(z, c) \in Nat
      BY AtIsNat
    <3> QED
      BY <1>1, <3>1, <3>2, <3>3, <3>4
  <2>2. PICK x \in Nat, y \in Nat : /\ x = h - n + s /\ y = h + more /\ x <= h /\ h <= y
                                    /\ Run(r.rxBuf, x, y, g, m)
    <3>1. PICK x \in Int, y \in Int : x = h - n + s /\ y = h - n + s + f
      OBVIOUS
    <3>2. Run(r.rxBuf, x, y, g, m)
      BY <1>2, <1>3, <1>7, <3>1
    <3>3. x \in Nat /\ y \in Nat
      BY <3>2 DEF Run
    <3>4. y = h + more /\ x <= h /\ h <= y
      BY <1>4, <1>7, <3>1
    <3> QED
      BY <3>1, <3>2, <3>3, <3>4
  <2>3. PICK t : t = [r EXCEPT !.RemoteSEQ = y, !.rxHead = p, !.sHoleSize = -1]
    OBVIOUS
  <2>4. Join(r, n) = t
    BY <1>2, <1>3, <1>4, <1>7, <2>1, <2>2, <2>3 DEF Join
  <2>5. /\ t \in Receiver /\ t.rxHead = p /\ t.rxTail = r.rxTail /\ t.rxBuf = r.rxBuf
        /\ t.RemoteSEQ = y /\ t.sHoleSize = -1
        /\ t.wFutureDataSize = r.wFutureDataSize /\ t.out = r.out
    <3>1. PICK u \in Int, v \in Int : u = y /\ v = -1
      OBVIOUS
    <3>2. t = [r EXCEPT !.RemoteSEQ = u, !.rxHead = p, !.sHoleSize = v]
      BY <2>3, <3>1
    <3>3. t \in Receiver
      BY <3>2 DEF Receiver
    <3>4. /\ t.rxHead = p /\ t.rxTail = r.rxTail /\ t.rxBuf = r.rxBuf
          /\ t.RemoteSEQ = u /\ t.sHoleSize = v
          /\ t.wFutureDataSize = r.wFutureDataSize /\ t.out = r.out
      BY <3>2 DEF Receiver
    <3> QED
      BY <3>1, <3>3, <3>4
  <2>6. Has(r.rxBuf, z, i, y)
    <3>1. Has(r.rxBuf, z, i, h) /\ Has(r.rxBuf, z, x, y)
      BY <1>1, <1>2, <2>2 DEF RxLay, Run
    <3> QED
      BY <2>2, <3>1, HasJoin
  <2>7. y <= j /\ y - i < z
    BY <1>1, <1>2, <2>2 DEF Run
  <2>8. RxLay(t, g, m)
    <3>1. y \in i .. j
      BY <1>2, <2>2, <2>7
    <3> QED
      BY <1>1, <1>2, <2>1, <2>2, <2>5, <2>6, <2>7, <3>1 DEF RxLay
  <2>9. Future(t, g, m)
    BY <1>1, <2>5 DEF Future
  <2> QED
    BY <1>2, <2>2, <2>4, <2>5, <2>8, <2>9 DEF RxSound
<1>8. CASE s # -1 /\ ~(more < 0) /\ hole > 0
  <2>1. PICK t : t = [r EXCEPT !.sHoleSize = hole]
    OBVIOUS
  <2>2. Join(r, n) = t
    BY <1>3, <1>4, <1>8, <2>1 DEF Join
  <2>3. /\ t \in Receiver /\ t.rxHead = r.rxHead /\ t.rxTail = r.rxTail /\ t.rxBuf = r.rxBuf
        /\ t.RemoteSEQ = r.RemoteSEQ /\ t.sHoleSize = hole
        /\ t.wFutureDataSize = r.wFutureDataSize /\ t.out = r.out
    BY <2>1 DEF Receiver
  <2>4. RxLay(t, g, m)
    BY <2>3 DEF RxLay
  <2>5. Run(r.rxBuf, h + hole, h + hole + f, g, m)
    <3>1. h - n + s = h + hole /\ h - n + s + f = h + hole + f
      BY <1>4
    <3> QED
      BY <1>2, <1>3, <1>8, <3>1
  <2>6. hole \in -1 .. z - 1 /\ hole >= 1
    BY <1>3, <1>4, <1>8
  <2>7. Future(t, g, m)
    BY <1>1, <1>2, <1>3, <2>3, <2>5, <2>6 DEF Future
  <2> QED
    BY <1>2, <2>2, <2>3, <2>4, <2>7 DEF RxSound
<1> QED
  BY <1>5, <1>6, <1>7, <1>8

LEMMA SubNumbered ==
  ASSUME NEW bytes, NEW a \in Nat, NEW len \in Nat, Numbered(bytes, a, len),
         NEW i \in Nat, NEW j \in Nat, 1 <= i, i <= j, j <= len,
         NEW c \in Nat, c = a + i - 1, NEW n \in Nat, n = j - i + 1
  PROVE  Numbered(SubSeq(bytes, i, j), c, n)
<1>1. bytes \in Seq(Nat) /\ Len(bytes) = len /\ \A k \in 1 .. len : bytes[k] = a + k
  BY DEF Numbered
<1>2. i \in 1 .. Len(bytes) + 1 /\ j \in i - 1 .. Len(bytes)
  BY <1>1
<1>3. /\ SubSeq(bytes, i, j) \in Seq(Nat) /\ Len(SubSeq(bytes, i, j)) = j - i + 1
      /\ \A k \in 1 .. j - i + 1 : SubSeq(bytes, i, j)[k] = bytes[i + k - 1]
  BY <1>1, <1>2, SubSeqProperties
<1>4. PICK s : s = SubSeq(bytes, i, j)
  OBVIOUS
<1>5. ASSUME NEW k \in 1 .. n PROVE s[k] = c + k
  <2>1. s[k] = bytes[i + k - 1]
    BY <1>3, <1>4
  <2>2. PICK l \in 1 .. len : l = i + k - 1
    OBVIOUS
  <2>3. bytes[l] = a + l
    BY <1>1
  <2> QED
    BY <2>1, <2>2, <2>3
<1> QED
  BY <1>3, <1>4, <1>5 DEF Numbered

\* Bytes written to their places.
LEMMA WriteIs ==
  ASSUME NEW r, NEW g, NEW m, RxSound(r, g, m), NEW k \in Nat, NEW n \in Nat,
         NEW bytes, Numbered(bytes, r.RemoteSEQ + k, n),
         k + n <= FreeSpace(r), r.RemoteSEQ + k + n <= m
  PROVE  LET buf == Fill(r.rxBuf, r.rxHead + k, bytes)
         IN /\ buf \in RxBuffer /\ Has(buf, RxSize, g, r.RemoteSEQ)
            /\ Run(buf, r.RemoteSEQ + k, r.RemoteSEQ + k + n, g, m)
            /\ r.sHoleSize # -1 =>
                 Run(buf, r.RemoteSEQ + r.sHoleSize,
                     r.RemoteSEQ + r.sHoleSize + r.wFutureDataSize, g, m)
<1>1. r \in Receiver /\ RxLay(r, g, m) /\ Future(r, g, m)
  BY DEF RxSound
<1>2. PICK z \in Nat \ {0, 1} : z = RxSize
  BY Sizes
<1>3. PICK h \in Nat, i \in Nat, j \in Nat :
        h = r.RemoteSEQ /\ i = g /\ j = m /\ i <= h /\ h <= j /\ h - i < z
  BY <1>1, <1>2 DEF RxLay
<1>4. FreeSpace(r) = z - 1 - (h - i)
  BY <1>1, <1>2, <1>3, RxCounts
<1>5. PICK c \in Nat, d \in Nat :
        /\ c = h + k /\ d = c + n /\ d <= j /\ d - i < z /\ n \in 0 .. z
        /\ c = r.RemoteSEQ + k /\ d = r.RemoteSEQ + k + n
  BY <1>3, <1>4
<1>6. PICK buf : buf = Fill(r.rxBuf, r.rxHead + k, bytes)
  OBVIOUS
<1>7. Written(buf, r.rxBuf, z, c, d)
  <2>1. r.rxBuf \in [1 .. z -> Nat] /\ r.rxHead = At(z, h)
    BY <1>1, <1>2, <1>3 DEF RxLay, Receiver, RxBuffer
  <2>2. Numbered(bytes, c, n)
    BY <1>5
  <2>3. Written(Fill(r.rxBuf, At(z, h) + k, bytes), r.rxBuf, z, c, d)
    BY <1>5, <2>1, <2>2, FillGives
  <2> QED
    BY <1>6, <2>1, <2>3
<1>8. buf \in RxBuffer
  BY <1>2, <1>7 DEF Written, RxBuffer
<1>9. Has(buf, z, i, h)
  <2>1. Has(r.rxBuf, z, i, h)
    BY <1>1, <1>2, <1>3 DEF RxLay
  <2>2. d - z <= i /\ h <= c + z
    BY <1>5
  <2> QED
    BY <1>7, <2>1, <2>2, WrittenKeeps
<1>10. Run(buf, c, d, g, m)
  <2>1. d - z <= c
    BY <1>3, <1>5
  <2>2. Has(buf, z, c, d)
    BY <1>7, <2>1, WrittenHas
  <2>3. c <= d
    BY <1>5
  <2> QED
    BY <1>2, <1>3, <1>5, <2>2, <2>3 DEF Run
<1>11. ASSUME NEW x, NEW y, Run(r.rxBuf, x, y, g, m), i <= x PROVE Run(buf, x, y, g, m)
  <2>1. PICK u \in Nat, v \in Nat :
          u = x /\ v = y /\ u <= v /\ v - i < z /\ i <= u /\ Has(r.rxBuf, z, u, v)
    BY <1>2, <1>3, <1>11 DEF Run
  <2>2. d - z <= u /\ v <= c + z
    BY <1>3, <1>5, <2>1
  <2>3. Has(buf, z, u, v)
    BY <1>7, <2>1, <2>2, WrittenKeeps
  <2> QED
    BY <1>2, <1>11, <2>1, <2>3 DEF Run
<1>12. ASSUME r.sHoleSize # -1
       PROVE  Run(buf, r.RemoteSEQ + r.sHoleSize,
                  r.RemoteSEQ + r.sHoleSize + r.wFutureDataSize, g, m)
  <2>1. PICK x, y : x = r.RemoteSEQ + r.sHoleSize
                    /\ y = r.RemoteSEQ + r.sHoleSize + r.wFutureDataSize
    OBVIOUS
  <2>2. Run(r.rxBuf, x, y, g, m)
    BY <1>1, <1>12, <2>1 DEF Future
  <2>3. i <= x
    <3>1. PICK s \in Int : s = r.sHoleSize /\ s >= 1
      BY <1>1, <1>12 DEF Future, Receiver
    <3> QED
      BY <1>3, <2>1, <3>1
  <2> QED
    BY <1>11, <2>1, <2>2, <2>3
<1> QED
  BY <1>2, <1>3, <1>5, <1>6, <1>8, <1>9, <1>10, <1>12

\* Bytes in sequence.
LEMMA InSequenceIs ==
  ASSUME NEW r, NEW g, NEW m, RxSound(r, g, m), NEW seq \in Nat,
         NEW bytes, NEW len \in Nat, Numbered(bytes, seq, len), seq + len <= m,
         NEW missing \in Int, missing = seq - r.RemoteSEQ, missing <= 0, missing + len > 0,
         FreeSpace(r) > 0
  PROVE  /\ RxSound(InSequence(r, bytes, missing), g, m)
         /\ InSequence(r, bytes, missing).RemoteSEQ >= r.RemoteSEQ
         /\ InSequence(r, bytes, missing).out = r.out
         /\ \A k \in Nat : k <= seq + len /\ k <= g + RxSize - 1 =>
              k <= InSequence(r, bytes, missing).RemoteSEQ
<1> DEFINE n == Lower(Len(bytes) + missing, FreeSpace(r))
           new == SubSeq(bytes, 1 - missing, n - missing)
           t == [r EXCEPT !.RemoteSEQ = @ + n, !.rxBuf = Fill(@, r.rxHead, new),
                          !.rxHead = RxWrap(@ + n)]
<1>1. InSequence(r, bytes, missing) = Join(t, n)
  BY DEF InSequence
<1>2. t = [r EXCEPT !.RemoteSEQ = r.RemoteSEQ + n, !.rxBuf = Fill(r.rxBuf, r.rxHead, new),
                    !.rxHead = RxWrap(r.rxHead + n)]
  OBVIOUS
<1>3. n = Lower(Len(bytes) + missing, FreeSpace(r)) /\ new = SubSeq(bytes, 1 - missing, n - missing)
  OBVIOUS
<1> HIDE DEF n, new, t
<1>4. r \in Receiver /\ RxLay(r, g, m) /\ Future(r, g, m)
  BY DEF RxSound
<1>5. PICK z \in Nat \ {0, 1} : z = RxSize
  BY Sizes
<1>6. PICK h \in Nat, i \in Nat, j \in Nat :
        h = r.RemoteSEQ /\ i = g /\ j = m /\ i <= h /\ h <= j /\ h - i < z
  BY <1>4, <1>5 DEF RxLay
<1>7. PICK free \in Int : free = FreeSpace(r) /\ free = z - 1 - (h - i) /\ free > 0
  BY <1>4, <1>5, <1>6, RxCounts
<1>8. PICK k \in Nat : /\ k = n /\ k >= 1 /\ k <= len + missing /\ k <= free
                       /\ k = len + missing \/ k = free
  <2>1. PICK l \in Int : l = len + missing /\ l >= 1
    OBVIOUS
  <2>2. Len(bytes) = len
    BY DEF Numbered
  <2>3. n = Lower(l, free)
    BY <1>3, <1>7, <2>1, <2>2
  <2>4. n \in {l, free} /\ n <= l /\ n <= free
    BY <2>3, LowerIs
  <2> QED
    BY <1>7, <2>1, <2>4
<1>9. missing = seq - h
  BY <1>6
<1>10. Numbered(new, h, k)
  <2>1. PICK a \in Nat, b \in Nat : a = 1 - missing /\ b = k - missing
    OBVIOUS
  <2>2. 1 <= a /\ a <= b /\ b <= len /\ h = seq + a - 1 /\ k = b - a + 1
    BY <1>8, <1>9, <2>1
  <2>3. Numbered(SubSeq(bytes, a, b), h, k)
    BY <2>2, SubNumbered
  <2> QED
    BY <1>3, <1>8, <2>1, <2>3
<1>11. PICK e \in Nat : e = h + k /\ e <= j /\ e - i < z
  BY <1>6, <1>7, <1>8, <1>9
<1>12. PICK buf : buf = Fill(r.rxBuf, r.rxHead, new)
  OBVIOUS
<1>13. /\ buf \in RxBuffer /\ Has(buf, z, i, h) /\ Run(buf, h, e, g, m)
       /\ r.sHoleSize # -1 => Run(buf, h + r.sHoleSize,
                                  h + r.sHoleSize + r.wFutureDataSize, g, m)
  <2>1. PICK o \in Nat : o = 0 /\ h = h + o
    OBVIOUS
  <2>2. r.rxHead + o = r.rxHead
    BY <1>4, <2>1 DEF Receiver
  <2>3. Numbered(new, r.RemoteSEQ + o, k) /\ o + k <= FreeSpace(r) /\ r.RemoteSEQ + o + k <= m
    BY <1>6, <1>7, <1>8, <1>10, <1>11, <2>1
  <2>4. PICK b : b = Fill(r.rxBuf, r.rxHead + o, new)
    OBVIOUS
  <2>5. /\ b \in RxBuffer /\ Has(b, RxSize, g, r.RemoteSEQ)
        /\ Run(b, r.RemoteSEQ + o, r.RemoteSEQ + o + k, g, m)
        /\ r.sHoleSize # -1 => Run(b, r.RemoteSEQ + r.sHoleSize,
                                   r.RemoteSEQ + r.sHoleSize + r.wFutureDataSize, g, m)
    BY <2>3, <2>4, WriteIs
  <2>6. r.RemoteSEQ + o = h /\ r.RemoteSEQ + o + k = e
    BY <1>6, <1>11, <2>1
  <2> QED
    BY <1>5, <1>6, <1>12, <2>2, <2>4, <2>5, <2>6
<1>14. PICK p \in Int : p = RxWrap(r.rxHead + n) /\ p = At(z, e)
  <2>1. r.rxHead = At(RxSize, h)
    BY <1>4, <1>6 DEF RxLay
  <2>2. RxWrap(At(RxSize, h) + k) = At(RxSize, h + k)
    BY RxWraps
  <2>3. At(z, e) \in Nat
    BY AtIsNat
  <2> QED
    BY <1>5, <1>8, <1>11, <2>1, <2>2, <2>3
<1>15. t = [r EXCEPT !.RemoteSEQ = e, !.rxBuf = buf, !.rxHead = p]
  BY <1>2, <1>6, <1>8, <1>11, <1>12, <1>14
<1>16. /\ t \in Receiver
       /\ t.RemoteSEQ = e /\ t.rxBuf = buf /\ t.rxHead = p /\ t.rxTail = r.rxTail
       /\ t.sHoleSize = r.sHoleSize /\ t.wFutureDataSize = r.wFutureDataSize /\ t.out = r.out
  <2>1. PICK u \in Int : u = e
    OBVIOUS
  <2>2. t = [r EXCEPT !.RemoteSEQ = u, !.rxBuf = buf, !.rxHead = p]
    BY <1>15, <2>1
  <2>3. r \in Receiver /\ buf \in RxBuffer
    BY <1>4, <1>13
  <2>4. t \in Receiver
    BY <2>2, <2>3 DEF Receiver
  <2>5. /\ t.RemoteSEQ = u /\ t.rxBuf = buf /\ t.rxHead = p /\ t.rxTail = r.rxTail
        /\ t.sHoleSize = r.sHoleSize /\ t.wFutureDataSize = r.wFutureDataSize /\ t.out = r.out
    BY <2>2, <2>3 DEF Receiver
  <2> QED
    BY <2>1, <2>4, <2>5
<1>17. RxLay(t, g, m)
  <2>1. Has(buf, z, h, e)
    BY <1>5, <1>13 DEF Run
  <2>2. h <= h
    OBVIOUS
  <2>3. Has(buf, z, i, e)
    BY <1>13, <2>1, <2>2, HasJoin
  <2>4. e \in i .. j
    BY <1>6, <1>8, <1>11
  <2>5. t.rxTail = At(RxSize, g)
    BY <1>4, <1>16 DEF RxLay
  <2> QED
    BY <1>5, <1>6, <1>11, <1>14, <1>16, <2>3, <2>4, <2>5 DEF RxLay
<1>18. ASSUME t.sHoleSize # -1
       PROVE  /\ t.sHoleSize >= 1
              /\ Run(t.rxBuf, t.RemoteSEQ - k + t.sHoleSize,
                     t.RemoteSEQ - k + t.sHoleSize + t.wFutureDataSize, g, m)
  <2>1. PICK s \in Int, f \in Int : s = r.sHoleSize /\ f = r.wFutureDataSize
    BY <1>4 DEF Receiver
  <2>2. s >= 1
    BY <1>4, <1>16, <1>18, <2>1 DEF Future
  <2>3. Run(buf, h + s, h + s + f, g, m)
    BY <1>13, <1>16, <1>18, <2>1
  <2>4. e - k + s = h + s /\ e - k + s + f = h + s + f
    BY <1>11
  <2> QED
    BY <1>16, <2>1, <2>2, <2>3, <2>4
<1>19. t.wFutureDataSize \in 0 .. RxSize - 1 /\ t.sHoleSize \in -1 .. RxSize - 1
  BY <1>4, <1>16 DEF Future
<1>20. /\ RxSound(Join(t, k), g, m) /\ Join(t, k).RemoteSEQ >= t.RemoteSEQ
       /\ Join(t, k).out = t.out
  BY <1>16, <1>17, <1>18, <1>19, JoinIs
<1>21. PICK v \in Int : v = Join(t, k).RemoteSEQ
  BY <1>20 DEF RxSound, Receiver
<1>22. ASSUME NEW x \in Nat, x <= seq + len, x <= g + RxSize - 1 PROVE x <= v
  <2>1. x <= e
    BY <1>5, <1>6, <1>7, <1>8, <1>9, <1>11, <1>22
  <2>2. e <= v
    BY <1>16, <1>20, <1>21
  <2> QED
    BY <1>11, <1>21, <2>1, <2>2
<1> QED
  BY <1>1, <1>6, <1>8, <1>11, <1>16, <1>20, <1>21, <1>22

\* Bytes after a hole.
LEMMA OutOfSequenceIs ==
  ASSUME NEW r, NEW g, NEW m, RxSound(r, g, m), NEW seq \in Nat,
         NEW bytes, NEW len \in Nat, Numbered(bytes, seq, len), seq + len <= m, len > 0,
         NEW missing \in Int, missing = seq - r.RemoteSEQ, missing > 0,
         missing < FreeSpace(r)
  PROVE  /\ RxSound(OutOfSequence(r, bytes, missing), g, m)
         /\ OutOfSequence(r, bytes, missing).RemoteSEQ = r.RemoteSEQ
         /\ OutOfSequence(r, bytes, missing).out = r.out
<1> DEFINE n == Lower(Len(bytes), FreeSpace(r) - missing)
           end == missing + n
           known == r.sHoleSize + r.wFutureDataSize
           buf == Fill(r.rxBuf, r.rxHead + missing, SubSeq(bytes, 1, n))
           filled == [r EXCEPT !.rxBuf = buf]
           fut == IF end > known \/ end < r.sHoleSize THEN n ELSE known - missing
<1>1. OutOfSequence(r, bytes, missing) =
        IF r.sHoleSize = -1
        THEN [filled EXCEPT !.sHoleSize = missing, !.wFutureDataSize = n]
        ELSE IF missing < r.sHoleSize
        THEN [filled EXCEPT !.sHoleSize = missing, !.wFutureDataSize = fut]
        ELSE IF end > known /\ missing <= known
        THEN [filled EXCEPT !.wFutureDataSize = end - r.sHoleSize]
        ELSE filled
  BY DEF OutOfSequence
<1>2. filled = [r EXCEPT !.rxBuf = buf]
  OBVIOUS
<1>3. /\ n = Lower(Len(bytes), FreeSpace(r) - missing) /\ end = missing + n
      /\ known = r.sHoleSize + r.wFutureDataSize
      /\ buf = Fill(r.rxBuf, r.rxHead + missing, SubSeq(bytes, 1, n))
      /\ fut = IF end > known \/ end < r.sHoleSize THEN n ELSE known - missing
  OBVIOUS
<1> HIDE DEF n, end, known, buf, filled, fut
<1>4. r \in Receiver /\ RxLay(r, g, m) /\ Future(r, g, m)
  BY DEF RxSound
<1>5. PICK z \in Nat \ {0, 1} : z = RxSize
  BY Sizes
<1>6. PICK h \in Nat, i \in Nat, j \in Nat :
        h = r.RemoteSEQ /\ i = g /\ j = m /\ i <= h /\ h <= j /\ h - i < z
  BY <1>4, <1>5 DEF RxLay
<1>7. PICK free \in Int : free = FreeSpace(r) /\ free = z - 1 - (h - i) /\ missing < free
  BY <1>4, <1>5, <1>6, RxCounts
<1>8. PICK k \in Nat : k = n /\ k >= 1 /\ k <= len /\ k <= free - missing
  <2>1. PICK l \in Int : l = free - missing /\ l >= 1
    BY <1>7
  <2>2. Len(bytes) = len
    BY DEF Numbered
  <2>3. n = Lower(len, l)
    BY <1>3, <1>7, <2>1, <2>2
  <2>4. n \in {len, l} /\ n <= len /\ n <= l
    BY <2>3, LowerIs
  <2> QED
    BY <2>1, <2>4
<1>9. missing = seq - h
  BY <1>6
<1>10. PICK a \in Nat, e \in Nat :
         /\ a = missing /\ e = a + k /\ end = e /\ a >= 1 /\ e <= free /\ h + e <= j
         /\ e < z /\ h + e - i < z
  <2>1. PICK a \in Nat : a = missing /\ a >= 1 /\ a = seq - h
    BY <1>9
  <2>2. PICK e \in Nat : e = a + k /\ end = e
    BY <1>3, <1>8, <2>1
  <2>3. e <= free /\ h + e <= seq + len
    BY <1>8, <2>1, <2>2
  <2>4. h + e <= j /\ e < z /\ h + e - i < z
    BY <1>6, <1>7, <2>3
  <2> QED
    BY <2>1, <2>2, <2>3, <2>4
<1>11. Numbered(SubSeq(bytes, 1, k), seq, k)
  <2>1. PICK o \in Nat : o = 1
    OBVIOUS
  <2>2. 1 <= o /\ o <= k /\ k <= len /\ seq = seq + o - 1 /\ k = k - o + 1
    BY <1>8, <2>1
  <2>3. Numbered(SubSeq(bytes, o, k), seq, k)
    BY <2>2, SubNumbered
  <2> QED
    BY <2>1, <2>3
<1>12. PICK x \in Nat, y \in Nat : x = h + a /\ y = h + e /\ x = seq /\ x <= y
  BY <1>9, <1>10
<1>13. /\ buf \in RxBuffer /\ Has(buf, z, i, h) /\ Run(buf, x, y, g, m)
       /\ r.sHoleSize # -1 => Run(buf, h + r.sHoleSize,
                                  h + r.sHoleSize + r.wFutureDataSize, g, m)
  <2>1. /\ Numbered(SubSeq(bytes, 1, k), r.RemoteSEQ + a, k) /\ a + k <= FreeSpace(r)
        /\ r.RemoteSEQ + a + k <= m
    BY <1>6, <1>7, <1>10, <1>11, <1>12
  <2>2. PICK b : b = Fill(r.rxBuf, r.rxHead + a, SubSeq(bytes, 1, k))
    OBVIOUS
  <2>3. /\ b \in RxBuffer /\ Has(b, RxSize, g, r.RemoteSEQ)
        /\ Run(b, r.RemoteSEQ + a, r.RemoteSEQ + a + k, g, m)
        /\ r.sHoleSize # -1 => Run(b, r.RemoteSEQ + r.sHoleSize,
                                   r.RemoteSEQ + r.sHoleSize + r.wFutureDataSize, g, m)
    BY <2>1, <2>2, WriteIs
  <2>4. r.RemoteSEQ + a = x /\ r.RemoteSEQ + a + k = y
    BY <1>6, <1>10, <1>12
  <2>5. b = buf
    BY <1>3, <1>8, <1>10, <2>2
  <2> QED
    BY <1>5, <1>6, <2>3, <2>4, <2>5
<1>14. /\ filled \in Receiver /\ filled.rxBuf = buf /\ filled.RemoteSEQ = r.RemoteSEQ
       /\ filled.rxHead = r.rxHead /\ filled.rxTail = r.rxTail
       /\ filled.sHoleSize = r.sHoleSize /\ filled.wFutureDataSize = r.wFutureDataSize
       /\ filled.out = r.out
  BY <1>2, <1>4, <1>13 DEF Receiver
\* What becomes of the run behind the hole.
<1> DEFINE Fits(p, q) == /\ p \in -1 .. z - 1 /\ q \in 0 .. z - 1
                         /\ p # -1 => p >= 1 /\ Run(buf, h + p, h + p + q, g, m)
           Becomes(w, p, q) == w = [filled EXCEPT !.sHoleSize = p, !.wFutureDataSize = q]
           Good(w) == RxSound(w, g, m) /\ w.RemoteSEQ = r.RemoteSEQ /\ w.out = r.out
<1>15. ASSUME NEW p \in Int, NEW q \in Int, NEW w, Becomes(w, p, q), Fits(p, q)
       PROVE  Good(w)
  <2>1. /\ w \in Receiver /\ w.rxBuf = filled.rxBuf /\ w.RemoteSEQ = filled.RemoteSEQ
        /\ w.rxHead = filled.rxHead /\ w.rxTail = filled.rxTail /\ w.sHoleSize = p
        /\ w.wFutureDataSize = q /\ w.out = filled.out
    BY <1>14, <1>15 DEF Receiver
  <2>2. RxLay(w, g, m)
    BY <1>4, <1>5, <1>6, <1>13, <1>14, <2>1 DEF RxLay
  <2>3. Future(w, g, m)
    BY <1>5, <1>6, <1>14, <1>15, <2>1 DEF Future
  <2> QED
    BY <1>14, <2>1, <2>2, <2>3 DEF RxSound
<1> HIDE DEF Fits, Becomes, Good
<1>16. PICK s \in Int, f \in Nat :
         s = r.sHoleSize /\ f = r.wFutureDataSize /\ s >= -1 /\ s < z /\ f < z
         /\ known = s + f
  <2>1. r.wFutureDataSize \in 0 .. z - 1 /\ r.sHoleSize \in -1 .. z - 1
    BY <1>4, <1>5 DEF Future
  <2>2. PICK s \in Int, f \in Int : s = r.sHoleSize /\ f = r.wFutureDataSize
    BY <2>1
  <2>3. s >= -1 /\ s < z /\ f >= 0 /\ f < z
    BY <2>1, <2>2
  <2>4. known = s + f /\ f \in Nat
    BY <1>3, <2>2, <2>3
  <2> QED
    BY <2>2, <2>3, <2>4
<1>17. ASSUME s # -1
       PROVE  s >= 1 /\ s + f < z /\ h + s + f <= j /\ h + s + f - i < z
              /\ Run(buf, h + s, h + s + f, g, m) /\ Has(buf, z, h + s, h + s + f)
  <2>1. s >= 1 /\ Run(buf, h + s, h + s + f, g, m)
    BY <1>4, <1>13, <1>16, <1>17 DEF Future
  <2>2. h + s + f <= j /\ h + s + f - i < z /\ Has(buf, z, h + s, h + s + f)
    BY <1>5, <1>6, <2>1 DEF Run
  <2> QED
    BY <1>6, <1>16, <2>1, <2>2
<1>18. CASE s = -1
  <2>1. PICK t : t = [filled EXCEPT !.sHoleSize = a, !.wFutureDataSize = k]
    OBVIOUS
  <2>2. OutOfSequence(r, bytes, missing) = t
    BY <1>1, <1>8, <1>10, <1>16, <1>18, <2>1
  <2>3. Run(buf, h + a, h + a + k, g, m) /\ a \in -1 .. z - 1 /\ a >= 1 /\ k \in 0 .. z - 1
    BY <1>6, <1>10, <1>12, <1>13
  <2>4. Fits(a, k) /\ Becomes(t, a, k)
    BY <2>1, <2>3 DEF Fits, Becomes
  <2>5. a \in Int /\ k \in Int
    OBVIOUS
  <2>6. Good(t)
    BY <1>15, <2>4, <2>5
  <2> QED
    BY <2>2, <2>6 DEF Good
<1>19. CASE s # -1 /\ a < s
  <2>1. PICK l \in Nat : l = fut /\ l < z /\ Run(buf, x, x + l, g, m)
    <3>1. CASE e > s + f \/ e < s
      <4>1. fut = k
        BY <1>3, <1>8, <1>10, <1>16, <3>1
      <4>2. x + k = y /\ k < z
        BY <1>10, <1>12
      <4> QED
        BY <1>13, <4>1, <4>2
    <3>2. CASE ~(e > s + f \/ e < s)
      <4>1. PICK l \in Nat : l = s + f - a /\ l < z
        BY <1>10, <1>17, <1>19, <3>2
      <4>2. fut = l
        <5>1. ~(end > known \/ end < r.sHoleSize)
          BY <1>10, <1>16, <3>2
        <5>2. fut = known - missing
          BY <1>3, <5>1
        <5> QED
          BY <1>10, <1>16, <4>1, <5>2
      <4>3. PICK u \in Nat, v \in Nat : u = h + s /\ v = h + s + f /\ u <= y /\ y <= v /\ v = x + l
        BY <1>12, <1>17, <1>19, <3>2, <4>1
      <4>4. Has(buf, z, x, y) /\ Has(buf, z, u, v)
        BY <1>5, <1>13, <1>17, <1>19, <4>3 DEF Run
      <4>5. Has(buf, z, x, v)
        BY <4>3, <4>4, HasJoin
      <4>6. v <= j /\ v - i < z /\ x <= v
        BY <1>12, <1>17, <1>19, <4>3
      <4>7. Run(buf, x, v, g, m)
        BY <1>5, <1>6, <4>5, <4>6 DEF Run
      <4> QED
        BY <4>1, <4>2, <4>3, <4>7
    <3> QED
      BY <3>1, <3>2
  <2>2. PICK t : t = [filled EXCEPT !.sHoleSize = a, !.wFutureDataSize = l]
    OBVIOUS
  <2>3. OutOfSequence(r, bytes, missing) = t
    BY <1>1, <1>10, <1>16, <1>19, <2>1, <2>2
  <2>4. Run(buf, h + a, h + a + l, g, m) /\ a \in -1 .. z - 1 /\ a >= 1 /\ l \in 0 .. z - 1
    BY <1>10, <1>12, <2>1
  <2>5. Fits(a, l) /\ Becomes(t, a, l)
    BY <2>2, <2>4 DEF Fits, Becomes
  <2>6. a \in Int /\ l \in Int
    OBVIOUS
  <2>7. Good(t)
    BY <1>15, <2>5, <2>6
  <2> QED
    BY <2>3, <2>7 DEF Good
<1>20. CASE s # -1 /\ ~(a < s) /\ e > s + f /\ a <= s + f
  <2>1. PICK l \in Nat : l = e - s /\ l < z
    BY <1>10, <1>16, <1>17, <1>20
  <2>2. PICK t : t = [filled EXCEPT !.wFutureDataSize = l]
    OBVIOUS
  <2>3. OutOfSequence(r, bytes, missing) = t
    BY <1>1, <1>10, <1>16, <1>20, <2>1, <2>2
  <2>4. PICK u \in Nat, v \in Nat : u = h + s /\ v = h + s + f /\ x <= v /\ u <= y /\ y = u + l
    BY <1>12, <1>17, <1>20, <2>1
  <2>5. Has(buf, z, x, y) /\ Has(buf, z, u, v)
    BY <1>5, <1>13, <1>17, <1>20, <2>4 DEF Run
  <2>6. Has(buf, z, u, y)
    BY <2>4, <2>5, HasJoin
  <2>7. y <= j /\ y - i < z
    BY <1>10, <1>12
  <2>8. Run(buf, u, y, g, m)
    BY <1>5, <1>6, <2>4, <2>6, <2>7 DEF Run
  <2>9. t = [filled EXCEPT !.sHoleSize = s, !.wFutureDataSize = l]
    BY <1>14, <1>16, <2>2 DEF Receiver
  <2>10. Run(buf, h + s, h + s + l, g, m) /\ s \in -1 .. z - 1 /\ s >= 1 /\ l \in 0 .. z - 1
    BY <1>16, <1>17, <1>20, <2>1, <2>4, <2>8
  <2>11. Fits(s, l) /\ Becomes(t, s, l)
    BY <2>9, <2>10 DEF Fits, Becomes
  <2>12. l \in Int
    OBVIOUS
  <2>13. Good(t)
    BY <1>15, <2>11, <2>12
  <2> QED
    BY <2>3, <2>13 DEF Good
<1>21. CASE s # -1 /\ ~(a < s) /\ ~(e > s + f /\ a <= s + f)
  <2>1. OutOfSequence(r, bytes, missing) = filled
    BY <1>1, <1>10, <1>16, <1>21
  <2>2. PICK t : t = [filled EXCEPT !.sHoleSize = s, !.wFutureDataSize = f]
    OBVIOUS
  <2>3. t = filled
    BY <1>14, <1>16, <2>2 DEF Receiver
  <2>4. Run(buf, h + s, h + s + f, g, m) /\ s \in -1 .. z - 1 /\ s >= 1 /\ f \in 0 .. z - 1
    BY <1>16, <1>17, <1>21
  <2>5. Fits(s, f) /\ Becomes(t, s, f)
    BY <2>2, <2>4 DEF Fits, Becomes
  <2>6. f \in Int
    OBVIOUS
  <2>7. Good(t)
    BY <1>15, <2>5, <2>6
  <2> QED
    BY <2>1, <2>3, <2>7 DEF Good
<1>22. s = -1 \/ (s # -1 /\ a < s) \/ (s # -1 /\ ~(a < s) /\ e > s + f /\ a <= s + f)
       \/ (s # -1 /\ ~(a < s) /\ ~(e > s + f /\ a <= s + f))
  OBVIOUS
<1> QED
  BY <1>18, <1>19, <1>20, <1>21, <1>22

RxAlike(t, r) ==
  /\ t \in Receiver /\ t.RemoteSEQ = r.RemoteSEQ /\ t.rxBuf = r.rxBuf
  /\ t.rxHead = r.rxHead /\ t.rxTail = r.rxTail
  /\ t.sHoleSize = r.sHoleSize /\ t.wFutureDataSize = r.wFutureDataSize

LEMMA RxAlikeIs ==
  ASSUME NEW r, NEW t, NEW g, NEW m, RxSound(r, g, m), RxAlike(t, r)
  PROVE  RxSound(t, g, m)
  BY DEF RxSound, RxLay, Future, RxAlike

\* What R answers: how far it has come, and how much room it has.
Replies(out, h, g, mac) ==
  \/ out = <<>>
  \/ \E a \in Answer :
       /\ out = <<a>> /\ a.ack = h /\ a.window \in 0 .. RxSize - 1
       /\ mac = RxSize => a.ack + a.window = g + RxSize - 1

LEMMA SendAckIs ==
  ASSUME NEW r, NEW g, NEW m, RxSound(r, g, m), r.out = <<>>,
         NEW mac \in 0 .. RxSize
  PROVE  /\ RxSound(SendAck(r, mac), g, m) /\ SendAck(r, mac).RemoteSEQ = r.RemoteSEQ
         /\ Replies(SendAck(r, mac).out, r.RemoteSEQ, g, mac) /\ SendAck(r, mac).out # <<>>
<1>1. r \in Receiver /\ RxLay(r, g, m)
  BY DEF RxSound
<1>2. PICK z \in Nat \ {0, 1} : z = RxSize
  BY Sizes
<1>3. PICK h \in Nat, i \in Nat : h = r.RemoteSEQ /\ i = g /\ i <= h /\ h - i < z
  BY <1>1, <1>2 DEF RxLay
<1>4. FreeSpace(r) = z - 1 - (h - i)
  BY <1>1, <1>2, <1>3, RxCounts
<1>5. PICK w \in 0 .. z - 1 : w = Lower(FreeSpace(r), mac) /\ (mac = z => h + w = i + z - 1)
  <2>0. z - 1 - (h - i) \in Nat
    <3>1. PICK u \in Int : u = h - i /\ u < z
      BY <1>3
    <3>2. z - 1 - u \in Int /\ z - 1 - u >= 0
      BY <3>1
    <3> QED
      BY <3>1, <3>2
  <2>1. PICK free \in Nat : free = z - 1 - (h - i)
    BY <2>0
  <2>5. h + free = i + z - 1
    BY <2>1
  <2>6. i <= h
    BY <1>3
  <2>7. free <= z - 1
    BY <2>1, <2>6
  <2>2. free <= z - 1 /\ h + free = i + z - 1
    BY <2>5, <2>7
  <2>3. PICK w \in Int : w = Lower(free, mac) /\ w >= 0 /\ w <= free /\ (mac = z => w = free)
    <3>1. PICK k \in Nat : k = mac
      BY <1>2
    <3>2. Lower(free, k) \in Nat /\ Lower(free, k) <= free /\ (k = z => Lower(free, k) = free)
      BY <2>2, <3>1 DEF Lower
    <3> QED
      BY <3>1, <3>2
  <2>4. w \in 0 .. z - 1 /\ (mac = z => h + w = i + z - 1)
    BY <2>2, <2>3
  <2> QED
    BY <1>4, <2>1, <2>3, <2>4
<1>6. PICK a : a = [ack |-> h, window |-> w]
  OBVIOUS
<1>7. a \in Answer /\ a.ack = h /\ a.window = w
  BY <1>6 DEF Answer
<1>8. Append(r.out, a) = <<a>> /\ <<a>> \in Answers
  <2>1. r.out = <<>>
    OBVIOUS
  <2> QED
    BY <1>7, <2>1 DEF Answers
<1>9. PICK o \in Answers : o = <<a>>
  BY <1>8
<1>10. PICK t : t = [r EXCEPT !.bTimer2Enabled = FALSE, !.bDelayedACKTimerEnabled = FALSE,
                     !.bOneSegmentReceived = FALSE, !.bTXASAPWithoutTimerReset = FALSE,
                     !.out = o]
  OBVIOUS
<1>11. SendAck(r, mac) = t
  <2>1. PICK q : q = Append(r.out, [ack |-> r.RemoteSEQ, window |-> Lower(FreeSpace(r), mac)])
    OBVIOUS
  <2>2. q = o
    BY <1>3, <1>5, <1>6, <1>8, <1>9, <2>1
  <2>3. SendAck(r, mac) =
          [r EXCEPT !.bTimer2Enabled = FALSE, !.bDelayedACKTimerEnabled = FALSE,
                    !.bOneSegmentReceived = FALSE, !.bTXASAPWithoutTimerReset = FALSE,
                    !.out = q]
    BY <2>1 DEF SendAck
  <2> QED
    BY <1>10, <2>2, <2>3
<1>12. RxAlike(t, r) /\ t.out = o
  BY <1>1, <1>10 DEF RxAlike, Receiver
<1>13. Replies(o, h, g, mac)
  <2>1. a.window \in 0 .. RxSize - 1
    BY <1>2, <1>7
  <2>2. mac = RxSize => a.ack + a.window = g + RxSize - 1
    BY <1>2, <1>3, <1>5, <1>7
  <2> QED
    BY <1>7, <1>9, <2>1, <2>2 DEF Replies
<1>14. o # <<>>
  BY <1>7, <1>9
<1> QED
  BY <1>3, <1>11, <1>12, <1>13, <1>14, RxAlikeIs DEF RxAlike

\* A segment has the byte with number k.
Holds(d, k) == d.seq < k /\ k <= d.seq + Len(d.bytes)

\* R is about to answer.
Answering(r) == r.bTXASAPWithoutTimerReset \/ r.bTimer2Enabled \/ r.bDelayedACKTimerEnabled

\* R, which was r, answers a segment with bytes, and has those that it has room for.
Heeds(t, r, d, g) ==
  /\ d.bytes # <<>> \/ Answering(r) => Answering(t) \/ t.out # <<>>
  /\ d.seq <= r.RemoteSEQ =>
       \A k \in Nat : Holds(d, k) /\ k <= g + RxSize - 1 => k <= t.RemoteSEQ

LEMMA HandleDataIs ==
  ASSUME NEW r, NEW g, NEW m, RxSound(r, g, m), r.out = <<>>,
         NEW mac \in 0 .. RxSize, NEW d,
         Right(d, m) \/ (d \in Segment /\ d.bytes # <<>> /\ d.seq + Len(d.bytes) <= r.RemoteSEQ)
  PROVE  /\ RxSound(HandleData(r, d.seq, d.bytes, mac), g, m)
         /\ HandleData(r, d.seq, d.bytes, mac).RemoteSEQ >= r.RemoteSEQ
         /\ Replies(HandleData(r, d.seq, d.bytes, mac).out,
                    HandleData(r, d.seq, d.bytes, mac).RemoteSEQ, g, mac)
         /\ Heeds(HandleData(r, d.seq, d.bytes, mac), r, d, g)
<1>1. PICK seq, bytes : seq = d.seq /\ bytes = d.bytes
  OBVIOUS
<1> DEFINE missing == seq - r.RemoteSEQ
           a == IF missing <= 0 THEN InSequence(r, bytes, missing)
                ELSE OutOfSequence(r, bytes, missing)
           H == HandleData(r, seq, bytes, mac)
<1>2. H = IF ~Acceptable(r, Len(bytes), missing) THEN SendAck(r, mac)
          ELSE IF bytes = <<>> THEN r
          ELSE IF r.bOneSegmentReceived THEN SendAck(a, mac)
          ELSE [a EXCEPT !.bOneSegmentReceived = TRUE, !.bDelayedACKTimerEnabled = TRUE]
  BY DEF HandleData
<1>3. missing = seq - r.RemoteSEQ
  OBVIOUS
<1>4. a = IF missing <= 0 THEN InSequence(r, bytes, missing)
          ELSE OutOfSequence(r, bytes, missing)
  OBVIOUS
<1>5. H = HandleData(r, d.seq, d.bytes, mac)
  BY <1>1
<1> HIDE DEF missing, a, H
<1>6. r \in Receiver /\ RxLay(r, g, m)
  BY DEF RxSound
<1>7. PICK h \in Nat : h = r.RemoteSEQ
  BY <1>6 DEF RxLay
<1>8. seq \in Int /\ bytes \in Seq(Nat)
  BY <1>1 DEF Right, Segment
<1>9. PICK len \in Nat : len = Len(bytes)
  BY <1>8, LenProperties
<1>10. missing \in Int /\ missing = seq - h
  BY <1>3, <1>7, <1>8
<1>14. PICK z \in Nat \ {0, 1}, i \in Nat :
         z = RxSize /\ i = g /\ i <= h /\ h - i < z /\ FreeSpace(r) = z - 1 - (h - i)
  <2>1. PICK z \in Nat \ {0, 1} : z = RxSize
    BY Sizes
  <2>2. PICK i \in Nat : i = g /\ i <= h /\ h - i < z
    BY <1>6, <1>7, <2>1 DEF RxLay
  <2>3. FreeSpace(r) = RxSize - 1 - (r.RemoteSEQ - g)
    BY <1>6, RxCounts
  <2> QED
    BY <1>7, <2>1, <2>2, <2>3
<1>15. ASSUME NEW k \in Nat, Holds(d, k), d.seq <= r.RemoteSEQ, k <= g + RxSize - 1, k > h
       PROVE  Acceptable(r, Len(bytes), missing) /\ bytes # <<>> /\ missing <= 0 /\ k <= seq + len
  <2>1. seq < k /\ k <= seq + len /\ seq <= h /\ k <= i + z - 1
    BY <1>1, <1>7, <1>9, <1>14, <1>15 DEF Holds
  <2>2. len > 0 /\ missing <= 0 /\ missing + len > 0
    BY <1>8, <1>10, <1>15, <2>1
  <2>3. z - 1 - (h - i) > 0
    BY <1>14, <1>15, <2>1
  <2>4. FreeSpace(r) > 0 /\ missing < FreeSpace(r)
    BY <1>10, <1>14, <2>2, <2>3
  <2>5. bytes # <<>>
    BY <1>9, <2>2
  <2> QED
    BY <1>9, <2>1, <2>2, <2>4, <2>5 DEF Acceptable
<1>11. CASE ~Acceptable(r, Len(bytes), missing)
  <2>1. H = SendAck(r, mac)
    BY <1>2, <1>11
  <2>2. /\ RxSound(SendAck(r, mac), g, m) /\ SendAck(r, mac).RemoteSEQ = r.RemoteSEQ
        /\ Replies(SendAck(r, mac).out, r.RemoteSEQ, g, mac) /\ SendAck(r, mac).out # <<>>
    BY SendAckIs
  <2>3. r.RemoteSEQ >= r.RemoteSEQ
    BY <1>7
  <2>4. Heeds(SendAck(r, mac), r, d, g)
    <3>1. ASSUME NEW k \in Nat, Holds(d, k), d.seq <= r.RemoteSEQ, k <= g + RxSize - 1
          PROVE  k <= h
      BY <1>11, <1>15, <3>1
    <3> QED
      BY <1>7, <2>2, <3>1 DEF Heeds
  <2> QED
    BY <1>5, <2>1, <2>2, <2>3, <2>4
<1>12. CASE Acceptable(r, Len(bytes), missing) /\ bytes = <<>>
  <2>1. H = r
    BY <1>2, <1>12
  <2>2. r.RemoteSEQ >= r.RemoteSEQ
    BY <1>7
  <2>3. Heeds(r, r, d, g)
    <3>1. ASSUME NEW k \in Nat, Holds(d, k), d.seq <= r.RemoteSEQ, k <= g + RxSize - 1
          PROVE  k <= h
      BY <1>12, <1>15, <3>1
    <3> QED
      BY <1>1, <1>7, <1>12, <3>1 DEF Heeds
  <2> QED
    BY <1>5, <2>1, <2>2, <2>3 DEF Replies
<1>13. CASE Acceptable(r, Len(bytes), missing) /\ bytes # <<>>
  <2>1. len > 0
    BY <1>8, <1>9, <1>13, EmptySeq
  <2>2. FreeSpace(r) > 0 /\ missing < FreeSpace(r) /\ missing + len > 0
    BY <1>9, <1>13, <2>1 DEF Acceptable
  <2>3. Right(d, m)
    <3>1. ~(d.seq + Len(d.bytes) <= r.RemoteSEQ)
      <4>1. ~(seq + len <= h)
        BY <1>8, <1>10, <2>2
      <4> QED
        BY <1>1, <1>7, <1>9, <4>1
    <3> QED
      BY <3>1
  <2>4. PICK q \in Nat : q = seq /\ Numbered(bytes, q, len) /\ q + len <= m
    BY <1>1, <1>8, <1>9, <2>3 DEF Right, Numbered
  <2>5. RxSound(a, g, m) /\ a.RemoteSEQ >= r.RemoteSEQ /\ a.out = r.out
    <3>1. CASE missing <= 0
      <4>1. a = InSequence(r, bytes, missing)
        BY <1>4, <3>1
      <4>2. missing = q - r.RemoteSEQ
        BY <1>3, <2>4
      <4> QED
        BY <1>10, <2>2, <2>4, <3>1, <4>1, <4>2, InSequenceIs
    <3>2. CASE ~(missing <= 0)
      <4>1. a = OutOfSequence(r, bytes, missing)
        BY <1>4, <3>2
      <4>2. missing = q - r.RemoteSEQ /\ missing > 0
        BY <1>3, <1>10, <2>4, <3>2
      <4>3. /\ RxSound(OutOfSequence(r, bytes, missing), g, m)
            /\ OutOfSequence(r, bytes, missing).RemoteSEQ = r.RemoteSEQ
            /\ OutOfSequence(r, bytes, missing).out = r.out
        BY <1>10, <2>1, <2>2, <2>4, <4>2, OutOfSequenceIs
      <4>4. r.RemoteSEQ >= r.RemoteSEQ
        BY <1>7
      <4> QED
        BY <4>1, <4>3, <4>4
    <3> QED
      BY <3>1, <3>2
  <2>6. a.out = <<>> /\ a \in Receiver
    BY <2>5 DEF RxSound
  <2>9. ASSUME NEW k \in Nat, Holds(d, k), d.seq <= r.RemoteSEQ, k <= g + RxSize - 1
        PROVE  k <= a.RemoteSEQ
    <3>1. CASE k > h
      <4>1. missing <= 0 /\ k <= q + len
        BY <1>15, <2>4, <2>9, <3>1
      <4>2. a = InSequence(r, bytes, missing)
        BY <1>4, <4>1
      <4>3. missing = q - r.RemoteSEQ
        BY <1>3, <2>4
      <4> QED
        BY <1>10, <2>2, <2>4, <2>9, <4>1, <4>2, <4>3, InSequenceIs
    <3>2. CASE ~(k > h)
      <4>1. PICK x \in Int : x = a.RemoteSEQ /\ x >= h
        BY <1>7, <2>5, <2>6 DEF Receiver
      <4> QED
        BY <3>2, <4>1
    <3> QED
      BY <3>1, <3>2
  <2>7. CASE r.bOneSegmentReceived
    <3>1. H = SendAck(a, mac)
      BY <1>2, <1>13, <2>7
    <3>2. /\ RxSound(SendAck(a, mac), g, m) /\ SendAck(a, mac).RemoteSEQ = a.RemoteSEQ
          /\ Replies(SendAck(a, mac).out, a.RemoteSEQ, g, mac) /\ SendAck(a, mac).out # <<>>
      BY <2>5, <2>6, SendAckIs
    <3>3. Heeds(SendAck(a, mac), r, d, g)
      BY <2>9, <3>2 DEF Heeds
    <3> QED
      BY <1>5, <2>5, <3>1, <3>2, <3>3
  <2>8. CASE ~r.bOneSegmentReceived
    <3>1. PICK t : t = [a EXCEPT !.bOneSegmentReceived = TRUE, !.bDelayedACKTimerEnabled = TRUE]
      OBVIOUS
    <3>2. H = t
      BY <1>2, <1>13, <2>8, <3>1
    <3>3. RxAlike(t, a) /\ t.out = a.out /\ t.bDelayedACKTimerEnabled = TRUE
      BY <2>6, <3>1 DEF RxAlike, Receiver
    <3>4. Heeds(t, r, d, g)
      BY <2>9, <3>3 DEF Heeds, Answering, RxAlike
    <3> QED
      BY <1>5, <2>5, <2>6, <3>2, <3>3, <3>4, RxAlikeIs DEF RxAlike, Replies
  <2> QED
    BY <2>7, <2>8
<1> QED
  BY <1>11, <1>12, <1>13

\* The FIFO is read until it is empty.
LEMMA GetIs ==
  ASSUME NEW r, NEW g, NEW m, RxSound(r, g, m)
  PROVE  /\ RxSound(TCPGet(r), r.RemoteSEQ, m) /\ TCPGet(r).RemoteSEQ = r.RemoteSEQ
         /\ TCPGet(r).out = r.out /\ Answering(TCPGet(r))
         /\ Numbered(Part(r.rxBuf, r.rxTail, TCPIsGetReady(r)), g, r.RemoteSEQ - g)
<1>1. r \in Receiver /\ RxLay(r, g, m) /\ Future(r, g, m)
  BY DEF RxSound
<1>2. PICK z \in Nat \ {0, 1} : z = RxSize
  BY Sizes
<1>3. PICK h \in Nat, i \in Nat, j \in Nat :
        h = r.RemoteSEQ /\ i = g /\ j = m /\ i <= h /\ h <= j /\ h - i < z
  BY <1>1, <1>2 DEF RxLay
<1>4. PICK len \in Nat : len = h - i /\ TCPIsGetReady(r) = len /\ i + len <= h
  BY <1>1, <1>3, RxCounts
<1>5. Numbered(Part(r.rxBuf, r.rxTail, TCPIsGetReady(r)), g, r.RemoteSEQ - g)
  <2>1. r.rxBuf \in [1 .. z -> Nat] /\ r.rxTail = At(z, i) /\ Has(r.rxBuf, z, i, h)
    BY <1>1, <1>2, <1>3 DEF RxLay, Receiver, RxBuffer
  <2>2. i <= i
    OBVIOUS
  <2>3. Numbered(Part(r.rxBuf, At(z, i), len), i, len)
    BY <1>4, <2>1, <2>2, TakenRight
  <2> QED
    BY <1>3, <1>4, <2>1, <2>3
<1>6. PICK e \in BOOLEAN : e = (r.bTimer2Enabled \/ TCPIsGetReady(r) > 1)
  OBVIOUS
<1>7. PICK t : t = [r EXCEPT !.rxTail = r.rxHead, !.bTXASAPWithoutTimerReset = TRUE,
                             !.bTimer2Enabled = e]
  OBVIOUS
<1>8. TCPGet(r) = t
  BY <1>6, <1>7 DEF TCPGet
<1>9. /\ t \in Receiver /\ t.RemoteSEQ = r.RemoteSEQ /\ t.rxBuf = r.rxBuf
      /\ t.rxHead = r.rxHead /\ t.rxTail = r.rxHead /\ t.out = r.out
      /\ t.sHoleSize = r.sHoleSize /\ t.wFutureDataSize = r.wFutureDataSize
      /\ t.bTXASAPWithoutTimerReset = TRUE
  BY <1>1, <1>7 DEF Receiver
<1>10. RxLay(t, h, m)
  <2>1. Has(t.rxBuf, RxSize, h, h)
    <3>1. h .. h - 1 = {}
      OBVIOUS
    <3> QED
      BY <3>1 DEF Has
  <2>2. h \in h .. j /\ h - h < RxSize
    BY <1>2, <1>3
  <2> QED
    BY <1>1, <1>3, <1>9, <2>1, <2>2 DEF RxLay
<1>11. Future(t, h, m)
  <2>1. ASSUME NEW x, NEW y, Run(r.rxBuf, x, y, g, m) PROVE Run(r.rxBuf, x, y, h, m)
    <3>1. PICK v \in Nat : v = y /\ v - i < z
      BY <1>2, <1>3, <2>1 DEF Run
    <3>2. v - h < z
      BY <1>3, <3>1
    <3> QED
      BY <1>2, <2>1, <3>1, <3>2 DEF Run
  <2> QED
    BY <1>1, <1>9, <2>1 DEF Future
<1> QED
  BY <1>3, <1>5, <1>8, <1>9, <1>10, <1>11 DEF RxSound, Answering

-----------------------------------------------------------------------------
(* The network.                                                             *)

\* Some of the elements of old, in their order.
Thinned(new, old, T) ==
  /\ new \in Seq(T)
  /\ \E f \in [1 .. Len(new) -> 1 .. Len(old)] :
       \A i, j \in 1 .. Len(new) : new[i] = old[f[i]] /\ (i <= j => f[i] <= f[j])

LEMMA ThinnedSame == ASSUME NEW T, NEW s \in Seq(T) PROVE Thinned(s, s, T)
<1>1. PICK n \in Nat : n = Len(s)
  BY LenProperties
<1>2. PICK f : f = [i \in 1 .. n |-> i]
  OBVIOUS
<1>3. f \in [1 .. n -> 1 .. n] /\ \A i \in 1 .. n : f[i] = i
  BY <1>2
<1>4. \A i, j \in 1 .. n : s[i] = s[f[i]] /\ (i <= j => f[i] <= f[j])
  BY <1>3
<1> QED
  BY <1>1, <1>3, <1>4 DEF Thinned

LEMMA ThinnedTail ==
  ASSUME NEW T, NEW s \in Seq(T), s # <<>>
  PROVE  Thinned(Tail(s), s, T)
<1>1. PICK n \in Nat : n = Len(s) /\ n >= 1
  BY LenProperties, EmptySeq
<1>2. PICK t : t = Tail(s)
  OBVIOUS
<1>3. PICK m \in Nat : m = n - 1
  BY <1>1
<1>4. t \in Seq(T) /\ Len(t) = m /\ \A i \in 1 .. m : t[i] = s[i + 1]
  BY <1>1, <1>2, <1>3, HeadTailProperties
<1>5. PICK f : f = [i \in 1 .. m |-> i + 1]
  OBVIOUS
<1>6. f \in [1 .. m -> 1 .. n] /\ \A i \in 1 .. m : f[i] = i + 1
  BY <1>3, <1>5
<1>7. \A i, j \in 1 .. m : t[i] = s[f[i]] /\ (i <= j => f[i] <= f[j])
  BY <1>4, <1>6
<1> QED
  BY <1>1, <1>2, <1>4, <1>6, <1>7 DEF Thinned

LEMMA ThinnedRemoved ==
  ASSUME NEW T, NEW s \in Seq(T), NEW k \in Nat, k >= 1, k <= Len(s)
  PROVE  Thinned(RemoveAt(s, k), s, T)
<1>1. PICK n \in Nat : n = Len(s) /\ k <= n
  BY LenProperties
<1>2. PICK a, b : a = SubSeq(s, 1, k - 1) /\ b = SubSeq(s, k + 1, n)
  OBVIOUS
<1>3. PICK la \in Nat, lb \in Nat, m \in Nat : la = k - 1 /\ lb = n - k /\ m = la + lb
  <2>1. PICK la \in Nat : la = k - 1
    BY <1>1
  <2>4. n - k \in Nat
    BY <1>1
  <2>2. PICK lb \in Nat : lb = n - k
    BY <2>4
  <2>3. PICK m \in Nat : m = la + lb
    OBVIOUS
  <2> QED
    BY <2>1, <2>2, <2>3
<1>4. \A i \in 1 .. n : s[i] \in T
  BY <1>1, ElementOfSeq
<1>5. a \in Seq(T) /\ Len(a) = la /\ \A i \in 1 .. la : a[i] = s[i]
  <2>1. \A i \in 1 .. la : s[i] \in T
    BY <1>1, <1>3, <1>4
  <2>2. PICK one \in Int, l \in Int : one = 1 /\ l = la
    OBVIOUS
  <2>3. /\ SubSeq(s, one, l) \in Seq(T)
        /\ Len(SubSeq(s, one, l)) = IF one <= l THEN l - one + 1 ELSE 0
        /\ \A i \in 1 .. l - one + 1 : SubSeq(s, one, l)[i] = s[one + i - 1]
    BY <2>1, <2>2, SubSeqProperties
  <2>4. SubSeq(s, one, l) = a
    BY <1>2, <1>3, <2>2
  <2>5. Len(a) = la
    BY <2>2, <2>3, <2>4
  <2>6. ASSUME NEW i \in 1 .. la PROVE a[i] = s[i]
    BY <2>2, <2>3, <2>4
  <2> QED
    BY <2>3, <2>4, <2>5, <2>6
<1>6. b \in Seq(T) /\ Len(b) = lb /\ \A i \in 1 .. lb : b[i] = s[k + i]
  <2>2. PICK one \in Int, l \in Int : one = k + 1 /\ l = n
    BY <1>1
  <2>1. \A i \in one .. l : s[i] \in T
    BY <1>1, <1>4, <2>2
  <2>3. /\ SubSeq(s, one, l) \in Seq(T)
        /\ Len(SubSeq(s, one, l)) = IF one <= l THEN l - one + 1 ELSE 0
        /\ \A i \in 1 .. l - one + 1 : SubSeq(s, one, l)[i] = s[one + i - 1]
    BY <2>1, SubSeqProperties
  <2>4. SubSeq(s, one, l) = b
    BY <1>2, <2>2
  <2>5. Len(b) = lb
    BY <1>1, <1>3, <2>2, <2>3, <2>4
  <2>6. ASSUME NEW i \in 1 .. lb PROVE b[i] = s[k + i]
    <3>1. i \in 1 .. l - one + 1 /\ one + i - 1 = k + i
      BY <1>1, <1>3, <2>2
    <3> QED
      BY <2>3, <2>4, <3>1
  <2> QED
    BY <2>3, <2>4, <2>5, <2>6
<1>7. PICK t : t = a \o b
  OBVIOUS
<1>8. /\ t \in Seq(T) /\ Len(t) = m
      /\ \A i \in 1 .. m : t[i] = IF i <= la THEN a[i] ELSE b[i - la]
  <2>1. /\ a \o b \in Seq(T) /\ Len(a \o b) = Len(a) + Len(b)
        /\ \A i \in 1 .. Len(a) + Len(b) :
             (a \o b)[i] = IF i <= Len(a) THEN a[i] ELSE b[i - Len(a)]
    BY <1>5, <1>6, ConcatProperties
  <2>2. Len(a) + Len(b) = m /\ Len(a) = la
    BY <1>3, <1>5, <1>6
  <2> QED
    BY <1>7, <2>1, <2>2
<1>9. PICK f : f = [i \in 1 .. m |-> IF i <= la THEN i ELSE i + 1]
  OBVIOUS
<1>10. /\ f \in [1 .. m -> 1 .. n]
       /\ \A i \in 1 .. m : f[i] = IF i <= la THEN i ELSE i + 1
  BY <1>1, <1>3, <1>9
<1>11. ASSUME NEW i \in 1 .. m PROVE t[i] = s[f[i]]
  <2>1. CASE i <= la
    BY <1>5, <1>8, <1>10, <2>1
  <2>2. CASE ~(i <= la)
    <3>1. PICK j \in 1 .. lb : j = i - la /\ k + j = i + 1
      BY <1>3, <2>2
    <3> QED
      BY <1>6, <1>8, <1>10, <2>2, <3>1
  <2> QED
    BY <2>1, <2>2
<1>12. ASSUME NEW i \in 1 .. m, NEW j \in 1 .. m, i <= j PROVE f[i] <= f[j]
  <2>1. PICK x \in Int, y \in Int : x = f[i] /\ y = f[j]
    BY <1>10
  <2>2. x = (IF i <= la THEN i ELSE i + 1) /\ y = (IF j <= la THEN j ELSE j + 1)
    BY <1>10, <2>1
  <2>3. x <= y
    BY <1>12, <2>2
  <2> QED
    BY <2>1, <2>3
<1>13. RemoveAt(s, k) = t
  BY <1>1, <1>2, <1>7 DEF RemoveAt
<1> QED
  BY <1>1, <1>8, <1>10, <1>11, <1>12, <1>13 DEF Thinned

\* What is kept of a channel when a segment is delivered.
LEMMA KeepsIs ==
  ASSUME NEW T, NEW s \in Seq(T), NEW i \in DOMAIN s, NEW rest, Keeps(s, i, rest)
  PROVE  /\ Thinned(rest, s, T) /\ s[i] \in T /\ i \in 1 .. Len(s)
         /\ (i = 1 /\ UNCHANGED spent) \/ (i > 1 /\ Left("swap") /\ spent' = Spend("swap"))
            \/ (i = 1 /\ Left("dup") /\ spent' = Spend("dup"))
<1>1. i \in 1 .. Len(s) /\ s[i] \in T /\ Len(s) \in Nat
  BY LenProperties, ElementOfSeq
<1>2. CASE Arrives(s, i) /\ rest = RemoveAt(s, i)
  <2>1. PICK k \in Nat : k = i /\ k >= 1 /\ k <= Len(s)
    BY <1>1
  <2>2. Thinned(RemoveAt(s, k), s, T)
    BY <2>1, ThinnedRemoved
  <2> QED
    BY <1>1, <1>2, <2>1, <2>2 DEF Arrives
<1>3. CASE i = 1 /\ Left("dup") /\ spent' = Spend("dup") /\ rest = s
  BY <1>1, <1>3, ThinnedSame
<1> QED
  BY <1>1, <1>2, <1>3 DEF Keeps

-----------------------------------------------------------------------------
(* The inductive invariant.                                                 *)

\* A probe of S, with a byte that R has.
Old(d, h) == d \in Segment /\ d.bytes # <<>> /\ d.seq + Len(d.bytes) <= h

\* An answer of R, with what it had then.
Given(a, h) == a \in Answer /\ a.ack \in Nat /\ a.ack <= h /\ a.window \in 0 .. RxSize - 1
Allows(a) == a.ack + a.window

\* What is on its way to R.
Carried(ds, m, h) ==
  ds \in Seq(Segment) /\ \A i \in 1 .. Len(ds) : Right(ds[i], m) \/ Old(ds[i], h)

\* What is on its way back.
Returned(as, h) == as \in Seq(Answer) /\ \A i \in 1 .. Len(as) : Given(as[i], h)

\* No answer allows less than what S believes, or than one before it, or more than there is
\* room for.
Ordered(e, as, room) ==
  /\ e <= room
  /\ \A i \in 1 .. Len(as) : e <= Allows(as[i]) /\ Allows(as[i]) <= room
  /\ \A i, j \in 1 .. Len(as) : i <= j => Allows(as[i]) <= Allows(as[j])

SenderInv == S.out = <<>> /\ \E b \in Nat : Sound(S, b, sent) /\ b <= R.RemoteSEQ
ReceiverInv == RxSound(R, Len(got), sent) /\ R.out = <<>>
DataInv == Carried(data, sent, R.RemoteSEQ)
AcksInv == Returned(acks, R.RemoteSEQ)
Room == Len(got) + RxSize - 1
RoomInv == spent.swap = 0 /\ spent.tight = 0 => Ordered(Edge(S), acks, Room)
Spent == [lost : Nat, dup : Nat, swap : Nat, tight : Nat, early : Nat]
TotalsInv ==
  /\ sent \in 0 .. MaxBytes /\ smState \in SocketStates /\ Numbered(got, 0, Len(got))
  /\ spent \in Spent
StreamInv == SenderInv /\ ReceiverInv /\ DataInv /\ AcksInv /\ RoomInv /\ TotalsInv

LEMMA RxMore ==
  ASSUME NEW r, NEW g, NEW m \in Nat, NEW e \in Nat, m <= e, RxSound(r, g, m)
  PROVE  RxSound(r, g, e)
<1>1. r \in Receiver /\ RxLay(r, g, m) /\ Future(r, g, m)
  BY DEF RxSound
<1>2. RxLay(r, g, e)
  <2>1. PICK h \in Nat, i \in Nat : h = r.RemoteSEQ /\ i = g /\ i <= h /\ h <= m
    BY <1>1 DEF RxLay
  <2>2. h \in i .. e
    BY <2>1
  <2> QED
    BY <1>1, <2>1, <2>2 DEF RxLay
<1>3. ASSUME NEW x, NEW y, Run(r.rxBuf, x, y, g, m) PROVE Run(r.rxBuf, x, y, g, e)
  <2>1. PICK v \in Nat : v = y /\ v <= m
    BY <1>3 DEF Run
  <2>2. v <= e
    BY <2>1
  <2> QED
    BY <1>3, <2>1, <2>2 DEF Run
<1>4. Future(r, g, e)
  BY <1>1, <1>3 DEF Future
<1> QED
  BY <1>1, <1>2, <1>4 DEF RxSound

\* A sender whose segments have gone to the network.
LEMMA Emptied ==
  ASSUME NEW t, NEW c, NEW m, Sound(t, c, m), NEW u, u = [t EXCEPT !.out = <<>>]
  PROVE  Sound(u, c, m) /\ u.out = <<>> /\ Edge(u) = Edge(t)
<1>1. t \in Sender
  BY DEF Sound
<1>2. PICK o \in Segments : o = <<>>
  <2>1. <<>> \in Seq(Segment)
    BY EmptySeq
  <2> QED
    BY <2>1 DEF Segments
<1>3. u = [t EXCEPT !.out = o]
  BY <1>2
<1>4. /\ u \in Sender /\ u.MySEQ = t.MySEQ /\ u.remoteWindow = t.remoteWindow
      /\ u.txTail = t.txTail /\ u.txHead = t.txHead /\ u.txUnackedTail = t.txUnackedTail
      /\ u.txBuf = t.txBuf /\ u.out = o /\ u.bTimerEnabled = t.bTimerEnabled
  BY <1>1, <1>3 DEF Sender
<1>5. \A i \in DOMAIN o : Right(o[i], m)
  BY <1>2
<1> QED
  BY <1>2, <1>4, <1>5 DEF Sound, Lay, Edge

LEMMA RxEmptied ==
  ASSUME NEW t, NEW g, NEW m, RxSound(t, g, m), NEW u, u = [t EXCEPT !.out = <<>>]
  PROVE  RxSound(u, g, m) /\ u.out = <<>> /\ u.RemoteSEQ = t.RemoteSEQ
<1>1. t \in Receiver
  BY DEF RxSound
<1>2. PICK o \in Answers : o = <<>>
  <2>1. <<>> \in Seq(Answer)
    BY EmptySeq
  <2> QED
    BY <2>1 DEF Answers
<1>3. u = [t EXCEPT !.out = o]
  BY <1>2
<1>4. RxAlike(u, t) /\ u.out = o
  BY <1>1, <1>3 DEF RxAlike, Receiver
<1> QED
  BY <1>2, <1>4, RxAlikeIs DEF RxAlike

LEMMA CarriedOn ==
  ASSUME NEW ds, NEW m \in Nat, NEW h \in Nat, Carried(ds, m, h),
         NEW e \in Nat, NEW k \in Nat, m <= e, h <= k
  PROVE  Carried(ds, e, k)
<1>1. ASSUME NEW d, Right(d, m) PROVE Right(d, e)
  BY <1>1, StillRight
<1>2. ASSUME NEW d, Old(d, h) PROVE Old(d, k)
  <2>1. d \in Segment /\ d.bytes # <<>> /\ d.seq + Len(d.bytes) <= h
    BY <1>2 DEF Old
  <2>2. d.seq \in Int /\ d.bytes \in Seq(Nat)
    BY <2>1 DEF Segment
  <2>3. PICK q \in Int, len \in Nat : q = d.seq /\ len = Len(d.bytes) /\ q + len <= h
    BY <2>1, <2>2, LenProperties
  <2>4. q + len <= k
    BY <2>3
  <2> QED
    BY <2>1, <2>3, <2>4 DEF Old
<1> QED
  BY <1>1, <1>2 DEF Carried

LEMMA CarriedThinned ==
  ASSUME NEW ds, NEW m, NEW h, Carried(ds, m, h), NEW es, Thinned(es, ds, Segment)
  PROVE  Carried(es, m, h)
  BY DEF Carried, Thinned

LEMMA CarriedMore ==
  ASSUME NEW ds, NEW es, NEW m, NEW h, Carried(ds, m, h), Carried(es, m, h)
  PROVE  Carried(ds \o es, m, h)
<1>1. ds \in Seq(Segment) /\ es \in Seq(Segment)
  BY DEF Carried
<1>2. PICK a \in Nat, b \in Nat : a = Len(ds) /\ b = Len(es)
  BY <1>1, LenProperties
<1>3. PICK t : t = ds \o es
  OBVIOUS
<1>4. /\ t \in Seq(Segment) /\ Len(t) = a + b
      /\ \A i \in 1 .. a + b : t[i] = IF i <= a THEN ds[i] ELSE es[i - a]
  BY <1>1, <1>2, <1>3, ConcatProperties
<1>5. ASSUME NEW i \in 1 .. a + b PROVE Right(t[i], m) \/ Old(t[i], h)
  <2>1. CASE i <= a
    <3>1. i \in 1 .. a /\ t[i] = ds[i]
      BY <1>4, <2>1
    <3> QED
      BY <1>2, <3>1 DEF Carried
  <2>2. CASE ~(i <= a)
    <3>1. PICK j \in 1 .. b : j = i - a
      BY <2>2
    <3>2. t[i] = es[j]
      BY <1>4, <2>2, <3>1
    <3> QED
      BY <1>2, <3>1, <3>2 DEF Carried
  <2> QED
    BY <2>1, <2>2
<1> QED
  BY <1>3, <1>4, <1>5 DEF Carried

LEMMA SentCarried ==
  ASSUME NEW t, NEW c, NEW m, Sound(t, c, m), NEW h
  PROVE  Carried(t.out, m, h)
<1>1. t.out \in Seq(Segment)
  BY DEF Sound, Sender, Segments
<1>2. DOMAIN t.out = 1 .. Len(t.out)
  BY <1>1, LenProperties
<1> QED
  BY <1>1, <1>2 DEF Sound, Carried

LEMMA ReturnedOn ==
  ASSUME NEW as, NEW h \in Nat, NEW k \in Nat, h <= k, Returned(as, h)
  PROVE  Returned(as, k)
<1>1. ASSUME NEW a, Given(a, h) PROVE Given(a, k)
  <2>1. PICK x \in Nat : x = a.ack /\ x <= h
    BY <1>1 DEF Given
  <2>2. x <= k
    BY <2>1
  <2> QED
    BY <1>1, <2>1, <2>2 DEF Given
<1> QED
  BY <1>1 DEF Returned

LEMMA ReturnedThinned ==
  ASSUME NEW as, NEW h, Returned(as, h), NEW bs, Thinned(bs, as, Answer)
  PROVE  Returned(bs, h)
  BY DEF Returned, Thinned

LEMMA AppendIs ==
  ASSUME NEW T, NEW s \in Seq(T), NEW x \in T
  PROVE  /\ Append(s, x) \in Seq(T) /\ Len(Append(s, x)) = Len(s) + 1
         /\ Append(s, x)[Len(s) + 1] = x
         /\ \A i \in 1 .. Len(s) : Append(s, x)[i] = s[i]
  BY AppendProperties, LenProperties

LEMMA ReturnedMore ==
  ASSUME NEW as, NEW h \in Nat, NEW g, NEW mac, Returned(as, h), NEW o, Replies(o, h, g, mac)
  PROVE  Returned(as \o o, h)
<1>1. as \in Seq(Answer)
  BY DEF Returned
<1>2. CASE o = <<>>
  BY <1>1, <1>2, ConcatEmptySeq
<1>3. CASE o # <<>>
  <2>1. PICK a \in Answer : o = <<a>> /\ a.ack = h /\ a.window \in 0 .. RxSize - 1
    BY <1>3 DEF Replies
  <2>2. PICK n \in Nat : n = Len(as)
    BY <1>1, LenProperties
  <2>3. PICK t : t = Append(as, a)
    OBVIOUS
  <2>4. as \o o = t
    BY <1>1, <2>1, <2>3, AppendIsConcat
  <2>5. /\ t \in Seq(Answer) /\ Len(t) = n + 1 /\ t[n + 1] = a
        /\ \A i \in 1 .. n : t[i] = as[i]
    <3>1. /\ t \in Seq(Answer) /\ Len(t) = Len(as) + 1 /\ t[Len(as) + 1] = a
          /\ \A i \in 1 .. Len(as) : t[i] = as[i]
      BY <1>1, <2>3, AppendIs, ZenonT(60)
    <3> QED
      BY <2>2, <3>1
  <2>6. Given(a, h)
    <3>1. h <= h
      OBVIOUS
    <3> QED
      BY <2>1, <3>1 DEF Given
  <2>7. ASSUME NEW i \in 1 .. n + 1 PROVE Given(t[i], h)
    <3>1. CASE i = n + 1
      BY <2>5, <2>6, <3>1
    <3>2. CASE i # n + 1
      <4>1. i \in 1 .. n
        BY <3>2
      <4> QED
        BY <2>2, <2>5, <4>1 DEF Returned
    <3> QED
      BY <3>1, <3>2
  <2> QED
    BY <2>4, <2>5, <2>7 DEF Returned
<1> QED
  BY <1>2, <1>3

LEMMA AllowsInt ==
  ASSUME NEW as, NEW h, Returned(as, h)
  PROVE  \A i \in 1 .. Len(as) : Allows(as[i]) \in Int
<1>1. ASSUME NEW a, Given(a, h) PROVE Allows(a) \in Int
  <2>1. a.ack \in Int /\ a.window \in Int
    BY <1>1 DEF Given, Answer
  <2> QED
    BY <2>1 DEF Allows
<1> QED
  BY <1>1 DEF Returned

LEMMA OrderedThinned ==
  ASSUME NEW e \in Int, NEW room \in Int, NEW as, NEW h, Returned(as, h), Ordered(e, as, room),
         NEW bs, Thinned(bs, as, Answer), NEW more \in Int, room <= more
  PROVE  Ordered(e, bs, more)
<1>1. PICK n \in Nat, m \in Nat : n = Len(as) /\ m = Len(bs)
  BY LenProperties DEF Returned, Thinned
<1>2. PICK f \in [1 .. m -> 1 .. n] :
        \A i, j \in 1 .. m : bs[i] = as[f[i]] /\ (i <= j => f[i] <= f[j])
  BY <1>1 DEF Thinned
<1>3. PICK al : al = [i \in 1 .. n |-> Allows(as[i])]
  OBVIOUS
<1>4. \A i \in 1 .. n : al[i] \in Int /\ al[i] = Allows(as[i])
  BY <1>1, <1>3, AllowsInt
<1>5. /\ e <= room /\ \A i \in 1 .. n : e <= al[i] /\ al[i] <= room
      /\ \A i, j \in 1 .. n : i <= j => al[i] <= al[j]
  BY <1>1, <1>4 DEF Ordered
<1>6. ASSUME NEW i \in 1 .. m PROVE e <= Allows(bs[i]) /\ Allows(bs[i]) <= more
  <2>1. PICK k \in 1 .. n : k = f[i] /\ bs[i] = as[k]
    BY <1>2
  <2>2. PICK x \in Int : x = al[k] /\ x = Allows(bs[i]) /\ e <= x /\ x <= room
    BY <1>4, <1>5, <2>1
  <2>3. x <= more
    BY <2>2
  <2> QED
    BY <2>2, <2>3
<1>7. ASSUME NEW i \in 1 .. m, NEW j \in 1 .. m, i <= j PROVE Allows(bs[i]) <= Allows(bs[j])
  <2>1. PICK k \in 1 .. n, l \in 1 .. n :
          k = f[i] /\ l = f[j] /\ bs[i] = as[k] /\ bs[j] = as[l] /\ k <= l
    BY <1>2, <1>7
  <2> QED
    BY <1>4, <1>5, <2>1
<1>8. e <= more
  BY <1>5
<1> QED
  BY <1>1, <1>6, <1>7, <1>8 DEF Ordered

LEMMA OrderedTaken ==
  ASSUME NEW e \in Int, NEW room \in Int, NEW as, NEW h, Returned(as, h), Ordered(e, as, room),
         1 \in 1 .. Len(as), NEW k, k = Allows(as[1])
  PROVE  Ordered(k, as, room) /\ k \in Int /\ e <= k
<1>1. PICK n \in Nat : n = Len(as) /\ 1 \in 1 .. n
  BY LenProperties DEF Returned
<1>2. k \in Int
  BY <1>1, AllowsInt
<1>3. \A i \in 1 .. n : 1 <= i
  OBVIOUS
<1> QED
  BY <1>1, <1>2, <1>3 DEF Ordered

LEMMA OrderedMore ==
  ASSUME NEW e \in Int, NEW room \in Int, NEW as, NEW h \in Nat, Returned(as, h),
         Ordered(e, as, room), NEW g, NEW o, Replies(o, h, g, RxSize), room = g + RxSize - 1
  PROVE  Ordered(e, as \o o, room)
<1>1. as \in Seq(Answer)
  BY DEF Returned
<1>2. CASE o = <<>>
  BY <1>1, <1>2, ConcatEmptySeq
<1>3. CASE o # <<>>
  <2>1. PICK a \in Answer : o = <<a>> /\ Allows(a) = room
    BY <1>3 DEF Replies, Allows
  <2>2. PICK n \in Nat : n = Len(as)
    BY <1>1, LenProperties
  <2>3. PICK t : t = Append(as, a)
    OBVIOUS
  <2>4. as \o o = t
    BY <1>1, <2>1, <2>3, AppendIsConcat
  <2>5. /\ t \in Seq(Answer) /\ Len(t) = n + 1 /\ t[n + 1] = a
        /\ \A i \in 1 .. n : t[i] = as[i]
    <3>1. /\ t \in Seq(Answer) /\ Len(t) = Len(as) + 1 /\ t[Len(as) + 1] = a
          /\ \A i \in 1 .. Len(as) : t[i] = as[i]
      BY <1>1, <2>3, AppendIs, ZenonT(60)
    <3> QED
      BY <2>2, <3>1
  <2>6. PICK al : al = [i \in 1 .. n + 1 |-> Allows(t[i])]
    OBVIOUS
  <2>7. \A i \in 1 .. n + 1 : al[i] = Allows(t[i])
    BY <2>6
  <2>8. al[n + 1] = room
    BY <2>1, <2>5, <2>7
  <2>9. \A i \in 1 .. n : al[i] \in Int /\ al[i] = Allows(as[i])
    <3>1. ASSUME NEW i \in 1 .. n PROVE al[i] \in Int /\ al[i] = Allows(as[i])
      <4>1. t[i] = as[i]
        BY <2>5
      <4>4. i \in 1 .. n + 1
        OBVIOUS
      <4>2. al[i] = Allows(as[i])
        BY <2>7, <4>1, <4>4
      <4>3. Allows(as[i]) \in Int
        BY <2>2, AllowsInt
      <4> QED
        BY <4>2, <4>3
    <3> QED
      BY <3>1
  <2>10. /\ e <= room /\ \A i \in 1 .. n : e <= al[i] /\ al[i] <= room
         /\ \A i, j \in 1 .. n : i <= j => al[i] <= al[j]
    BY <2>2, <2>9 DEF Ordered
  <2>11. \A i \in 1 .. n + 1 : i \in 1 .. n \/ i = n + 1
    OBVIOUS
  <2>12. ASSUME NEW i \in 1 .. n + 1 PROVE e <= al[i] /\ al[i] <= room
    BY <2>8, <2>10, <2>11
  <2>13. ASSUME NEW i \in 1 .. n + 1, NEW j \in 1 .. n + 1, i <= j PROVE al[i] <= al[j]
    <3>1. CASE j = n + 1
      BY <2>8, <2>12, <3>1
    <3>2. CASE j # n + 1
      <4>1. i \in 1 .. n /\ j \in 1 .. n
        BY <2>13, <3>2
      <4> QED
        BY <2>10, <2>13, <4>1
    <3> QED
      BY <3>1, <3>2
  <2>14. /\ \A i \in 1 .. n + 1 : e <= Allows(t[i]) /\ Allows(t[i]) <= room
         /\ \A i, j \in 1 .. n + 1 : i <= j => Allows(t[i]) <= Allows(t[j])
    BY <2>7, <2>12, <2>13
  <2> QED
    BY <2>4, <2>5, <2>10, <2>14 DEF Ordered
<1> QED
  BY <1>2, <1>3

-----------------------------------------------------------------------------
(* What keeps the invariant.                                                *)

LEMMA SpentIs ==
  ASSUME spent \in Spent,
         NEW what \in {"lost", "dup", "swap", "tight", "early"}, spent' = Spend(what)
  PROVE  /\ spent' \in Spent
         /\ spent'.swap = 0 => spent.swap = 0 /\ what # "swap"
         /\ spent'.tight = 0 => spent.tight = 0 /\ what # "tight"
<1>1. CASE what = "lost"
  BY <1>1 DEF Spend, Spent
<1>2. CASE what = "dup"
  BY <1>2 DEF Spend, Spent
<1>3. CASE what = "swap"
  BY <1>3 DEF Spend, Spent
<1>4. CASE what = "tight"
  BY <1>4 DEF Spend, Spent
<1>5. CASE what = "early"
  BY <1>5 DEF Spend, Spent
<1> QED
  BY <1>1, <1>2, <1>3, <1>4, <1>5

LEMMA InvFacts ==
  ASSUME StreamInv
  PROVE  /\ R.RemoteSEQ \in Nat /\ sent \in Nat /\ Len(got) \in Nat /\ R.RemoteSEQ <= sent
         /\ Len(got) <= R.RemoteSEQ /\ Edge(S) \in Int /\ Room \in Int
         /\ data \in Seq(Segment) /\ acks \in Seq(Answer) /\ S \in Sender /\ R \in Receiver
         /\ S.out = <<>> /\ R.out = <<>> /\ spent \in Spent /\ smState \in SocketStates
         /\ sent \in 0 .. MaxBytes /\ MaxBytes \in Nat
<1>1. S \in Sender /\ R \in Receiver /\ RxLay(R, Len(got), sent)
  BY DEF StreamInv, SenderInv, ReceiverInv, Sound, RxSound
<1>2. S.MySEQ \in Int /\ S.remoteWindow \in Int
  BY <1>1, Sizes DEF Sender, Windows
<1>3. Edge(S) \in Int
  BY <1>2 DEF Edge
<1>4. Len(got) \in Nat /\ R.RemoteSEQ \in Len(got) .. sent /\ sent \in Nat
  BY <1>1 DEF RxLay
<1>5. Room \in Int
  BY <1>4, Sizes DEF Room
<1>6. R.RemoteSEQ \in Nat /\ R.RemoteSEQ <= sent /\ Len(got) <= R.RemoteSEQ
  BY <1>4
<1> QED
  BY <1>1, <1>3, <1>4, <1>5, <1>6, Sizes
  DEF StreamInv, SenderInv, ReceiverInv, DataInv, AcksInv, TotalsInv, Carried, Returned

\* S has done something, and sent o.
SenderDid(o) ==
  /\ UNCHANGED <<R, got>> /\ S'.out = <<>>
  /\ \E c \in Nat : Sound(S', c, sent') /\ c <= R.RemoteSEQ
  /\ Carried(o, sent', R.RemoteSEQ) /\ data' = data \o o /\ Thinned(acks', acks, Answer)
  /\ sent <= sent' /\ sent' \in 0 .. MaxBytes /\ smState' \in SocketStates /\ spent' \in Spent
  /\ spent'.swap = 0 /\ spent'.tight = 0 => Ordered(Edge(S'), acks', Room)

LEMMA SenderMoves ==
  ASSUME StreamInv, NEW o, SenderDid(o)
  PROVE  StreamInv'
<1>0. UNCHANGED <<R, got>>
  BY DEF SenderDid
<1>1. R.RemoteSEQ \in Nat /\ sent \in Nat /\ sent' \in Nat
  <2>1. sent' \in 0 .. MaxBytes /\ MaxBytes \in Nat
    BY InvFacts DEF SenderDid
  <2> QED
    BY <2>1, InvFacts
<1>2. SenderInv'
  BY <1>0 DEF SenderInv, SenderDid
<1>3. ReceiverInv'
  <2>1. RxSound(R, Len(got), sent) /\ R.out = <<>>
    BY DEF StreamInv, ReceiverInv
  <2>2. RxSound(R, Len(got), sent')
    <3>1. PICK m \in Nat, e \in Nat : m = sent /\ e = sent' /\ m <= e
      BY <1>1 DEF SenderDid
    <3> QED
      BY <2>1, <3>1, RxMore
  <2> QED
    BY <1>0, <2>1, <2>2 DEF ReceiverInv
<1>4. DataInv'
  <2>1. PICK h \in Nat, m \in Nat, e \in Nat : h = R.RemoteSEQ /\ m = sent /\ e = sent' /\ m <= e
    BY <1>1 DEF SenderDid
  <2>2. Carried(data, m, h)
    BY <2>1 DEF StreamInv, DataInv
  <2>3. h <= h
    BY <2>1
  <2>4. Carried(data, e, h)
    BY <2>1, <2>2, <2>3, CarriedOn
  <2>5. Carried(data \o o, e, h)
    BY <2>1, <2>4, CarriedMore DEF SenderDid
  <2> QED
    BY <1>0, <2>1, <2>5 DEF DataInv, SenderDid
<1>5. AcksInv'
  <2>1. Returned(acks, R.RemoteSEQ)
    BY DEF StreamInv, AcksInv
  <2>2. Returned(acks', R.RemoteSEQ)
    BY <2>1, ReturnedThinned DEF SenderDid
  <2> QED
    BY <1>0, <2>2 DEF AcksInv
<1>6. RoomInv'
  <2>1. Room' = Room
    BY <1>0 DEF Room
  <2> QED
    BY <2>1 DEF RoomInv, SenderDid
<1>7. TotalsInv'
  BY <1>0 DEF StreamInv, TotalsInv, SenderDid
<1> QED
  BY <1>2, <1>3, <1>4, <1>5, <1>6, <1>7 DEF StreamInv

\* R has done something, and is t with what it sends.
ReceiverDid(t, mac) ==
  /\ UNCHANGED <<S, smState, sent>> /\ R' = [t EXCEPT !.out = <<>>] /\ acks' = acks \o t.out
  /\ RxSound(t, Len(got'), sent) /\ t.RemoteSEQ >= R.RemoteSEQ
  /\ Replies(t.out, t.RemoteSEQ, Len(got'), mac)
  /\ Thinned(data', data, Segment) /\ Len(got) <= Len(got') /\ Numbered(got', 0, Len(got'))
  /\ spent' \in Spent
  /\ spent'.swap = 0 /\ spent'.tight = 0 =>
       spent.swap = 0 /\ spent.tight = 0 /\ (mac = RxSize \/ t.out = <<>>)

LEMMA ReceiverMoves ==
  ASSUME StreamInv, NEW t, NEW mac, ReceiverDid(t, mac)
  PROVE  StreamInv'
<1>0. UNCHANGED <<S, smState, sent>>
  BY DEF ReceiverDid
<1>1. R.RemoteSEQ \in Nat /\ sent \in Nat /\ Len(got) \in Nat
  BY InvFacts
<1>2. RxSound(R', Len(got'), sent) /\ R'.out = <<>> /\ R'.RemoteSEQ = t.RemoteSEQ
  BY RxEmptied DEF ReceiverDid
<1>3. PICK h \in Nat, k \in Nat, m \in Nat, i \in Nat, j \in Nat :
        /\ h = R.RemoteSEQ /\ k = R'.RemoteSEQ /\ k = t.RemoteSEQ /\ h <= k /\ m = sent
        /\ i = Len(got) /\ j = Len(got') /\ i <= j
  <2>1. RxLay(t, Len(got'), sent) /\ t.RemoteSEQ >= R.RemoteSEQ /\ Len(got) <= Len(got')
    BY DEF RxSound, ReceiverDid
  <2>2. PICK j \in Nat, m \in Nat : j = Len(got') /\ m = sent /\ t.RemoteSEQ \in j .. m
    BY <1>1, <2>1 DEF RxLay
  <2>4. j .. m \subseteq Nat
    OBVIOUS
  <2>3. PICK k \in Nat : k = t.RemoteSEQ
    BY <2>2, <2>4
  <2>5. PICK h \in Nat, i \in Nat : h = R.RemoteSEQ /\ i = Len(got)
    BY <1>1
  <2>6. h <= k /\ i <= j
    BY <2>1, <2>2, <2>3, <2>5
  <2> QED
    BY <1>2, <2>2, <2>3, <2>5, <2>6
<1>4. SenderInv'
  <2>1. S.out = <<>> /\ \E b \in Nat : Sound(S, b, sent) /\ b <= h
    BY <1>3 DEF StreamInv, SenderInv
  <2>2. PICK b \in Nat : Sound(S, b, sent) /\ b <= h
    BY <2>1
  <2>4. h <= k
    BY <1>3
  <2>3. b <= k
    BY <2>2, <2>4
  <2> QED
    BY <1>0, <1>3, <2>1, <2>2, <2>3 DEF SenderInv
<1>5. ReceiverInv'
  BY <1>0, <1>2 DEF ReceiverInv
<1>6. DataInv'
  <2>1. Carried(data, m, h)
    BY <1>3 DEF StreamInv, DataInv
  <2>2. Carried(data', m, h)
    BY <2>1, CarriedThinned DEF ReceiverDid
  <2>3. m <= m
    OBVIOUS
  <2>4. Carried(data', m, k)
    BY <1>3, <2>2, <2>3, CarriedOn
  <2> QED
    BY <1>0, <1>3, <2>4 DEF DataInv
<1>7. Returned(acks, k)
  <2>1. Returned(acks, h)
    BY <1>3 DEF StreamInv, AcksInv
  <2> QED
    BY <1>3, <2>1, ReturnedOn
<1>8. AcksInv'
  <2>1. Replies(t.out, k, Len(got'), mac)
    BY <1>3 DEF ReceiverDid
  <2>2. Returned(acks \o t.out, k)
    BY <1>7, <2>1, ReturnedMore
  <2> QED
    BY <1>3, <2>2 DEF AcksInv, ReceiverDid
<1>9. RoomInv'
  <2> SUFFICES ASSUME spent'.swap = 0, spent'.tight = 0
               PROVE  Ordered(Edge(S), acks', Room')
    BY <1>0 DEF RoomInv
  <2>1. PICK e \in Int, room \in Int, more \in Int :
          e = Edge(S) /\ room = Room /\ more = Room' /\ room <= more /\ more = j + RxSize - 1
    <3>1. PICK e \in Int : e = Edge(S)
      BY InvFacts
    <3>2. PICK z \in Nat : z = RxSize
      BY Sizes
    <3>3. PICK room \in Int, more \in Int : room = i + z - 1 /\ more = j + z - 1
      OBVIOUS
    <3>4. i <= j
      BY <1>3
    <3>5. room <= more
      BY <3>3, <3>4
    <3>6. Room = Len(got) + RxSize - 1 /\ Room' = Len(got') + RxSize - 1
      BY DEF Room
    <3>7. room = Room /\ more = Room' /\ more = j + RxSize - 1
      BY <1>3, <3>2, <3>3, <3>6
    <3> QED
      BY <3>1, <3>5, <3>7
  <2>2. Ordered(e, acks, room)
    BY <2>1 DEF StreamInv, RoomInv, ReceiverDid
  <2>3. acks \in Seq(Answer)
    BY InvFacts
  <2>4. Thinned(acks, acks, Answer)
    BY <2>3, ThinnedSame
  <2>5. Ordered(e, acks, more)
    BY <1>7, <2>1, <2>2, <2>4, OrderedThinned
  <2>6. Replies(t.out, k, j, RxSize)
    BY <1>3 DEF Replies, ReceiverDid
  <2>7. Ordered(e, acks \o t.out, more)
    BY <1>7, <2>1, <2>5, <2>6, OrderedMore
  <2> QED
    BY <2>1, <2>7 DEF ReceiverDid
<1>10. TotalsInv'
  BY <1>0 DEF StreamInv, TotalsInv, ReceiverDid
<1> QED
  BY <1>4, <1>5, <1>6, <1>8, <1>9, <1>10 DEF StreamInv

\* S becomes t of its own accord.
SenderActed(t) ==
  /\ UNCHANGED <<R, acks, got>> /\ SBecomes(t)
  /\ \E b \in Nat : Sound(t, b, sent') /\ b <= R.RemoteSEQ
  /\ spent.swap = 0 /\ spent.tight = 0 => Edge(t) = Edge(S)
  /\ sent <= sent' /\ sent' \in 0 .. MaxBytes /\ smState' \in SocketStates /\ spent' \in Spent
  /\ spent'.swap = 0 /\ spent'.tight = 0 => spent.swap = 0 /\ spent.tight = 0

LEMMA SenderActs ==
  ASSUME StreamInv, NEW t, SenderActed(t)
  PROVE  StreamInv'
<1>1. PICK b \in Nat : Sound(t, b, sent') /\ b <= R.RemoteSEQ
  BY DEF SenderActed
<1>2. S' = [t EXCEPT !.out = <<>>] /\ data' = data \o t.out
  BY DEF SenderActed, SBecomes
<1>3. Sound(S', b, sent') /\ S'.out = <<>> /\ Edge(S') = Edge(t)
  BY <1>1, <1>2, Emptied
<1>4. Carried(t.out, sent', R.RemoteSEQ)
  BY <1>1, SentCarried
<1>5. Thinned(acks', acks, Answer)
  <2>1. acks \in Seq(Answer)
    BY InvFacts
  <2> QED
    BY <2>1, ThinnedSame DEF SenderActed
<1>6. ASSUME spent'.swap = 0, spent'.tight = 0 PROVE Ordered(Edge(S'), acks', Room)
  <2>1. spent.swap = 0 /\ spent.tight = 0 /\ acks' = acks
    BY <1>6 DEF SenderActed
  <2>2. Edge(S') = Edge(S)
    BY <1>3, <2>1 DEF SenderActed
  <2> QED
    BY <2>1, <2>2 DEF StreamInv, RoomInv
<1>7. SenderDid(t.out)
  BY <1>1, <1>2, <1>3, <1>4, <1>5, <1>6 DEF SenderDid, SenderActed
<1> QED
  BY <1>7, SenderMoves

LEMMA PutStep == ASSUME StreamInv, Put PROVE StreamInv'
<1>1. PICK b \in Nat : Sound(S, b, sent) /\ b <= R.RemoteSEQ
  BY DEF StreamInv, SenderInv
<1>2. PICK len \in 1 .. MaxPut :
        /\ sent + Lower(len, TCPIsPutReady(S)) <= MaxBytes
        /\ sent' = sent + Lower(len, TCPIsPutReady(S))
        /\ SBecomes(TCPPutArray(S, len, Lower(len, TCPIsPutReady(S))))
  BY DEF Put
<1>3. PICK k \in Nat \ {0} : k = len
  BY Sizes
<1>4. PICK free \in Int : free = TCPIsPutReady(S) /\ free > 0
  <2>1. Lay(S, b, sent) /\ S.MySEQ \in Int /\ sent \in Nat
    BY <1>1, InvFacts DEF Sound, Sender
  <2>2. TCPIsPutReady(S) = TxSize - 1 - (sent - b)
    BY <2>1, Counts
  <2>3. TCPIsPutReady(S) \in Int
    BY <2>1, <2>2, Sizes
  <2> QED
    BY <2>3 DEF Put
<1>5. PICK n \in Nat : n = Lower(k, free) /\ n <= k
  <2>1. Lower(k, free) \in {k, free} /\ Lower(k, free) <= k
    BY <1>4 DEF Lower
  <2> QED
    BY <1>4, <2>1
<1>6. PICK t : t = TCPPutArray(S, k, n)
  OBVIOUS
<1>7. SBecomes(t) /\ sent' = sent + n /\ sent + n <= MaxBytes
  BY <1>2, <1>3, <1>4, <1>5, <1>6
<1>8. Sound(t, b, sent + n) /\ Edge(t) = Edge(S)
  BY <1>1, <1>3, <1>4, <1>5, <1>6, PutIs
<1>9. sent <= sent' /\ sent' \in 0 .. MaxBytes
  <2>1. PICK m \in Nat, max \in Nat : m = sent /\ max = MaxBytes
    BY InvFacts
  <2>2. m <= m + n /\ (m + n <= max => m + n \in 0 .. max)
    OBVIOUS
  <2> QED
    BY <1>7, <2>1, <2>2
<1>10. SenderActed(t)
  <2>1. UNCHANGED <<R, acks, smState, got, spent>>
    BY DEF Put
  <2>2. smState \in SocketStates /\ spent \in Spent
    BY InvFacts
  <2> QED
    BY <1>1, <1>7, <1>8, <1>9, <2>1, <2>2 DEF SenderActed
<1> QED
  BY <1>10, SenderActs

LEMMA TickSendStep == ASSUME StreamInv, TickSend PROVE StreamInv'
<1>1. PICK b \in Nat : Sound(S, b, sent) /\ b <= R.RemoteSEQ
  BY DEF StreamInv, SenderInv
<1>2. PICK reset \in BOOLEAN : SBecomes(Send(S, reset))
  <2>1. (~S.bTXASAPWithoutTimerReset) \in BOOLEAN
    OBVIOUS
  <2>2. SBecomes(Send(S, ~S.bTXASAPWithoutTimerReset))
    BY DEF TickSend
  <2> QED
    BY <2>1, <2>2
<1>3. PICK t : t = Send(S, reset)
  OBVIOUS
<1>4. Sound(t, b, sent) /\ Edge(t) = Edge(S)
  BY <1>1, <1>3, SendAnyIs
<1>5. UNCHANGED <<R, acks, smState, sent, got, spent>>
  BY DEF TickSend
<1>6. smState \in SocketStates /\ spent \in Spent /\ sent \in 0 .. MaxBytes /\ sent \in Nat
  BY InvFacts
<1>7. sent <= sent
  BY <1>6
<1>8. SenderActed(t)
  BY <1>1, <1>2, <1>3, <1>4, <1>5, <1>6, <1>7 DEF SenderActed
<1> QED
  BY <1>8, SenderActs

\* The timer that is early changes nothing of what the windows rest on.
LEMMA ExpiresIs ==
  ASSUME StreamInv, Expires
  PROVE  /\ UNCHANGED <<R, acks, sent, got>> /\ spent' \in Spent
         /\ spent'.swap = 0 /\ spent'.tight = 0 => spent.swap = 0 /\ spent.tight = 0
<1>1. spent \in Spent
  BY InvFacts
<1>2. CASE UNCHANGED spent
  BY <1>1, <1>2 DEF Expires
<1>3. CASE spent' = Spend("early")
  BY <1>1, <1>3, SpentIs DEF Expires
<1> QED
  BY <1>2, <1>3 DEF Expires

LEMMA TickRetransmitStep == ASSUME StreamInv, TickRetransmit PROVE StreamInv'
<1>1. PICK b \in Nat : Sound(S, b, sent) /\ b <= R.RemoteSEQ
  BY DEF StreamInv, SenderInv
<1>2. /\ S.retryCount < TCP_MAX_RETRIES /\ SBecomes(Send(RolledBack(S), FALSE))
      /\ UNCHANGED smState /\ Expires
  BY DEF TickRetransmit
<1>3. PICK t : t = Send(RolledBack(S), FALSE)
  OBVIOUS
<1>4. Sound(t, b, sent) /\ (Edge(S) - b < WordSize => Edge(t) = Edge(S))
  <2>1. PICK u : u = RolledBack(S)
    OBVIOUS
  <2>2. Sound(u, b, sent) /\ (Edge(S) - b < WordSize => Edge(u) = Edge(S))
    BY <1>1, <1>2, <2>1, RolledBackIs
  <2>3. t = Send(u, FALSE) /\ FALSE \in BOOLEAN
    BY <1>3, <2>1
  <2> QED
    BY <2>2, <2>3, SendAnyIs
<1>5. ASSUME spent.swap = 0, spent.tight = 0 PROVE Edge(S) - b < WordSize
  <2>1. Edge(S) <= Room
    BY <1>5 DEF StreamInv, RoomInv, Ordered
  <2>2. PICK g \in Nat, m \in Nat, e \in Int :
          g = Len(got) /\ m = sent /\ e = Edge(S) /\ g <= m
    <3>1. PICK g \in Nat, h \in Nat, m \in Nat, e \in Int :
            g = Len(got) /\ h = R.RemoteSEQ /\ m = sent /\ e = Edge(S) /\ g <= h /\ h <= m
      BY InvFacts
    <3>2. g <= m
      BY <3>1
    <3> QED
      BY <3>1, <3>2
  <2>3. PICK tx \in Nat, rz \in Nat, w \in Nat :
          tx = TxSize /\ rz = RxSize /\ w = WordSize /\ tx + rz < w
    BY Sizes
  <2>4. m - b < tx
    BY <1>1, <2>2, <2>3 DEF Sound, Lay
  <2>5. e <= g + rz - 1
    BY <2>1, <2>2, <2>3 DEF Room
  <2>6. e - b < w
    BY <2>2, <2>3, <2>4, <2>5
  <2> QED
    BY <2>2, <2>3, <2>6
<1>6. UNCHANGED <<R, acks, sent, got>> /\ spent' \in Spent
      /\ (spent'.swap = 0 /\ spent'.tight = 0 => spent.swap = 0 /\ spent.tight = 0)
  BY <1>2, ExpiresIs
<1>7. smState \in SocketStates /\ sent \in 0 .. MaxBytes /\ sent \in Nat
  BY InvFacts
<1>8. sent <= sent
  BY <1>7
<1>9. SenderActed(t)
  BY <1>1, <1>2, <1>3, <1>4, <1>5, <1>6, <1>7, <1>8 DEF SenderActed
<1> QED
  BY <1>9, SenderActs

\* Nothing of the two ends changes.
LEMMA StillStep ==
  ASSUME StreamInv, UNCHANGED <<S, R, sent, got>>,
         Thinned(data', data, Segment), Thinned(acks', acks, Answer),
         smState' \in SocketStates, spent' \in Spent,
         spent'.swap = 0 /\ spent'.tight = 0 => spent.swap = 0 /\ spent.tight = 0
  PROVE  StreamInv'
<1>1. SenderInv' /\ ReceiverInv' /\ TotalsInv'
  BY DEF StreamInv, SenderInv, ReceiverInv, TotalsInv
<1>2. DataInv'
  <2>1. Carried(data', sent, R.RemoteSEQ)
    BY CarriedThinned DEF StreamInv, DataInv
  <2> QED
    BY <2>1 DEF DataInv
<1>3. AcksInv'
  <2>1. Returned(acks', R.RemoteSEQ)
    BY ReturnedThinned DEF StreamInv, AcksInv
  <2> QED
    BY <2>1 DEF AcksInv
<1>4. RoomInv'
  <2> SUFFICES ASSUME spent'.swap = 0, spent'.tight = 0
               PROVE  Ordered(Edge(S), acks', Room)
    BY DEF RoomInv, Room
  <2>1. Ordered(Edge(S), acks, Room)
    BY DEF StreamInv, RoomInv
  <2>2. PICK e \in Int, room \in Int : e = Edge(S) /\ room = Room
    BY InvFacts
  <2>3. room <= room
    BY <2>2
  <2>4. Returned(acks, R.RemoteSEQ)
    BY DEF StreamInv, AcksInv
  <2>5. Ordered(e, acks', room)
    BY <2>1, <2>2, <2>3, <2>4, OrderedThinned
  <2> QED
    BY <2>2, <2>5
<1> QED
  BY <1>1, <1>2, <1>3, <1>4 DEF StreamInv

LEMMA TickGiveUpStep == ASSUME StreamInv, TickGiveUp PROVE StreamInv'
<1>1. PICK b \in Nat : Sound(S, b, sent) /\ b <= R.RemoteSEQ
  BY DEF StreamInv, SenderInv
<1>2. SBecomes(SendFin(S, TRUE)) /\ smState' = "TCP_FIN_WAIT_1" /\ Expires
  BY DEF TickGiveUp
<1>3. PICK t : t = SendFin(S, TRUE)
  OBVIOUS
<1>4. Sound(t, b, sent) /\ Edge(t) = Edge(S)
  <2>1. TRUE \in BOOLEAN
    OBVIOUS
  <2> QED
    BY <1>1, <1>3, <2>1, SendFinIs
<1>5. UNCHANGED <<R, acks, sent, got>> /\ spent' \in Spent
      /\ (spent'.swap = 0 /\ spent'.tight = 0 => spent.swap = 0 /\ spent.tight = 0)
  BY <1>2, ExpiresIs
<1>6. smState' \in SocketStates
  BY <1>2 DEF SocketStates
<1>7. sent \in 0 .. MaxBytes /\ sent \in Nat
  BY InvFacts
<1>8. sent <= sent
  BY <1>7
<1>9. SenderActed(t)
  BY <1>1, <1>2, <1>3, <1>4, <1>5, <1>6, <1>7, <1>8 DEF SenderActed
<1> QED
  BY <1>9, SenderActs

LEMMA TickCloseStep == ASSUME StreamInv, TickClose PROVE StreamInv'
<1>1. UNCHANGED <<S, data>> /\ smState' = "TCP_CLOSED" /\ Expires
  BY DEF TickClose
<1>2. UNCHANGED <<R, acks, sent, got>> /\ spent' \in Spent
      /\ (spent'.swap = 0 /\ spent'.tight = 0 => spent.swap = 0 /\ spent.tight = 0)
  BY <1>1, ExpiresIs
<1>3. data \in Seq(Segment) /\ acks \in Seq(Answer)
  BY InvFacts
<1>4. Thinned(data', data, Segment) /\ Thinned(acks', acks, Answer)
  BY <1>1, <1>2, <1>3, ThinnedSame
<1>5. smState' \in SocketStates
  BY <1>1 DEF SocketStates
<1> QED
  BY <1>1, <1>2, <1>4, <1>5, StillStep

LEMMA LoseStep == ASSUME StreamInv, LoseSegment PROVE StreamInv'
<1>1. data \in Seq(Segment) /\ acks \in Seq(Answer) /\ spent \in Spent /\ smState \in SocketStates
  BY InvFacts
<1>2. UNCHANGED <<S, R, smState, sent, got>> /\ spent' = Spend("lost")
  BY DEF LoseSegment
<1>3. /\ spent' \in Spent
      /\ spent'.swap = 0 /\ spent'.tight = 0 => spent.swap = 0 /\ spent.tight = 0
  BY <1>1, <1>2, SpentIs
<1>4. Thinned(data', data, Segment) /\ Thinned(acks', acks, Answer)
  BY <1>1, ThinnedSame, ThinnedTail DEF LoseSegment
<1> QED
  BY <1>1, <1>2, <1>3, <1>4, StillStep

\* The probe has a byte that R has: with the timer off nothing is in flight.
LEMMA TickKeepAliveStep == ASSUME StreamInv, TickKeepAlive PROVE StreamInv'
<1>1. PICK b \in Nat : Sound(S, b, sent) /\ b <= R.RemoteSEQ
  BY DEF StreamInv, SenderInv
<1>2. /\ S \in Sender /\ S.out = <<>> /\ R.RemoteSEQ \in Nat /\ sent \in 0 .. MaxBytes
      /\ data \in Seq(Segment) /\ acks \in Seq(Answer) /\ smState \in SocketStates
      /\ spent \in Spent /\ sent \in Nat
  BY InvFacts
<1>3. UNCHANGED <<R, acks, sent, got, spent>> /\ ~S.bTimerEnabled
  BY DEF TickKeepAlive
<1>4. Thinned(acks', acks, Answer)
  BY <1>2, <1>3, ThinnedSame
<1>5. CASE smState' = "TCP_CLOSED" /\ UNCHANGED <<S, data>>
  <2>1. Thinned(data', data, Segment)
    BY <1>2, <1>5, ThinnedSame
  <2>2. smState' \in SocketStates
    BY <1>5 DEF SocketStates
  <2> QED
    BY <1>2, <1>3, <1>4, <1>5, <2>1, <2>2, StillStep
<1>6. CASE /\ SBecomes([S EXCEPT !.vUnackedKeepalives = @ + 1,
                                 !.out = <<[seq |-> S.MySEQ - 1, bytes |-> <<0>>]>>])
           /\ UNCHANGED smState
  <2>1. PICK q \in Nat, h \in Nat : q = S.MySEQ /\ h = R.RemoteSEQ /\ q <= h
    <3>1. S.MySEQ = b
      BY <1>1, <1>3 DEF Sound
    <3> QED
      BY <1>1, <1>2, <3>1
  <2>2. PICK x \in Int : x = q - 1
    OBVIOUS
  <2>3. PICK bytes \in Seq(Nat) : bytes = <<0>> /\ Len(bytes) = 1
    <3>1. <<0>> \in Seq(Nat) /\ Len(<<0>>) = 1
      OBVIOUS
    <3> QED
      BY <3>1
  <2>4. PICK d : d = [seq |-> x, bytes |-> bytes]
    OBVIOUS
  <2>5. d \in Segment /\ d.seq = x /\ d.bytes = bytes
    BY <2>4 DEF Segment
  <2>6. Old(d, h)
    <3>1. x + 1 <= h
      BY <2>1, <2>2
    <3>2. bytes # <<>>
      BY <2>3
    <3> QED
      BY <2>3, <2>5, <3>1, <3>2 DEF Old
  <2>7. PICK o : o = <<d>>
    OBVIOUS
  <2>8. o \in Seq(Segment) /\ Len(o) = 1 /\ o[1] = d
    BY <2>5, <2>7
  <2>9. Carried(o, sent, h)
    <3>1. \A i \in 1 .. 1 : o[i] = d
      BY <2>8
    <3> QED
      BY <2>6, <2>8, <3>1 DEF Carried
  <2>10. PICK v \in Nat : v = S.vUnackedKeepalives + 1
    BY <1>2 DEF Sender
  <2>11. SBecomes([S EXCEPT !.vUnackedKeepalives = v, !.out = o])
    <3>1. o = <<[seq |-> S.MySEQ - 1, bytes |-> <<0>>]>>
      BY <2>1, <2>2, <2>3, <2>4, <2>7
    <3> QED
      BY <1>6, <2>10, <3>1
  <2>12. PICK t : t = [S EXCEPT !.vUnackedKeepalives = v, !.out = o]
    OBVIOUS
  <2>13. S' = [t EXCEPT !.out = <<>>] /\ data' = data \o t.out
    BY <2>11, <2>12 DEF SBecomes
  <2>14. t.out = o
    BY <1>2, <2>12 DEF Sender
  <2>15. PICK n \in Segments : n = <<>> /\ n = S.out
    BY <1>2 DEF Sender
  <2>16. S' = [S EXCEPT !.vUnackedKeepalives = v, !.out = n]
    <3>1. S' = [t EXCEPT !.out = n]
      BY <2>13, <2>15
    <3> QED
      BY <1>2, <2>12, <3>1 DEF Sender
  <2>17. Alike(S', S) /\ S'.out = <<>>
    BY <1>2, <2>15, <2>16 DEF Alike, Sender
  <2>18. Sound(S', b, sent) /\ Edge(S') = Edge(S)
    BY <1>1, <2>17, AlikeIs
  <2>19. spent.swap = 0 /\ spent.tight = 0 => Ordered(Edge(S'), acks, Room)
    BY <2>18 DEF StreamInv, RoomInv
  <2>20. sent <= sent
    BY <1>2
  <2>21. SenderDid(o)
    BY <1>1, <1>2, <1>3, <1>4, <1>6, <2>1, <2>9, <2>13, <2>14, <2>17, <2>18, <2>19, <2>20
    DEF SenderDid
  <2> QED
    BY <2>21, SenderMoves
<1> QED
  BY <1>5, <1>6 DEF TickKeepAlive

LEMMA RecvAckStep == ASSUME StreamInv, RecvAck PROVE StreamInv'
<1>1. PICK b \in Nat : Sound(S, b, sent) /\ b <= R.RemoteSEQ
  BY DEF StreamInv, SenderInv
<1>2. PICK i \in DOMAIN acks :
        /\ Keeps(acks, i, acks') /\ SBecomes(Heard(acks[i].ack, acks[i].window))
        /\ smState' = StateAfter(S', acks[i].ack)
  BY DEF RecvAck
<1>3. /\ R.RemoteSEQ \in Nat /\ sent \in 0 .. MaxBytes /\ sent \in Nat /\ smState \in SocketStates
      /\ acks \in Seq(Answer) /\ spent \in Spent /\ R.RemoteSEQ <= sent
      /\ Edge(S) \in Int /\ Room \in Int
  BY InvFacts
<1>4. UNCHANGED <<R, sent, got>> /\ smState' \in SocketStates
  <2>1. smState' = StateAfter(S', acks[i].ack)
    BY <1>2
  <2> QED
    BY <1>3, <2>1 DEF RecvAck, StateAfter, SocketStates
<1>5. /\ Thinned(acks', acks, Answer) /\ i \in 1 .. Len(acks)
      /\ (i = 1 /\ UNCHANGED spent) \/ (i > 1 /\ Left("swap") /\ spent' = Spend("swap"))
         \/ (i = 1 /\ Left("dup") /\ spent' = Spend("dup"))
  BY <1>2, <1>3, KeepsIs
<1>6. Returned(acks, R.RemoteSEQ)
  BY DEF StreamInv, AcksInv
<1>7. PICK ack \in Nat, window \in 0 .. RxSize - 1 :
        ack = acks[i].ack /\ window = acks[i].window /\ ack <= R.RemoteSEQ
  BY <1>5, <1>6 DEF Returned, Given
<1>8. ack <= sent
  BY <1>3, <1>7
<1>9. PICK t : t = Heard(ack, window)
  OBVIOUS
<1>10. PICK c \in {b, ack} :
         /\ Sound(t, c, sent)
         /\ Edge(S) <= ack + window => Edge(t) = ack + window
  BY <1>1, <1>7, <1>8, <1>9, HeardIs
<1>11. c \in Nat /\ c <= R.RemoteSEQ
  BY <1>1, <1>7, <1>10
<1>12. S' = [t EXCEPT !.out = <<>>] /\ data' = data \o t.out
  BY <1>2, <1>7, <1>9 DEF SBecomes
<1>13. Sound(S', c, sent) /\ S'.out = <<>> /\ Edge(S') = Edge(t)
  BY <1>10, <1>12, Emptied
<1>14. Carried(t.out, sent, R.RemoteSEQ)
  BY <1>10, SentCarried
<1>15. spent' \in Spent
       /\ (spent'.swap = 0 /\ spent'.tight = 0 => i = 1 /\ spent.swap = 0 /\ spent.tight = 0)
  <2>1. CASE i = 1 /\ UNCHANGED spent
    BY <1>3, <2>1
  <2>2. CASE i > 1 /\ spent' = Spend("swap")
    BY <1>3, <2>2, SpentIs
  <2>3. CASE i = 1 /\ spent' = Spend("dup")
    BY <1>3, <2>3, SpentIs
  <2> QED
    BY <1>5, <2>1, <2>2, <2>3
<1>16. ASSUME spent'.swap = 0, spent'.tight = 0 PROVE Ordered(Edge(S'), acks', Room)
  <2>1. i = 1 /\ Ordered(Edge(S), acks, Room)
    BY <1>15, <1>16 DEF StreamInv, RoomInv
  <2>0. PICK k : k = Allows(acks[1])
    OBVIOUS
  <2>2. PICK e \in Int, room \in Int : e = Edge(S) /\ room = Room
    BY <1>3
  <2>3. Ordered(k, acks, room) /\ k \in Int /\ e <= k
    <3>1. 1 \in 1 .. Len(acks)
      BY <1>5, <2>1
    <3> QED
      BY <1>6, <2>0, <2>1, <2>2, <3>1, OrderedTaken
  <2>4. k = ack + window
    BY <1>7, <2>0, <2>1 DEF Allows
  <2>5. Edge(S') = k
    BY <1>10, <1>13, <2>2, <2>3, <2>4
  <2>6. room <= room
    BY <2>2
  <2>7. Ordered(k, acks', room)
    BY <1>5, <1>6, <2>2, <2>3, <2>6, OrderedThinned
  <2> QED
    BY <2>2, <2>5, <2>7
<1>17. sent <= sent
  BY <1>3
<1>18. SenderDid(t.out)
  BY <1>3, <1>4, <1>5, <1>11, <1>12, <1>13, <1>14, <1>15, <1>16, <1>17 DEF SenderDid
<1> QED
  BY <1>18, SenderMoves

\* R answers, or not, and takes a segment from the network, or not.
LEMMA ReceiverAnswers ==
  ASSUME StreamInv, UNCHANGED <<S, smState, sent, got>>,
         NEW mac, NEW t, RBecomes(t), RxSound(t, Len(got), sent), t.RemoteSEQ >= R.RemoteSEQ,
         Replies(t.out, t.RemoteSEQ, Len(got), mac), Thinned(data', data, Segment),
         spent' \in Spent,
         spent'.swap = 0 /\ spent'.tight = 0 =>
           spent.swap = 0 /\ spent.tight = 0 /\ mac = RxSize
  PROVE  StreamInv'
<1>1. R' = [t EXCEPT !.out = <<>>] /\ acks' = acks \o t.out
  BY DEF RBecomes
<1>2. Len(got) <= Len(got) /\ Numbered(got, 0, Len(got))
  BY InvFacts DEF StreamInv, TotalsInv
<1>3. ReceiverDid(t, mac)
  BY <1>1, <1>2 DEF ReceiverDid
<1> QED
  BY <1>3, ReceiverMoves

\* What the receive buffer of the MAC leaves is less than the FIFO, or not looked at.
LEMMA MacWhole == RxSize \in 0 .. RxSize
  BY Sizes

LEMMA MacLess ==
  ASSUME StreamInv
  PROVE  0 .. RxSize - 2 \subseteq 0 .. RxSize /\ 0 .. FreeSpace(R) - 1 \subseteq 0 .. RxSize
<1>1. PICK z \in Nat : z = RxSize
  BY Sizes
<1>2. RxLay(R, Len(got), sent)
  BY DEF StreamInv, ReceiverInv, RxSound
<1>3. PICK g \in Nat, h \in Nat : g = Len(got) /\ h = R.RemoteSEQ /\ g <= h
  BY InvFacts
<1>4. FreeSpace(R) = z - 1 - (h - g)
  BY <1>1, <1>2, <1>3, RxCounts
<1>5. PICK x \in Int : x = z - 1 - (h - g) /\ x <= z
  BY <1>3
<1> QED
  BY <1>1, <1>4, <1>5

LEMMA RecvDataStep == ASSUME StreamInv, RecvData PROVE StreamInv'
<1>1. PICK i \in DOMAIN data :
        /\ \/ Keeps(data, i, data') /\ RBecomes(HandleData(R, data[i].seq, data[i].bytes, RxSize))
           \/ /\ i = 1 /\ Left("tight") /\ spent' = Spend("tight") /\ data' = Tail(data)
              /\ \E mac \in 0 .. RxSize - 2 :
                   RBecomes(HandleData(R, data[i].seq, data[i].bytes, mac))
        /\ UNCHANGED <<S, smState, sent, got>>
  BY DEF RecvData, RBecomes
<1>2. data \in Seq(Segment) /\ spent \in Spent /\ R.out = <<>>
  BY InvFacts
<1>3. RxSound(R, Len(got), sent)
  BY DEF StreamInv, ReceiverInv
<1>4. i \in 1 .. Len(data)
  BY <1>2, LenProperties
<1>5. PICK d : d = data[i]
  OBVIOUS
<1>6. Right(d, sent)
      \/ (d \in Segment /\ d.bytes # <<>> /\ d.seq + Len(d.bytes) <= R.RemoteSEQ)
  BY <1>4, <1>5 DEF StreamInv, DataInv, Carried, Old
<1>7. ASSUME NEW mac \in 0 .. RxSize, NEW t, t = HandleData(R, d.seq, d.bytes, mac)
      PROVE  /\ RxSound(t, Len(got), sent) /\ t.RemoteSEQ >= R.RemoteSEQ
             /\ Replies(t.out, t.RemoteSEQ, Len(got), mac)
  BY <1>2, <1>3, <1>6, <1>7, HandleDataIs
<1>8. CASE Keeps(data, i, data') /\ RBecomes(HandleData(R, d.seq, d.bytes, RxSize))
  <2>1. PICK t : t = HandleData(R, d.seq, d.bytes, RxSize)
    OBVIOUS
  <2>2. /\ RxSound(t, Len(got), sent) /\ t.RemoteSEQ >= R.RemoteSEQ
        /\ Replies(t.out, t.RemoteSEQ, Len(got), RxSize)
    BY <1>7, <2>1, MacWhole
  <2>3. /\ Thinned(data', data, Segment)
        /\ (i = 1 /\ UNCHANGED spent) \/ (i > 1 /\ Left("swap") /\ spent' = Spend("swap"))
           \/ (i = 1 /\ Left("dup") /\ spent' = Spend("dup"))
    BY <1>2, <1>8, KeepsIs
  <2>4. /\ spent' \in Spent
        /\ spent'.swap = 0 /\ spent'.tight = 0 => spent.swap = 0 /\ spent.tight = 0
    <3>1. CASE UNCHANGED spent
      BY <1>2, <3>1
    <3>2. CASE spent' = Spend("swap")
      BY <1>2, <3>2, SpentIs
    <3>3. CASE spent' = Spend("dup")
      BY <1>2, <3>3, SpentIs
    <3> QED
      BY <2>3, <3>1, <3>2, <3>3
  <2>5. RBecomes(t) /\ UNCHANGED <<S, smState, sent, got>>
    BY <1>1, <1>8, <2>1
  <2> QED
    BY <2>2, <2>3, <2>4, <2>5, ReceiverAnswers
<1>9. CASE /\ i = 1 /\ Left("tight") /\ spent' = Spend("tight") /\ data' = Tail(data)
           /\ \E mac \in 0 .. RxSize - 2 : RBecomes(HandleData(R, d.seq, d.bytes, mac))
  <2>0. PICK mac \in 0 .. RxSize : RBecomes(HandleData(R, d.seq, d.bytes, mac))
    BY <1>9, MacLess
  <2>1. PICK t : t = HandleData(R, d.seq, d.bytes, mac)
    OBVIOUS
  <2>2. /\ RxSound(t, Len(got), sent) /\ t.RemoteSEQ >= R.RemoteSEQ
        /\ Replies(t.out, t.RemoteSEQ, Len(got), mac)
    BY <1>7, <2>1
  <2>3. Thinned(data', data, Segment)
    <3>1. data # <<>>
      BY <1>4
    <3> QED
      BY <1>2, <1>9, <3>1, ThinnedTail
  <2>4. /\ spent' \in Spent /\ ~(spent'.swap = 0 /\ spent'.tight = 0)
    <3>1. spent' = Spend("tight")
      BY <1>9
    <3> QED
      BY <1>2, <3>1, SpentIs
  <2>5. RBecomes(t) /\ UNCHANGED <<S, smState, sent, got>>
    BY <1>1, <2>0, <2>1
  <2> QED
    BY <2>2, <2>3, <2>4, <2>5, ReceiverAnswers
<1> QED
  BY <1>1, <1>5, <1>8, <1>9

LEMMA TickRStep == ASSUME StreamInv, TickR PROVE StreamInv'
<1>1. UNCHANGED <<S, data, smState, sent, got>>
  BY DEF TickR
<1>2. data \in Seq(Segment) /\ spent \in Spent /\ R.out = <<>> /\ R.RemoteSEQ \in Nat
  BY InvFacts
<1>3. RxSound(R, Len(got), sent)
  BY DEF StreamInv, ReceiverInv
<1>4. Thinned(data', data, Segment)
  BY <1>1, <1>2, ThinnedSame
<1>5. ASSUME NEW mac \in 0 .. RxSize, NEW t, t = SendAck(R, mac)
      PROVE  /\ RxSound(t, Len(got), sent) /\ t.RemoteSEQ >= R.RemoteSEQ
             /\ Replies(t.out, t.RemoteSEQ, Len(got), mac)
  <2>1. /\ RxSound(t, Len(got), sent) /\ t.RemoteSEQ = R.RemoteSEQ
        /\ Replies(t.out, R.RemoteSEQ, Len(got), mac)
    BY <1>2, <1>3, <1>5, SendAckIs
  <2> QED
    BY <1>2, <2>1
<1>6. CASE RBecomes(SendAck(R, RxSize)) /\ UNCHANGED spent
  <2>1. PICK t : t = SendAck(R, RxSize)
    OBVIOUS
  <2>2. /\ RxSound(t, Len(got), sent) /\ t.RemoteSEQ >= R.RemoteSEQ
        /\ Replies(t.out, t.RemoteSEQ, Len(got), RxSize)
    BY <1>5, <2>1, MacWhole
  <2> QED
    BY <1>1, <1>2, <1>4, <1>6, <2>1, <2>2, ReceiverAnswers
<1>7. CASE /\ \E mac \in 0 .. FreeSpace(R) - 1 : RBecomes(SendAck(R, mac))
           /\ spent' = Spend("tight")
  <2>0. PICK mac \in 0 .. RxSize : RBecomes(SendAck(R, mac))
    BY <1>7, MacLess
  <2>1. PICK t : t = SendAck(R, mac)
    OBVIOUS
  <2>2. /\ RxSound(t, Len(got), sent) /\ t.RemoteSEQ >= R.RemoteSEQ
        /\ Replies(t.out, t.RemoteSEQ, Len(got), mac)
    BY <1>5, <2>1
  <2>3. /\ spent' \in Spent /\ ~(spent'.swap = 0 /\ spent'.tight = 0)
    <3>1. spent' = Spend("tight")
      BY <1>7
    <3> QED
      BY <1>2, <3>1, SpentIs
  <2> QED
    BY <1>1, <1>4, <2>0, <2>1, <2>2, <2>3, ReceiverAnswers
<1> QED
  BY <1>6, <1>7 DEF TickR

LEMMA NumberedJoin ==
  ASSUME NEW x, NEW y, NEW a \in Nat, NEW m \in Nat, NEW n \in Nat, Numbered(x, a, m),
         NEW c \in Nat, c = a + m, Numbered(y, c, n), NEW k \in Nat, k = m + n
  PROVE  Numbered(x \o y, a, k)
<1>1. /\ x \in Seq(Nat) /\ y \in Seq(Nat) /\ Len(x) = m /\ Len(y) = n
      /\ \A j \in 1 .. m : x[j] = a + j
      /\ \A j \in 1 .. n : y[j] = c + j
  BY DEF Numbered
<1>2. PICK t : t = x \o y
  OBVIOUS
<1>3. /\ t \in Seq(Nat) /\ Len(t) = k
      /\ \A j \in 1 .. k : t[j] = IF j <= m THEN x[j] ELSE y[j - m]
  <2>1. /\ x \o y \in Seq(Nat) /\ Len(x \o y) = Len(x) + Len(y)
        /\ \A j \in 1 .. Len(x) + Len(y) :
             (x \o y)[j] = IF j <= Len(x) THEN x[j] ELSE y[j - Len(x)]
    BY <1>1, ConcatProperties
  <2> QED
    BY <1>1, <1>2, <2>1
<1>4. ASSUME NEW j \in 1 .. k PROVE t[j] = a + j
  <2>1. CASE j <= m
    <3>1. j \in 1 .. m
      BY <2>1
    <3> QED
      BY <1>1, <1>3, <2>1, <3>1
  <2>2. CASE ~(j <= m)
    <3>1. PICK l \in 1 .. n : l = j - m /\ c + l = a + j
      BY <2>2
    <3> QED
      BY <1>1, <1>3, <2>2, <3>1
  <2> QED
    BY <2>1, <2>2
<1> QED
  BY <1>2, <1>3, <1>4 DEF Numbered

\* What R has taken are all the bytes that it has received in sequence.
LEMMA GetGives ==
  ASSUME StreamInv, Get
  PROVE  /\ Numbered(got', 0, R.RemoteSEQ) /\ Len(got') = R.RemoteSEQ
         /\ Len(got) < R.RemoteSEQ /\ R.RemoteSEQ <= sent
         /\ RxSound(TCPGet(R), R.RemoteSEQ, sent) /\ TCPGet(R).RemoteSEQ = R.RemoteSEQ
         /\ TCPGet(R).out = <<>> /\ Answering(TCPGet(R))
<1>1. RxSound(R, Len(got), sent) /\ R.out = <<>> /\ Numbered(got, 0, Len(got))
  BY DEF StreamInv, ReceiverInv, TotalsInv
<1>2. PICK g \in Nat, h \in Nat : g = Len(got) /\ h = R.RemoteSEQ /\ g <= h /\ h <= sent
  BY InvFacts
<1>3. PICK part : part = Part(R.rxBuf, R.rxTail, TCPIsGetReady(R))
  OBVIOUS
<1>4. /\ RxSound(TCPGet(R), R.RemoteSEQ, sent) /\ TCPGet(R).RemoteSEQ = R.RemoteSEQ
      /\ TCPGet(R).out = R.out /\ Answering(TCPGet(R)) /\ Numbered(part, Len(got), R.RemoteSEQ - Len(got))
  BY <1>1, <1>3, GetIs
<1>5. TCPIsGetReady(R) = R.RemoteSEQ - Len(got)
  BY <1>1, RxCounts DEF RxSound
<1>6. got' = got \o part /\ TCPIsGetReady(R) > 0
  BY <1>3 DEF Get
<1>7. h - g \in Nat /\ g < h
  BY <1>2, <1>5, <1>6
<1>8. PICK n \in Nat : n = h - g
  BY <1>7
<1>9. Numbered(got, 0, g) /\ Numbered(part, g, n)
  BY <1>1, <1>2, <1>4, <1>8
<1>10. g = 0 + g /\ h = g + n
  BY <1>2, <1>8
<1>11. Numbered(got \o part, 0, h)
  BY <1>9, <1>10, NumberedJoin
<1>12. Len(got') = h
  BY <1>6, <1>11 DEF Numbered
<1> QED
  BY <1>1, <1>2, <1>4, <1>6, <1>7, <1>11, <1>12

LEMMA GetStep == ASSUME StreamInv, Get PROVE StreamInv'
<1>1. PICK t : t = TCPGet(R)
  OBVIOUS
<1>2. /\ Numbered(got', 0, R.RemoteSEQ) /\ Len(got') = R.RemoteSEQ
      /\ Len(got) < R.RemoteSEQ
      /\ RxSound(t, R.RemoteSEQ, sent) /\ t.RemoteSEQ = R.RemoteSEQ /\ t.out = <<>>
  BY <1>1, GetGives
<1>3. R' = [t EXCEPT !.out = <<>>] /\ acks' = acks \o t.out
      /\ UNCHANGED <<S, data, smState, sent, spent>>
  BY <1>1 DEF Get, RBecomes
<1>4. data \in Seq(Segment) /\ spent \in Spent /\ R.RemoteSEQ \in Nat /\ Len(got) \in Nat
  BY InvFacts
<1>5. Thinned(data', data, Segment)
  BY <1>3, <1>4, ThinnedSame
<1>6. Len(got) <= Len(got') /\ t.RemoteSEQ >= R.RemoteSEQ
  BY <1>2, <1>4
<1>7. Replies(t.out, t.RemoteSEQ, Len(got'), RxSize)
  BY <1>2 DEF Replies
<1>8. ReceiverDid(t, RxSize)
  BY <1>2, <1>3, <1>4, <1>5, <1>6, <1>7 DEF ReceiverDid
<1> QED
  BY <1>8, ReceiverMoves

LEMMA StreamBegins == ASSUME StreamInit PROVE StreamInv
<1>1. PICK tx \in Nat \ {0, 1}, rz \in Nat \ {0, 1}, w \in Nat \ {0} :
        tx = TxSize /\ rz = RxSize /\ w = WordSize /\ tx + rz < w
  BY Sizes
<1>2. At(TxSize, 0) = Start(TxSize) /\ At(RxSize, 0) = Start(RxSize)
  <2>1. ASSUME NEW n \in Nat \ {0, 1} PROVE At(n, 0) = n - 1
    <3>1. PICK x \in 0 .. n - 1 : x = n - 2
      OBVIOUS
    <3>2. x % n = x
      BY <3>1, Within
    <3>3. n - 2 + 0 = x /\ x + 1 = n - 1
      BY <3>1
    <3> QED
      BY <3>2, <3>3 DEF At
  <2> QED
    BY <1>1, <2>1 DEF Start
<1>3. PICK p \in Int, q \in Int : p = Start(TxSize) /\ q = Start(RxSize)
  BY <1>1 DEF Start
<1>4. PICK tb \in TxBuffer, rb \in RxBuffer :
        tb = [k \in 1 .. TxSize |-> 0] /\ rb = [k \in 1 .. RxSize |-> 0]
  BY DEF TxBuffer, RxBuffer
<1>5. PICK win \in Windows : win = RxSize - 1
  <2>1. rz - 1 \in 0 .. w - 1
    BY <1>1
  <2> QED
    BY <1>1, <2>1 DEF Windows
<1>6. PICK ret \in Retries : ret = 0
  BY Sizes DEF Retries
<1>7. PICK os \in Segments, ns \in Answers : os = <<>> /\ ns = <<>>
  <2>1. <<>> \in Segments /\ <<>> \in Answers
    BY EmptySeq DEF Segments, Answers
  <2> QED
    BY <2>1
<1>8. PICK none \in Int : none = -1
  OBVIOUS
<1>9. S = [txHead |-> p, txUnackedTail |-> p, txTail |-> p, txBuf |-> tb,
           MySEQ |-> 0, remoteWindow |-> win, retryCount |-> ret,
           vUnackedKeepalives |-> 0,
           bTimerEnabled |-> FALSE, bTimer2Enabled |-> FALSE, bHalfFullFlush |-> FALSE,
           bTXASAP |-> FALSE, bTXASAPWithoutTimerReset |-> FALSE, bFINSent |-> FALSE,
           bRXNoneACKed1 |-> FALSE, bRXNoneACKed2 |-> FALSE, out |-> os]
  BY <1>3, <1>4, <1>5, <1>6, <1>7 DEF StreamInit
<1>10. R = [rxHead |-> q, rxTail |-> q, rxBuf |-> rb,
            RemoteSEQ |-> 0, sHoleSize |-> none, wFutureDataSize |-> 0,
            bOneSegmentReceived |-> FALSE, bDelayedACKTimerEnabled |-> FALSE,
            bTimer2Enabled |-> FALSE, bTXASAPWithoutTimerReset |-> FALSE, out |-> ns]
  BY <1>3, <1>4, <1>7, <1>8 DEF StreamInit
<1>11. /\ data = <<>> /\ acks = <<>> /\ smState = "TCP_ESTABLISHED" /\ sent = 0 /\ got = <<>>
       /\ spent = [lost |-> 0, dup |-> 0, swap |-> 0, tight |-> 0, early |-> 0]
  BY DEF StreamInit
<1>12. Len(got) = 0
  BY <1>11, EmptySeq
<1>13. \A n, buf : Has(buf, n, 0, 0)
  <2>1. 0 .. 0 - 1 = {}
    OBVIOUS
  <2> QED
    BY <2>1 DEF Has
<1>14. SenderInv
  <2>1. S \in Sender
    BY <1>9 DEF Sender
  <2>2. /\ S.MySEQ = 0 /\ S.txTail = p /\ S.txHead = p /\ S.txUnackedTail = p
        /\ S.out = <<>>
    BY <1>7, <1>9
  <2>3. 0 \in 0 .. 0 /\ 0 - 0 < TxSize
    BY <1>1
  <2>4. Lay(S, 0, 0)
    BY <1>2, <1>3, <1>13, <2>2, <2>3 DEF Lay
  <2>5. \A i \in DOMAIN S.out : Right(S.out[i], 0)
    BY <2>2
  <2>6. Sound(S, 0, 0)
    BY <2>1, <2>2, <2>4, <2>5 DEF Sound
  <2>7. R.RemoteSEQ = 0 /\ 0 <= 0
    BY <1>10
  <2> QED
    BY <1>11, <2>2, <2>6, <2>7 DEF SenderInv
<1>15. ReceiverInv
  <2>1. R \in Receiver
    <3>1. q \in Int
      OBVIOUS
    <3>2. rb \in RxBuffer
      OBVIOUS
    <3>3. none \in Int
      OBVIOUS
    <3>4. ns \in Answers
      OBVIOUS
    <3> QED
      BY ONLY <1>10, <3>1, <3>2, <3>3, <3>4 DEF Receiver
  <2>2. /\ R.RemoteSEQ = 0 /\ R.rxTail = q /\ R.rxHead = q /\ R.out = <<>>
        /\ R.sHoleSize = -1 /\ R.wFutureDataSize = 0
    BY <1>7, <1>8, <1>10
  <2>3. 0 \in 0 .. 0 /\ 0 - 0 < RxSize
    BY <1>1
  <2>4. RxLay(R, 0, 0)
    BY <1>2, <1>3, <1>13, <2>2, <2>3 DEF RxLay
  <2>5. Future(R, 0, 0)
    <3>1. 0 \in 0 .. RxSize - 1 /\ -1 \in -1 .. RxSize - 1
      BY <1>1
    <3> QED
      BY <2>2, <3>1 DEF Future
  <2> QED
    BY <1>11, <1>12, <2>1, <2>2, <2>4, <2>5 DEF ReceiverInv, RxSound
<1>16. DataInv /\ AcksInv
  <2>1. <<>> \in Seq(Segment) /\ <<>> \in Seq(Answer) /\ Len(<<>>) = 0 /\ 1 .. 0 = {}
    BY EmptySeq
  <2> QED
    BY <1>11, <2>1 DEF DataInv, AcksInv, Carried, Returned
<1>17. RoomInv
  <2>1. Edge(S) = RxSize - 1 /\ Room = RxSize - 1
    <3>1. S.MySEQ = 0 /\ S.remoteWindow = win
      BY <1>9
    <3> QED
      BY <1>1, <1>5, <1>12, <3>1 DEF Edge, Room
  <2>2. RxSize - 1 <= RxSize - 1
    BY <1>1
  <2>3. Len(acks) = 0 /\ 1 .. 0 = {}
    BY <1>11, EmptySeq
  <2> QED
    BY <2>1, <2>2, <2>3 DEF RoomInv, Ordered
<1>18. TotalsInv
  <2>1. sent \in 0 .. MaxBytes
    BY <1>11, Sizes
  <2>2. Numbered(got, 0, Len(got))
    <3>1. got \in Seq(Nat) /\ 1 .. 0 = {}
      BY <1>11, EmptySeq
    <3> QED
      BY <1>12, <3>1 DEF Numbered
  <2>3. spent \in Spent
    BY <1>11 DEF Spent
  <2> QED
    BY <1>11, <2>1, <2>2, <2>3 DEF TotalsInv, SocketStates
<1> QED
  BY <1>14, <1>15, <1>16, <1>17, <1>18 DEF StreamInv

LEMMA StreamGoesOn == ASSUME StreamInv, [StreamNext]_streamVars PROVE StreamInv'
<1>1. CASE UNCHANGED streamVars
  <2>1. data \in Seq(Segment) /\ acks \in Seq(Answer) /\ spent \in Spent /\ smState \in SocketStates
    BY InvFacts
  <2>2. Thinned(data', data, Segment) /\ Thinned(acks', acks, Answer)
    BY <1>1, <2>1, ThinnedSame DEF streamVars
  <2> QED
    BY <1>1, <2>1, <2>2, StillStep DEF streamVars
<1>2. CASE Handler
  BY <1>2, TickSendStep, TickRetransmitStep, TickGiveUpStep, TickCloseStep, TickKeepAliveStep,
     RecvAckStep, RecvDataStep, TickRStep DEF Handler
<1> QED
  BY <1>1, <1>2, PutStep, GetStep, LoseStep DEF StreamNext

LEMMA StreamHolds == StreamSpec => []StreamInv
<1>1. StreamInit => StreamInv
  BY StreamBegins
<1>2. StreamInv /\ [StreamNext]_streamVars => StreamInv'
  BY StreamGoesOn
<1> QED
  BY <1>1, <1>2, PTL DEF StreamSpec

LEMMA StreamAgrees == ASSUME StreamInv PROVE EndsAgree
<1>1. PICK b \in Nat : Sound(S, b, sent) /\ b <= R.RemoteSEQ
  BY DEF StreamInv, SenderInv
<1>2. /\ S \in Sender /\ R \in Receiver /\ S.out = <<>> /\ R.out = <<>> /\ smState \in SocketStates
      /\ sent \in 0 .. MaxBytes /\ Room \in Int
  BY InvFacts
<1>3. Lay(S, b, sent) /\ RxLay(R, Len(got), sent) /\ Future(R, Len(got), sent)
  BY <1>1 DEF Sound, RxSound, StreamInv, ReceiverInv
<1>4. PICK g \in Nat, h \in Nat, m \in Nat, max \in Nat :
        g = Len(got) /\ h = R.RemoteSEQ /\ m = sent /\ max = MaxBytes /\ g <= h /\ h <= m
        /\ m <= max
  BY InvFacts
<1>5. PICK q \in Nat : q = S.MySEQ /\ b <= q /\ q <= m
  BY <1>3, <1>4 DEF Lay
<1>6. PICK rz \in Nat : rz = RxSize /\ rz \notin {0, 1}
  BY Sizes
<1>7. StreamTypeOK
  <2>1. {S.txHead, S.txUnackedTail, S.txTail} \subseteq 1 .. TxSize
    <3>1. S.txHead = At(TxSize, m) /\ S.txTail = At(TxSize, b) /\ S.txUnackedTail = At(TxSize, q)
      BY <1>3, <1>4, <1>5 DEF Lay
    <3> QED
      BY <3>1, AtType, Sizes
  <2>2. {R.rxHead, R.rxTail} \subseteq 1 .. RxSize
    <3>1. R.rxHead = At(RxSize, h) /\ R.rxTail = At(RxSize, g)
      BY <1>3, <1>4 DEF RxLay
    <3> QED
      BY <3>1, AtType, Sizes
  <2>3. S.MySEQ \in 0 .. MaxBytes /\ R.RemoteSEQ \in 0 .. MaxBytes
    <3>1. q \in 0 .. max /\ h \in 0 .. max
      BY <1>4, <1>5
    <3> QED
      BY <1>4, <1>5, <3>1
  <2>4. S.remoteWindow \in 0 .. WordSize - 1 /\ S.retryCount \in 0 .. TCP_MAX_RETRIES
    BY <1>2 DEF Sender, Windows, Retries
  <2>5. R.sHoleSize \in -1 .. RxSize - 1 /\ R.wFutureDataSize \in 0 .. RxSize - 1
    BY <1>3 DEF Future
  <2>6. got \in Seq(0 .. MaxBytes)
    <3>1. got \in Seq(Nat) /\ \A j \in 1 .. g : got[j] = 0 + j
      BY <1>4 DEF StreamInv, TotalsInv, Numbered
    <3>2. ASSUME NEW j \in 1 .. g PROVE got[j] \in 0 .. max
      <4>1. j \in 0 .. max
        BY <1>4
      <4>2. 0 + j = j
        OBVIOUS
      <4> QED
        BY <3>1, <4>1, <4>2
    <3>3. got = [j \in 1 .. g |-> got[j]]
      BY <1>4, <3>1, LenProperties
    <3>4. got \in [1 .. g -> 0 .. max]
      BY <3>2, <3>3
    <3> QED
      BY <1>4, <3>4, SeqDef
  <2> QED
    BY <1>2, <2>1, <2>2, <2>3, <2>4, <2>5, <2>6 DEF StreamTypeOK, SocketStates
<1>8. WindowKept
  <2> SUFFICES ASSUME spent.swap = 0, spent.tight = 0
               PROVE  S.MySEQ <= R.RemoteSEQ + FreeSpace(R)
    BY DEF WindowKept
  <2>1. Edge(S) <= Room
    BY DEF StreamInv, RoomInv, Ordered
  <2>2. PICK w \in Nat : w = S.remoteWindow
    BY <1>2, Sizes DEF Sender, Windows
  <2>3. q + w <= g + rz - 1
    BY <1>4, <1>5, <1>6, <2>1, <2>2 DEF Edge, Room
  <2>4. FreeSpace(R) = RxSize - 1 - (R.RemoteSEQ - Len(got))
    BY <1>3, RxCounts
  <2>5. q <= h + (rz - 1 - (h - g))
    BY <2>3
  <2> QED
    BY <1>4, <1>5, <1>6, <2>4, <2>5
<1>9. S.MySEQ + Unsent(S) = sent /\ S.MySEQ - InFlight(S) <= R.RemoteSEQ
  <2>1. InFlight(S) = q - b /\ Unsent(S) = m - q
    BY <1>3, <1>4, <1>5, Counts
  <2>2. q + (m - q) = m /\ q - (q - b) = b
    BY <1>5
  <2> QED
    BY <1>1, <1>4, <1>5, <2>1, <2>2
<1> QED
  BY <1>4, <1>7, <1>8, <1>9 DEF EndsAgree

\* The two ends (SendTCP, HandleTCPSeg) agree for all sizes of the FIFOs, segments and words
\* and whatever the network does: S may still send again exactly what R is not known to have,
\* no byte leaves the transmit FIFO before R has it, none is sent that R has no room for (but
\* for windows that wrapped), and every variable keeps its type.
THEOREM EndsAlwaysAgree == StreamSpec => []EndsAgree
<1>1. StreamSpec => []StreamInv
  BY StreamHolds
<1>2. StreamInv => EndsAgree
  BY StreamAgrees
<1> QED
  BY <1>1, <1>2, PTL

\* Every step is one of the stream's, or none.
LEMMA StreamStep ==
  ASSUME StreamInv, [StreamNext]_streamVars
  PROVE  [Stream!Put \/ Stream!Get]_<<sent, got>>
<1>1. CASE Put
  <2>1. PICK len \in 1 .. MaxPut : sent' = sent + Lower(len, TCPIsPutReady(S))
    BY <1>1 DEF Put
  <2>2. PICK k \in Nat : k = len /\ k > 0
    BY Sizes
  <2>3. PICK b \in Nat : Lay(S, b, sent)
    BY DEF StreamInv, SenderInv, Sound
  <2>4. TCPIsPutReady(S) = TxSize - 1 - (sent - b)
    BY <2>3, Counts
  <2>5. PICK free \in Int : free = TCPIsPutReady(S) /\ free > 0
    <3>1. sent \in Nat
      BY InvFacts
    <3> QED
      BY <1>1, <2>4, <3>1, Sizes DEF Put
  <2>6. PICK n \in Nat : n = Lower(k, free) /\ n > 0
    <3>1. Lower(k, free) \in {k, free}
      BY DEF Lower
    <3> QED
      BY <2>2, <2>5, <3>1
  <2>7. PICK m \in Nat : m = sent
    BY InvFacts
  <2>8. m + n \in Nat /\ m + n > m
    BY <2>6
  <2>9. sent' = m + n
    BY <2>1, <2>2, <2>5, <2>6, <2>7
  <2> QED
    BY <1>1, <2>7, <2>8, <2>9 DEF Put, Stream!Put
<1>2. CASE Get
  <2>1. /\ Numbered(got', 0, R.RemoteSEQ) /\ Len(got') = R.RemoteSEQ
        /\ Len(got) < R.RemoteSEQ /\ R.RemoteSEQ <= sent
    BY <1>2, GetGives
  <2>2. PICK g \in Nat, n \in Nat, m \in Nat :
          g = Len(got) /\ n = R.RemoteSEQ /\ m = sent /\ g < n /\ n <= m
    BY <2>1, InvFacts
  <2>3. n \in g + 1 .. m
    BY <2>2
  <2>4. got' = [i \in 1 .. n |-> i]
    <3>1. got' \in Seq(Nat) /\ Len(got') = n /\ \A i \in 1 .. n : got'[i] = 0 + i
      BY <2>1, <2>2 DEF Numbered
    <3>2. got' = [i \in 1 .. n |-> got'[i]]
      BY <3>1, LenProperties
    <3>3. \A i \in 1 .. n : 0 + i = i
      OBVIOUS
    <3> QED
      BY <3>1, <3>2, <3>3
  <2> QED
    BY <1>2, <2>2, <2>3, <2>4 DEF Get, Stream!Get
<1>3. CASE UNCHANGED streamVars
  BY <1>3 DEF streamVars
<1>4. CASE Handler
  BY <1>4 DEF Handler, TickSend, TickRetransmit, TickGiveUp, TickClose, Expires,
              TickKeepAlive, RecvAck, RecvData, TickR
<1>5. CASE LoseSegment
  BY <1>5 DEF LoseSegment
<1> QED
  BY <1>1, <1>2, <1>3, <1>4, <1>5 DEF StreamNext

\* TCP.c implements a stream of bytes: what R's application takes is what S's put, in order,
\* nothing lost, twice or changed, for all sizes and any losses, copies and overtakings.
THEOREM StreamKeepsPromise == StreamSpec => KeepsPromise
<1>1. StreamSpec => []StreamInv
  BY StreamHolds
<1>2. StreamInit => Stream!Init
  BY DEF StreamInit, Stream!Init
<1>3. StreamInv /\ [StreamNext]_streamVars => [Stream!Put \/ Stream!Get]_<<sent, got>>
  BY StreamStep
<1> QED
  BY <1>1, <1>2, <1>3, PTL DEF StreamSpec, KeepsPromise, Stream!Spec

-----------------------------------------------------------------------------
(* Giving up.  Every retry and every probe is due to a fault of its own, as *)
(* long as no answer was overtaken and no window made smaller: while an     *)
(* acknowledgement of all that is in flight is coming, the retries counted  *)
(* are no more than the faults, and when none is coming there was one fault *)
(* more.                                                                    *)

\* The bytes after h up to q are on their way, in segments that follow each other.
Chain(ds, h, q) ==
  \E f \in [h + 1 .. q -> 1 .. Len(ds)] :
    \A j, k \in h + 1 .. q : Holds(ds[f[k]], k) /\ (j <= k => f[j] <= f[k])

\* A segment with bytes is on its way, which R answers.
Full(ds) == \E i \in 1 .. Len(ds) : ds[i].bytes # <<>>

\* An acknowledgement of all up to q will come without a retry: S has had it, R is about to
\* send it, it is on its way, or the bytes are that R does not have.
Coming(r, as, ds, b, q) ==
  IF r.RemoteSEQ < q THEN Chain(ds, r.RemoteSEQ, q)
  ELSE \/ q = b \/ Answering(r) \/ Full(ds)
       \/ \E i \in 1 .. Len(as) : as[i].ack >= q

\* What S may send it will send soon.
Busy(s) == s.bTXASAP \/ s.bTXASAPWithoutTimerReset \/ s.bTimer2Enabled
Flagged(s) == Unsent(s) > 0 /\ s.remoteWindow > 0 => Busy(s)

LEMMA ChainExtended ==
  ASSUME NEW ds \in Seq(Segment), NEW d \in Segment, NEW h \in Nat, NEW q \in Nat,
         NEW len \in Nat, d.seq = q, Len(d.bytes) = len, h < q => Chain(ds, h, q),
         NEW p \in Nat, p = q + len
  PROVE  Chain(Append(ds, d), h, p)
<1>1. PICK n \in Nat : n = Len(ds)
  BY LenProperties
<1>2. PICK es : es = Append(ds, d)
  OBVIOUS
<1>3. PICK l \in Nat : l = n + 1
  OBVIOUS
<1>4. Len(es) = l /\ es[l] = d /\ \A i \in 1 .. n : es[i] = ds[i]
  BY <1>1, <1>2, <1>3, AppendIs
<1>5. PICK g : \A k \in h + 1 .. q : g[k] \in 1 .. n /\ Holds(ds[g[k]], k)
                 /\ \A j \in h + 1 .. q : j <= k => g[j] <= g[k]
  <2>1. CASE h < q
    BY <1>1, <2>1 DEF Chain
  <2>2. CASE ~(h < q)
    BY <2>2
  <2> QED
    BY <2>1, <2>2
<1>6. PICK f : f = [k \in h + 1 .. p |-> IF k <= q THEN g[k] ELSE l]
  OBVIOUS
<1>7. ASSUME NEW k \in h + 1 .. p
      PROVE  /\ f[k] \in 1 .. l /\ Holds(es[f[k]], k)
             /\ f[k] = IF k <= q THEN g[k] ELSE l
  <2>1. f[k] = IF k <= q THEN g[k] ELSE l
    BY <1>6
  <2>2. CASE k <= q
    <3>1. k \in h + 1 .. q
      BY <2>2
    <3>2. f[k] \in 1 .. n /\ Holds(ds[f[k]], k)
      BY <1>5, <2>1, <2>2, <3>1
    <3> QED
      BY <1>3, <1>4, <2>1, <3>2
  <2>3. CASE ~(k <= q)
    <3>1. f[k] = l
      BY <2>1, <2>3
    <3>2. Holds(d, k)
      BY <2>3 DEF Holds
    <3> QED
      BY <1>3, <1>4, <2>1, <3>1, <3>2
  <2> QED
    BY <2>2, <2>3
<1>8. ASSUME NEW j \in h + 1 .. p, NEW k \in h + 1 .. p, j <= k PROVE f[j] <= f[k]
  <2>1. CASE k <= q
    <3>1. j \in h + 1 .. q /\ k \in h + 1 .. q /\ j <= q
      BY <1>8, <2>1
    <3>2. g[j] <= g[k]
      BY <1>5, <1>8, <3>1
    <3> QED
      BY <1>7, <2>1, <3>1, <3>2
  <2>2. CASE ~(k <= q)
    <3>1. f[k] = l /\ f[j] \in 1 .. l
      BY <1>7, <2>2
    <3> QED
      BY <3>1
  <2> QED
    BY <2>1, <2>2
<1>9. f \in [h + 1 .. p -> 1 .. Len(es)]
  BY <1>4, <1>6, <1>7
<1> QED
  BY <1>2, <1>7, <1>8, <1>9, ZenonT(30) DEF Chain

\* The first segment is delivered, and perhaps kept.
LEMMA ChainTaken ==
  ASSUME NEW ds \in Seq(Segment), NEW n \in Nat, n = Len(ds), n >= 1, NEW h \in Nat,
         NEW q \in Nat, Chain(ds, h, q), h < q, NEW k \in Nat, h <= k,
         ds[1].seq <= h => \A j \in h + 1 .. q : Holds(ds[1], j) => j <= k,
         NEW rest, rest = ds \/ rest = Tail(ds)
  PROVE  /\ k < q => Chain(rest, k, q)
         /\ k >= q => ds[1].bytes # <<>> \/ Full(rest)
<1>1. PICK f \in [h + 1 .. q -> 1 .. n] :
        \A i, j \in h + 1 .. q : Holds(ds[f[j]], j) /\ (i <= j => f[i] <= f[j])
  BY DEF Chain
<1>2. ds[1] \in Segment /\ ds[1].seq \in Int
  <2>1. 1 \in 1 .. Len(ds)
    OBVIOUS
  <2>2. ds[1] \in Segment
    BY <2>1, ElementOfSeq
  <2> QED
    BY <2>2 DEF Segment
<1>3. ASSUME NEW j \in h + 1 .. q, j > k PROVE f[j] # 1
  <2> SUFFICES ASSUME f[j] = 1 PROVE FALSE
    OBVIOUS
  <2>1. h + 1 \in h + 1 .. q /\ h + 1 <= j
    OBVIOUS
  <2>2. PICK x \in Int : x = f[h + 1] /\ x >= 1 /\ x <= 1
    BY <1>1, <2>1
  <2>3. Holds(ds[1], h + 1)
    BY <1>1, <2>1, <2>2
  <2>4. ds[1].seq <= h
    BY <1>2, <2>3 DEF Holds
  <2>5. Holds(ds[1], j)
    BY <1>1
  <2>6. j <= k
    BY <2>4, <2>5
  <2> QED
    BY <1>3, <2>6
<1>4. ASSUME rest = Tail(ds)
      PROVE  \E l \in Nat : l = n - 1 /\ Len(rest) = l /\ \A i \in 1 .. l : rest[i] = ds[i + 1]
  <2>1. ds # <<>>
    BY EmptySeq
  <2>2. Len(Tail(ds)) = n - 1 /\ \A i \in 1 .. Len(Tail(ds)) : Tail(ds)[i] = ds[i + 1]
    BY <2>1, HeadTailProperties
  <2> QED
    BY <1>4, <2>2
<1>5. ASSUME k < q PROVE Chain(rest, k, q)
  <2>1. \A j \in k + 1 .. q : j \in h + 1 .. q /\ j > k
    OBVIOUS
  <2>2. CASE rest = ds
    <3>1. PICK g : g = [j \in k + 1 .. q |-> f[j]]
      OBVIOUS
    <3>2. g \in [k + 1 .. q -> 1 .. n] /\ \A j \in k + 1 .. q : g[j] = f[j]
      BY <1>1, <2>1, <3>1
    <3>3. \A i, j \in k + 1 .. q : Holds(ds[g[j]], j) /\ (i <= j => g[i] <= g[j])
      BY <1>1, <2>1, <3>2
    <3> QED
      BY <2>2, <3>2, <3>3 DEF Chain
  <2>3. CASE rest = Tail(ds)
    <3>0. PICK l \in Nat : l = n - 1 /\ Len(rest) = l /\ \A i \in 1 .. l : rest[i] = ds[i + 1]
      BY <1>4, <2>3
    <3>1. PICK g : g = [j \in k + 1 .. q |-> f[j] - 1]
      OBVIOUS
    <3>2. ASSUME NEW j \in k + 1 .. q
          PROVE  /\ g[j] = f[j] - 1 /\ g[j] \in 1 .. l /\ f[j] \in 1 .. n
                 /\ rest[g[j]] = ds[f[j]]
      <4>1. j \in h + 1 .. q /\ j > k
        BY <2>1
      <4>2. f[j] \in 1 .. n /\ f[j] # 1
        BY <1>1, <1>3, <4>1
      <4>3. g[j] = f[j] - 1
        BY <3>1
      <4>4. PICK x \in 1 .. l : x = f[j] - 1 /\ x + 1 = f[j]
        BY <3>0, <4>2, SMTT(30)
      <4> QED
        BY <3>0, <4>2, <4>3, <4>4
    <3>3. g \in [k + 1 .. q -> 1 .. l]
      BY <3>1, <3>2
    <3>4. ASSUME NEW i \in k + 1 .. q, NEW j \in k + 1 .. q
          PROVE  Holds(rest[g[j]], j) /\ (i <= j => g[i] <= g[j])
      <4>1. Holds(ds[f[j]], j) /\ (i <= j => f[i] <= f[j])
        BY <1>1, <2>1
      <4>2. Holds(rest[g[j]], j)
        BY <3>2, <4>1
      <4>3. i <= j => g[i] <= g[j]
        BY <3>2, <4>1
      <4> QED
        BY <4>2, <4>3
    <3> QED
      BY <3>0, <3>3, <3>4 DEF Chain
  <2> QED
    BY <2>2, <2>3
<1>6. ASSUME k >= q PROVE ds[1].bytes # <<>> \/ Full(rest)
  <2>1. q \in h + 1 .. q
    OBVIOUS
  <2>2. PICK x \in 1 .. n : x = f[q] /\ Holds(ds[x], q)
    BY <1>1, <2>1
  <2>3. ds[x].bytes # <<>>
    <3>1. ds[x] \in Segment
      BY <2>2, ElementOfSeq
    <3>2. ds[x].seq \in Int /\ ds[x].bytes \in Seq(Nat)
      BY <3>1 DEF Segment
    <3>3. PICK y \in Int, z \in Int : y = ds[x].seq /\ z = Len(ds[x].bytes)
      BY <3>2, LenProperties
    <3>4. y < q /\ q <= y + z
      BY <2>2, <3>3 DEF Holds
    <3>5. z # 0
      BY <3>4
    <3> QED
      BY <3>3, <3>5, EmptySeq
  <2>4. CASE x = 1
    BY <2>3, <2>4
  <2>5. CASE x # 1 /\ rest = ds
    BY <2>3, <2>5 DEF Full
  <2>6. CASE x # 1 /\ rest = Tail(ds)
    <3>0. PICK l \in Nat : l = n - 1 /\ Len(rest) = l /\ \A i \in 1 .. l : rest[i] = ds[i + 1]
      BY <1>4, <2>6
    <3>1. PICK y \in 1 .. l : y + 1 = x
      BY <2>6, <3>0
    <3>2. rest[y] = ds[x] /\ y \in 1 .. Len(rest)
      BY <3>0, <3>1
    <3> QED
      BY <2>3, <3>2 DEF Full
  <2> QED
    BY <2>4, <2>5, <2>6
<1> QED
  BY <1>5, <1>6

\* What S sends: a segment of len bytes from the next on, and it stops only for a reason.
LEMMA SendSends ==
  ASSUME NEW s, NEW b, NEW m, Sound(s, b, m), NEW reset \in BOOLEAN
  PROVE  \E len \in Nat, d \in Segment :
           /\ SendTCP(s, reset).out = Append(s.out, d) /\ d.seq = s.MySEQ /\ Len(d.bytes) = len
           /\ SendTCP(s, reset).MySEQ = s.MySEQ + len
           /\ SendTCP(s, reset).vUnackedKeepalives = s.vUnackedKeepalives
           /\ SendTCP(s, reset).retryCount <= s.retryCount
           /\ BareAck(s) /\ s.bTimerEnabled /\ ~reset /\ s.retryCount > 0 =>
                SendTCP(s, reset).retryCount = s.retryCount - 1
           /\ Flagged(SendTCP(s, reset))
<1>1. /\ s \in Sender /\ Lay(s, b, m)
  BY DEF Sound
<1>2. PICK n \in Nat \ {0, 1} : n = TxSize
  BY Sizes
<1>3. PICK q \in Nat : q = s.MySEQ /\ b \in Nat /\ m \in Nat /\ b <= q /\ q <= m /\ m - b < n
  BY <1>1, <1>2 DEF Lay
<1>4. PICK w \in Nat : w = s.remoteWindow /\ w <= WordSize - 1
  BY <1>1, Sizes DEF Sender, Windows
<1>5. PICK len \in Nat, room \in Nat :
        /\ room = Lower(Unsent(s), s.remoteWindow) /\ len = Lower(room, RemoteMSS)
        /\ len <= m - q /\ len <= w
        /\ len = m - q \/ len = w \/ room > RemoteMSS
  <2>1. Unsent(s) = m - q
    BY <1>1, <1>3, Counts
  <2>2. PICK u \in Nat, mss \in Nat : u = m - q /\ mss = RemoteMSS
    BY <1>3, Sizes
  <2>3. PICK room \in Int : room = Lower(u, w) /\ room <= u /\ room <= w /\ room \in {u, w}
    BY DEF Lower
  <2>4. PICK len \in Int : len = Lower(room, mss) /\ len <= room
                           /\ len = IF room < mss THEN room ELSE mss
    BY DEF Lower
  <2>5. len = room \/ room > mss
    BY <2>4
  <2> QED
    BY <1>4, <2>1, <2>2, <2>3, <2>4, <2>5
<1>6. PICK part : part = Part(s.txBuf, s.txUnackedTail, len)
  OBVIOUS
<1>7. part \in Seq(Nat) /\ Len(part) = len
  <2>1. s.txBuf \in [1 .. n -> Nat] /\ s.txUnackedTail = At(n, q) /\ Has(s.txBuf, n, b, m)
    BY <1>1, <1>2, <1>3 DEF Lay, Sender, TxBuffer
  <2>2. q + len <= m
    BY <1>3, <1>5
  <2>3. Numbered(Part(s.txBuf, At(n, q), len), q, len)
    BY <1>3, <2>1, <2>2, TakenRight
  <2> QED
    BY <1>6, <2>1, <2>3 DEF Numbered
<1>8. PICK d : d = [seq |-> q, bytes |-> part]
  OBVIOUS
<1>9. d \in Segment /\ d.seq = q /\ d.bytes = part
  BY <1>3, <1>7, <1>8 DEF Segment
<1>10. PICK o : o = Append(s.out, d)
  OBVIOUS
<1>11. o \in Segments
  BY <1>1, <1>9, <1>10 DEF Sender, Segments
<1>12. PICK c \in Retries : c = IF len > 0 /\ reset THEN 0 ELSE s.retryCount
  <2>1. 0 \in Retries /\ s.retryCount \in Retries
    BY <1>1, Sizes DEF Sender, Retries
  <2> QED
    BY <2>1
<1>13. PICK e \in Retries :
         /\ e = IF BareAck(s) /\ s.bTimerEnabled /\ ~reset /\ c > 0 THEN c - 1 ELSE c
         /\ e <= s.retryCount
         /\ BareAck(s) /\ s.bTimerEnabled /\ ~reset /\ s.retryCount > 0 => e = s.retryCount - 1
  <2>1. PICK x \in Nat, max \in Nat : x = s.retryCount /\ max = TCP_MAX_RETRIES /\ x <= max
    BY <1>1, Sizes DEF Sender, Retries
  <2>2. c \in Nat /\ c <= x /\ (~reset => c = x) /\ c <= max
    BY <1>12, <2>1
  <2>3. PICK e \in Int : e = IF BareAck(s) /\ s.bTimerEnabled /\ ~reset /\ c > 0 THEN c - 1 ELSE c
    BY <2>2
  <2>4. e >= 0 /\ e <= x /\ e <= max
    BY <2>1, <2>2, <2>3
  <2>5. BareAck(s) /\ s.bTimerEnabled /\ ~reset /\ x > 0 => e = x - 1
    BY <2>2, <2>3
  <2> QED
    BY <2>1, <2>3, <2>4, <2>5 DEF Retries
<1>14. PICK x \in BOOLEAN, y \in BOOLEAN :
         x = (room > RemoteMSS) /\ y = (s.bTimerEnabled \/ len > 0)
  <2>1. (room > RemoteMSS) \in BOOLEAN /\ (s.bTimerEnabled \/ len > 0) \in BOOLEAN
    OBVIOUS
  <2> QED
    BY <2>1
<1>15. PICK p \in Int, k \in Int, l \in Windows :
         p = Wrap(s.txUnackedTail + len) /\ k = q + len /\ l = w - len
  <2>1. Wrap(s.txUnackedTail + len) = At(TxSize, q + len)
    BY <1>1, <1>3, Wraps DEF Lay
  <2>2. PICK z \in Nat : z = q + len
    OBVIOUS
  <2>3. At(n, z) \in Nat
    BY AtIsNat
  <2>4. w - len \in 0 .. WordSize - 1
    BY <1>4, <1>5, Sizes
  <2> QED
    BY <1>2, <2>1, <2>2, <2>3, <2>4 DEF Windows
<1>16. PICK t : t = SendTCP(s, reset)
  OBVIOUS
<1>17. t = [s EXCEPT !.txUnackedTail = p, !.MySEQ = k, !.remoteWindow = l,
                     !.bTimerEnabled = y, !.retryCount = e, !.bTimer2Enabled = FALSE,
                     !.bHalfFullFlush = FALSE, !.bTXASAP = FALSE,
                     !.bTXASAPWithoutTimerReset = x, !.out = o]
  <2>1. PICK u : u = [s EXCEPT !.txUnackedTail = p, !.MySEQ = k, !.remoteWindow = l,
                     !.bTimerEnabled = y, !.retryCount = c, !.bTimer2Enabled = FALSE,
                     !.bHalfFullFlush = FALSE, !.bTXASAP = FALSE,
                     !.bTXASAPWithoutTimerReset = x, !.out = o]
    OBVIOUS
  <2>2. SendCounted(s, reset) =
          [s EXCEPT !.txUnackedTail = Wrap(s.txUnackedTail + len), !.MySEQ = s.MySEQ + len,
                    !.remoteWindow = s.remoteWindow - len,
                    !.bTimerEnabled = s.bTimerEnabled \/ len > 0,
                    !.retryCount = IF len > 0 /\ reset THEN 0 ELSE s.retryCount,
                    !.bTimer2Enabled = FALSE, !.bHalfFullFlush = FALSE, !.bTXASAP = FALSE,
                    !.bTXASAPWithoutTimerReset = (room > RemoteMSS),
                    !.out = Append(s.out, [seq |-> s.MySEQ, bytes |-> part])]
    BY <1>5, <1>6 DEF SendCounted
  <2>3. SendCounted(s, reset) = u
    BY <1>3, <1>4, <1>8, <1>10, <1>12, <1>14, <1>15, <2>1, <2>2
  <2>4. u.retryCount = c
    BY <1>1, <2>1 DEF Sender
  <2>5. t = [u EXCEPT !.retryCount =
               IF BareAck(s) /\ s.bTimerEnabled /\ ~reset /\ u.retryCount > 0 THEN u.retryCount - 1
               ELSE u.retryCount]
    BY <1>16, <2>3 DEF SendTCP
  <2>6. t = [u EXCEPT !.retryCount = e]
    BY <1>13, <2>4, <2>5
  <2> QED
    BY <1>1, <2>1, <2>6 DEF Sender
<1>18. /\ t.out = o /\ t.MySEQ = k /\ t.vUnackedKeepalives = s.vUnackedKeepalives
       /\ t.retryCount = e /\ t.remoteWindow = l /\ t.bTXASAPWithoutTimerReset = x
  BY <1>1, <1>17 DEF Sender
<1>19. Flagged(t)
  <2> SUFFICES ASSUME Unsent(t) > 0, t.remoteWindow > 0 PROVE Busy(t)
    BY DEF Flagged
  <2>1. Sound(t, b, m)
    BY <1>16, SendIs
  <2>2. Unsent(t) = m - t.MySEQ
    BY <2>1, Counts DEF Sound
  <2>3. m - k > 0 /\ w - len > 0
    BY <1>15, <1>18, <2>2
  <2>4. ~(len = m - q) /\ ~(len = w)
    BY <1>3, <1>15, <2>3
  <2>5. x = TRUE
    BY <1>5, <1>14, <2>4
  <2> QED
    BY <1>18, <2>5 DEF Busy
<1> QED
  BY <1>3, <1>7, <1>9, <1>10, <1>13, <1>15, <1>16, <1>18, <1>19

\* What is still to come comes also when more has been sent.
LEMMA ComingMore ==
  ASSUME NEW r, NEW as, NEW ds \in Seq(Segment), NEW d \in Segment, NEW b, NEW q \in Nat,
         r.RemoteSEQ \in Nat, Coming(r, as, ds, b, q), NEW len \in Nat, d.seq = q,
         Len(d.bytes) = len, NEW p \in Nat, p = q + len
  PROVE  Coming(r, as, Append(ds, d), b, p)
<1>1. PICK h \in Nat : h = r.RemoteSEQ
  OBVIOUS
<1>2. PICK es : es = Append(ds, d)
  OBVIOUS
<1>3. PICK n \in Nat, l \in Nat : n = Len(ds) /\ l = n + 1 /\ l = Len(es) /\ es[l] = d
                                 /\ \A i \in 1 .. n : es[i] = ds[i]
  <2>1. PICK n \in Nat : n = Len(ds)
    BY LenProperties
  <2> QED
    BY <1>2, <2>1, AppendIs
<1>4. CASE h < p
  <2>1. h < q => Chain(ds, h, q)
    BY <1>1 DEF Coming
  <2>2. Chain(es, h, p)
    BY <1>2, <2>1, ChainExtended
  <2> QED
    BY <1>1, <1>2, <1>4, <2>2 DEF Coming
<1>5. CASE ~(h < p) /\ len > 0
  <2>1. d.bytes # <<>>
    BY <1>5, EmptySeq DEF Segment
  <2>2. Full(es)
    BY <1>3, <2>1 DEF Full
  <2> QED
    BY <1>1, <1>2, <1>5, <2>2 DEF Coming
<1>6. CASE ~(h < p) /\ len = 0
  <2>1. p = q /\ ~(h < q)
    BY <1>6
  <2>2. q = b \/ Answering(r) \/ Full(ds) \/ \E i \in 1 .. Len(as) : as[i].ack >= q
    BY <1>1, <2>1 DEF Coming
  <2>3. Full(ds) => Full(es)
    <3>1. \A i \in 1 .. n : i \in 1 .. l
      BY <1>3
    <3> QED
      BY <1>3, <3>1 DEF Full
  <2> QED
    BY <1>1, <1>2, <1>6, <2>1, <2>2, <2>3 DEF Coming
<1>7. len = 0 \/ len > 0
  OBVIOUS
<1> QED
  BY <1>2, <1>4, <1>5, <1>6, <1>7

\* Of S, its segments after all before: what its retries and its probes wait for.
Awaited(s, b, r, as, ds) == Coming(r, as, ds \o s.out, b, s.MySEQ)

\* S has sent something, or not: no more retries, and nothing that was awaited is lost.
Onward(t, s, b, r, as, ds) ==
  /\ Awaited(s, b, r, as, ds) => Awaited(t, b, r, as, ds)
  /\ t.vUnackedKeepalives = s.vUnackedKeepalives /\ t.retryCount <= s.retryCount

LEMMA AppendOn ==
  ASSUME NEW T, NEW x \in Seq(T), NEW y \in Seq(T), NEW d \in T
  PROVE  x \o Append(y, d) = Append(x \o y, d) /\ x \o y \in Seq(T)
  OBVIOUS

LEMMA SendOnward ==
  ASSUME NEW s, NEW b, NEW m, Sound(s, b, m), NEW reset \in BOOLEAN,
         NEW r, r.RemoteSEQ \in Nat, NEW as, NEW ds \in Seq(Segment)
  PROVE  /\ Onward(SendTCP(s, reset), s, b, r, as, ds) /\ Flagged(SendTCP(s, reset))
<1>1. PICK t : t = SendTCP(s, reset)
  OBVIOUS
<1>2. PICK len \in Nat, d \in Segment :
        /\ t.out = Append(s.out, d) /\ d.seq = s.MySEQ /\ Len(d.bytes) = len
        /\ t.MySEQ = s.MySEQ + len /\ t.vUnackedKeepalives = s.vUnackedKeepalives
        /\ t.retryCount <= s.retryCount /\ Flagged(t)
  BY <1>1, SendSends
<1>3. s.out \in Seq(Segment) /\ s.MySEQ \in Nat
  <2>1. s \in Sender /\ Lay(s, b, m)
    BY DEF Sound
  <2> QED
    BY <2>1 DEF Sender, Segments, Lay
<1>4. ds \o t.out = Append(ds \o s.out, d) /\ ds \o s.out \in Seq(Segment)
  <2>1. PICK o \in Seq(Segment) : o = s.out
    BY <1>3
  <2>2. ds \o Append(o, d) = Append(ds \o o, d) /\ ds \o o \in Seq(Segment)
    BY AppendOn
  <2> QED
    BY <1>2, <2>1, <2>2
<1>5. ASSUME Awaited(s, b, r, as, ds) PROVE Awaited(t, b, r, as, ds)
  <2>1. PICK p \in Nat, q \in Nat : p = t.MySEQ /\ q = s.MySEQ /\ p = q + len
    BY <1>2, <1>3
  <2>2. Coming(r, as, ds \o s.out, b, q)
    BY <1>5, <2>1 DEF Awaited
  <2>3. Coming(r, as, Append(ds \o s.out, d), b, p)
    BY <1>2, <1>4, <2>1, <2>2, ComingMore
  <2> QED
    BY <1>4, <2>1, <2>3 DEF Awaited
<1> QED
  BY <1>1, <1>2, <1>5 DEF Onward

\* What a retry is due to has been answered or lost when it begins.
LEMMA RetransmitOnward ==
  ASSUME NEW s, NEW b, NEW m, Sound(s, b, m), s.retryCount < TCP_MAX_RETRIES,
         NEW r, r.RemoteSEQ \in Nat, b <= r.RemoteSEQ, NEW as, NEW ds \in Seq(Segment)
  PROVE  /\ Awaited(Retransmit(s), b, r, as, ds) /\ Flagged(Retransmit(s))
         /\ Retransmit(s).vUnackedKeepalives = s.vUnackedKeepalives
         /\ Retransmit(s).retryCount <= s.retryCount + 1
         /\ s.MySEQ = b /\ s.bTimerEnabled /\ (Unsent(s) = 0 \/ s.remoteWindow = 0) =>
              Retransmit(s).retryCount <= s.retryCount
<1>1. PICK v : v = Rewind(s) /\ Sound(v, b, m) /\ v.MySEQ = b /\ v.remoteWindow = s.remoteWindow
  BY RewindIs
<1>2. s \in Sender /\ Lay(s, b, m) /\ v \in Sender /\ Lay(v, b, m)
  BY <1>1 DEF Sound
<1>3. InFlight(s) = s.MySEQ - b /\ s.MySEQ \in Int /\ b \in Nat /\ s.MySEQ >= b
  <2>1. InFlight(s) = s.MySEQ - b
    BY <1>2, Counts
  <2> QED
    BY <1>2, <2>1 DEF Sender, Lay
<1>4. /\ v.retryCount = s.retryCount /\ v.vUnackedKeepalives = s.vUnackedKeepalives
      /\ v.bTimerEnabled = s.bTimerEnabled
  BY <1>1, <1>2 DEF Rewind, Sender
<1>5. PICK w : w = (s.remoteWindow + InFlight(s)) % WordSize
  OBVIOUS
<1>6. PICK n \in Nat \ {0} : n = WordSize
  BY Sizes
<1>7. PICK y \in Nat : y = s.remoteWindow /\ y < n
  BY <1>2, <1>6 DEF Sender, Windows
<1>8. w \in 0 .. WordSize - 1 /\ (s.MySEQ = b => w = y)
  <2>1. PICK x \in Nat : x = s.remoteWindow + InFlight(s) /\ (s.MySEQ = b => x = y)
    BY <1>3, <1>7
  <2>2. x % n \in 0 .. n - 1
    BY Remainder
  <2>3. y % n = y
    <3>1. y \in 0 .. n - 1
      BY <1>7
    <3> QED
      BY <3>1, Within
  <2> QED
    BY <1>5, <1>6, <2>1, <2>2, <2>3
<1>9. PICK u : u = [v EXCEPT !.retryCount = s.retryCount + 1, !.remoteWindow = w]
  OBVIOUS
<1>10. Retransmit(s) = SendTCP(u, FALSE)
  BY <1>1, <1>4, <1>5, <1>9 DEF Retransmit, RolledBack
<1>11. PICK k \in Nat : k = s.retryCount /\ k + 1 \in 0 .. TCP_MAX_RETRIES
  <2>1. s.retryCount \in 0 .. TCP_MAX_RETRIES /\ TCP_MAX_RETRIES \in Nat
    BY <1>2, Sizes DEF Sender, Retries
  <2> QED
    BY <2>1
<1>12. /\ u \in Sender /\ u.MySEQ = b /\ u.remoteWindow = w
       /\ u.txTail = v.txTail /\ u.txHead = v.txHead /\ u.txUnackedTail = v.txUnackedTail
       /\ u.txBuf = v.txBuf /\ u.out = v.out /\ u.bTimerEnabled = v.bTimerEnabled
       /\ u.retryCount = k + 1 /\ u.vUnackedKeepalives = v.vUnackedKeepalives
  <2>1. w \in Windows /\ s.retryCount + 1 \in Retries
    BY <1>8, <1>11 DEF Windows, Retries
  <2> QED
    BY <1>1, <1>2, <1>9, <1>11, <2>1 DEF Sender
<1>13. Sound(u, b, m)
  BY <1>1, <1>12 DEF Sound, Lay
<1>14. PICK t : t = SendTCP(u, FALSE)
  OBVIOUS
<1>15. /\ Onward(t, u, b, r, as, ds) /\ Flagged(t)
  BY <1>13, <1>14, SendOnward
<1>16. Awaited(u, b, r, as, ds)
  <2>1. ~(r.RemoteSEQ < b)
    BY <1>3
  <2> QED
    BY <1>12, <2>1 DEF Awaited, Coming
<1>17. /\ t.vUnackedKeepalives = u.vUnackedKeepalives /\ t.retryCount <= k + 1
       /\ BareAck(u) /\ u.bTimerEnabled => t.retryCount = k
  <2>1. /\ t.vUnackedKeepalives = u.vUnackedKeepalives /\ t.retryCount <= u.retryCount
        /\ BareAck(u) /\ u.bTimerEnabled /\ u.retryCount > 0 => t.retryCount = u.retryCount - 1
    BY <1>13, <1>14, SendSends
  <2>2. k + 1 > 0 /\ k + 1 - 1 = k
    OBVIOUS
  <2> QED
    BY <1>12, <2>1, <2>2
<1>18. ASSUME s.MySEQ = b, s.bTimerEnabled, Unsent(s) = 0 \/ s.remoteWindow = 0
       PROVE  t.retryCount = k
  <2>1. Unsent(u) = m - b /\ Unsent(s) = m - b
    BY <1>2, <1>12, <1>13, <1>18, Counts DEF Sound
  <2>2. BareAck(u)
    BY <1>7, <1>8, <1>12, <1>18, <2>1 DEF BareAck
  <2> QED
    BY <1>4, <1>12, <1>17, <1>18, <2>2
<1>19. s.MySEQ = b /\ s.bTimerEnabled /\ (Unsent(s) = 0 \/ s.remoteWindow = 0) =>
         t.retryCount <= k
  BY <1>18
<1> QED
  BY <1>4, <1>10, <1>11, <1>12, <1>14, <1>15, <1>16, <1>17, <1>19 DEF Onward

\* What an acknowledgement leaves alone.
Rests(t, s) ==
  /\ t.out = s.out /\ t.retryCount = s.retryCount
  /\ t.vUnackedKeepalives = s.vUnackedKeepalives /\ (Busy(s) => Busy(t))

LEMMA AckedRests ==
  ASSUME NEW s, NEW b, NEW m, Sound(s, b, m), NEW d \in Nat, b + d <= m
  PROVE  /\ Rests(Acked(s, d), s)
         /\ \/ Acked(s, d).MySEQ = s.MySEQ /\ b + d <= s.MySEQ
            \/ Acked(s, d).MySEQ = b + d /\ s.MySEQ < b + d
<1>1. s \in Sender /\ Lay(s, b, m)
  BY DEF Sound
<1>2. PICK q \in Nat, i \in Nat : q = s.MySEQ /\ i = b /\ i <= q
  BY <1>1 DEF Lay
<1>3. InFlight(s) = q - i
  BY <1>1, <1>2, Counts
<1>4. PICK p \in Int : p = Wrap(s.txTail + d)
  <2>1. s.txTail = At(TxSize, i)
    BY <1>1, <1>2 DEF Lay
  <2>2. Wrap(At(TxSize, i) + d) = At(TxSize, i + d)
    BY Wraps
  <2>3. PICK n \in Nat \ {0, 1}, c \in Nat : n = TxSize /\ c = i + d
    BY Sizes
  <2>4. At(n, c) \in Nat
    BY AtIsNat
  <2> QED
    BY <2>1, <2>2, <2>3, <2>4
<1>5. PICK a : a = AckedOnly(s, d)
  OBVIOUS
<1>6. a = [s EXCEPT !.txTail = p, !.bHalfFullFlush = FALSE,
                    !.bRXNoneACKed1 = FALSE, !.bRXNoneACKed2 = FALSE]
  BY <1>4, <1>5 DEF AckedOnly
<1>7. /\ a \in Sender /\ a.MySEQ = q /\ a.out = s.out /\ a.retryCount = s.retryCount
      /\ a.vUnackedKeepalives = s.vUnackedKeepalives /\ a.bTXASAP = s.bTXASAP
      /\ a.bTXASAPWithoutTimerReset = s.bTXASAPWithoutTimerReset
      /\ a.bTimer2Enabled = s.bTimer2Enabled
  BY <1>1, <1>2, <1>6 DEF Sender
<1>8. CASE d <= InFlight(s)
  <2>1. Acked(s, d) = a
    BY <1>5, <1>8 DEF Acked
  <2>2. b + d <= s.MySEQ
    BY <1>2, <1>3, <1>8
  <2> QED
    BY <1>2, <1>7, <2>1, <2>2 DEF Rests, Busy
<1>9. CASE ~(d <= InFlight(s))
  <2>1. s.MySEQ + d - InFlight(s) = i + d
    BY <1>2, <1>3
  <2>2. PICK c \in Int : c = i + d
    OBVIOUS
  <2>3. PICK t : t = [a EXCEPT !.MySEQ = c, !.txUnackedTail = p]
    OBVIOUS
  <2>4. Acked(s, d) = t
    <3>1. a.txTail = p
      BY <1>1, <1>6 DEF Sender
    <3> QED
      BY <1>2, <1>5, <1>7, <1>9, <2>1, <2>2, <2>3, <3>1 DEF Acked
  <2>5. /\ t.MySEQ = c /\ t.out = a.out /\ t.retryCount = a.retryCount
        /\ t.vUnackedKeepalives = a.vUnackedKeepalives /\ t.bTXASAP = a.bTXASAP
        /\ t.bTXASAPWithoutTimerReset = a.bTXASAPWithoutTimerReset
        /\ t.bTimer2Enabled = a.bTimer2Enabled
    BY <1>7, <2>3 DEF Sender
  <2>6. s.MySEQ < b + d
    BY <1>2, <1>3, <1>9
  <2> QED
    BY <1>2, <1>7, <2>2, <2>4, <2>5, <2>6 DEF Rests, Busy
<1> QED
  BY <1>8, <1>9

LEMMA NoneAckedRests ==
  ASSUME NEW s, NEW b, NEW m, Sound(s, b, m)
  PROVE  /\ Rests(NoneAcked(s), s)
         /\ \/ NoneAcked(s).MySEQ = s.MySEQ
            \/ NoneAcked(s).MySEQ = b /\ Busy(NoneAcked(s))
<1>1. s \in Sender
  BY DEF Sound
<1>2. CASE InFlight(s) = 0
  BY <1>2 DEF NoneAcked, Rests
<1>3. CASE InFlight(s) # 0
  <2>1. PICK r : r = Rewind(s) /\ r \in Sender /\ r.MySEQ = b
    BY RewindIs DEF Sound
  <2>2. /\ r.out = s.out /\ r.retryCount = s.retryCount
        /\ r.vUnackedKeepalives = s.vUnackedKeepalives
    BY <1>1, <2>1 DEF Rewind, Sender
  <2>3. PICK u : u = IF s.bRXNoneACKed2 THEN [r EXCEPT !.bTXASAPWithoutTimerReset = TRUE] ELSE s
    OBVIOUS
  <2>4. u \in Sender /\ Rests(u, s) /\ (u.MySEQ = s.MySEQ \/ (u.MySEQ = b /\ Busy(u)))
    <3>1. CASE s.bRXNoneACKed2
      <4>1. u = [r EXCEPT !.bTXASAPWithoutTimerReset = TRUE]
        BY <2>3, <3>1
      <4>2. /\ u \in Sender /\ u.MySEQ = b /\ u.bTXASAPWithoutTimerReset = TRUE
            /\ u.out = r.out /\ u.retryCount = r.retryCount
            /\ u.vUnackedKeepalives = r.vUnackedKeepalives
        BY <2>1, <4>1 DEF Sender
      <4> QED
        BY <2>2, <4>2 DEF Rests, Busy
    <3>2. CASE ~s.bRXNoneACKed2
      BY <1>1, <2>3, <3>2 DEF Rests
    <3> QED
      BY <3>1, <3>2
  <2>5. PICK t : t = [u EXCEPT !.bRXNoneACKed1 = TRUE, !.bRXNoneACKed2 = s.bRXNoneACKed1]
    OBVIOUS
  <2>6. NoneAcked(s) = t
    BY <1>3, <2>1, <2>3, <2>5 DEF NoneAcked
  <2>7. /\ t.MySEQ = u.MySEQ /\ t.out = u.out /\ t.retryCount = u.retryCount
        /\ t.vUnackedKeepalives = u.vUnackedKeepalives /\ t.bTXASAP = u.bTXASAP
        /\ t.bTXASAPWithoutTimerReset = u.bTXASAPWithoutTimerReset
        /\ t.bTimer2Enabled = u.bTimer2Enabled
    BY <2>4, <2>5 DEF Sender
  <2> QED
    BY <2>4, <2>6, <2>7 DEF Rests, Busy
<1> QED
  BY <1>2, <1>3

LEMMA NewWindowRests ==
  ASSUME NEW s \in Sender, NEW ack \in Nat, NEW window \in 0 .. RxSize - 1
  PROVE  /\ Rests(NewWindow(s, ack, window), s) /\ NewWindow(s, ack, window).MySEQ = s.MySEQ
         /\ s.remoteWindow = 0 /\ NewWindow(s, ack, window).remoteWindow # 0 =>
              Busy(NewWindow(s, ack, window))
<1>1. PICK w : w = (window - (s.MySEQ - ack)) % WordSize
  OBVIOUS
<1>2. PICK e : e = (s.bTXASAP \/ (s.remoteWindow = 0 /\ w # 0))
  OBVIOUS
<1>3. PICK t : t = [s EXCEPT !.remoteWindow = w, !.bTXASAP = e]
  OBVIOUS
<1>4. NewWindow(s, ack, window) = t
  BY <1>1, <1>2, <1>3 DEF NewWindow
<1>5. /\ t.MySEQ = s.MySEQ /\ t.out = s.out /\ t.retryCount = s.retryCount
      /\ t.vUnackedKeepalives = s.vUnackedKeepalives /\ t.bTXASAP = e /\ t.remoteWindow = w
      /\ t.bTXASAPWithoutTimerReset = s.bTXASAPWithoutTimerReset
      /\ t.bTimer2Enabled = s.bTimer2Enabled
  BY <1>3 DEF Sender
<1>6. Busy(s) => Busy(t)
  BY <1>2, <1>5, Zenon DEF Busy
<1>7. s.remoteWindow = 0 /\ t.remoteWindow # 0 => Busy(t)
  BY <1>2, <1>5, Zenon DEF Busy
<1> QED
  BY <1>4, <1>5, <1>6, <1>7 DEF Rests

LEMMA HandleAckRests ==
  ASSUME NEW t, NEW b, NEW m, Sound(t, b, m), NEW ack \in Nat, ack <= m,
         NEW window \in 0 .. RxSize - 1
  PROVE  \E c \in Nat :
           /\ Sound(HandleAck(t, ack, window), c, m) /\ b <= c /\ (c = b \/ c = ack)
           /\ HandleAck(t, ack, window).out = t.out
           /\ HandleAck(t, ack, window).retryCount = t.retryCount
           /\ HandleAck(t, ack, window).vUnackedKeepalives = 0
           /\ \/ HandleAck(t, ack, window).MySEQ = c
              \/ HandleAck(t, ack, window).MySEQ = t.MySEQ /\ ack < t.MySEQ
           /\ Flagged(t) => Flagged(HandleAck(t, ack, window))
<1> DEFINE s == [t EXCEPT !.vUnackedKeepalives = 0]
           d == ack - (s.MySEQ - InFlight(s))
           a == IF d \in 1 .. TxSize THEN Acked(s, d) ELSE NoneAcked(s)
           e == IF a.txTail = a.txHead THEN [a EXCEPT !.bTimerEnabled = FALSE] ELSE a
           H == HandleAck(t, ack, window)
<1>1. H = IF ack > s.MySEQ + Unsent(s) THEN SendTCP(s, FALSE) ELSE NewWindow(e, ack, window)
  BY DEF HandleAck
<1>2. /\ Sound(s, b, m) /\ s.vUnackedKeepalives = 0 /\ s.out = t.out /\ s.MySEQ = t.MySEQ
      /\ s.retryCount = t.retryCount /\ s.remoteWindow = t.remoteWindow
      /\ Busy(s) <=> Busy(t)
  <2>1. t \in Sender
    BY DEF Sound
  <2>2. Alike(s, t)
    BY <2>1 DEF Alike, Sender
  <2>3. /\ s.vUnackedKeepalives = 0 /\ s.out = t.out /\ s.MySEQ = t.MySEQ
        /\ s.retryCount = t.retryCount /\ s.remoteWindow = t.remoteWindow
        /\ s.bTXASAP = t.bTXASAP /\ s.bTimer2Enabled = t.bTimer2Enabled
        /\ s.bTXASAPWithoutTimerReset = t.bTXASAPWithoutTimerReset
    BY <2>1 DEF Sender
  <2> HIDE DEF s
  <2> QED
    BY <2>2, <2>3, AlikeIs DEF Busy
<1>3. d = ack - (s.MySEQ - InFlight(s))
  OBVIOUS
<1>4. a = IF d \in 1 .. TxSize THEN Acked(s, d) ELSE NoneAcked(s)
  OBVIOUS
<1>5. e = IF a.txTail = a.txHead THEN [a EXCEPT !.bTimerEnabled = FALSE] ELSE a
  OBVIOUS
<1>26. H = HandleAck(t, ack, window)
  OBVIOUS
<1> HIDE DEF s, d, a, e, H
<1>6. s \in Sender /\ Lay(s, b, m)
  BY <1>2 DEF Sound
<1>7. PICK n \in Nat \ {0, 1} : n = TxSize
  BY Sizes
<1>8. PICK q \in Nat, i \in Nat, j \in Nat :
        q = s.MySEQ /\ i = b /\ j = m /\ i <= q /\ q <= j /\ j - i < n
  BY <1>6, <1>7 DEF Lay
<1>9. InFlight(s) = q - i /\ Unsent(s) = j - q
  BY <1>6, <1>8, Counts
<1>10. d = ack - i /\ d \in Int
  BY <1>3, <1>8, <1>9
<1>11. ~(ack > s.MySEQ + Unsent(s))
  BY <1>8, <1>9
<1>12. PICK c \in Nat :
         /\ c = i \/ c = ack
         /\ i <= c /\ ack <= c /\ Sound(a, c, m) /\ Rests(a, s)
         /\ a.MySEQ = c \/ (a.MySEQ = q /\ ack < q)
         /\ a.MySEQ \in Nat /\ (q <= a.MySEQ \/ Busy(a))
         /\ a.remoteWindow = s.remoteWindow
  <2>1. CASE d \in 1 .. TxSize
    <3>1. PICK y \in Nat : y = i + d /\ y = ack /\ y <= j /\ d \in Nat /\ i <= y
      BY <1>7, <1>8, <1>10, <2>1
    <3>2. Sound(Acked(s, d), b + d, m) /\ Acked(s, d).remoteWindow = s.remoteWindow
      BY <1>2, <1>8, <3>1, AckedIs
    <3>3. /\ Rests(Acked(s, d), s)
          /\ \/ Acked(s, d).MySEQ = s.MySEQ /\ b + d <= s.MySEQ
             \/ Acked(s, d).MySEQ = b + d /\ s.MySEQ < b + d
      BY <1>2, <1>8, <3>1, AckedRests
    <3>4. \/ a.MySEQ = q /\ y <= q
          \/ a.MySEQ = y /\ q < y
      BY <1>4, <1>8, <2>1, <3>1, <3>3
    <3>5. a.MySEQ \in Nat /\ q <= a.MySEQ /\ (a.MySEQ = y \/ (a.MySEQ = q /\ y < q))
      BY <3>4
    <3>6. Sound(a, y, m) /\ Rests(a, s) /\ a.remoteWindow = s.remoteWindow
      BY <1>4, <1>8, <2>1, <3>1, <3>2, <3>3
    <3>7. y <= y
      OBVIOUS
    <3> QED
      BY <3>1, <3>5, <3>6, <3>7
  <2>2. CASE ~(d \in 1 .. TxSize)
    <3>1. ack <= i
      BY <1>7, <1>8, <1>10, <2>2
    <3>2. Sound(NoneAcked(s), b, m) /\ NoneAcked(s).remoteWindow = s.remoteWindow
      BY <1>2, NoneAckedIs
    <3>3. /\ Rests(NoneAcked(s), s)
          /\ \/ NoneAcked(s).MySEQ = s.MySEQ
             \/ NoneAcked(s).MySEQ = b /\ Busy(NoneAcked(s))
      BY <1>2, NoneAckedRests
    <3>4. a.MySEQ = q \/ (a.MySEQ = i /\ Busy(a))
      BY <1>4, <1>8, <2>2, <3>3
    <3>5. /\ a.MySEQ \in Nat /\ (q <= a.MySEQ \/ Busy(a))
          /\ a.MySEQ = i \/ (a.MySEQ = q /\ ack < q)
      BY <1>8, <3>1, <3>4
    <3>6. Sound(a, i, m) /\ Rests(a, s) /\ a.remoteWindow = s.remoteWindow
      BY <1>4, <1>8, <2>2, <3>2, <3>3
    <3>7. i <= i
      OBVIOUS
    <3> QED
      BY <3>1, <3>5, <3>6, <3>7
  <2> QED
    BY <2>1, <2>2
<1>13. /\ e \in Sender /\ Rests(e, a) /\ e.MySEQ = a.MySEQ
       /\ e.remoteWindow = a.remoteWindow
  <2>1. a \in Sender
    BY <1>12 DEF Sound
  <2>2. CASE a.txTail # a.txHead
    BY <1>5, <2>1, <2>2 DEF Rests
  <2>3. CASE a.txTail = a.txHead
    <3>1. e = [a EXCEPT !.bTimerEnabled = FALSE]
      BY <1>5, <2>3
    <3>2. /\ e \in Sender /\ e.MySEQ = a.MySEQ /\ e.out = a.out /\ e.retryCount = a.retryCount
          /\ e.vUnackedKeepalives = a.vUnackedKeepalives /\ e.bTXASAP = a.bTXASAP
          /\ e.bTXASAPWithoutTimerReset = a.bTXASAPWithoutTimerReset
          /\ e.bTimer2Enabled = a.bTimer2Enabled /\ e.remoteWindow = a.remoteWindow
      BY <2>1, <3>1 DEF Sender
    <3> QED
      BY <3>2 DEF Rests, Busy
  <2> QED
    BY <2>2, <2>3
<1>14. H = NewWindow(e, ack, window)
  BY <1>1, <1>11
<1>15. /\ Rests(H, e) /\ H.MySEQ = e.MySEQ
       /\ e.remoteWindow = 0 /\ H.remoteWindow # 0 => Busy(H)
  BY <1>13, <1>14, NewWindowRests
<1>16. /\ H.out = t.out /\ H.retryCount = t.retryCount /\ H.vUnackedKeepalives = 0
       /\ H.MySEQ = a.MySEQ
  BY <1>2, <1>12, <1>13, <1>15 DEF Rests
<1>17. Sound(H, c, m)
  <2>1. \E x \in {b, ack} : Sound(H, x, m)
    BY <1>26, HandleAckIs
  <2>2. PICK x : x \in {b, ack} /\ Sound(H, x, m)
    BY <2>1
  <2>3. Lay(H, x, m)
    BY <2>2 DEF Sound
  <2>4. Sound(e, c, m)
    <3>1. Lay(a, c, m) /\ a \in Sender
      BY <1>12 DEF Sound
    <3>2. CASE a.txTail # a.txHead
      BY <1>5, <1>12, <3>2
    <3>3. CASE a.txTail = a.txHead
      <4>1. a.MySEQ = c
        <5>1. PICK u \in Nat : u = a.MySEQ /\ c <= u /\ u <= j /\ j - c < n
          BY <1>7, <1>8, <3>1 DEF Lay
        <5>2. At(n, c) = At(n, j)
          BY <1>7, <1>8, <3>1, <3>3 DEF Lay
        <5>3. c <= j /\ j - c < n
          BY <5>1
        <5>4. c = j
          BY <5>2, <5>3, SamePlace
        <5> QED
          BY <5>1, <5>4
      <4>2. e = [a EXCEPT !.bTimerEnabled = FALSE]
        BY <1>5, <3>3
      <4>3. /\ e \in Sender /\ e.MySEQ = a.MySEQ /\ e.remoteWindow = a.remoteWindow
            /\ e.txTail = a.txTail /\ e.txHead = a.txHead /\ e.txUnackedTail = a.txUnackedTail
            /\ e.txBuf = a.txBuf /\ e.out = a.out
        BY <3>1, <4>2 DEF Sender
      <4> QED
        BY <1>12, <4>1, <4>3 DEF Sound, Lay
    <3> QED
      BY <3>2, <3>3
  <2> QED
    BY <1>12, <1>14, <2>4, NewWindowIs
<1>18. ASSUME Flagged(t) PROVE Flagged(H)
  <2> SUFFICES ASSUME Unsent(H) > 0, H.remoteWindow > 0 PROVE Busy(H)
    BY DEF Flagged
  <2>1. Busy(a) => Busy(H)
    BY <1>13, <1>15 DEF Rests
  <2>2. Unsent(H) = j - a.MySEQ
    <3>1. Lay(H, c, m)
      BY <1>17 DEF Sound
    <3>2. Unsent(H) = m - H.MySEQ
      BY <3>1, Counts
    <3> QED
      BY <1>8, <1>16, <3>2
  <2>3. CASE Busy(a)
    BY <2>1, <2>3
  <2>4. CASE ~Busy(a)
    <3>1. q <= a.MySEQ
      BY <1>12, <2>4
    <3>2. j - q > 0
      BY <1>8, <1>12, <2>2, <3>1
    <3>3. CASE t.remoteWindow = 0
      <4>1. H.remoteWindow # 0
        BY <2>2
      <4> QED
        BY <1>2, <1>12, <1>13, <1>15, <3>3, <4>1
    <3>4. CASE t.remoteWindow # 0
      <4>1. t.remoteWindow > 0
        <5>1. t \in Sender
          BY DEF Sound
        <5>2. PICK y \in Nat : y = t.remoteWindow
          BY <5>1, Sizes DEF Sender, Windows
        <5> QED
          BY <3>4, <5>2
      <4>2. Unsent(t) > 0
        <5>1. Lay(t, b, m)
          BY DEF Sound
        <5>2. Unsent(t) = m - t.MySEQ
          BY <5>1, Counts
        <5> QED
          BY <1>2, <1>8, <3>2, <5>2
      <4>3. Busy(t)
        BY <1>18, <4>1, <4>2 DEF Flagged
      <4>4. Busy(a)
        BY <1>2, <1>12, <4>3 DEF Rests
      <4> QED
        BY <2>4, <4>4
    <3> QED
      BY <3>3, <3>4
  <2> QED
    BY <2>3, <2>4
<1>19. H.MySEQ = c \/ (H.MySEQ = t.MySEQ /\ ack < t.MySEQ)
  BY <1>2, <1>8, <1>12, <1>16
<1>20. b <= c /\ (c = b \/ c = ack)
  BY <1>8, <1>12
<1> QED
  BY <1>16, <1>17, <1>18, <1>19, <1>20, <1>26

\* The first acknowledgement is delivered, and perhaps kept.
Delivered(as, a, rest) == Len(as) >= 1 /\ a = as[1] /\ (rest = as \/ rest = Tail(as))

LEMMA DeliveredOthers ==
  ASSUME NEW as \in Seq(Answer), NEW a, NEW rest, Delivered(as, a, rest), NEW q \in Nat,
         ~(a.ack >= q), \E i \in 1 .. Len(as) : as[i].ack >= q
  PROVE  \E k \in 1 .. Len(rest) : rest[k].ack >= q
<1>1. PICK n \in Nat : n = Len(as)
  BY LenProperties
<1>2. PICK i \in 1 .. n : as[i].ack >= q
  BY <1>1
<1>3. i # 1
  BY <1>2 DEF Delivered
<1>4. CASE rest = as
  BY <1>1, <1>2, <1>4
<1>5. CASE rest = Tail(as)
  <2>1. n >= 1
    BY <1>1 DEF Delivered
  <2>2. as # <<>>
    <3> SUFFICES ASSUME as = <<>> PROVE FALSE
      OBVIOUS
    <3>1. n = 0
      BY <1>1
    <3> QED
      BY <2>1, <3>1
  <2>3. Len(rest) = n - 1 /\ \A k \in 1 .. Len(rest) : rest[k] = as[k + 1]
    BY <1>1, <1>5, <2>2, HeadTailProperties
  <2>4. PICK k \in 1 .. n - 1 : k + 1 = i
    <3>1. i - 1 \in 1 .. n - 1 /\ (i - 1) + 1 = i
      BY <1>3
    <3> QED
      BY <3>1
  <2> QED
    BY <1>2, <2>3, <2>4
<1> QED
  BY <1>4, <1>5 DEF Delivered

\* What S awaits of an acknowledgement it is still to have when it has had another one.
LEMMA HandleAckOnward ==
  ASSUME NEW t, NEW b, NEW m, Sound(t, b, m), NEW as \in Seq(Answer), NEW a, NEW rest,
         Delivered(as, a, rest), a.ack \in Nat, a.ack <= m, a.window \in 0 .. RxSize - 1,
         NEW r, r.RemoteSEQ \in Nat, b <= r.RemoteSEQ, a.ack <= r.RemoteSEQ,
         NEW ds \in Seq(Segment), Awaited(t, b, r, as, ds)
  PROVE  \E c \in Nat : /\ Sound(HandleAck(t, a.ack, a.window), c, m) /\ c <= r.RemoteSEQ
                        /\ Awaited(HandleAck(t, a.ack, a.window), c, r, rest, ds)
<1>0. PICK ack \in Nat, window \in 0 .. RxSize - 1 :
        ack = a.ack /\ window = a.window /\ ack <= m /\ ack <= r.RemoteSEQ
  OBVIOUS
<1>1. PICK H : H = HandleAck(t, ack, window)
  OBVIOUS
<1>2. PICK c \in Nat :
        /\ Sound(H, c, m) /\ b <= c /\ (c = b \/ c = ack) /\ H.out = t.out
        /\ H.MySEQ = c \/ (H.MySEQ = t.MySEQ /\ ack < t.MySEQ)
  <2>1. \E c \in Nat :
          /\ Sound(H, c, m) /\ b <= c /\ (c = b \/ c = ack)
          /\ H.out = t.out
          /\ H.retryCount = t.retryCount
          /\ H.vUnackedKeepalives = 0
          /\ \/ H.MySEQ = c
             \/ H.MySEQ = t.MySEQ /\ ack < t.MySEQ
          /\ Flagged(t) => Flagged(H)
    BY <1>0, <1>1, HandleAckRests
  <2> QED
    BY <2>1
<1>3. c <= r.RemoteSEQ
  BY <1>0, <1>2
<1>4. CASE H.MySEQ = c
  <2>1. ~(r.RemoteSEQ < c)
    BY <1>3
  <2>2. Coming(r, rest, ds \o H.out, c, c)
    BY <2>1 DEF Coming
  <2> QED
    BY <1>0, <1>1, <1>2, <1>3, <1>4, <2>2 DEF Awaited
<1>5. CASE H.MySEQ # c
  <2>1. PICK q \in Nat : q = t.MySEQ /\ q = H.MySEQ /\ ack < q /\ c < q
    <3>1. Lay(H, c, m)
      BY <1>2 DEF Sound
    <3>2. PICK q \in Nat : q = H.MySEQ /\ c <= q
      BY <3>1 DEF Lay
    <3>3. H.MySEQ = t.MySEQ /\ ack < t.MySEQ
      BY <1>2, <1>5
    <3>4. c < q
      BY <1>5, <3>2
    <3> QED
      BY <3>2, <3>3, <3>4
  <2>2. PICK es : es = ds \o t.out
    OBVIOUS
  <2>3. Coming(r, as, es, b, q)
    BY <2>1, <2>2 DEF Awaited
  <2>4. q # b
    <3>1. b \in Nat
      BY DEF Sound, Lay
    <3> QED
      BY <1>2, <2>1, <3>1
  <2>5. ~(a.ack >= q)
    BY <1>0, <2>1
  <2>6. (\E i \in 1 .. Len(as) : as[i].ack >= q) => \E k \in 1 .. Len(rest) : rest[k].ack >= q
    BY <2>5, DeliveredOthers
  <2>7. Coming(r, rest, es, c, q)
    BY <2>3, <2>4, <2>6 DEF Coming
  <2> QED
    BY <1>0, <1>1, <1>2, <1>3, <2>1, <2>2, <2>7 DEF Awaited
<1> QED
  BY <1>4, <1>5

LEMMA OnwardTwice ==
  ASSUME NEW s, NEW t, NEW u, NEW b, NEW r, NEW as, NEW ds, s \in Sender, t \in Sender, u \in Sender,
         Onward(t, s, b, r, as, ds), Onward(u, t, b, r, as, ds)
  PROVE  Onward(u, s, b, r, as, ds)
<1>1. PICK x \in Nat, y \in Nat, z \in Nat :
        x = s.retryCount /\ y = t.retryCount /\ z = u.retryCount
  BY Sizes DEF Sender, Retries
<1>2. z <= y /\ y <= x
  BY <1>1 DEF Onward
<1>3. z <= x
  BY <1>2
<1> QED
  BY <1>1, <1>3 DEF Onward

LEMMA OnwardSame ==
  ASSUME NEW s, NEW t, NEW b, NEW r, NEW as, NEW ds, s \in Sender, t.out = s.out,
         t.MySEQ = s.MySEQ, t.vUnackedKeepalives = s.vUnackedKeepalives,
         t.retryCount = s.retryCount
  PROVE  Onward(t, s, b, r, as, ds)
<1>1. s.retryCount <= s.retryCount
  <2>1. s.retryCount \in Nat
    BY Sizes DEF Sender, Retries
  <2> QED
    BY <2>1
<1> QED
  BY <1>1 DEF Onward, Awaited

LEMMA FlushOnward ==
  ASSUME NEW s, NEW b, NEW m, Sound(s, b, m),
         NEW r, r.RemoteSEQ \in Nat, NEW as, NEW ds \in Seq(Segment)
  PROVE  /\ Onward(TCPFlush(s), s, b, r, as, ds) /\ Flagged(TCPFlush(s))
<1>1. s \in Sender
  BY DEF Sound
<1>2. CASE Unsent(s) = 0
  <2>1. TCPFlush(s) = s
    BY <1>2 DEF TCPFlush
  <2>2. Flagged(s)
    <3>1. ~(Unsent(s) > 0)
      BY <1>2
    <3> QED
      BY <3>1 DEF Flagged
  <2> QED
    BY <1>1, <2>1, <2>2, OnwardSame
<1>3. CASE Unsent(s) # 0
  BY <1>3, SendOnward DEF TCPFlush
<1> QED
  BY <1>2, <1>3

\* Putting sends what fills the FIFO, or sees to it that it will be sent.
LEMMA PutOnward ==
  ASSUME NEW s, NEW b, NEW m, Sound(s, b, m), sent = m, NEW len \in Nat \ {0},
         NEW n \in Nat, n = Lower(len, TCPIsPutReady(s)), TCPIsPutReady(s) > 0,
         NEW r, r.RemoteSEQ \in Nat, NEW as, NEW ds \in Seq(Segment)
  PROVE  /\ Onward(TCPPutArray(s, len, n), s, b, r, as, ds)
         /\ Flagged(TCPPutArray(s, len, n))
<1>1. PICK a : a = PutHalf(s) /\ Sound(a, b, m) /\ n <= TCPIsPutReady(a)
  BY HalfIs, PutIs
<1>2. s \in Sender /\ a \in Sender
  BY <1>1 DEF Sound
<1>3. Onward(a, s, b, r, as, ds)
  <2>1. CASE a = s
    BY <1>2, <2>1, OnwardSame
  <2>2. CASE a = [TCPFlush(s) EXCEPT !.bHalfFullFlush = TRUE]
    <3>1. PICK f : f = TCPFlush(s) /\ Sound(f, b, m) /\ Onward(f, s, b, r, as, ds)
      BY FlushIs, FlushOnward
    <3>2. f \in Sender
      BY <3>1 DEF Sound
    <3>3. /\ a.out = f.out /\ a.MySEQ = f.MySEQ /\ a.retryCount = f.retryCount
          /\ a.vUnackedKeepalives = f.vUnackedKeepalives
      BY <2>2, <3>1, <3>2 DEF Sender
    <3>4. Onward(a, f, b, r, as, ds)
      BY <3>2, <3>3, OnwardSame
    <3> QED
      BY <1>2, <3>1, <3>2, <3>4, OnwardTwice
  <2> QED
    BY <1>1, <2>1, <2>2 DEF PutHalf
<1>4. PICK w : w = Filled(a, n)
  OBVIOUS
<1>5. /\ Sound(w, b, m + n) /\ w \in Sender /\ w.MySEQ = a.MySEQ /\ w.out = a.out
      /\ w.retryCount = a.retryCount /\ w.vUnackedKeepalives = a.vUnackedKeepalives
  BY <1>1, <1>4, FilledIs
<1>6. Onward(w, s, b, r, as, ds)
  <2>1. Onward(w, a, b, r, as, ds)
    BY <1>2, <1>5, OnwardSame
  <2> QED
    BY <1>2, <1>3, <1>5, <2>1, OnwardTwice
<1>7. PICK t : t = TCPPutArray(s, len, n)
  OBVIOUS
<1>8. t = TCPFlush(w) \/ t = [w EXCEPT !.bTimer2Enabled = TRUE]
  <2>1. TCPIsPutReady(s) # 0
    OBVIOUS
  <2> QED
    BY <1>1, <1>4, <1>7, <2>1, PutBy
<1>9. CASE t = TCPFlush(w)
  <2>1. Onward(t, w, b, r, as, ds) /\ Flagged(t)
    BY <1>5, <1>9, FlushOnward
  <2>2. t \in Sender
    <3>1. Sound(TCPFlush(w), b, m + n)
      BY <1>5, FlushIs
    <3> QED
      BY <1>9, <3>1 DEF Sound
  <2> QED
    BY <1>2, <1>5, <1>6, <1>7, <2>1, <2>2, OnwardTwice
<1>10. CASE t = [w EXCEPT !.bTimer2Enabled = TRUE]
  <2>1. /\ t \in Sender /\ t.out = w.out /\ t.MySEQ = w.MySEQ /\ t.retryCount = w.retryCount
        /\ t.vUnackedKeepalives = w.vUnackedKeepalives /\ t.bTimer2Enabled = TRUE
    BY <1>5, <1>10 DEF Sender
  <2>2. Onward(t, w, b, r, as, ds)
    BY <1>5, <2>1, OnwardSame
  <2>3. Flagged(t)
    BY <2>1 DEF Flagged, Busy
  <2> QED
    BY <1>2, <1>5, <1>6, <1>7, <2>1, <2>2, <2>3, OnwardTwice
<1> QED
  BY <1>8, <1>9, <1>10

LEMMA FullMore ==
  ASSUME NEW ds \in Seq(Segment), NEW es \in Seq(Segment), Full(ds)
  PROVE  Full(ds \o es)
<1>1. PICK n \in Nat, l \in Nat : n = Len(ds) /\ l = Len(es)
  BY LenProperties
<1>2. PICK t : t = ds \o es
  OBVIOUS
<1>3. Len(t) = n + l /\ \A i \in 1 .. n : t[i] = ds[i]
  BY <1>1, <1>2, ConcatProperties
<1>4. PICK i \in 1 .. n : ds[i].bytes # <<>>
  BY <1>1 DEF Full
<1>5. i \in 1 .. n + l
  BY <1>1
<1> QED
  BY <1>2, <1>3, <1>4, <1>5 DEF Full

LEMMA FullTaken ==
  ASSUME NEW ds \in Seq(Segment), Full(ds), NEW rest, rest = ds \/ rest = Tail(ds)
  PROVE  ds # <<>> /\ (ds[1].bytes # <<>> \/ Full(rest))
<1>1. PICK n \in Nat : n = Len(ds)
  BY LenProperties
<1>2. PICK i \in 1 .. n : ds[i].bytes # <<>>
  BY <1>1 DEF Full
<1>3. n # 0
  BY <1>2
<1>4. ds # <<>>
  BY <1>1, <1>3
<1>5. CASE i = 1 \/ rest = ds
  BY <1>2, <1>4, <1>5 DEF Full
<1>6. CASE i # 1 /\ rest = Tail(ds)
  <2>1. Len(rest) = n - 1 /\ \A k \in 1 .. Len(rest) : rest[k] = ds[k + 1]
    BY <1>1, <1>4, <1>6, HeadTailProperties
  <2>2. PICK k \in 1 .. n - 1 : k + 1 = i
    <3>1. i - 1 \in 1 .. n - 1 /\ (i - 1) + 1 = i
      BY <1>2, <1>6
    <3> QED
      BY <3>1
  <2> QED
    BY <1>2, <1>4, <2>1, <2>2 DEF Full
<1> QED
  BY <1>5, <1>6

LEMMA AppendOne ==
  ASSUME NEW T, NEW s \in Seq(T), NEW x \in T
  PROVE  s \o <<x>> = Append(s, x)
  OBVIOUS

\* What R has sent is behind what it sent before.
LEMMA AnsweredLast ==
  ASSUME NEW as \in Seq(Answer), NEW o, NEW h, NEW g, NEW mac, Replies(o, h, g, mac)
  PROVE  /\ o # <<>> => \E i \in 1 .. Len(as \o o) : (as \o o)[i].ack = h
         /\ \A i \in 1 .. Len(as) : i \in 1 .. Len(as \o o) /\ (as \o o)[i] = as[i]
         /\ as # <<>> \/ o # <<>> => as \o o # <<>>
<1>1. o = <<>> \/ \E a \in Answer : o = <<a>> /\ a.ack = h
  BY DEF Replies
<1>2. CASE o = <<>>
  <2>1. as \o o = as
    BY <1>2
  <2> QED
    BY <1>2, <2>1
<1>3. CASE \E a \in Answer : o = <<a>> /\ a.ack = h
  <2>1. PICK a \in Answer : o = <<a>> /\ a.ack = h
    BY <1>3
  <2>2. PICK n \in Nat : n = Len(as)
    BY LenProperties
  <2>3. PICK l \in Nat : l = n + 1
    OBVIOUS
  <2>4. PICK t : t = as \o o
    OBVIOUS
  <2>5. t = Append(as, a)
    BY <2>1, <2>4, AppendOne
  <2>6. Len(t) = l /\ t[l] = a /\ \A i \in 1 .. n : t[i] = as[i]
    <3>1. /\ Len(t) = Len(as) + 1 /\ t[Len(as) + 1] = a
          /\ \A i \in 1 .. Len(as) : t[i] = as[i]
      BY <2>1, <2>5, AppendIs, ZenonT(60)
    <3> QED
      BY <2>2, <2>3, <3>1
  <2>7. l \in 1 .. l /\ \A i \in 1 .. n : i \in 1 .. l
    BY <2>3
  <2>8. t # <<>>
    BY <2>3, <2>6
  <2> QED
    BY <2>1, <2>2, <2>4, <2>6, <2>7, <2>8
<1> QED
  BY <1>1, <1>2, <1>3

\* What R is to answer.
Waited(r, as, ds) == Full(ds) \/ Answering(r) \/ as # <<>>

\* R becomes t and sends its answer, if any, behind those before; it may have taken the first
\* segment, or it answers whatever it was to answer.
Goes(t, r, g, mac, as, bs, ds, rest) ==
  /\ bs = as \o t.out /\ Replies(t.out, t.RemoteSEQ, g, mac)
  /\ \/ rest = ds /\ t.RemoteSEQ = r.RemoteSEQ /\ (Answering(t) \/ t.out # <<>>)
     \/ ds # <<>> /\ (rest = ds \/ rest = Tail(ds)) /\ Heeds(t, r, ds[1], g)

\* Then what is awaited still comes.
LEMMA GoesOn ==
  ASSUME NEW t, NEW r, NEW g \in Nat, NEW mac, NEW as \in Seq(Answer), NEW bs,
         NEW ds \in Seq(Segment), NEW rest, Goes(t, r, g, mac, as, bs, ds, rest),
         r.RemoteSEQ \in Nat, t.RemoteSEQ \in Nat, r.RemoteSEQ <= t.RemoteSEQ,
         NEW b \in Nat, b <= r.RemoteSEQ
  PROVE  /\ \A q \in Nat : q <= g + RxSize - 1 /\ Coming(r, as, ds, b, q) =>
              Coming(t, bs, rest, b, q)
         /\ Waited(r, as, ds) => Waited(t, bs, rest)
<1>1. PICK h \in Nat, k \in Nat : h = r.RemoteSEQ /\ k = t.RemoteSEQ /\ h <= k
  OBVIOUS
<1>2. /\ t.out # <<>> => \E i \in 1 .. Len(bs) : bs[i].ack = k
      /\ \A i \in 1 .. Len(as) : i \in 1 .. Len(bs) /\ bs[i] = as[i]
      /\ as # <<>> \/ t.out # <<>> => bs # <<>>
  <2>1. bs = as \o t.out /\ Replies(t.out, t.RemoteSEQ, g, mac)
    BY DEF Goes
  <2>2. PICK o : o = t.out
    OBVIOUS
  <2>3. bs = as \o o /\ Replies(o, k, g, mac)
    BY <1>1, <2>1, <2>2
  <2>4. /\ o # <<>> => \E i \in 1 .. Len(as \o o) : (as \o o)[i].ack = k
        /\ \A i \in 1 .. Len(as) : i \in 1 .. Len(as \o o) /\ (as \o o)[i] = as[i]
        /\ as # <<>> \/ o # <<>> => as \o o # <<>>
    BY <2>3, AnsweredLast
  <2> QED
    BY <2>2, <2>3, <2>4
<1>3. ASSUME NEW q \in Nat, q <= k, Answering(t) \/ t.out # <<>>
      PROVE  Coming(t, bs, rest, b, q)
  <2>1. ~(k < q)
    BY <1>3
  <2>2. t.out # <<>> => \E i \in 1 .. Len(bs) : bs[i].ack >= q
    <3>1. k >= q
      BY <1>3
    <3> QED
      BY <1>2, <3>1
  <2> QED
    BY <1>1, <1>3, <2>1, <2>2 DEF Coming
<1>4. CASE rest = ds /\ k = h /\ (Answering(t) \/ t.out # <<>>)
  <2>1. ASSUME NEW q \in Nat, Coming(r, as, ds, b, q) PROVE Coming(t, bs, rest, b, q)
    <3>1. CASE q <= k
      BY <1>3, <1>4, <3>1
    <3>2. CASE ~(q <= k)
      <4>1. h < q /\ k < q
        BY <1>4, <3>2
      <4> QED
        BY <1>1, <1>4, <2>1, <4>1 DEF Coming
    <3> QED
      BY <3>1, <3>2
  <2> QED
    BY <1>2, <1>4, <2>1 DEF Waited
<1>5. CASE ds # <<>> /\ (rest = ds \/ rest = Tail(ds)) /\ Heeds(t, r, ds[1], g)
  <2>1. /\ ds[1].bytes # <<>> \/ Answering(r) => Answering(t) \/ t.out # <<>>
        /\ ds[1].seq <= h =>
             \A j \in Nat : Holds(ds[1], j) /\ j <= g + RxSize - 1 => j <= k
    BY <1>1, <1>5 DEF Heeds
  <2>2. Full(ds) => Answering(t) \/ t.out # <<>> \/ Full(rest)
    BY <1>5, <2>1, FullTaken
  <2>3. Waited(r, as, ds) => Waited(t, bs, rest)
    BY <1>2, <2>1, <2>2 DEF Waited
  <2>4. ASSUME NEW q \in Nat, q <= g + RxSize - 1, Coming(r, as, ds, b, q)
        PROVE  Coming(t, bs, rest, b, q)
    <3>1. CASE h < q
      <4>1. Chain(ds, h, q)
        BY <1>1, <2>4, <3>1 DEF Coming
      <4>2. PICK n \in Nat : n = Len(ds) /\ n >= 1
        BY <1>5, LenProperties, EmptySeq
      <4>3. ASSUME ds[1].seq <= h, NEW j \in h + 1 .. q, Holds(ds[1], j) PROVE j <= k
        <5>1. PICK x \in Int : x = g + RxSize - 1
          BY Sizes
        <5>2. j \in Nat /\ j <= x
          BY <2>4, <5>1
        <5> QED
          BY <2>1, <4>3, <5>1, <5>2
      <4>4. /\ k < q => Chain(rest, k, q)
            /\ k >= q => ds[1].bytes # <<>> \/ Full(rest)
        BY <1>1, <1>5, <3>1, <4>1, <4>2, <4>3, ChainTaken
      <4>5. CASE k < q
        BY <1>1, <4>4, <4>5 DEF Coming
      <4>6. CASE ~(k < q)
        <5>1. ds[1].bytes # <<>> \/ Full(rest)
          BY <4>4, <4>6
        <5>2. CASE Full(rest)
          BY <1>1, <4>6, <5>2 DEF Coming
        <5>3. CASE ds[1].bytes # <<>>
          BY <1>3, <2>1, <4>6, <5>3
        <5> QED
          BY <5>1, <5>2, <5>3
      <4> QED
        BY <4>5, <4>6
    <3>2. CASE ~(h < q)
      <4>1. ~(k < q) /\ q <= k
        BY <1>1, <3>2
      <4>2. q = b \/ Answering(r) \/ Full(ds) \/ \E i \in 1 .. Len(as) : as[i].ack >= q
        BY <1>1, <2>4, <3>2 DEF Coming
      <4>3. CASE Answering(t) \/ t.out # <<>>
        BY <1>3, <4>1, <4>3
      <4>4. CASE ~(Answering(t) \/ t.out # <<>>)
        <5>1. q = b \/ Full(rest) \/ \E i \in 1 .. Len(as) : as[i].ack >= q
          BY <2>1, <2>2, <4>2, <4>4
        <5>2. (\E i \in 1 .. Len(as) : as[i].ack >= q) => \E i \in 1 .. Len(bs) : bs[i].ack >= q
          BY <1>2
        <5> QED
          BY <1>1, <4>1, <5>1, <5>2 DEF Coming
      <4> QED
        BY <4>3, <4>4
    <3> QED
      BY <3>1, <3>2
  <2> QED
    BY <2>3, <2>4
<1> QED
  BY <1>1, <1>4, <1>5 DEF Goes

-----------------------------------------------------------------------------
(* What the faults pay for.                                                 *)

Faults == spent.lost + spent.early
Enough(f) == f >= Lower(TCP_MAX_RETRIES, TCP_MAX_UNACKED_KEEP_ALIVES)

\* There was a fault for every retry, and one more if what S awaits will not come; there was
\* one for every probe that was not answered, but for one that R is to answer.
Paid(s, b, r, as, ds, f) ==
  /\ s.retryCount <= f /\ (Awaited(s, b, r, as, ds) \/ s.retryCount + 1 <= f)
  /\ \/ s.vUnackedKeepalives <= f
     \/ Waited(r, as, ds \o s.out) /\ s.vUnackedKeepalives <= f + 1

FaultInv ==
  \E b \in Nat :
    /\ Sound(S, b, sent) /\ b <= R.RemoteSEQ /\ Flagged(S)
    /\ spent.swap = 0 /\ spent.tight = 0 => Paid(S, b, R, acks, data, Faults)

\* Once S has given up there were faults enough.
PaidInv ==
  IF Established THEN FaultInv ELSE spent.swap = 0 /\ spent.tight = 0 => Enough(Faults)

LEMMA PaidMore ==
  ASSUME NEW s \in Sender, NEW b, NEW r, NEW as, NEW ds, NEW f \in Nat, NEW e \in Nat, f <= e,
         Paid(s, b, r, as, ds, f)
  PROVE  Paid(s, b, r, as, ds, e)
<1>1. PICK c \in Nat, v \in Nat : c = s.retryCount /\ v = s.vUnackedKeepalives
  BY Sizes DEF Sender, Retries
<1>2. /\ c <= e /\ (c + 1 <= f => c + 1 <= e) /\ (v <= f => v <= e) /\ (v <= f + 1 => v <= e + 1)
  BY <1>1 DEF Paid
<1> QED
  BY <1>1, <1>2 DEF Paid

LEMMA EnoughMore ==
  ASSUME NEW f \in Nat, NEW e \in Nat, f <= e, Enough(f)
  PROVE  Enough(e)
<1>1. PICK x \in Nat : x = Lower(TCP_MAX_RETRIES, TCP_MAX_UNACKED_KEEP_ALIVES)
  BY StreamAssumption DEF StreamAssumption, Lower
<1>2. e >= x
  BY <1>1 DEF Enough
<1> QED
  BY <1>1, <1>2 DEF Enough

LEMMA FaultsAre ==
  ASSUME spent \in Spent
  PROVE  /\ Faults \in Nat
         /\ spent' = spent => Faults' = Faults
         /\ \A what \in {"dup", "swap", "tight"} : spent' = Spend(what) => Faults' = Faults
         /\ \A what \in {"lost", "early"} : spent' = Spend(what) => Faults' = Faults + 1
<1>1. PICK l \in Nat, y \in Nat : l = spent.lost /\ y = spent.early
  BY DEF Spent
<1>2. Faults \in Nat
  BY <1>1 DEF Faults
<1>3. spent' = spent => Faults' = Faults
  BY DEF Faults
<1>4. ASSUME NEW what \in {"dup", "swap", "tight"}, spent' = Spend(what) PROVE Faults' = Faults
  BY <1>4 DEF Spent, Spend, Faults
<1>5. ASSUME spent' = Spend("lost") PROVE Faults' = Faults + 1
  <2>1. spent'.lost = l + 1 /\ spent'.early = y
    BY <1>1, <1>5 DEF Spent, Spend
  <2> QED
    BY <1>1, <2>1 DEF Faults
<1>6. ASSUME spent' = Spend("early") PROVE Faults' = Faults + 1
  <2>1. spent'.lost = l /\ spent'.early = y + 1
    BY <1>1, <1>6 DEF Spent, Spend
  <2> QED
    BY <1>1, <2>1 DEF Faults
<1> QED
  BY <1>2, <1>3, <1>4, <1>5, <1>6

LEMMA SOutOf ==
  ASSUME NEW s, NEW ds \in Seq(Segment), s.out = <<>>
  PROVE  ds \o s.out = ds
  BY ConcatEmptySeq

\* S has become t and has sent what t has to send.
LEMMA SenderPaid ==
  ASSUME StreamInv, NEW t, SBecomes(t), NEW c \in Nat, Sound(t, c, sent'), UNCHANGED R,
         c <= R.RemoteSEQ, Flagged(t),
         spent'.swap = 0 /\ spent'.tight = 0 =>
           Paid(t, c, R, acks', data, Faults')
  PROVE  FaultInv'
<1>1. S' = [t EXCEPT !.out = <<>>] /\ data' = data \o t.out
  BY DEF SBecomes
<1>2. Sound(S', c, sent') /\ S'.out = <<>>
  BY <1>1, Emptied
<1>3. t \in Sender /\ t.out \in Seq(Segment)
  BY DEF Sound, Sender, Segments
<1>4. /\ S'.MySEQ = t.MySEQ /\ S'.retryCount = t.retryCount
      /\ S'.vUnackedKeepalives = t.vUnackedKeepalives /\ S'.remoteWindow = t.remoteWindow
      /\ S'.txUnackedTail = t.txUnackedTail /\ S'.txHead = t.txHead
      /\ S'.bTXASAP = t.bTXASAP /\ S'.bTimer2Enabled = t.bTimer2Enabled
      /\ S'.bTXASAPWithoutTimerReset = t.bTXASAPWithoutTimerReset
  BY <1>1, <1>3 DEF Sender
<1>5. Flagged(S')
  BY <1>4 DEF Flagged, Busy, Unsent
<1>6. data' \o S'.out = data \o t.out
  <2>1. data \in Seq(Segment)
    BY InvFacts
  <2>2. data \o t.out \in Seq(Segment)
    BY <1>3, <2>1, ConcatProperties
  <2> QED
    BY <1>1, <1>2, <2>2, SOutOf
<1>7. ASSUME Paid(t, c, R, acks', data, Faults') PROVE Paid(S', c, R, acks', data', Faults')
  BY <1>4, <1>6, <1>7 DEF Paid, Awaited
<1> QED
  BY <1>2, <1>5, <1>7 DEF FaultInv

\* S goes on: nothing new is to be paid for.
LEMMA OnwardPaid ==
  ASSUME StreamInv, NEW t \in Sender, NEW b, Onward(t, S, b, R, acks, data),
         NEW f \in Nat, Paid(S, b, R, acks, data, f)
  PROVE  Paid(t, b, R, acks, data, f)
<1>1. /\ S \in Sender /\ data \in Seq(Segment) /\ S.out = <<>>
  BY InvFacts
<1>2. PICK c \in Nat, e \in Nat : c = S.retryCount /\ e = t.retryCount /\ e <= c
  BY <1>1, Sizes DEF Sender, Retries, Onward
<1>3. e <= f /\ (c + 1 <= f => e + 1 <= f)
  BY <1>2 DEF Paid
<1>4. Waited(R, acks, data \o S.out) => Waited(R, acks, data \o t.out)
  <2>1. data \o S.out = data
    BY <1>1, SOutOf
  <2>2. t.out \in Seq(Segment)
    BY DEF Sender, Segments
  <2>3. Full(data) => Full(data \o t.out)
    BY <1>1, <2>2, FullMore
  <2> QED
    BY <2>1, <2>3 DEF Waited
<1> QED
  BY <1>2, <1>3, <1>4 DEF Paid, Onward

LEMMA PutPaid == ASSUME StreamInv, FaultInv, Put PROVE FaultInv'
<1>1. PICK b \in Nat :
        /\ Sound(S, b, sent) /\ b <= R.RemoteSEQ /\ Flagged(S)
        /\ spent.swap = 0 /\ spent.tight = 0 =>
             Paid(S, b, R, acks, data, Faults)
  BY DEF FaultInv
<1>2. PICK len \in 1 .. MaxPut :
        /\ sent' = sent + Lower(len, TCPIsPutReady(S))
        /\ SBecomes(TCPPutArray(S, len, Lower(len, TCPIsPutReady(S))))
  BY DEF Put
<1>3. PICK k \in Nat \ {0} : k = len
  BY Sizes
<1>4. PICK free \in Int : free = TCPIsPutReady(S) /\ free > 0
  <2>1. Lay(S, b, sent) /\ S.MySEQ \in Int /\ sent \in Nat
    BY <1>1, InvFacts DEF Sound, Sender
  <2>2. TCPIsPutReady(S) = TxSize - 1 - (sent - b)
    BY <2>1, Counts
  <2>3. TCPIsPutReady(S) \in Int
    BY <2>1, <2>2, Sizes
  <2> QED
    BY <2>3 DEF Put
<1>5. PICK n \in Nat : n = Lower(k, free)
  <2>1. Lower(k, free) \in {k, free}
    BY <1>4 DEF Lower
  <2> QED
    BY <1>4, <2>1
<1>6. PICK t : t = TCPPutArray(S, k, n)
  OBVIOUS
<1>7. Sound(t, b, sent + n) /\ SBecomes(t) /\ sent' = sent + n
  BY <1>1, <1>2, <1>3, <1>4, <1>5, <1>6, PutIs
<1>8. Onward(t, S, b, R, acks, data) /\ Flagged(t)
  <2>1. R.RemoteSEQ \in Nat /\ data \in Seq(Segment)
    BY InvFacts
  <2> QED
    BY <1>1, <1>3, <1>4, <1>5, <1>6, <2>1, PutOnward
<1>9. UNCHANGED <<R, acks, smState, spent>>
  BY DEF Put
<1>10. Faults' = Faults /\ Faults \in Nat
  BY <1>9, InvFacts, FaultsAre
<1>11. ASSUME spent'.swap = 0, spent'.tight = 0
       PROVE  Paid(t, b, R, acks', data, Faults')
  <2>1. Paid(S, b, R, acks, data, Faults)
    BY <1>1, <1>9, <1>11
  <2>2. t \in Sender
    BY <1>7 DEF Sound
  <2>3. Paid(t, b, R, acks, data, Faults)
    BY <1>8, <1>10, <2>1, <2>2, OnwardPaid
  <2> QED
    BY <1>9, <1>10, <2>1, <2>3
<1> QED
  BY <1>1, <1>7, <1>8, <1>9, <1>11, SenderPaid

LEMMA TickSendPaid == ASSUME StreamInv, FaultInv, Established, TickSend PROVE FaultInv'
<1>1. PICK b \in Nat :
        /\ Sound(S, b, sent) /\ b <= R.RemoteSEQ
        /\ spent.swap = 0 /\ spent.tight = 0 =>
             Paid(S, b, R, acks, data, Faults)
  BY DEF FaultInv
<1>2. PICK reset \in BOOLEAN : SBecomes(SendTCP(S, reset))
  <2>1. (~S.bTXASAPWithoutTimerReset) \in BOOLEAN
    OBVIOUS
  <2>2. SBecomes(SendTCP(S, ~S.bTXASAPWithoutTimerReset))
    BY DEF TickSend, Send
  <2> QED
    BY <2>1, <2>2
<1>3. PICK t : t = SendTCP(S, reset)
  OBVIOUS
<1>4. Sound(t, b, sent) /\ Onward(t, S, b, R, acks, data) /\ Flagged(t)
  <2>1. R.RemoteSEQ \in Nat /\ data \in Seq(Segment)
    BY InvFacts
  <2> QED
    BY <1>1, <1>3, <2>1, SendIs, SendOnward
<1>5. UNCHANGED <<R, acks, smState, sent, spent>>
  BY DEF TickSend
<1>6. Faults' = Faults /\ Faults \in Nat
  BY <1>5, InvFacts, FaultsAre
<1>7. ASSUME spent'.swap = 0, spent'.tight = 0
      PROVE  Paid(t, b, R, acks', data, Faults')
  <2>1. Paid(S, b, R, acks, data, Faults)
    BY <1>1, <1>5, <1>7
  <2>2. t \in Sender
    BY <1>4 DEF Sound
  <2>3. Paid(t, b, R, acks, data, Faults)
    BY <1>4, <1>6, <2>1, <2>2, OnwardPaid
  <2> QED
    BY <1>5, <1>6, <2>1, <2>3
<1> QED
  BY <1>1, <1>2, <1>3, <1>4, <1>5, <1>7, SenderPaid

\* R has become t, and has sent what t has to send.
LEMMA ReceiverPaid ==
  ASSUME StreamInv, FaultInv, UNCHANGED <<S, sent>>, NEW t, RBecomes(t),
         RxSound(t, Len(got'), sent), t.RemoteSEQ >= R.RemoteSEQ, NEW mac,
         Faults' = Faults, UNCHANGED smState,
         spent'.swap = 0 /\ spent'.tight = 0 =>
           /\ spent.swap = 0 /\ spent.tight = 0
           /\ Goes(t, R, Len(got), mac, acks, acks', data, data')
  PROVE  FaultInv'
<1>1. PICK b \in Nat :
        /\ Sound(S, b, sent) /\ b <= R.RemoteSEQ /\ Flagged(S)
        /\ spent.swap = 0 /\ spent.tight = 0 =>
             Paid(S, b, R, acks, data, Faults)
  BY DEF FaultInv
<1>2. /\ R.RemoteSEQ \in Nat /\ Len(got) \in Nat /\ S \in Sender /\ S.out = <<>>
      /\ data \in Seq(Segment) /\ acks \in Seq(Answer) /\ Edge(S) \in Int /\ Room \in Int
  BY InvFacts
<1>3. R'.RemoteSEQ = t.RemoteSEQ /\ (Answering(R') <=> Answering(t))
  <2>1. R' = [t EXCEPT !.out = <<>>] /\ t \in Receiver
    BY DEF RBecomes, RxSound
  <2>2. /\ R'.RemoteSEQ = t.RemoteSEQ /\ R'.bTimer2Enabled = t.bTimer2Enabled
        /\ R'.bTXASAPWithoutTimerReset = t.bTXASAPWithoutTimerReset
        /\ R'.bDelayedACKTimerEnabled = t.bDelayedACKTimerEnabled
    BY <2>1 DEF Receiver
  <2> QED
    BY <2>2 DEF Answering
<1>4. PICK h \in Nat, k \in Nat : h = R.RemoteSEQ /\ k = t.RemoteSEQ /\ h <= k /\ b <= h
  <2>1. t.RemoteSEQ \in Int
    BY DEF RxSound, Receiver
  <2>2. PICK k \in Int : k = t.RemoteSEQ /\ k >= R.RemoteSEQ
    BY <2>1
  <2> QED
    BY <1>1, <1>2, <2>2
<1>5. b <= R'.RemoteSEQ
  BY <1>3, <1>4
<1>6. ASSUME spent'.swap = 0, spent'.tight = 0
      PROVE  Paid(S, b, R', acks', data', Faults)
  <2>1. /\ Paid(S, b, R, acks, data, Faults)
        /\ Goes(t, R, Len(got), mac, acks, acks', data, data')
        /\ Ordered(Edge(S), acks, Room)
    BY <1>1, <1>6 DEF StreamInv, RoomInv
  <2>2. /\ \A q \in Nat : q <= Len(got) + RxSize - 1 /\ Coming(R, acks, data, b, q) =>
             Coming(t, acks', data', b, q)
        /\ Waited(R, acks, data) => Waited(t, acks', data')
    BY <1>2, <1>4, <2>1, GoesOn
  <2>3. PICK q \in Nat : q = S.MySEQ /\ q <= Len(got) + RxSize - 1
    <3>1. PICK q \in Nat, w \in Nat, e \in Int, room \in Int :
            q = S.MySEQ /\ w = S.remoteWindow /\ e = Edge(S) /\ e = q + w /\ room = Room
      <4>1. PICK q \in Nat : q = S.MySEQ
        <5>1. Lay(S, b, sent)
          BY <1>1 DEF Sound
        <5> QED
          BY <5>1 DEF Lay
      <4>2. PICK w \in Nat : w = S.remoteWindow
        BY <1>2, Sizes DEF Sender, Windows
      <4> QED
        BY <1>2, <4>1, <4>2 DEF Edge
    <3>2. e <= room
      BY <2>1, <3>1 DEF Ordered
    <3>3. q <= room
      BY <3>1, <3>2
    <3> QED
      BY <3>1, <3>3 DEF Room
  <2>4. data \o S.out = data
    BY <1>2, SOutOf
  <2>5. data' \o S.out = data'
    <3>1. data' \in Seq(Segment)
      <4>1. data' = data \/ (data # <<>> /\ data' = Tail(data))
        BY <2>1 DEF Goes
      <4> QED
        BY <1>2, <4>1, HeadTailProperties
    <3> QED
      BY <1>2, <3>1, SOutOf
  <2>6. Awaited(S, b, R, acks, data) => Awaited(S, b, R', acks', data')
    <3>1. ASSUME Coming(R, acks, data, b, q) PROVE Coming(R', acks', data', b, q)
      <4>1. Coming(t, acks', data', b, q)
        BY <2>2, <2>3, <3>1
      <4> QED
        BY <1>3, <4>1 DEF Coming
    <3> QED
      BY <2>3, <2>4, <2>5, <3>1 DEF Awaited
  <2>7. Waited(R, acks, data \o S.out) => Waited(R', acks', data' \o S.out)
    BY <1>3, <2>2, <2>4, <2>5 DEF Waited
  <2> QED
    BY <2>1, <2>6, <2>7 DEF Paid
<1> QED
  BY <1>1, <1>5, <1>6 DEF FaultInv

LEMMA GetPaid == ASSUME StreamInv, FaultInv, Get PROVE FaultInv'
<1>1. PICK t : t = TCPGet(R)
  OBVIOUS
<1>2. /\ Len(got') = R.RemoteSEQ /\ RxSound(t, R.RemoteSEQ, sent)
      /\ t.RemoteSEQ = R.RemoteSEQ /\ t.out = <<>> /\ Answering(t)
  BY <1>1, GetGives
<1>3. RBecomes(t) /\ UNCHANGED <<S, data, smState, sent, spent>>
  BY <1>1 DEF Get
<1>4. R.RemoteSEQ \in Nat /\ spent \in Spent
  BY InvFacts
<1>5. Goes(t, R, Len(got), RxSize, acks, acks', data, data')
  <2>1. acks' = acks \o t.out
    BY <1>3 DEF RBecomes
  <2>2. Replies(t.out, t.RemoteSEQ, Len(got), RxSize)
    BY <1>2 DEF Replies
  <2> QED
    BY <1>2, <1>3, <2>1, <2>2 DEF Goes
<1>6. t.RemoteSEQ >= R.RemoteSEQ
  BY <1>2, <1>4
<1>7. Faults' = Faults
  BY <1>3, <1>4, FaultsAre
<1> QED
  BY <1>2, <1>3, <1>5, <1>6, <1>7, ReceiverPaid

LEMMA TickRPaid == ASSUME StreamInv, FaultInv, TickR PROVE FaultInv'
<1>1. UNCHANGED <<S, data, smState, sent, got>>
  BY DEF TickR
<1>2. spent \in Spent /\ R.out = <<>> /\ R.RemoteSEQ \in Nat
  BY InvFacts
<1>3. RxSound(R, Len(got), sent)
  BY DEF StreamInv, ReceiverInv
<1>4. PICK mac \in 0 .. RxSize :
        /\ RBecomes(SendAck(R, mac))
        /\ UNCHANGED spent \/ spent' = Spend("tight")
  BY MacLess, MacWhole DEF TickR
<1>5. PICK t : t = SendAck(R, mac)
  OBVIOUS
<1>6. /\ RxSound(t, Len(got), sent) /\ t.RemoteSEQ = R.RemoteSEQ
      /\ Replies(t.out, R.RemoteSEQ, Len(got), mac) /\ t.out # <<>>
  BY <1>2, <1>3, <1>5, SendAckIs
<1>7. Goes(t, R, Len(got), mac, acks, acks', data, data')
  BY <1>1, <1>4, <1>5, <1>6 DEF Goes, RBecomes
<1>8. /\ Faults' = Faults
      /\ spent'.swap = 0 /\ spent'.tight = 0 => spent.swap = 0 /\ spent.tight = 0
  BY <1>2, <1>4, FaultsAre, SpentIs
<1>9. t.RemoteSEQ >= R.RemoteSEQ
  BY <1>2, <1>6
<1> QED
  BY <1>1, <1>4, <1>5, <1>6, <1>7, <1>8, <1>9, ReceiverPaid

\* The first segment leaves the channel, or stays.
LEMMA KeepsFirst ==
  ASSUME NEW T, NEW s \in Seq(T), s # <<>>, NEW rest, Keeps(s, 1, rest)
  PROVE  rest = s \/ rest = Tail(s)
<1>1. RemoveAt(s, 1) = Tail(s)
  <2>1. SubSeq(s, 1, 1 - 1) = <<>>
    <3>1. SubSeq(s, 1, 0) = <<>>
      BY SubSeqEmpty
    <3> QED
      BY <3>1
  <2>2. SubSeq(s, 1 + 1, Len(s)) = Tail(s)
    <3>1. Tail(s) = SubSeq(s, 2, Len(s))
      BY TailIsSubSeq
    <3> QED
      BY <3>1
  <2>3. <<>> \o Tail(s) = Tail(s)
    BY HeadTailProperties, ConcatEmptySeq
  <2> QED
    BY <2>1, <2>2, <2>3 DEF RemoveAt
<1> QED
  BY <1>1 DEF Keeps, Arrives

\* Unless a segment has overtaken others, it is the first that is delivered.
LEMMA FirstIs ==
  ASSUME NEW T, NEW s \in Seq(T), NEW i \in DOMAIN s, NEW rest, Keeps(s, i, rest),
         spent \in Spent
  PROVE  /\ Faults' = Faults /\ i \in 1 .. Len(s)
         /\ spent'.swap = 0 /\ spent'.tight = 0 =>
              /\ spent.swap = 0 /\ spent.tight = 0 /\ i = 1 /\ s # <<>>
              /\ rest = s \/ rest = Tail(s)
<1>1. /\ i \in 1 .. Len(s)
      /\ (i = 1 /\ UNCHANGED spent) \/ (i > 1 /\ spent' = Spend("swap"))
         \/ (i = 1 /\ spent' = Spend("dup"))
  BY KeepsIs
<1>2. s # <<>>
  BY <1>1
<1>3. i = 1 => rest = s \/ rest = Tail(s)
  BY <1>2, KeepsFirst
<1>4. CASE i = 1 /\ UNCHANGED spent
  BY <1>1, <1>2, <1>3, <1>4, FaultsAre
<1>5. CASE i > 1 /\ spent' = Spend("swap")
  BY <1>1, <1>5, FaultsAre, SpentIs
<1>6. CASE i = 1 /\ spent' = Spend("dup")
  BY <1>1, <1>2, <1>3, <1>6, FaultsAre, SpentIs
<1> QED
  BY <1>1, <1>4, <1>5, <1>6

LEMMA RecvDataPaid == ASSUME StreamInv, FaultInv, RecvData PROVE FaultInv'
<1>1. PICK i \in DOMAIN data :
        /\ \/ Keeps(data, i, data') /\ RBecomes(HandleData(R, data[i].seq, data[i].bytes, RxSize))
           \/ /\ i = 1 /\ Left("tight") /\ spent' = Spend("tight") /\ data' = Tail(data)
              /\ \E mac \in 0 .. RxSize - 2 :
                   RBecomes(HandleData(R, data[i].seq, data[i].bytes, mac))
        /\ UNCHANGED <<S, smState, sent, got>>
  BY DEF RecvData, RBecomes
<1>2. data \in Seq(Segment) /\ spent \in Spent /\ R.out = <<>>
  BY InvFacts
<1>3. RxSound(R, Len(got), sent)
  BY DEF StreamInv, ReceiverInv
<1>4. i \in 1 .. Len(data)
  BY <1>2, LenProperties
<1>5. PICK d : d = data[i]
  OBVIOUS
<1>6. Right(d, sent)
      \/ (d \in Segment /\ d.bytes # <<>> /\ d.seq + Len(d.bytes) <= R.RemoteSEQ)
  BY <1>4, <1>5 DEF StreamInv, DataInv, Carried, Old
<1>7. ASSUME NEW mac \in 0 .. RxSize, NEW t, t = HandleData(R, d.seq, d.bytes, mac)
      PROVE  /\ RxSound(t, Len(got), sent) /\ t.RemoteSEQ >= R.RemoteSEQ
             /\ Replies(t.out, t.RemoteSEQ, Len(got), mac) /\ Heeds(t, R, d, Len(got))
  BY <1>2, <1>3, <1>6, <1>7, HandleDataIs
<1>8. CASE Keeps(data, i, data') /\ RBecomes(HandleData(R, d.seq, d.bytes, RxSize))
  <2>1. PICK t : t = HandleData(R, d.seq, d.bytes, RxSize)
    OBVIOUS
  <2>2. /\ RxSound(t, Len(got), sent) /\ t.RemoteSEQ >= R.RemoteSEQ
        /\ Replies(t.out, t.RemoteSEQ, Len(got), RxSize) /\ Heeds(t, R, d, Len(got))
    BY <1>7, <2>1, MacWhole
  <2>3. /\ Faults' = Faults
        /\ spent'.swap = 0 /\ spent'.tight = 0 =>
             /\ spent.swap = 0 /\ spent.tight = 0 /\ i = 1 /\ data # <<>>
             /\ data' = data \/ data' = Tail(data)
    BY <1>2, <1>8, FirstIs
  <2>4. RBecomes(t) /\ UNCHANGED <<S, smState, sent, got>>
    BY <1>1, <1>8, <2>1
  <2>5. ASSUME spent'.swap = 0, spent'.tight = 0
        PROVE  Goes(t, R, Len(got), RxSize, acks, acks', data, data')
    BY <1>5, <2>2, <2>3, <2>4, <2>5 DEF Goes, RBecomes
  <2> QED
    BY <2>2, <2>3, <2>4, <2>5, ReceiverPaid
<1>9. CASE /\ spent' = Spend("tight")
           /\ \E mac \in 0 .. RxSize - 2 : RBecomes(HandleData(R, d.seq, d.bytes, mac))
  <2>0. PICK mac \in 0 .. RxSize : RBecomes(HandleData(R, d.seq, d.bytes, mac))
    BY <1>9, MacLess
  <2>1. PICK t : t = HandleData(R, d.seq, d.bytes, mac)
    OBVIOUS
  <2>2. RxSound(t, Len(got), sent) /\ t.RemoteSEQ >= R.RemoteSEQ
    BY <1>7, <2>1
  <2>3. Faults' = Faults /\ ~(spent'.swap = 0 /\ spent'.tight = 0)
    BY <1>2, <1>9, FaultsAre, SpentIs
  <2>4. RBecomes(t) /\ UNCHANGED <<S, smState, sent, got>>
    BY <1>1, <2>0, <2>1
  <2> QED
    BY <2>2, <2>3, <2>4, ReceiverPaid
<1> QED
  BY <1>1, <1>5, <1>8, <1>9

LEMMA RecvAckPaid == ASSUME StreamInv, FaultInv, Established, RecvAck PROVE FaultInv'
<1>1. PICK b \in Nat :
        /\ Sound(S, b, sent) /\ b <= R.RemoteSEQ /\ Flagged(S)
        /\ spent.swap = 0 /\ spent.tight = 0 =>
             Paid(S, b, R, acks, data, Faults)
  BY DEF FaultInv
<1>2. PICK i \in DOMAIN acks :
        Keeps(acks, i, acks') /\ SBecomes(HandleAck(S, acks[i].ack, acks[i].window))
  BY DEF RecvAck, Heard
<1>3. /\ R.RemoteSEQ \in Nat /\ sent \in Nat /\ acks \in Seq(Answer) /\ spent \in Spent
      /\ R.RemoteSEQ <= sent /\ data \in Seq(Segment) /\ S \in Sender /\ S.out = <<>>
  BY InvFacts
<1>4. UNCHANGED <<R, sent, got>>
  BY DEF RecvAck
<1>5. /\ Faults' = Faults /\ i \in 1 .. Len(acks)
      /\ spent'.swap = 0 /\ spent'.tight = 0 =>
           /\ spent.swap = 0 /\ spent.tight = 0 /\ i = 1 /\ acks # <<>>
           /\ acks' = acks \/ acks' = Tail(acks)
  BY <1>2, <1>3, FirstIs
<1>6. PICK a : a = acks[i] /\ a.ack \in Nat /\ a.window \in 0 .. RxSize - 1
               /\ a.ack <= R.RemoteSEQ
  <2>1. Returned(acks, R.RemoteSEQ)
    BY DEF StreamInv, AcksInv
  <2> QED
    BY <1>5, <2>1 DEF Returned, Given
<1>7. a.ack <= sent
  BY <1>3, <1>6
<1>8. PICK t : t = HandleAck(S, a.ack, a.window)
  OBVIOUS
<1>9. PICK c \in Nat :
        /\ Sound(t, c, sent) /\ (c = b \/ c = a.ack) /\ t.out = S.out
        /\ t.retryCount = S.retryCount /\ t.vUnackedKeepalives = 0 /\ Flagged(t)
  <2>1. \E c \in Nat :
          /\ Sound(t, c, sent) /\ b <= c /\ (c = b \/ c = a.ack)
          /\ t.out = S.out
          /\ t.retryCount = S.retryCount
          /\ t.vUnackedKeepalives = 0
          /\ \/ t.MySEQ = c
             \/ t.MySEQ = S.MySEQ /\ a.ack < S.MySEQ
          /\ Flagged(S) => Flagged(t)
    BY <1>1, <1>6, <1>7, <1>8, HandleAckRests
  <2> QED
    BY <1>1, <2>1
<1>10. c <= R.RemoteSEQ
  BY <1>1, <1>6, <1>9
<1>11. PICK f \in Nat : f = Faults
  BY <1>3, FaultsAre
<1>12. ASSUME spent'.swap = 0, spent'.tight = 0, Awaited(S, b, R, acks, data)
       PROVE  Awaited(t, c, R, acks', data)
  <2>1. Delivered(acks, a, acks')
    <3>1. i = 1 /\ Len(acks) >= 1 /\ (acks' = acks \/ acks' = Tail(acks))
      BY <1>5, <1>12
    <3> QED
      BY <1>6, <3>1 DEF Delivered
  <2>2. PICK e \in Nat : Sound(t, e, sent) /\ Awaited(t, e, R, acks', data)
    BY <1>1, <1>3, <1>6, <1>7, <1>8, <1>12, <2>1, HandleAckOnward
  <2>3. e = c
    <3>1. Lay(t, e, sent) /\ Lay(t, c, sent)
      BY <1>9, <2>2 DEF Sound
    <3>2. t.MySEQ - e = t.MySEQ - c
      BY <3>1, Counts
    <3>3. t.MySEQ \in Int
      BY <1>9 DEF Sound, Sender
    <3> QED
      BY <3>2, <3>3
  <2> QED
    BY <2>2, <2>3
<1>13. ASSUME spent'.swap = 0, spent'.tight = 0
       PROVE  Paid(t, c, R, acks', data, Faults')
  <2>1. Paid(S, b, R, acks, data, f)
    BY <1>1, <1>5, <1>11, <1>13
  <2>2. 0 <= f
    OBVIOUS
  <2>3. Paid(t, c, R, acks', data, f)
    BY <1>9, <1>12, <1>13, <2>1, <2>2 DEF Paid
  <2> QED
    BY <1>4, <1>5, <1>11, <2>1, <2>3
<1>14. SBecomes(t)
  BY <1>2, <1>6, <1>8
<1> QED
  BY <1>4, <1>9, <1>10, <1>13, <1>14, SenderPaid

\* Either nothing is still to come or a timer is early, which is a fault.
LEMMA ExpiresPaid ==
  ASSUME StreamInv, Expires
  PROVE  /\ UNCHANGED <<R, acks, sent, got>>
         /\ spent'.swap = 0 /\ spent'.tight = 0 => spent.swap = 0 /\ spent.tight = 0
         /\ Faults \in Nat /\ Faults' \in {Faults, Faults + 1}
         /\ Faults' = Faults => Quiet
<1>1. spent \in Spent
  BY InvFacts
<1>2. Faults \in Nat
  BY <1>1, FaultsAre
<1>3. CASE Quiet /\ UNCHANGED spent
  BY <1>1, <1>2, <1>3, FaultsAre, ExpiresIs
<1>4. CASE spent' = Spend("early")
  <2>1. Faults' = Faults + 1
    BY <1>1, <1>4, FaultsAre
  <2>2. Faults' # Faults
    BY <1>2, <2>1
  <2> QED
    BY <1>2, <2>1, <2>2, ExpiresIs
<1> QED
  BY <1>3, <1>4 DEF Expires

\* When all is quiet, what S awaits will not come, and no answer to a probe.
LEMMA QuietIs ==
  ASSUME StreamInv, Quiet, NEW b, Sound(S, b, sent), b <= R.RemoteSEQ
  PROVE  /\ S.MySEQ # b => ~Awaited(S, b, R, acks, data)
         /\ ~Waited(R, acks, data \o S.out) /\ ~Busy(S)
<1>1. data = <<>> /\ acks = <<>> /\ ~Busy(S) /\ ~Answering(R) /\ S.out = <<>>
  BY InvFacts DEF Quiet, Busy, Answering
<1>2. data \o S.out = <<>>
  BY <1>1
<1>3. ~Full(<<>>)
  BY DEF Full
<1>4. ASSUME Awaited(S, b, R, acks, data), S.MySEQ # b PROVE FALSE
  <2>1. PICK h \in Nat, q \in Nat : h = R.RemoteSEQ /\ q = S.MySEQ
    <3>1. Lay(S, b, sent)
      BY DEF Sound
    <3> QED
      BY <3>1, InvFacts DEF Lay
  <2>2. Coming(R, <<>>, <<>>, b, q)
    BY <1>1, <1>2, <1>4, <2>1 DEF Awaited
  <2>3. CASE h < q
    <3>1. Chain(<<>>, h, q)
      BY <2>1, <2>2, <2>3 DEF Coming
    <3>2. PICK f \in [h + 1 .. q -> 1 .. 0] : TRUE
      BY <3>1 DEF Chain
    <3>3. q \in h + 1 .. q
      BY <2>3
    <3> QED
      BY <3>2, <3>3
  <2>4. CASE ~(h < q)
    BY <1>1, <1>3, <1>4, <2>1, <2>2, <2>4 DEF Coming
  <2> QED
    BY <2>3, <2>4
<1> QED
  BY <1>1, <1>2, <1>3, <1>4 DEF Waited

LEMMA TickRetransmitPaid == ASSUME StreamInv, FaultInv, Established, TickRetransmit PROVE FaultInv'
<1>1. PICK b \in Nat :
        /\ Sound(S, b, sent) /\ b <= R.RemoteSEQ /\ Flagged(S)
        /\ spent.swap = 0 /\ spent.tight = 0 =>
             Paid(S, b, R, acks, data, Faults)
  BY DEF FaultInv
<1>2. /\ S.retryCount < TCP_MAX_RETRIES /\ SBecomes(Retransmit(S)) /\ UNCHANGED smState
      /\ Expires /\ S.bTimerEnabled
  BY DEF TickRetransmit, Expires, Send, Retransmit
<1>3. PICK t : t = Retransmit(S)
  OBVIOUS
<1>4. /\ R.RemoteSEQ \in Nat /\ data \in Seq(Segment) /\ S \in Sender /\ S.out = <<>>
  BY InvFacts
<1>5. /\ Awaited(t, b, R, acks, data) /\ Flagged(t)
      /\ t.vUnackedKeepalives = S.vUnackedKeepalives /\ t.retryCount <= S.retryCount + 1
      /\ S.MySEQ = b /\ S.bTimerEnabled /\ (Unsent(S) = 0 \/ S.remoteWindow = 0) =>
           t.retryCount <= S.retryCount
  BY <1>1, <1>2, <1>3, <1>4, RetransmitOnward
<1>6. Sound(t, b, sent)
  BY <1>1, <1>2, <1>3, RetransmitIs
<1>7. /\ UNCHANGED <<R, acks, sent, got>>
      /\ spent'.swap = 0 /\ spent'.tight = 0 => spent.swap = 0 /\ spent.tight = 0
      /\ Faults \in Nat /\ Faults' \in {Faults, Faults + 1} /\ (Faults' = Faults => Quiet)
  BY <1>2, ExpiresPaid
<1>8. PICK f \in Nat, e \in Nat : f = Faults /\ e = Faults' /\ (e = f \/ e = f + 1) /\ f <= e
  <2>1. PICK f \in Nat : f = Faults
    BY <1>7
  <2> QED
    BY <1>7, <2>1
<1>9. ASSUME spent'.swap = 0, spent'.tight = 0
      PROVE  Paid(t, b, R, acks', data, Faults')
  <2>1. Paid(S, b, R, acks, data, f)
    BY <1>1, <1>7, <1>8, <1>9
  <2>2. PICK c \in Nat, x \in Nat, v \in Nat :
          /\ c = S.retryCount /\ x = t.retryCount /\ x <= c + 1
          /\ v = S.vUnackedKeepalives /\ v = t.vUnackedKeepalives
    <3>1. t \in Sender
      BY <1>6 DEF Sound
    <3> QED
      BY <1>4, <1>5, <3>1, Sizes, SMTT(30) DEF Sender, Retries
  <2>3. c <= f
    BY <2>1, <2>2 DEF Paid
  <2>4. x <= e
    <3>1. CASE e = f + 1
      BY <2>2, <2>3, <3>1
    <3>2. CASE e = f
      <4>1. Quiet
        BY <1>7, <1>8, <3>2
      <4>2. (S.MySEQ # b => ~Awaited(S, b, R, acks, data)) /\ ~Busy(S)
        BY <1>1, <4>1, QuietIs
      <4>3. CASE S.MySEQ # b
        <5>1. c + 1 <= f
          BY <2>1, <2>2, <4>2, <4>3 DEF Paid
        <5> QED
          BY <2>2, <3>2, <5>1
      <4>4. CASE S.MySEQ = b
        <5>1. Unsent(S) = 0 \/ S.remoteWindow = 0
          <6>1. PICK w \in Nat : w = S.remoteWindow
            BY <1>4, Sizes DEF Sender, Windows
          <6>2. Unsent(S) \in Nat
            <7>1. Lay(S, b, sent)
              BY <1>1 DEF Sound
            <7>2. Unsent(S) = sent - S.MySEQ
              BY <7>1, Counts
            <7>3. PICK q \in Nat, m \in Nat : q = S.MySEQ /\ m = sent /\ q <= m
              BY <7>1 DEF Lay
            <7>4. m - q \in Nat
              BY <7>3
            <7> QED
              BY <7>2, <7>3, <7>4
          <6>3. PICK u \in Nat : u = Unsent(S)
            BY <6>2
          <6>4. ~(u > 0 /\ w > 0)
            BY <1>1, <4>2, <6>1, <6>3 DEF Flagged
          <6> QED
            BY <6>1, <6>3, <6>4
        <5>2. x <= c
          BY <1>2, <1>5, <2>2, <4>4, <5>1
        <5> QED
          BY <2>2, <2>3, <3>2, <5>2
      <4> QED
        BY <4>3, <4>4
    <3> QED
      BY <1>8, <3>1, <3>2
  <2>5. v <= e \/ (Waited(R, acks, data \o t.out) /\ v <= e + 1)
    <3>1. CASE v <= f
      BY <1>8, <2>2, <3>1
    <3>2. CASE Waited(R, acks, data \o S.out) /\ v <= f + 1
      <4>1. Waited(R, acks, data \o t.out)
        <5>1. t.out \in Seq(Segment)
          BY <1>6 DEF Sound, Sender, Segments
        <5>2. data \o S.out = data
          BY <1>4, SOutOf
        <5>3. Full(data) => Full(data \o t.out)
          BY <1>4, <5>1, FullMore
        <5> QED
          BY <3>2, <5>2, <5>3 DEF Waited
      <4>2. v <= e + 1
        BY <1>8, <2>2, <3>2
      <4> QED
        BY <4>1, <4>2
    <3> QED
      BY <2>1, <2>2, <3>1, <3>2 DEF Paid
  <2>6. Paid(t, b, R, acks, data, e)
    BY <1>5, <2>2, <2>4, <2>5 DEF Paid
  <2> QED
    BY <1>7, <1>8, <2>6
<1> QED
  BY <1>1, <1>2, <1>3, <1>5, <1>6, <1>7, <1>9, SenderPaid

LEMMA TickGiveUpPaid ==
  ASSUME StreamInv, FaultInv, TickGiveUp, spent'.swap = 0, spent'.tight = 0
  PROVE  Enough(Faults')
<1>1. PICK b \in Nat :
        spent.swap = 0 /\ spent.tight = 0 => Paid(S, b, R, acks, data, Faults)
  BY DEF FaultInv
<1>2. Expires /\ S.retryCount >= TCP_MAX_RETRIES
  BY DEF TickGiveUp
<1>3. /\ spent.swap = 0 /\ spent.tight = 0
      /\ Faults \in Nat /\ Faults' \in {Faults, Faults + 1}
  BY <1>2, ExpiresPaid
<1>4. PICK f \in Nat, e \in Nat : f = Faults /\ e = Faults' /\ f <= e
  <2>1. PICK f \in Nat : f = Faults
    BY <1>3
  <2> QED
    BY <1>3, <2>1
<1>5. Enough(f)
  <2>1. Paid(S, b, R, acks, data, f)
    BY <1>1, <1>3, <1>4
  <2>2. PICK c \in Nat, x \in Nat, y \in Nat :
          c = S.retryCount /\ x = TCP_MAX_RETRIES /\ y = TCP_MAX_UNACKED_KEEP_ALIVES
    <3>1. S \in Sender
      BY InvFacts
    <3> QED
      BY <3>1, Sizes, StreamAssumption DEF Sender, Retries, StreamAssumption
  <2>3. c >= x /\ c <= f
    BY <1>2, <2>1, <2>2 DEF Paid
  <2>4. Lower(x, y) <= x /\ Lower(x, y) \in Int
    BY LowerIs
  <2> QED
    BY <2>2, <2>3, <2>4 DEF Enough
<1> QED
  BY <1>4, <1>5, EnoughMore

\* A fault more than before pays for what it takes from S.
LEMMA LosePaid == ASSUME StreamInv, FaultInv, LoseSegment PROVE FaultInv'
<1>1. PICK b \in Nat :
        /\ Sound(S, b, sent) /\ b <= R.RemoteSEQ /\ Flagged(S)
        /\ spent.swap = 0 /\ spent.tight = 0 =>
             Paid(S, b, R, acks, data, Faults)
  BY DEF FaultInv
<1>2. UNCHANGED <<S, R, smState, sent, got>> /\ spent' = Spend("lost")
  BY DEF LoseSegment
<1>3. S \in Sender /\ spent \in Spent
  BY InvFacts
<1>4. spent'.swap = 0 /\ spent'.tight = 0 => spent.swap = 0 /\ spent.tight = 0
  BY <1>2, <1>3, SpentIs
<1>5. PICK f \in Nat, e \in Nat : f = Faults /\ e = Faults' /\ e = f + 1
  <2>1. Faults \in Nat /\ Faults' = Faults + 1
    BY <1>2, <1>3, FaultsAre
  <2> QED
    BY <2>1
<1>6. ASSUME spent'.swap = 0, spent'.tight = 0
      PROVE  Paid(S, b, R, acks', data', e)
  <2>1. Paid(S, b, R, acks, data, f)
    BY <1>1, <1>4, <1>5, <1>6
  <2>2. PICK c \in Nat, v \in Nat : c = S.retryCount /\ v = S.vUnackedKeepalives
    BY <1>3, Sizes DEF Sender, Retries
  <2>3. c <= f /\ (v <= f \/ v <= f + 1)
    BY <2>1, <2>2 DEF Paid
  <2>4. c <= e /\ c + 1 <= e /\ v <= e /\ f <= e
    BY <1>5, <2>2, <2>3
  <2> QED
    BY <2>2, <2>4 DEF Paid
<1> QED
  BY <1>1, <1>2, <1>5, <1>6 DEF FaultInv

\* A probe is sent when nothing is in flight and no answer is to come; R is to answer it.
LEMMA TickKeepAlivePaid == ASSUME StreamInv, FaultInv, TickKeepAlive PROVE PaidInv'
<1>1. PICK b \in Nat :
        /\ Sound(S, b, sent) /\ b <= R.RemoteSEQ /\ Flagged(S)
        /\ spent.swap = 0 /\ spent.tight = 0 =>
             Paid(S, b, R, acks, data, Faults)
  BY DEF FaultInv
<1>2. /\ S \in Sender /\ S.out = <<>> /\ R.RemoteSEQ \in Nat /\ data \in Seq(Segment)
      /\ spent \in Spent
  BY InvFacts
<1>3. UNCHANGED <<R, acks, sent, got, spent>> /\ ~S.bTimerEnabled /\ Quiet
      /\ Established
  BY DEF TickKeepAlive
<1>4. S.MySEQ = b /\ ~Waited(R, acks, data \o S.out) /\ data = <<>>
  BY <1>1, <1>3, QuietIs DEF Sound, Quiet
<1>5. PICK f \in Nat : f = Faults /\ f = Faults'
  BY <1>2, <1>3, FaultsAre
<1>6. PICK c \in Nat, v \in Nat : c = S.retryCount /\ v = S.vUnackedKeepalives
  BY <1>2, Sizes DEF Sender, Retries
<1>7. spent.swap = 0 /\ spent.tight = 0 => c <= f /\ v <= f
  BY <1>1, <1>4, <1>5, <1>6 DEF Paid
<1>8. CASE /\ S.vUnackedKeepalives = TCP_MAX_UNACKED_KEEP_ALIVES
           /\ smState' = "TCP_CLOSED" /\ UNCHANGED <<S, data>>
  <2>1. ASSUME spent.swap = 0, spent.tight = 0 PROVE Enough(f)
    <3>1. PICK x \in Nat, y \in Nat :
            x = TCP_MAX_RETRIES /\ y = TCP_MAX_UNACKED_KEEP_ALIVES /\ y = v
      BY <1>6, <1>8, StreamAssumption DEF StreamAssumption
    <3>2. Lower(x, y) <= y /\ Lower(x, y) \in Int
      BY LowerIs
    <3>3. v <= f
      BY <1>7, <2>1
    <3> QED
      BY <3>1, <3>2, <3>3 DEF Enough
  <2> QED
    BY <1>3, <1>5, <1>8, <2>1 DEF PaidInv, Established
<1>9. CASE /\ SBecomes([S EXCEPT !.vUnackedKeepalives = @ + 1,
                                 !.out = <<[seq |-> S.MySEQ - 1, bytes |-> <<0>>]>>])
           /\ UNCHANGED smState
  <2>1. PICK d : d = [seq |-> S.MySEQ - 1, bytes |-> <<0>>]
    OBVIOUS
  <2>2. d.bytes # <<>>
    BY <2>1
  <2>3. PICK t : t = [S EXCEPT !.vUnackedKeepalives = @ + 1, !.out = <<d>>]
    OBVIOUS
  <2>4. S' = [t EXCEPT !.out = <<>>] /\ data' = data \o t.out
    BY <1>9, <2>1, <2>3 DEF SBecomes
  <2>5. t.out = <<d>>
    BY <1>2, <2>3 DEF Sender
  <2>6. data' = <<d>>
    BY <1>4, <2>4, <2>5
  <2>7. PICK n \in Segments : n = <<>> /\ n = S.out
    BY <1>2 DEF Sender
  <2>8. PICK w \in Nat : w = v + 1
    OBVIOUS
  <2>9. S' = [S EXCEPT !.vUnackedKeepalives = w, !.out = n]
    <3>1. S' = [t EXCEPT !.out = n]
      BY <2>4, <2>7
    <3>2. t = [S EXCEPT !.vUnackedKeepalives = w, !.out = <<d>>]
      BY <1>6, <2>3, <2>8
    <3> QED
      BY <1>2, <3>1, <3>2 DEF Sender
  <2>10. Alike(S', S) /\ S'.out = <<>>
    BY <1>2, <2>7, <2>9 DEF Alike, Sender
  <2>11. Sound(S', b, sent)
    BY <1>1, <2>10, AlikeIs
  <2>12. /\ S'.vUnackedKeepalives = w /\ S'.retryCount = S.retryCount
         /\ S'.MySEQ = S.MySEQ /\ S'.remoteWindow = S.remoteWindow
         /\ S'.txUnackedTail = S.txUnackedTail /\ S'.txHead = S.txHead
         /\ S'.bTXASAP = S.bTXASAP /\ S'.bTimer2Enabled = S.bTimer2Enabled
         /\ S'.bTXASAPWithoutTimerReset = S.bTXASAPWithoutTimerReset
    BY <1>2, <2>9 DEF Sender
  <2>13. Flagged(S')
    BY <1>1, <2>12 DEF Flagged, Busy, Unsent
  <2>14. data' \o S'.out = data'
    <3>1. data' = <<d>> \o <<>>
      BY <2>6
    <3> QED
      BY <2>6, <2>10
  <2>15. Full(data')
    <3>1. Len(data') = 1 /\ data'[1] = d /\ 1 \in 1 .. 1
      BY <2>6
    <3> QED
      BY <2>2, <3>1 DEF Full
  <2>16. Waited(R, acks, data' \o S'.out)
    BY <2>14, <2>15 DEF Waited
  <2>17. Awaited(S', b, R, acks, data')
    <3>1. ~(R.RemoteSEQ < b)
      BY <1>1, <1>2
    <3> QED
      BY <1>4, <2>12, <3>1 DEF Awaited, Coming
  <2>18. ASSUME spent.swap = 0, spent.tight = 0 PROVE Paid(S', b, R, acks, data', f)
    <3>1. c <= f /\ w <= f + 1
      BY <1>7, <2>8, <2>18
    <3> QED
      BY <1>6, <2>12, <2>16, <2>17, <3>1 DEF Paid
  <2>19. FaultInv'
    BY <1>1, <1>3, <1>5, <1>9, <2>11, <2>13, <2>18 DEF FaultInv
  <2> QED
    BY <1>3, <1>9, <2>19 DEF PaidInv, Established
<1> QED
  BY <1>8, <1>9 DEF TickKeepAlive

LEMMA FaultsBegin == ASSUME StreamInit PROVE PaidInv
<1>1. StreamInv
  BY StreamBegins
<1>2. PICK b \in Nat : Sound(S, b, sent) /\ b <= R.RemoteSEQ
  BY <1>1 DEF StreamInv, SenderInv
<1>3. /\ R.RemoteSEQ = 0 /\ sent = 0 /\ smState = "TCP_ESTABLISHED"
      /\ S.MySEQ = 0 /\ S.retryCount = 0 /\ S.vUnackedKeepalives = 0
  BY DEF StreamInit
<1>4. b = 0
  BY <1>2, <1>3
<1>5. Flagged(S)
  <2>1. Unsent(S) = 0
    <3>1. Lay(S, b, sent)
      BY <1>2 DEF Sound
    <3>2. Unsent(S) = sent - S.MySEQ
      BY <3>1, Counts
    <3> QED
      BY <1>3, <3>2
  <2> QED
    BY <2>1 DEF Flagged
<1>6. PICK f \in Nat : f = Faults
  <2>1. spent \in Spent
    BY <1>1, InvFacts
  <2> QED
    BY <2>1, FaultsAre
<1>7. Awaited(S, b, R, acks, data)
  BY <1>3, <1>4 DEF Awaited, Coming
<1>8. Paid(S, b, R, acks, data, f)
  BY <1>3, <1>7 DEF Paid
<1> QED
  BY <1>2, <1>3, <1>5, <1>6, <1>8 DEF FaultInv, PaidInv, Established

\* Faults are never forgotten, and a connection that was given up stays so.
LEMMA FaultsStay ==
  ASSUME StreamInv, [StreamNext]_streamVars
  PROVE  /\ ~Established => ~Established'
         /\ Faults \in Nat /\ Faults' \in {Faults, Faults + 1}
         /\ spent'.swap = 0 /\ spent'.tight = 0 => spent.swap = 0 /\ spent.tight = 0
<1>1. spent \in Spent
  BY InvFacts
<1>2. \/ UNCHANGED spent
      \/ \E what \in {"lost", "dup", "swap", "tight", "early"} : spent' = Spend(what)
  BY DEF StreamNext, Handler, Put, Get, LoseSegment, TickSend, TickRetransmit, TickGiveUp, TickClose,
         Expires, TickKeepAlive, RecvAck, RecvData, TickR, Keeps, Arrives, streamVars
<1>3. ~Established => ~Established'
  BY DEF StreamNext, Handler, Put, Get, LoseSegment, TickSend, TickRetransmit, TickGiveUp, TickClose,
         TickKeepAlive, RecvAck, RecvData, TickR, streamVars, Established, StateAfter
<1>4. CASE UNCHANGED spent
  BY <1>1, <1>3, <1>4, FaultsAre
<1>5. CASE \E what \in {"lost", "dup", "swap", "tight", "early"} : spent' = Spend(what)
  <2>1. PICK what \in {"lost", "dup", "swap", "tight", "early"} : spent' = Spend(what)
    BY <1>5
  <2>2. Faults \in Nat /\ Faults' \in {Faults, Faults + 1}
    BY <1>1, <2>1, FaultsAre
  <2>3. spent'.swap = 0 /\ spent'.tight = 0 => spent.swap = 0 /\ spent.tight = 0
    BY <1>1, <2>1, SpentIs
  <2> QED
    BY <1>3, <2>2, <2>3
<1> QED
  BY <1>2, <1>4, <1>5

LEMMA FaultsGoOn == ASSUME StreamInv, PaidInv, [StreamNext]_streamVars PROVE PaidInv'
<1>1. CASE ~Established
  <2>1. /\ ~Established' /\ Faults \in Nat /\ Faults' \in {Faults, Faults + 1}
        /\ spent'.swap = 0 /\ spent'.tight = 0 => spent.swap = 0 /\ spent.tight = 0
    BY <1>1, FaultsStay
  <2>2. PICK f \in Nat, e \in Nat : f = Faults /\ e = Faults' /\ f <= e
    <3>1. PICK f \in Nat : f = Faults
      BY <2>1
    <3> QED
      BY <2>1, <3>1
  <2>3. ASSUME spent'.swap = 0, spent'.tight = 0 PROVE Enough(e)
    <3>1. Enough(f)
      BY <1>1, <2>1, <2>2, <2>3 DEF PaidInv
    <3> QED
      BY <2>2, <3>1, EnoughMore
  <2> QED
    BY <2>1, <2>2, <2>3 DEF PaidInv
<1>2. CASE Established
  <2>1. FaultInv
    BY <1>2 DEF PaidInv
  <2>2. CASE TickGiveUp
    <3>1. ~Established'
      BY <2>2 DEF TickGiveUp, Established
    <3> QED
      BY <2>1, <2>2, <3>1, TickGiveUpPaid DEF PaidInv
  <2>3. CASE TickKeepAlive
    BY <2>1, <2>3, TickKeepAlivePaid
  <2>4. CASE TickClose
    BY <1>2, <2>4 DEF TickClose, Established
  <2>5. CASE UNCHANGED streamVars
    <3>1. UNCHANGED <<S, R, data, acks, smState, sent, spent>>
      BY <2>5 DEF streamVars
    <3>2. Faults' = Faults
      BY <3>1 DEF Faults
    <3>3. FaultInv'
      BY <2>1, <3>1, <3>2 DEF FaultInv
    <3> QED
      BY <1>2, <3>1, <3>3 DEF PaidInv, Established
  <2>6. CASE TickSend \/ TickRetransmit \/ RecvAck \/ RecvData \/ TickR \/ Put \/ Get \/ LoseSegment
    <3>1. FaultInv'
      BY <1>2, <2>1, <2>6, TickSendPaid, TickRetransmitPaid, RecvAckPaid, RecvDataPaid, TickRPaid,
         PutPaid, GetPaid, LosePaid
    <3>2. Established'
      BY <1>2, <2>6
      DEF TickSend, TickRetransmit, RecvAck, RecvData, TickR, Put, Get, LoseSegment, Established,
          StateAfter
    <3> QED
      BY <3>1, <3>2 DEF PaidInv
  <2> QED
    BY <2>2, <2>3, <2>4, <2>5, <2>6 DEF StreamNext, Handler
<1> QED
  BY <1>1, <1>2

\* A connection is given up only after as many segments were lost or timers early as S has
\* tries, whichever of its retries and its probes come to an end first: never because the
\* reader is slow (TCPTick, SendTCP, HandleTCPSeg).
THEOREM GivenUpOnlyForLosses == StreamSpec => []GivenUpForLosses
<1>1. StreamSpec => []StreamInv
  BY StreamHolds
<1>2. StreamInit => PaidInv
  BY FaultsBegin
<1>3. StreamInv /\ PaidInv /\ [StreamNext]_streamVars => PaidInv'
  BY FaultsGoOn
<1>4. PaidInv => GivenUpForLosses
  BY DEF PaidInv, GivenUpForLosses, Enough, Faults
<1> QED
  BY <1>1, <1>2, <1>3, <1>4, PTL DEF StreamSpec

-----------------------------------------------------------------------------
(* The connections of the gateway.                                          *)

USE ConnectionsAssumption DEF ConnectionsAssumption, INVALID, Conns, Sockets

\* The bridge is connection 0 once it is opened, and a connection 0 without a
\* socket means that socket 0 is not in use.
BridgeInv ==
  /\ 0 \notin bServer
  /\ bridgeSocketIndex = INVALID => handle[0] = INVALID
  /\ handle[0] = INVALID => sock[0] \in {"closed", "closing"}

\* The idle time of a connection that is up was counted since it came up, or since
\* the one came up whose socket it took over within one poll, but for one tick;
\* that of one that is down was reset when it was last looked at, unless it left
\* ESTABLISHED since.
Counted(c) == \/ idle[c] <= silence[c] + before[c] + 1
              \/ silence[c] + before[c] > IdleTime

IdleInv ==
  \A c \in Conns : handle[c] = c =>
    /\ sock[c] = "est" => Counted(c)
    /\ sock[c] # "est" /\ pc = "tick" => idle[c] = 0
    /\ sock[c] # "est" /\ pc = "stack" /\ c \notin left => idle[c] <= 1
    /\ sock[c] # "est" /\ pc = "stack" /\ c \in left => Counted(c)

SockInv == DataOK /\ ServersKept /\ BridgeInv

-----------------------------------------------------------------------------

LEMMA InitInv == Init => SockInv /\ IdleInv
<1> SUFFICES ASSUME Init PROVE SockInv /\ IdleInv
  OBVIOUS
<1>1. DataOK
  <2>1. pc \in {"tick", "stack", "serve"}
    BY DEF Init
  <2>3. handle \in [Conns -> Sockets \union {INVALID}] /\ idle \in [Conns -> 0..255]
    BY DEF Init
  <2>4. hbeatCounter \in 0..HBEATS_INTERVAL-1 /\ bridgeSocketIndex \in Conns \union {INVALID}
    BY DEF Init
  <2>5. /\ sock \in [Sockets -> States] /\ silence \in [Sockets -> 0..IdleTime+1]
        /\ before \in [Sockets -> 0..IdleTime+1]
    BY DEF Init, States
  <2>6. bServer \subseteq Sockets /\ rx \subseteq Sockets /\ left \subseteq Sockets
    BY DEF Init
  <2> QED
    BY <2>1, <2>3, <2>4, <2>5, <2>6, Zenon DEF DataOK
<1>2. ServersKept /\ BridgeInv /\ IdleInv
  BY DEF Init, ServersKept, BridgeInv, IdleInv, Counted, Connected
<1> QED
  BY <1>1, <1>2 DEF SockInv

\* openBridge always uses connection 0.
LEMMA BridgeIsZero == ASSUME SockInv PROVE BridgeConn = 0
<1>1. CASE bridgeSocketIndex \in Conns
  BY <1>1 DEF SockInv, ServersKept, BridgeConn
<1>2. CASE bridgeSocketIndex \notin Conns
  <2>1. handle[0] = INVALID
    BY <1>2 DEF SockInv, ServersKept, BridgeInv
  <2> DEFINE down == {c \in Conns : ~Connected(handle[c])}
  <2>2. 0 \in down /\ down \subseteq Nat
    BY <2>1 DEF Connected
  <2>3. \A y \in down : 0 <= y
    BY <2>2
  <2>4. \A x \in down : (\A y \in down : x <= y) => x = 0
    BY <2>2
  <2>5. Min(down) = 0
    BY <2>2, <2>3, <2>4 DEF Min
  <2> QED
    BY <1>2, <2>5 DEF BridgeConn
<1> QED
  BY <1>1, <1>2

\* openBridge is called for a bridge that is down.
LEMMA BridgeIsDown ==
  ASSUME SockInv, BridgeWanted PROVE sock[0] # "est"
<1>1. CASE handle[0] = INVALID
  BY <1>1 DEF SockInv, BridgeInv
<1>2. CASE handle[0] = 0
  BY <1>2 DEF SockInv, ServersKept, BridgeInv, BridgeWanted, Connected
<1> QED
  BY <1>1, <1>2 DEF SockInv, ServersKept

\* What openBridge leaves behind.
LEMMA BridgeOpened ==
  ASSUME SockInv, BridgeWanted, NEW counted \in [Conns -> 0..255],
         OpenBridge(counted, TRUE)
  PROVE  /\ sock' \in [Sockets -> States]
         /\ \A s \in Sockets \ {0} : sock'[s] = sock[s]
         /\ sock'[0] # "est"
         /\ bServer' = bServer \ {handle[0]}
         /\ bridgeSocketIndex' = 0
         /\ handle' \in [Conns -> Sockets \union {INVALID}]
         /\ \A c \in Conns \ {0} : handle'[c] = handle[c]
         /\ \/ handle'[0] = 0
            \/ handle'[0] = INVALID /\ sock'[0] \in {"closed", "closing"}
         /\ idle' = [counted EXCEPT ![0] = 0]
<1>1. BridgeConn = 0
  BY BridgeIsZero
<1>2. sock[0] # "est"
  BY BridgeIsDown
<1>3. sock \in [Sockets -> States] /\ handle \in [Conns -> Sockets \union {INVALID}]
      /\ handle[0] \in {0, INVALID}
  BY DEF SockInv, DataOK, ServersKept
<1>4. bridgeSocketIndex' = 0 /\ idle' = [counted EXCEPT ![0] = 0]
  BY <1>1 DEF OpenBridge
<1>5. CASE handle[0] = 0
  <2> DEFINE after == [sock EXCEPT ![0] = Disconnected(sock[0], FALSE)]
  <2>0. handle[BridgeConn] = 0 /\ 0 \in Sockets
    BY <1>1, <1>5
  <2>1. /\ bServer' = bServer \ {0}
        /\ sock' = IF after[0] = "closed" THEN [after EXCEPT ![0] = "opening"] ELSE after
        /\ handle' = [handle EXCEPT ![0] = IF after[0] = "closed" THEN 0 ELSE INVALID]
    BY <1>1, <2>0, ZenonT(30) DEF OpenBridge
  <2>2. after \in [Sockets -> States] /\ after[0] \in {"closed", "closing"}
        /\ \A s \in Sockets \ {0} : after[s] = sock[s]
    BY <1>2, <1>3 DEF Disconnected, Closed, States
  <2> HIDE DEF after
  <2>3. CASE after[0] = "closed"
    <3>1. sock' = [after EXCEPT ![0] = "opening"] /\ handle' = [handle EXCEPT ![0] = 0]
      BY <2>1, <2>3
    <3> QED
      BY <1>3, <1>4, <1>5, <2>1, <2>2, <3>1 DEF States
  <2>4. CASE after[0] # "closed"
    <3>1. sock' = after /\ handle' = [handle EXCEPT ![0] = INVALID]
      BY <2>1, <2>4
    <3> QED
      BY <1>3, <1>4, <1>5, <2>1, <2>2, <2>4, <3>1
  <2> QED
    BY <2>3, <2>4
<1>6. CASE handle[0] = INVALID
  <2>1. sock[0] \in {"closed", "closing"}
    BY <1>6 DEF SockInv, BridgeInv
  <2>2. INVALID \notin Sockets /\ INVALID \notin bServer
    <3>1. INVALID \notin Sockets
      BY ONLY ConnectionsAssumption DEF ConnectionsAssumption, INVALID, Sockets
    <3> QED
      BY <3>1, Zenon DEF SockInv, DataOK
  <2>3. /\ bServer' = bServer
        /\ sock' = IF sock[0] = "closed" THEN [sock EXCEPT ![0] = "opening"] ELSE sock
        /\ handle' = [handle EXCEPT ![0] = IF sock[0] = "closed" THEN 0 ELSE INVALID]
    BY <1>1, <1>6, <2>2 DEF OpenBridge
  <2>4. CASE sock[0] = "closed"
    <3>1. sock' = [sock EXCEPT ![0] = "opening"] /\ handle' = [handle EXCEPT ![0] = 0]
      BY <2>3, <2>4
    <3> QED
      BY <1>3, <1>4, <1>6, <2>2, <2>3, <3>1 DEF States
  <2>5. CASE sock[0] # "closed"
    <3>1. sock' = sock /\ handle' = [handle EXCEPT ![0] = INVALID]
      BY <2>3, <2>5
    <3> QED
      BY <1>3, <1>4, <1>6, <2>1, <2>2, <2>3, <2>5, <3>1
  <2> QED
    BY <2>4, <2>5
<1> QED
  BY <1>3, <1>5, <1>6

-----------------------------------------------------------------------------
(* One lemma for each part of the main loop, with what it does to the sockets  *)
(* first and to the idle times then.                                          *)

\* The idle times with one tick more.
LEMMA CountedType ==
  ASSUME DataOK
  PROVE  [c \in Conns |-> IF IdleTimeout THEN (idle[c] + 1) % 256 ELSE idle[c]]
           \in [Conns -> 0..255]
<1>1. ASSUME NEW c \in Conns PROVE (idle[c] + 1) % 256 \in 0..255
  <2>1. \A n \in 0..255 : (n + 1) % 256 \in 0..255
    OBVIOUS
  <2>2. idle[c] \in 0..255
    BY <1>1 DEF DataOK
  <2> QED
    BY ONLY <2>1, <2>2, Zenon
<1>2. \A c \in Conns : idle[c] \in 0..255
  BY DEF DataOK
<1>3. \A c \in Conns : (IF IdleTimeout THEN (idle[c] + 1) % 256 ELSE idle[c]) \in 0..255
  BY <1>1, <1>2, Zenon
<1> QED
  BY <1>3, Zenon

LEMMA SilenceCounted ==
  ASSUME silence \in [Sockets -> 0..IdleTime+1],
         silence' = [s \in Sockets |-> IF silence[s] > IdleTime THEN silence[s]
                                       ELSE silence[s] + 1]
  PROVE  silence' \in [Sockets -> 0..IdleTime+1]
<1>1. \A n \in 0..IdleTime+1 : (IF n > IdleTime THEN n ELSE n + 1) \in 0..IdleTime+1
  BY ONLY ConnectionsAssumption DEF ConnectionsAssumption
<1>2. ASSUME NEW s \in Sockets
      PROVE  (IF silence[s] > IdleTime THEN silence[s] ELSE silence[s] + 1) \in 0..IdleTime+1
  <2>1. silence[s] \in 0..IdleTime+1
    OBVIOUS
  <2> QED
    BY ONLY <1>1, <2>1, Zenon
<1> QED
  BY <1>2, Zenon

LEMMA TickSock ==
  ASSUME SockInv, CBusEthTick PROVE SockInv'
<1> DEFINE counted == [c \in Conns |-> IF IdleTimeout THEN (idle[c] + 1) % 256 ELSE idle[c]]
<1>1. counted \in [Conns -> 0..255]
  BY CountedType DEF SockInv
<1>2. /\ pc' = "stack" /\ doEthTick' = FALSE
      /\ UNCHANGED <<remoteIP, rx, left, before>>
  BY Zenon DEF CBusEthTick, TickWith
<1>3. hbeatCounter' \in 0..HBEATS_INTERVAL-1
  <2>1. \/ hbeatCounter' = 0
        \/ hbeatCounter' = hbeatCounter
        \/ hbeatCounter' = hbeatCounter + 1 /\ hbeatCounter + 1 # HBEATS_INTERVAL
    BY Zenon DEF CBusEthTick, TickWith, Beat
  <2>2. hbeatCounter \in 0..HBEATS_INTERVAL-1
    BY DEF SockInv, DataOK
  <2> QED
    BY ONLY <2>1, <2>2, ConnectionsAssumption
<1>4. silence' \in [Sockets -> 0..IdleTime+1]
  <2>1. \/ silence' = silence
        \/ silence' = [s \in Sockets |-> IF silence[s] > IdleTime THEN silence[s]
                                          ELSE silence[s] + 1]
    BY Zenon DEF CBusEthTick, TickWith
  <2>2. silence \in [Sockets -> 0..IdleTime+1]
    BY DEF SockInv, DataOK
  <2>3. CASE silence' = silence
    BY <2>2, <2>3
  <2>4. CASE silence' = [s \in Sockets |-> IF silence[s] > IdleTime THEN silence[s]
                                           ELSE silence[s] + 1]
    BY <2>2, <2>4, SilenceCounted, Zenon
  <2> QED
    BY <2>1, <2>3, <2>4, Zenon
<1>5. \/ (idle' = idle \/ idle' = counted) /\ UNCHANGED <<handle, bridgeSocketIndex, sock, bServer>>
      \/ BridgeWanted /\ OpenBridge(counted, TRUE)
  BY Zenon DEF CBusEthTick, TickWith
<1> HIDE DEF counted
<1>6. CASE (idle' = idle \/ idle' = counted) /\ UNCHANGED <<handle, bridgeSocketIndex, sock, bServer>>
  <2>0. idle' \in [Conns -> 0..255]
    <3>1. idle \in [Conns -> 0..255]
      BY DEF SockInv, DataOK
    <3> QED
      BY <1>1, <1>6, <3>1, Zenon
  <2>1. DataOK'
    BY <2>0, <1>2, <1>3, <1>4, <1>6 DEF SockInv, DataOK
  <2>2. ServersKept' /\ BridgeInv'
    BY <1>6 DEF SockInv, ServersKept, BridgeInv
  <2> QED
    BY <2>1, <2>2 DEF SockInv
<1>7. CASE BridgeWanted /\ OpenBridge(counted, TRUE)
  <2>1. /\ sock' \in [Sockets -> States]
        /\ \A s \in Sockets \ {0} : sock'[s] = sock[s]
        /\ bServer' = bServer \ {handle[0]}
        /\ bridgeSocketIndex' = 0
        /\ handle' \in [Conns -> Sockets \union {INVALID}]
        /\ \A c \in Conns \ {0} : handle'[c] = handle[c]
        /\ \/ handle'[0] = 0
           \/ handle'[0] = INVALID /\ sock'[0] \in {"closed", "closing"}
        /\ idle' = [counted EXCEPT ![0] = 0]
    BY <1>1, <1>7, BridgeOpened, ZenonT(30)
  <2>2. DataOK'
    <3>1. idle' \in [Conns -> 0..255]
      BY <1>1, <2>1
    <3>2. DataOK
      BY DEF SockInv
    <3>3. bServer' \subseteq Sockets /\ rx' \subseteq Sockets /\ left' \subseteq Sockets
      BY <1>2, <2>1, <3>2 DEF DataOK
    <3>4. pc' \in {"tick", "stack", "serve"} /\ 0 \in Conns
      BY <1>2
    <3> QED
      BY <1>2, <1>3, <1>4, <2>1, <3>1, <3>2, <3>3, <3>4, ZenonT(30) DEF DataOK
  <2>3. ServersKept' /\ BridgeInv'
    BY <2>1 DEF SockInv, DataOK, ServersKept, BridgeInv
  <2> QED
    BY <2>2, <2>3 DEF SockInv
<1> QED
  BY <1>5, <1>6, <1>7

\* A step of the stack moves one socket on, and never a socket that is closed or
\* being closed back into use.
LEMMA StackSock ==
  ASSUME SockInv, NEW s \in Sockets,
         Establish(s) \/ Data(s) \/ Lose(s) \/ Abort(s) \/ CloseWait(s) \/ Finish(s)
  PROVE  SockInv'
<1> DEFINE Allowed(to) ==
      /\ sock' = [sock EXCEPT ![s] = to]
      /\ s \in bServer => to # "closed"
      /\ s \notin bServer /\ sock[s] \in {"closed", "closing"} => to \in {"closed", "closing"}
<1>1. /\ UNCHANGED <<pc, doEthTick, handle, idle, hbeatCounter, bridgeSocketIndex,
                     remoteIP, bServer>>
      /\ silence' \in [Sockets -> 0..IdleTime+1]
      /\ before' \in [Sockets -> 0..IdleTime+1]
      /\ rx' \subseteq Sockets /\ left' \subseteq Sockets
  <2> USE DEF Establish, Data, Lose, Abort, CloseWait, Finish
  <2>1. UNCHANGED <<pc, doEthTick, handle, idle, hbeatCounter, bridgeSocketIndex,
                    remoteIP, bServer>>
    BY DEF Stack
  <2>2. silence' \in [Sockets -> 0..IdleTime+1]
    <3>1. silence' = silence \/ silence' = [silence EXCEPT ![s] = 0]
      BY Zenon
    <3>2. silence \in [Sockets -> 0..IdleTime+1]
      BY DEF SockInv, DataOK
    <3>3. 0 \in 0..IdleTime+1
      BY ONLY ConnectionsAssumption DEF ConnectionsAssumption
    <3> QED
      BY ONLY <3>1, <3>2, <3>3
  <2>3. rx' \in {rx, rx \union {s}, rx \ {s}} /\ left' \in {left, left \union {s}}
    BY Zenon
  <2>4. before' \in [Sockets -> 0..IdleTime+1]
    <3>1. \/ before' = before
          \/ before' = [before EXCEPT ![s] = IF s \in left THEN UpToIdle(@ + silence[s]) ELSE 0]
      BY Zenon
    <3>2. before \in [Sockets -> 0..IdleTime+1] /\ silence[s] \in 0..IdleTime+1
      BY DEF SockInv, DataOK
    <3>3. 0 \in 0..IdleTime+1 /\ UpToIdle(before[s] + silence[s]) \in 0..IdleTime+1
      <4>1. before[s] \in 0..IdleTime+1
        BY <3>2
      <4> QED
        BY ONLY ConnectionsAssumption, <3>2, <4>1, SMTT(30) DEF ConnectionsAssumption, UpToIdle
    <3> QED
      BY ONLY <3>1, <3>2, <3>3
  <2>5. rx \subseteq Sockets /\ left \subseteq Sockets
    BY DEF SockInv, DataOK
  <2>6. rx' \subseteq Sockets /\ left' \subseteq Sockets
    BY <2>3, <2>5
  <2> QED
    BY <2>1, <2>2, <2>4, <2>6
<1>2. \/ sock' = sock
      \/ \E to \in States : Allowed(to)
  <2>1. CASE Establish(s)
    BY <2>1 DEF Establish, Move, States
  <2>2. CASE Data(s)
    BY <2>2 DEF Data
  <2>3. CASE Lose(s)
    BY <2>3 DEF Lose, Move, Closed, States
  <2>4. CASE Abort(s)
    BY <2>4 DEF Abort, Move, States
  <2>5. CASE CloseWait(s)
    BY <2>5 DEF CloseWait, Move, States
  <2>6. CASE Finish(s)
    BY <2>6 DEF Finish, Move, Closed, States
  <2> QED
    BY <2>1, <2>2, <2>3, <2>4, <2>5, <2>6
<1>3. CASE sock' = sock
  <2>1. DataOK'
    BY <1>1, <1>3 DEF SockInv, DataOK
  <2>2. ServersKept' /\ BridgeInv'
    BY <1>1, <1>3 DEF SockInv, ServersKept, BridgeInv
  <2> QED
    BY <2>1, <2>2 DEF SockInv
<1>4. CASE sock' # sock
  <2>1. PICK to \in States : Allowed(to)
    BY <1>2, <1>4
  <2>2. sock \in [Sockets -> States]
    BY DEF SockInv, DataOK
  <2>3. sock' \in [Sockets -> States] /\ (sock'[0] # sock[0] => s = 0)
    BY <2>1, <2>2
  <2>4. DataOK'
    BY <1>1, <2>3 DEF SockInv, DataOK
  <2>5. ServersKept'
    <3>1. ServersKept /\ bServer' = bServer /\ handle' = handle
          /\ bridgeSocketIndex' = bridgeSocketIndex
      BY <1>1 DEF SockInv
    <3>2. \A c \in Conns \ {0} : c \in bServer => sock'[c] # "closed" \/ sock[c] = "closed"
      BY <2>1, <2>2
    <3> QED
      BY <3>1, <3>2, ZenonT(40) DEF ServersKept
  <2>6. BridgeInv'
    BY <1>1, <2>1, <2>2, <2>3 DEF SockInv, BridgeInv
  <2> QED
    BY <2>4, <2>5, <2>6 DEF SockInv
<1> QED
  BY <1>3, <1>4

LEMMA ServeSock ==
  ASSUME SockInv, CBusEthProcess PROVE SockInv'
<1>1. /\ pc' = "tick" /\ remoteIP' \in BOOLEAN
      /\ UNCHANGED <<doEthTick, handle, hbeatCounter, bridgeSocketIndex, left>>
  BY Zenon DEF CBusEthProcess, Serve
<1>2. bServer' = bServer /\ rx' \subseteq Sockets
  BY DEF CBusEthProcess, Serve, SockInv, DataOK
<1>3. idle' \in [Conns -> 0..255]
  BY DEF CBusEthProcess, Serve, SockInv, DataOK
<1>4. silence' \in [Sockets -> 0..IdleTime+1] /\ before' \in [Sockets -> 0..IdleTime+1]
  BY SMTT(30) DEF CBusEthProcess, Serve, SockInv, DataOK
<1>5. \A s \in Sockets : \/ sock'[s] = sock[s]
                         \/ sock[s] = "est" /\ sock'[s] = "closing"
  BY DEF CBusEthProcess, Serve, Connected, Disconnected
<1>6. sock' \in [Sockets -> States]
  BY <1>5 DEF CBusEthProcess, Serve, SockInv, DataOK, States, Disconnected, Closed
<1>7. DataOK'
  BY <1>1, <1>2, <1>3, <1>4, <1>6 DEF SockInv, DataOK
<1>8. ServersKept' /\ BridgeInv'
  BY <1>1, <1>2, <1>5, <1>6 DEF SockInv, DataOK, ServersKept, BridgeInv
<1> QED
  BY <1>7, <1>8 DEF SockInv

-----------------------------------------------------------------------------
(* The idle times *)

\* A connection has the socket of its number or none.
LEMMA Handles ==
  ASSUME SockInv
  PROVE  /\ \A c \in Conns : handle[c] = c \/ handle[c] = INVALID
         /\ INVALID \notin Sockets
         /\ \A c \in Conns : Connected(handle[c]) <=> handle[c] = c /\ sock[c] = "est"
<1>1. handle[0] = 0 \/ handle[0] = INVALID
  BY DEF SockInv, ServersKept
<1>2. \A c \in Conns \ {0} : handle[c] = c
  BY DEF SockInv, ServersKept
<1>3. \A c \in Conns : handle[c] = c \/ handle[c] = INVALID
  BY <1>1, <1>2
<1>4. INVALID \notin Sockets
  OBVIOUS
<1> QED
  BY <1>3, <1>4 DEF Connected

LEMMA IdleTick ==
  ASSUME SockInv, IdleInv, CBusEthTick PROVE IdleInv'
<1> DEFINE counted == [c \in Conns |-> IF IdleTimeout THEN (idle[c] + 1) % 256 ELSE idle[c]]
<1>1. pc = "tick" /\ pc' = "stack" /\ left' = left /\ before' = before
  BY Zenon DEF CBusEthTick, TickWith
<1>2. \A n \in 0..255 : (n + 1) % 256 \in 0..n+1
  OBVIOUS
<1>3. \A c \in Conns : counted[c] \in 0..idle[c]+1
  <2> TAKE c \in Conns
  <2>1. idle[c] \in 0..255
    BY DEF SockInv, DataOK
  <2>2. (idle[c] + 1) % 256 \in 0..idle[c]+1
    BY ONLY <1>2, <2>1, Zenon
  <2> QED
    BY <2>1, <2>2
<1>4. \/ UNCHANGED <<handle, idle, sock, silence>>
      \/ /\ silence' = [s \in Sockets |-> IF silence[s] > IdleTime THEN silence[s]
                                          ELSE silence[s] + 1]
         /\ \/ idle' = counted /\ UNCHANGED <<handle, sock>>
            \/ BridgeWanted /\ OpenBridge(counted, TRUE)
  BY Zenon DEF CBusEthTick, TickWith
<1>5. /\ handle \in [Conns -> Sockets \union {INVALID}] /\ idle \in [Conns -> 0..255]
      /\ silence \in [Sockets -> 0..IdleTime+1] /\ before \in [Sockets -> 0..IdleTime+1]
  BY DEF SockInv, DataOK
<1>6. counted \in [Conns -> 0..255]
  BY CountedType DEF SockInv
<1> HIDE DEF counted
<1>7. CASE UNCHANGED <<handle, idle, sock, silence>>
  BY <1>1, <1>5, <1>7 DEF IdleInv, Counted
<1>8. CASE /\ silence' = [s \in Sockets |-> IF silence[s] > IdleTime THEN silence[s]
                                            ELSE silence[s] + 1]
           /\ \/ idle' = counted /\ UNCHANGED <<handle, sock>>
              \/ BridgeWanted /\ OpenBridge(counted, TRUE)
  <2>3. \A c \in Conns :
          \/ handle'[c] = handle[c] /\ idle'[c] = counted[c] /\ sock'[c] = sock[c]
          \/ idle'[c] = 0 /\ sock'[c] # "est"
    <3>1. CASE idle' = counted /\ UNCHANGED <<handle, sock>>
      BY <3>1
    <3>2. CASE BridgeWanted /\ OpenBridge(counted, TRUE)
      <4>1. /\ \A s \in Sockets \ {0} : sock'[s] = sock[s]
            /\ \A c \in Conns \ {0} : handle'[c] = handle[c]
            /\ sock'[0] # "est" /\ idle' = [counted EXCEPT ![0] = 0]
        BY <1>6, <3>2, BridgeOpened
      <4> QED
        BY <1>6, <4>1
    <3> QED
      BY <1>8, <3>1, <3>2
  <2>4. \A c \in Conns : silence'[c] = IF silence[c] > IdleTime THEN silence[c]
                                       ELSE silence[c] + 1
    BY <1>8
  <2> SUFFICES ASSUME NEW c \in Conns, handle'[c] = c
               PROVE  /\ sock'[c] = "est" => \/ idle'[c] <= silence'[c] + before[c] + 1
                                             \/ silence'[c] + before[c] > IdleTime
                      /\ sock'[c] # "est" => idle'[c] <= 1
    <3>0. \A c \in Conns : silence[c] \in 0..IdleTime+1 /\ before[c] \in 0..IdleTime+1
      BY <1>5
    <3>1. \A c \in Conns : silence'[c] \in Nat /\ before[c] \in Nat /\ before'[c] = before[c]
      BY ONLY ConnectionsAssumption, <1>1, <2>4, <3>0 DEF ConnectionsAssumption
    <3>2. \A c \in Conns : idle'[c] <= 1 => idle'[c] <= silence'[c] + before'[c] + 1
      <4>1. idle' \in [Conns -> 0..255]
        BY TickSock DEF SockInv, DataOK
      <4>2. \A c \in Conns : idle'[c] \in 0..255
        BY <4>1
      <4> QED
        BY ONLY <3>1, <4>2, SMTT(30)
    <3> QED
      BY <1>1, <3>1, <3>2, Zenon DEF IdleInv, Counted
  <2>5. CASE idle'[c] = 0 /\ sock'[c] # "est"
    BY <2>5
  <2>6. CASE handle'[c] = handle[c] /\ idle'[c] = counted[c] /\ sock'[c] = sock[c]
    <3>1. /\ sock[c] = "est" => \/ idle[c] <= silence[c] + before[c] + 1
                                \/ silence[c] + before[c] > IdleTime
          /\ sock[c] # "est" => idle[c] = 0
      BY <1>1, <2>6 DEF IdleInv, Counted
    <3>2. /\ counted[c] \in 0..idle[c]+1 /\ idle[c] \in 0..255
          /\ silence[c] \in 0..IdleTime+1 /\ before[c] \in 0..IdleTime+1
          /\ silence'[c] = IF silence[c] > IdleTime THEN silence[c] ELSE silence[c] + 1
      BY <1>3, <1>5, <2>4
    <3> QED
      BY ONLY ConnectionsAssumption, <2>6, <3>1, <3>2, SMTT(30) DEF ConnectionsAssumption
  <2> QED
    BY <2>3, <2>5, <2>6
<1> QED
  BY <1>4, <1>7, <1>8

\* A connection that is made in the poll in which its socket left ESTABLISHED takes
\* the idle time of the one before it over.
LEMMA IdleStack ==
  ASSUME SockInv, IdleInv, NEW s \in Sockets,
         Establish(s) \/ Data(s) \/ Lose(s) \/ Abort(s) \/ CloseWait(s) \/ Finish(s)
  PROVE  IdleInv'
<1>1. pc = "stack" /\ UNCHANGED <<pc, handle, idle>>
  BY Zenon DEF Establish, Data, Lose, Abort, CloseWait, Finish, Stack
<1>2. /\ sock \in [Sockets -> States] /\ silence \in [Sockets -> 0..IdleTime+1]
      /\ before \in [Sockets -> 0..IdleTime+1]
      /\ idle \in [Conns -> 0..255]
  BY DEF SockInv, DataOK
<1>3. CASE Establish(s)
  <2>1. left' = left /\ sock[s] # "est"
    BY <1>3 DEF Establish, Move
  <2>2. /\ silence' = [silence EXCEPT ![s] = 0] /\ sock' = [sock EXCEPT ![s] = "est"]
        /\ before' = [before EXCEPT ![s] = IF s \in left THEN UpToIdle(@ + silence[s]) ELSE 0]
    BY <1>3 DEF Establish, Move
  <2>3. \A c \in Conns \ {s} :
          /\ silence'[c] = silence[c] /\ before'[c] = before[c] /\ sock'[c] = sock[c]
    BY <1>2, <2>2
  <2>4. silence'[s] = 0 /\ sock'[s] = "est"
        /\ before'[s] = IF s \in left THEN UpToIdle(before[s] + silence[s]) ELSE 0
    BY <1>2, <2>2
  <2>5. handle[s] = s => \/ idle[s] <= silence'[s] + before'[s] + 1
                         \/ silence'[s] + before'[s] > IdleTime
    <3>1. CASE s \in left
      <4>1. handle[s] = s => \/ idle[s] <= silence[s] + before[s] + 1
                             \/ silence[s] + before[s] > IdleTime
        BY <1>1, <2>1, <3>1 DEF IdleInv, Counted
      <4>2. /\ idle[s] \in 0..255 /\ silence[s] \in 0..IdleTime+1
            /\ before[s] \in 0..IdleTime+1
        BY <1>2
      <4> QED
        BY <2>4, <3>1, <4>1, <4>2 DEF UpToIdle
    <3>2. CASE s \notin left
      BY <1>1, <2>1, <2>4, <3>2 DEF IdleInv
    <3> QED
      BY <3>1, <3>2
  <2> QED
    BY <1>1, <2>1, <2>3, <2>4, <2>5 DEF IdleInv, Counted
<1>4. CASE Data(s)
  BY <1>1, <1>4 DEF Data, IdleInv, Counted
<1>5. CASE Lose(s)
  <2>1. PICK to : to # "est" /\ sock' = [sock EXCEPT ![s] = to]
    BY <1>5 DEF Lose, Move, Closed
  <2>2. silence' = silence /\ before' = before /\ left' = left \union {s} /\ sock[s] = "est"
    BY <1>5 DEF Lose, Move
  <2>3. sock'[s] # "est" /\ \A c \in Conns \ {s} : sock'[c] = sock[c]
    BY <1>2, <2>1
  <2> QED
    BY <1>1, <2>2, <2>3 DEF IdleInv, Counted
<1>6. CASE Abort(s) \/ CloseWait(s) \/ Finish(s)
  <2>1. PICK to : to # "est" /\ sock' = [sock EXCEPT ![s] = to]
    BY <1>6 DEF Abort, CloseWait, Finish, Move, Closed
  <2>2. UNCHANGED <<silence, before, left>> /\ sock[s] # "est"
    BY <1>6 DEF Abort, CloseWait, Finish, Move
  <2>3. sock'[s] # "est" /\ \A c \in Conns \ {s} : sock'[c] = sock[c]
    BY <1>2, <2>1
  <2> QED
    BY <1>1, <2>2, <2>3 DEF IdleInv, Counted
<1> QED
  BY <1>3, <1>4, <1>5, <1>6

\* What CBusEthProcess does to a connection and its socket.
LEMMA Served ==
  ASSUME SockInv, CBusEthProcess, NEW c \in Conns, handle[c] = c
  PROVE  /\ sock[c] # "est" => idle'[c] = 0 /\ sock'[c] = sock[c]
         /\ sock[c] = "est" =>
              \/ idle'[c] = 0 /\ silence'[c] = 0 /\ before'[c] = 0 /\ sock'[c] = "est"
              \/ /\ idle'[c] = idle[c] /\ silence'[c] = silence[c]
                 /\ before'[c] = before[c] /\ sock'[c] = "est"
              \/ idle'[c] = 0 /\ sock'[c] # "est" /\ idle[c] > IdleTime
<1>1. \A d \in Conns : handle[d] = c => d = c
  BY Handles
<1>0. Connected(handle[c]) <=> sock[c] = "est"
  BY Handles
<1>2. sock \in [Sockets -> States] /\ silence \in [Sockets -> 0..IdleTime+1]
      /\ idle \in [Conns -> 0..255] /\ before \in [Sockets -> 0..IdleTime+1]
  BY DEF SockInv, DataOK
<1> DEFINE up      == {d \in Conns : Connected(handle[d])}
           heard   == {d \in up : handle[d] \in rx}
           evicted == {d \in up \ heard : idle[d] > IdleTime}
           reset   == heard \union evicted \union (Conns \ up)
<1>6. /\ idle' = [d \in Conns |-> IF d \in reset THEN 0 ELSE idle[d]]
      /\ silence' = [t \in Sockets |-> IF \E d \in heard : handle[d] = t THEN 0 ELSE silence[t]]
      /\ before' = [t \in Sockets |-> IF \E d \in reset : handle[d] = t THEN 0 ELSE before[t]]
      /\ sock' = [t \in Sockets |-> IF \E d \in evicted : handle[d] = t
                                     THEN Disconnected(sock[t], t \in bServer) ELSE sock[t]]
  BY Zenon DEF CBusEthProcess, Serve
<1>7. /\ (\E d \in heard : handle[d] = c) <=> c \in heard
      /\ (\E d \in reset : handle[d] = c) <=> c \in reset
      /\ (\E d \in evicted : handle[d] = c) <=> c \in evicted
  BY <1>1, Zenon
<1>8. /\ idle'[c] = IF c \in reset THEN 0 ELSE idle[c]
      /\ silence'[c] = IF c \in heard THEN 0 ELSE silence[c]
      /\ before'[c] = IF c \in reset THEN 0 ELSE before[c]
      /\ sock'[c] = IF c \in evicted THEN Disconnected(sock[c], c \in bServer) ELSE sock[c]
  BY <1>6, <1>7, Zenon
<1>9. /\ c \in up <=> sock[c] = "est"
      /\ c \in heard <=> sock[c] = "est" /\ c \in rx
      /\ c \in evicted <=> sock[c] = "est" /\ c \notin rx /\ idle[c] > IdleTime
      /\ c \in reset <=> c \in heard \/ c \in evicted \/ c \notin up
  BY <1>0, Zenon
<1> HIDE DEF up, heard, evicted, reset
<1> QED
  BY <1>8, <1>9, Zenon DEF Disconnected

LEMMA IdleServe ==
  ASSUME SockInv, IdleInv, CBusEthProcess PROVE IdleInv'
<1>1. pc' = "tick" /\ handle' = handle
  BY Zenon DEF CBusEthProcess, Serve
<1> SUFFICES ASSUME NEW c \in Conns, handle[c] = c
             PROVE  /\ sock'[c] = "est" => \/ idle'[c] <= silence'[c] + before'[c] + 1
                                           \/ silence'[c] + before'[c] > IdleTime
                    /\ sock'[c] # "est" => idle'[c] = 0
  BY <1>1 DEF IdleInv, Counted
<1>2. sock[c] = "est" => \/ idle[c] <= silence[c] + before[c] + 1
                         \/ silence[c] + before[c] > IdleTime
  BY DEF IdleInv, Counted
<1> QED
  BY <1>2, Served

-----------------------------------------------------------------------------

\* Nothing but the place in the main loop.
LEMMA SockStays ==
  ASSUME SockInv, pc' \in {"tick", "stack", "serve"}, left' \subseteq Sockets,
         UNCHANGED <<handle, idle, hbeatCounter, bridgeSocketIndex, sock, bServer, rx, silence, before>>
  PROVE  SockInv'
<1>1. DataOK'
  BY DEF SockInv, DataOK
<1>2. ServersKept'
  BY DEF SockInv, ServersKept
<1>3. BridgeInv'
  BY DEF SockInv, BridgeInv
<1> QED
  BY <1>1, <1>2, <1>3 DEF SockInv

LEMMA SockStep ==
  ASSUME SockInv, [Next]_vars PROVE SockInv'
<1>1. ASSUME NEW s \in Sockets,
             Establish(s) \/ Data(s) \/ Lose(s) \/ Abort(s) \/ CloseWait(s) \/ Finish(s)
      PROVE  SockInv'
  BY <1>1, StackSock
<1>2. pc \in {"tick", "stack", "serve"} /\ left \subseteq Sockets
  BY DEF SockInv, DataOK
<1>3. CASE Timer
  <2>1. UNCHANGED <<pc, left, handle, idle, hbeatCounter, bridgeSocketIndex, sock, bServer, rx,
                    silence, before>>
    BY <1>3 DEF Timer
  <2> QED
    BY <1>2, <2>1, SockStays
<1>4. CASE StackDone
  <2>1. /\ pc' = "serve" /\ left' = {}
        /\ UNCHANGED <<handle, idle, hbeatCounter, bridgeSocketIndex, sock, bServer, rx, silence, before>>
    BY <1>4 DEF StackDone
  <2> QED
    BY <2>1, SockStays
<1>5. CASE UNCHANGED vars
  <2>1. UNCHANGED <<pc, left, handle, idle, hbeatCounter, bridgeSocketIndex, sock, bServer, rx,
                    silence, before>>
    BY <1>5 DEF vars
  <2> QED
    BY <1>2, <2>1, SockStays
<1> QED
  BY <1>1, <1>3, <1>4, <1>5, TickSock, ServeSock DEF Next, Loop

LEMMA IdleStep ==
  ASSUME SockInv, IdleInv, [Next]_vars PROVE IdleInv'
<1>1. ASSUME NEW s \in Sockets,
             Establish(s) \/ Data(s) \/ Lose(s) \/ Abort(s) \/ CloseWait(s) \/ Finish(s)
      PROVE  IdleInv'
  BY <1>1, IdleStack
<1>2. CASE Timer
  BY <1>2 DEF Timer, IdleInv, Counted, Connected
<1>3. CASE StackDone
  BY <1>3 DEF StackDone, IdleInv, Counted, Connected
<1>4. CASE UNCHANGED vars
  BY <1>4 DEF vars, IdleInv, Counted, Connected
<1> QED
  BY <1>1, <1>2, <1>3, <1>4, IdleTick, IdleServe DEF Next, Loop

\* The only steps of the application that end a connection.
LEMMA Closing ==
  ASSUME SockInv, IdleInv, [Next]_vars, pc # "stack",
         NEW s \in Sockets, sock[s] = "est", sock'[s] # "est"
  PROVE  silence[s] + before[s] >= IdleTime
<1>1. CASE CBusEthProcess
  <2>1. PICK c \in Conns : handle[c] = s /\ idle[c] > IdleTime
    BY <1>1 DEF CBusEthProcess, Serve, DataOK, SockInv
  <2>2. c = s
    BY <2>1, Handles
  <2>4. idle[c] <= silence[s] + before[s] + 1 \/ silence[s] + before[s] > IdleTime
    BY <2>1, <2>2 DEF IdleInv, Counted
  <2>3. idle[c] \in 0..255 /\ silence[s] \in 0..IdleTime+1 /\ before[s] \in 0..IdleTime+1
    BY DEF SockInv, DataOK
  <2> QED
    BY <2>1, <2>4, <2>3
<1>2. CASE CBusEthTick
  <2> DEFINE counted == [c \in Conns |-> IF IdleTimeout THEN (idle[c] + 1) % 256 ELSE idle[c]]
  <2>1. sock' = sock \/ (BridgeWanted /\ OpenBridge(counted, TRUE))
    BY <1>2, Zenon DEF CBusEthTick, TickWith
  <2>2. counted \in [Conns -> 0..255]
    BY CountedType DEF SockInv
  <2> HIDE DEF counted
  <2>3. BridgeWanted /\ OpenBridge(counted, TRUE) /\ s # 0
    BY <2>1, BridgeIsDown
  <2>4. \A t \in Sockets \ {0} : sock'[t] = sock[t]
    BY <2>2, <2>3, BridgeOpened
  <2> QED
    BY <2>3, <2>4
<1>3. CASE Timer \/ StackDone \/ UNCHANGED vars
  BY <1>3 DEF Timer, StackDone, vars
<1>4. ASSUME NEW t \in Sockets,
             Establish(t) \/ Data(t) \/ Lose(t) \/ Abort(t) \/ CloseWait(t) \/ Finish(t)
      PROVE  FALSE
  BY <1>4, Zenon DEF Establish, Data, Lose, Abort, CloseWait, Finish, Stack
<1> QED
  BY <1>1, <1>2, <1>3, <1>4 DEF Next, Loop

LEMMA FlagsStep ==
  ASSUME FlagsOK, [Next]_vars PROVE FlagsOK'
  BY Zenon DEF FlagsOK, Next, Loop, Timer, CBusEthTick, TickWith, StackDone,
     CBusEthProcess, Serve, Establish, Data, Lose, Abort, CloseWait, Finish, Stack, vars

\* Every variable keeps the type of its C counterpart; the byte of the idle time
\* may wrap (CBusEthTick).
THEOREM TypeCorrect == Spec => []TypeOK
<1>1. Init => FlagsOK /\ SockInv
  BY InitInv, Zenon DEF Init, FlagsOK
<1>2. FlagsOK /\ SockInv /\ [Next]_vars => (FlagsOK /\ SockInv)'
  BY FlagsStep, SockStep
<1>3. FlagsOK /\ SockInv => TypeOK
  BY DEF SockInv, TypeOK
<1> QED
  BY <1>1, <1>2, <1>3, PTL DEF Spec

\* Whatever the bridge and the idle timer do, every server connection keeps its
\* own socket, and that socket goes back to listening: for any number of them.
THEOREM ServersAlwaysKept == Spec => []ServersKept
<1>1. Init => SockInv
  BY InitInv
<1>2. SockInv /\ [Next]_vars => SockInv'
  BY SockStep
<1>3. SockInv => ServersKept
  BY DEF SockInv
<1> QED
  BY <1>1, <1>2, <1>3, PTL DEF Spec

\* CBusEthProcess and openBridge close a connection only when its own peer has been
\* silent for the idle time, together with the peer whose socket it took over within
\* one poll of the stack, if it did: for any number of sockets and any idle time.
THEOREM ClosedForSilenceOnly == Spec => ClosedForOwnSilence
<1>1. Init => SockInv /\ IdleInv
  BY InitInv
<1>2. SockInv /\ IdleInv /\ [Next]_vars => (SockInv /\ IdleInv)'
  BY SockStep, IdleStep
<1>3. SockInv /\ IdleInv /\ [Next]_vars =>
        [\A s \in Sockets : pc # "stack" /\ sock[s] = "est" /\ sock'[s] # "est"
           => silence[s] + before[s] >= IdleTime]_vars
  BY Closing
<1> QED
  BY <1>1, <1>2, <1>3, PTL DEF Spec, ClosedForOwnSilence

=============================================================================

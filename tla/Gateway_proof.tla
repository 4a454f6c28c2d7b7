--------------------------- MODULE Gateway_proof ---------------------------
(***************************************************************************)
(* Theorems about the gateway relay, for any number of connections, any     *)
(* room in their transmit buffers and any frames.                           *)
(***************************************************************************)
EXTENDS Gateway, FiniteSetTheorems, TLAPS

-----------------------------------------------------------------------------
(* The invariant.  Outputs are looked at as what a record such as Out holds, *)
(* since one handler may broadcast several frames.                          *)

Message == [src  : Conns \union {CAN, Node},
            n    : 0..MaxFrames \union Conns \union {NConns},
            kind : Kinds \union {"plain", "answer", "Ystatus", "Yack", "Yreport", "RTOF"}]
Piece == [f : Message, part : {"whole", "head"}]

OutTyped(o) ==
  /\ o.tx \in [Conns -> 0..Room]
  /\ o.got \in [Conns -> Seq(Message)] /\ o.missed \in [Conns -> Seq(Message)]
  /\ o.toCan \in Seq(Message)

TypeInv ==
  /\ pc \in {"recv", "eth", "proc", "report", "clear", "resend"}
  /\ conn \in Conns /\ cmsg \in Message /\ rsend \in BOOLEAN
  /\ canIn \in Seq(Message) /\ est \in SUBSET Conns
  /\ rx \in [Conns -> Seq(Piece)] /\ OutTyped(Out)
  /\ nrconn \in 0..NConns /\ nrClients \in 0..NConns
  /\ maxq \in 0..MaxLost /\ lost \in 0..MaxLost /\ told \in Nat
  /\ sent \in 0..MaxFrames /\ opened \in 0..MaxOpen /\ since \in [Conns -> 0..MaxFrames]

\* The loop has counted no more connections than it has passed.
LoopInv == pc = "proc" => nrconn <= conn

\* What is counted as lost is lost; a report of it is out before the counters are cleared.
CountInv == maxq <= lost /\ told + (IF pc = "clear" THEN 0 ELSE maxq) <= lost

\* The frames that wait to be parsed: each has a number of its own, and each queue is in
\* the order of the numbers.
InRx(c) == {rx[c][i].f : i \in DOMAIN rx[c]}
Pending == ToSet(canIn) \union UNION {InRx(c) : c \in Conns}
PendInv ==
  /\ \A h \in Pending : h.n \in 1..sent /\ h.kind \in Kinds
  /\ \A h \in ToSet(canIn) : h.src = CAN
  /\ \A c \in Conns : \A h \in InRx(c) : h.src = c
  /\ \A i, j \in DOMAIN canIn : i < j => canIn[i].n < canIn[j].n
  /\ \A c \in Conns : \A i, j \in DOMAIN rx[c] : i < j => rx[c][i].f.n < rx[c][j].f.n
  /\ \A g, h \in Pending : g.n = h.n => g = h

\* Each output is in order and without repetitions, and no client has its own frame.
Ordered(s) == \A i, j \in DOMAIN s :
                i < j /\ s[i].src = s[j].src /\ s[i].src # Node => s[i].n <= s[j].n
Repeatable(h) == h.src = CAN \/ h.kind \in {"Yreport", "RTOF"}
Once(s) == \A i, j \in DOMAIN s : i # j /\ s[i] = s[j] => Repeatable(s[i])
OutFine(o) ==
  /\ \A c \in Conns : /\ Ordered(o.got[c]) /\ Once(o.got[c])
                       /\ \A h \in ToSet(o.got[c]) : h.src # c
  /\ Ordered(o.toCan) /\ Once(o.toCan)

\* What has gone out, or was to: nothing of it is still waiting, nor is the request of an
\* answer.
Shown(o) == ToSet(o.toCan)
            \union UNION {ToSet(o.got[c]) \union ToSet(o.missed[c]) : c \in Conns}
IsAnswer(h) == h.src = Node /\ h.kind \in {"Yack", "answer", "Ystatus"}
Settled(h) ==
  /\ h.src # Node => h.n <= sent /\ \A g \in Pending : g.src = h.src => h.n < g.n
  /\ IsAnswer(h) => h.n <= sent /\ \A g \in Pending : g.n # h.n
HistInv == OutFine(Out) /\ \A h \in Shown(Out) : Settled(h)

\* The frame to be broadcast again: the last from CAN that went out, and each client that
\* was there when it came has it, or had no room once.
RetryInv ==
  rsend => /\ pc # "recv" /\ cmsg.src = CAN /\ cmsg.kind \in Kinds /\ cmsg.n <= sent
           /\ \A h \in Shown(Out) : h.src = CAN => h.n <= cmsg.n
           /\ \A g \in ToSet(canIn) : cmsg.n < g.n
           /\ \A c \in est : since[c] < cmsg.n =>
                cmsg \in ToSet(got[c]) \/ Times(cmsg, missed[c]) = 1

SinceInv == \A c \in Conns : since[c] <= sent

GwInv == /\ TypeInv /\ LoopInv /\ CountInv /\ PendInv /\ HistInv
         /\ RetryInv /\ SinceInv /\ MissedIsResent

-----------------------------------------------------------------------------
(* Sequences *)

LEMMA Sizes ==
  /\ NConns \in Nat /\ NConns > 0 /\ NConns <= 253 /\ Room \in Nat /\ Room > 0
  /\ MaxFrames \in Nat /\ MaxLost \in Nat /\ MaxOpen \in Nat
  /\ CAN \notin Conns /\ Node \notin Conns /\ CAN # Node
  BY GatewayAssumption DEF GatewayAssumption, Conns, CAN, Node, NotCAN, All

LEMMA AppendFacts ==
  ASSUME NEW S, NEW s \in Seq(S), NEW e \in S
  PROVE  /\ Append(s, e) \in Seq(S) /\ Len(s) \in Nat
         /\ DOMAIN s = 1..Len(s) /\ DOMAIN Append(s, e) = 1..Len(s)+1
         /\ Append(s, e)[Len(s)+1] = e
         /\ \A i \in DOMAIN s : s[i] \in S /\ Append(s, e)[i] = s[i]
         /\ ToSet(Append(s, e)) = ToSet(s) \union {e}
<1>1. /\ Append(s, e) \in Seq(S) /\ Len(s) \in Nat
      /\ DOMAIN s = 1..Len(s) /\ DOMAIN Append(s, e) = 1..Len(s)+1
      /\ Append(s, e)[Len(s)+1] = e
      /\ \A i \in DOMAIN s : s[i] \in S /\ Append(s, e)[i] = s[i]
  OBVIOUS
<1>2. ToSet(Append(s, e)) = ToSet(s) \union {e}
  <2> DEFINE t == Append(s, e)
  <2>1. /\ Len(s) \in Nat /\ DOMAIN s = 1..Len(s) /\ DOMAIN t = 1..Len(s)+1
        /\ t[Len(s)+1] = e /\ \A i \in DOMAIN s : t[i] = s[i]
    BY <1>1
  <2> HIDE DEF t
  <2>2. ToSet(t) = ToSet(s) \union {e}
    BY <2>1 DEF ToSet
  <2> QED
    BY <2>2 DEF t
<1> QED
  BY <1>1, <1>2

LEMMA TailFacts ==
  ASSUME NEW S, NEW s \in Seq(S), s # <<>>
  PROVE  /\ Tail(s) \in Seq(S) /\ Len(s) \in Nat /\ Len(s) > 0 /\ Head(s) \in S /\ Head(s) = s[1]
         /\ 1 \in DOMAIN s /\ DOMAIN s = 1..Len(s) /\ DOMAIN Tail(s) = 1..Len(s)-1
         /\ \A i \in DOMAIN Tail(s) : i + 1 \in DOMAIN s /\ Tail(s)[i] = s[i+1]
         /\ ToSet(Tail(s)) \subseteq ToSet(s) /\ Head(s) \in ToSet(s)
<1>1. /\ Tail(s) \in Seq(S) /\ Len(s) \in Nat /\ Len(s) > 0 /\ Head(s) \in S /\ Head(s) = s[1]
      /\ 1 \in DOMAIN s /\ DOMAIN s = 1..Len(s) /\ DOMAIN Tail(s) = 1..Len(s)-1
      /\ \A i \in DOMAIN Tail(s) : i + 1 \in DOMAIN s /\ Tail(s)[i] = s[i+1]
  OBVIOUS
<1>2. ToSet(Tail(s)) \subseteq ToSet(s) /\ Head(s) \in ToSet(s)
  BY <1>1 DEF ToSet
<1> QED
  BY <1>1, <1>2

LEMMA TimesFacts ==
  ASSUME NEW S, NEW s \in Seq(S), NEW e \in S, NEW f
  PROVE  /\ Times(f, s) \in Nat
         /\ f \notin ToSet(s) => Times(f, s) = 0
         /\ Times(f, Append(s, e)) = IF f = e THEN Times(f, s) + 1 ELSE Times(f, s)
<1> DEFINE At == {i \in DOMAIN s : s[i] = f}
           At1 == {i \in DOMAIN Append(s, e) : Append(s, e)[i] = f}
<1>1. /\ Len(s) \in Nat /\ DOMAIN s = 1..Len(s) /\ DOMAIN Append(s, e) = 1..Len(s)+1
      /\ Append(s, e)[Len(s)+1] = e /\ \A i \in DOMAIN s : Append(s, e)[i] = s[i]
  BY AppendFacts
<1>2. IsFiniteSet(At) /\ Cardinality(At) \in Nat
  <2>1. IsFiniteSet(1..Len(s)) /\ At \in SUBSET (1..Len(s))
    BY <1>1, FS_Interval
  <2> QED
    BY <2>1, FS_Subset, FS_CardinalityType
<1>3. f \notin ToSet(s) => At = {}
  BY DEF ToSet
<1>4. At1 = IF f = e THEN At \union {Len(s)+1} ELSE At
  BY <1>1
<1>5. Len(s)+1 \notin At
  BY <1>1
<1>6. Cardinality(At1) = IF f = e THEN Cardinality(At) + 1 ELSE Cardinality(At)
  BY <1>2, <1>4, <1>5, FS_AddElement
<1> QED
  BY <1>2, <1>3, <1>6, FS_EmptySet DEF Times

LEMMA ShownIs ==
  ASSUME NEW o, NEW h
  PROVE  h \in Shown(o) <=> \/ h \in ToSet(o.toCan)
                            \/ \E c \in Conns : h \in ToSet(o.got[c]) \/ h \in ToSet(o.missed[c])
  BY DEF Shown

LEMMA PendingIs ==
  ASSUME NEW h
  PROVE  h \in Pending <=> h \in ToSet(canIn) \/ \E c \in Conns : h \in InRx(c)
  BY DEF Pending

-----------------------------------------------------------------------------
(* One broadcast *)

\* Frame g may follow the frames of s.
Follows(s, g) ==
  \A h \in ToSet(s) : /\ g.src # Node /\ h.src = g.src => h.n <= g.n
                      /\ Repeatable(g) \/ h # g

LEMMA AppendFine ==
  ASSUME NEW s \in Seq(Message), NEW g \in Message, Ordered(s), Once(s), Follows(s, g)
  PROVE  Ordered(Append(s, g)) /\ Once(Append(s, g))
<1> DEFINE s2 == Append(s, g)
<1>1. /\ Len(s) \in Nat /\ DOMAIN s = 1..Len(s) /\ DOMAIN s2 = 1..Len(s)+1
      /\ s2[Len(s)+1] = g /\ \A i \in DOMAIN s : s2[i] = s[i] /\ s[i] \in ToSet(s)
  BY AppendFacts DEF ToSet
<1> HIDE DEF s2
<1>2. Ordered(s2)
  BY <1>1 DEF Ordered, Follows
<1>3. Once(s2)
  BY <1>1 DEF Once, Follows
<1> QED
  BY <1>2, <1>3 DEF s2

\* What a broadcast of g changes: where it was put, or missed, and nothing else.
Adds(o, o2, g) ==
  /\ \A c \in Conns : /\ o2.got[c] \in {o.got[c], Append(o.got[c], g)}
                      /\ o2.missed[c] \in {o.missed[c], Append(o.missed[c], g)}
  /\ o2.toCan \in {o.toCan, Append(o.toCan, g)}

LEMMA BroadcastAdds ==
  ASSUME NEW o, OutTyped(o), NEW g \in Message, NEW x, est \in SUBSET Conns
  PROVE  LET o2 == Broadcast(o, g, x)
         IN /\ OutTyped(o2) /\ Adds(o, o2, g)
            /\ \A c \in Conns : g.src \in Conns /\ g.src = x /\ c = x => o2.got[c] = o.got[c]
            /\ g.kind # "Yreport" =>
                 \A c \in est : c # x =>
                   IF o.tx[c] = Room THEN o2.missed[c] = Append(o.missed[c], g) /\ o2.got[c] = o.got[c]
                                     ELSE o2.got[c] = Append(o.got[c], g) /\ o2.missed[c] = o.missed[c]
<1> DEFINE o2 == Broadcast(o, g, x)
           dest == est \ {x}
           full == {c \in dest : o.tx[c] = Room}
<1>1. /\ o2.tx = [c \in Conns |-> IF c \in dest \ full THEN o.tx[c] + 1 ELSE o.tx[c]]
      /\ o2.got = [c \in Conns |-> IF c \in dest \ full THEN Record(o.got[c], g) ELSE o.got[c]]
      /\ o2.missed = [c \in Conns |-> IF c \in full THEN Record(o.missed[c], g) ELSE o.missed[c]]
      /\ o2.toCan = IF x # NotCAN /\ ~IsY(g) THEN Append(o.toCan, g) ELSE o.toCan
  BY DEF Broadcast
<1>2. \A s \in Seq(Message) : Append(s, g) \in Seq(Message) /\ Record(s, g) \in {s, Append(s, g)}
  BY AppendFacts DEF Record
<1>3. o2.tx \in [Conns -> 0..Room]
  BY <1>1, Sizes DEF OutTyped
<1> HIDE DEF o2
<1>4. OutTyped(o2)
  <2>1. o2.got \in [Conns -> Seq(Message)] /\ o2.missed \in [Conns -> Seq(Message)]
    <3>1. \A c \in Conns : /\ o.got[c] \in Seq(Message) /\ Record(o.got[c], g) \in Seq(Message)
                           /\ o.missed[c] \in Seq(Message) /\ Record(o.missed[c], g) \in Seq(Message)
      BY <1>2, ZenonT(40) DEF OutTyped
    <3>2. o2.got \in [Conns -> Seq(Message)]
      BY <1>1, <3>1
    <3>3. o2.missed \in [Conns -> Seq(Message)]
      BY <1>1, <3>1
    <3> QED
      BY <3>2, <3>3
  <2>2. o2.toCan \in Seq(Message)
    BY <1>1, <1>2 DEF OutTyped
  <2> QED
    BY <1>3, <2>1, <2>2 DEF OutTyped
<1>5. Adds(o, o2, g)
  BY <1>1, <1>2 DEF OutTyped, Adds
<1>6. \A c \in Conns : c = x => o2.got[c] = o.got[c]
  BY <1>1
<1>7. ASSUME g.kind # "Yreport", NEW c \in est, c # x
      PROVE  IF o.tx[c] = Room THEN o2.missed[c] = Append(o.missed[c], g) /\ o2.got[c] = o.got[c]
                               ELSE o2.got[c] = Append(o.got[c], g) /\ o2.missed[c] = o.missed[c]
  BY <1>1, <1>7 DEF Record
<1> QED
  BY <1>4, <1>5, <1>6, <1>7 DEF o2

\* Output o2 comes after o by frames of G.
Later(o, o2, G) ==
  /\ OutTyped(o2) /\ OutFine(o2)
  /\ \A h \in Shown(o2) : h \in Shown(o) \/ h \in G
  /\ \A c \in Conns : \A h \in Message : h \notin G =>
       /\ h \in ToSet(o2.got[c]) <=> h \in ToSet(o.got[c])
       /\ h \in ToSet(o2.missed[c]) <=> h \in ToSet(o.missed[c])
       /\ Times(h, o2.missed[c]) = Times(h, o.missed[c])

Fresh(o, g) == \A h \in Shown(o) : /\ g.src # Node /\ h.src = g.src => h.n <= g.n
                                   /\ Repeatable(g) \/ h # g

LEMMA BroadcastLater ==
  ASSUME NEW o, OutTyped(o), OutFine(o), NEW g \in Message, Fresh(o, g), est \in SUBSET Conns,
         NEW x, g.src \in Conns => g.src = x
  PROVE  Later(o, Broadcast(o, g, x), {g})
<1> DEFINE o2 == Broadcast(o, g, x)
<1>1. /\ OutTyped(o2) /\ Adds(o, o2, g)
      /\ \A c \in Conns : g.src = c => o2.got[c] = o.got[c]
  BY BroadcastAdds
<1> HIDE DEF o2
<1>2. \A c \in Conns : o.got[c] \in Seq(Message) /\ o.missed[c] \in Seq(Message)
  BY DEF OutTyped
<1>3. o.toCan \in Seq(Message)
  BY DEF OutTyped
<1>4. /\ \A c \in Conns : ToSet(Append(o.got[c], g)) = ToSet(o.got[c]) \union {g}
      /\ \A c \in Conns : ToSet(Append(o.missed[c], g)) = ToSet(o.missed[c]) \union {g}
      /\ ToSet(Append(o.toCan, g)) = ToSet(o.toCan) \union {g}
  BY <1>2, <1>3, AppendFacts
<1>5. /\ \A c \in Conns : ToSet(o2.got[c]) \in {ToSet(o.got[c]), ToSet(o.got[c]) \union {g}}
      /\ \A c \in Conns : ToSet(o2.missed[c]) \in {ToSet(o.missed[c]), ToSet(o.missed[c]) \union {g}}
      /\ ToSet(o2.toCan) \in {ToSet(o.toCan), ToSet(o.toCan) \union {g}}
  BY <1>1, <1>4 DEF Adds
<1>6. \A h \in Shown(o2) : h \in Shown(o) \/ h \in {g}
  BY <1>5, ShownIs
<1>7. /\ \A c \in Conns : Follows(o.got[c], g)
      /\ Follows(o.toCan, g)
  BY ShownIs DEF Fresh, Follows
<1>8. ASSUME NEW c \in Conns
      PROVE  /\ Ordered(o2.got[c]) /\ Once(o2.got[c])
             /\ \A h \in ToSet(o2.got[c]) : h.src # c
  <2>1. Ordered(o2.got[c]) /\ Once(o2.got[c])
    BY <1>1, <1>2, <1>7, AppendFine DEF OutFine, Adds
  <2>2. \A h \in ToSet(o2.got[c]) : h.src # c
    BY <1>1, <1>5 DEF OutFine
  <2> QED
    BY <2>1, <2>2
<1>9. Ordered(o2.toCan) /\ Once(o2.toCan)
  BY <1>1, <1>3, <1>7, AppendFine DEF OutFine, Adds
<1>10. OutFine(o2)
  BY <1>8, <1>9 DEF OutFine
<1>11. ASSUME NEW c \in Conns, NEW h \in Message, h \notin {g}
       PROVE  /\ h \in ToSet(o2.got[c]) <=> h \in ToSet(o.got[c])
              /\ h \in ToSet(o2.missed[c]) <=> h \in ToSet(o.missed[c])
              /\ Times(h, o2.missed[c]) = Times(h, o.missed[c])
  <2>1. Times(h, Append(o.missed[c], g)) = Times(h, o.missed[c])
    BY <1>2, <1>11, TimesFacts
  <2> QED
    BY <1>1, <1>5, <1>11, <2>1 DEF Adds
<1> QED
  BY <1>1, <1>6, <1>10, <1>11 DEF Later, o2

LEMMA LaterTrans ==
  ASSUME NEW o, NEW p, NEW q, NEW G, NEW H, Later(o, p, G), Later(p, q, H)
  PROVE  Later(o, q, G \union H)
  BY DEF Later

LEMMA LaterSame == ASSUME NEW o, OutTyped(o), OutFine(o), NEW G PROVE Later(o, o, G)
  BY DEF Later

-----------------------------------------------------------------------------
(* The broadcasts of one frame *)

Answers(n) == {Own("Yack", n), Own("answer", n), Own("Ystatus", n)}

LEMMA OwnFacts ==
  ASSUME NEW n \in 0..MaxFrames, NEW k \in {"Yack", "answer", "Ystatus"}
  PROVE  /\ Own(k, n) \in Message /\ Own(k, n).src = Node /\ Own(k, n).n = n /\ Own(k, n).kind = k
         /\ ~Repeatable(Own(k, n)) /\ Own(k, n).src \notin Conns
         /\ \A h \in Message : h = Own(k, n) <=> h.src = Node /\ h.n = n /\ h.kind = k
<1>1. /\ Own(k, n) \in Message /\ Own(k, n).src = Node /\ Own(k, n).n = n /\ Own(k, n).kind = k
  BY DEF Own, Message
<1>2. \A h \in Message : h = Own(k, n) <=> h.src = Node /\ h.n = n /\ h.kind = k
  BY <1>1 DEF Message, Own
<1> QED
  BY <1>1, <1>2, Sizes DEF Repeatable

LEMMA ShownTyped == ASSUME NEW o, OutTyped(o) PROVE Shown(o) \subseteq Message
<1> SUFFICES ASSUME NEW h \in Shown(o) PROVE h \in Message
  OBVIOUS
<1>1. \A s \in Seq(Message) : h \in ToSet(s) => h \in Message
  BY AppendFacts DEF ToSet
<1> QED
  BY <1>1, ShownIs DEF OutTyped

LEMMA NumberType == ASSUME NEW h \in Message PROVE h.n \in Int
  BY Sizes DEF Message, Conns

\* Nobody has answered request n.
Unanswered(o, n) == \A h \in Shown(o) : IsAnswer(h) => h.n # n

LEMMA AnswerLater ==
  ASSUME NEW o, OutTyped(o), OutFine(o), est \in SUBSET Conns, NEW n \in 0..MaxFrames,
         NEW k \in {"Yack", "answer", "Ystatus"}, Own(k, n) \notin Shown(o)
  PROVE  Later(o, Broadcast(o, Own(k, n), All), {Own(k, n)})
  BY OwnFacts, BroadcastLater DEF Fresh

LEMMA ParseLater ==
  ASSUME NEW o, OutTyped(o), OutFine(o), est \in SUBSET Conns,
         NEW f \in Message, f.n \in 0..MaxFrames, Unanswered(o, f.n)
  PROVE  Later(o, ParseCmdEth(o, f), Answers(f.n))
<1> DEFINE n == f.n
           p == IF CommandAck /\ f.kind \notin {"status", "ext"}
                THEN Broadcast(o, Own("Yack", n), All) ELSE o
<1>1. \A k \in {"Yack", "answer", "Ystatus"} : Own(k, n) \notin Shown(o)
  BY OwnFacts DEF Unanswered, IsAnswer
<1>2. Later(o, p, {Own("Yack", n)})
  BY <1>1, AnswerLater, LaterSame
<1>3. OutTyped(p) /\ OutFine(p)
  BY <1>2 DEF Later
<1>4. \A k \in {"answer", "Ystatus"} : Own(k, n) \notin Shown(p)
  BY <1>1, <1>2, OwnFacts DEF Later
<1> HIDE DEF p
<1>5. \A k \in {"answer", "Ystatus"} : Later(p, Broadcast(p, Own(k, n), All), {Own(k, n)})
  BY <1>3, <1>4, AnswerLater
<1>6. /\ Later(o, p, Answers(n))
      /\ \A k \in {"answer", "Ystatus"} : Later(o, Broadcast(p, Own(k, n), All), Answers(n))
  <2>1. \A q, G : Later(o, q, G) /\ G \subseteq Answers(n) => Later(o, q, Answers(n))
    BY DEF Later
  <2>2. \A k \in {"answer", "Ystatus"} :
           Later(o, Broadcast(p, Own(k, n), All), {Own("Yack", n)} \union {Own(k, n)})
    BY <1>2, <1>5, LaterTrans
  <2> QED
    BY <1>2, <2>1, <2>2 DEF Answers
<1>7. ParseCmdEth(o, f) \in {p, Broadcast(p, Own("answer", n), All), Broadcast(p, Own("Ystatus", n), All)}
  BY DEF ParseCmdEth, p
<1> QED
  BY <1>6, <1>7

\* Frame f is parsed, and broadcast to all but x: nothing but f and its answers is new.
RelayOf(o, f, x) == IF Relayed(f) THEN Broadcast(ParseCmdEth(o, f), f, x) ELSE ParseCmdEth(o, f)

LEMMA RelayLater ==
  ASSUME NEW o, OutTyped(o), OutFine(o), est \in SUBSET Conns,
         NEW f \in Message, f.n \in 0..MaxFrames, f.src # Node, Unanswered(o, f.n),
         \A h \in Shown(o) : h.src = f.src => h.n < f.n,
         NEW x, f.src \in Conns => f.src = x
  PROVE  Later(o, RelayOf(o, f, x), Answers(f.n) \union {f})
<1> DEFINE p == ParseCmdEth(o, f)
<1>1. Later(o, p, Answers(f.n))
  BY ParseLater
<1>2. OutTyped(p) /\ OutFine(p)
  BY <1>1 DEF Later
<1>3. \A h \in Answers(f.n) : h.src = Node
  BY OwnFacts DEF Answers
<1>4. Fresh(p, f)
  <2>1. \A h \in Shown(o) : h.n \in Int /\ f.n \in Int
    BY ShownTyped, NumberType
  <2>2. \A h \in Shown(o) : h.src = f.src => h.n <= f.n /\ h # f
    BY <2>1
  <2>3. \A h \in Answers(f.n) : h.src # f.src /\ h # f
    BY <1>3
  <2> QED
    BY <1>1, <2>2, <2>3 DEF Later, Fresh
<1> HIDE DEF p
<1>5. Later(p, Broadcast(p, f, x), {f})
  BY <1>2, <1>4, BroadcastLater
<1>6. Later(o, Broadcast(p, f, x), Answers(f.n) \union {f})
  BY <1>1, <1>5, LaterTrans
<1>7. Later(o, p, Answers(f.n) \union {f})
  BY <1>1 DEF Later
<1> QED
  BY <1>6, <1>7 DEF RelayOf, p

-----------------------------------------------------------------------------
(* The frames that wait *)

LEMMA RxFacts ==
  ASSUME TypeInv, NEW c \in Conns
  PROVE  /\ rx[c] \in Seq(Piece) /\ Len(rx[c]) \in Nat /\ DOMAIN rx[c] = 1..Len(rx[c])
         /\ \A i \in DOMAIN rx[c] : rx[c][i] \in Piece /\ rx[c][i].f \in Message
<1>1. rx[c] \in Seq(Piece)
  BY DEF TypeInv
<1>2. \A i \in DOMAIN rx[c] : rx[c][i] \in Piece
  BY <1>1
<1> QED
  BY <1>1, <1>2 DEF Piece

\* Each queue by itself: its numbers rise.
Rising(c) == \A i, j \in DOMAIN rx[c] : i < j => rx[c][i].f.n < rx[c][j].f.n

LEMMA RisingFacts == ASSUME PendInv PROVE \A c \in Conns : Rising(c)
  BY DEF PendInv, Rising

LEMMA PendingType == ASSUME TypeInv PROVE \A h \in Pending : h \in Message /\ h.n \in Int
<1>1. \A h \in ToSet(canIn) : h \in Message
  BY AppendFacts DEF TypeInv, ToSet
<1>2. \A c \in Conns : \A h \in InRx(c) : h \in Message
  BY RxFacts DEF InRx
<1> QED
  BY <1>1, <1>2, PendingIs, NumberType

LEMMA PendSame ==
  ASSUME UNCHANGED <<canIn, rx, sent>>, PendInv
  PROVE  PendInv' /\ Pending' = Pending
  BY DEF PendInv, Pending, InRx

\* The first frame from CAN is taken: it was the oldest, and no other has its number.
LEMMA TakeCan ==
  ASSUME TypeInv, PendInv, canIn # <<>>, canIn' = Tail(canIn), UNCHANGED <<rx, sent>>
  PROVE  LET f == Head(canIn)
         IN /\ f \in Message /\ f \in Pending /\ f.src = CAN
            /\ canIn' \in Seq(Message) /\ PendInv' /\ Pending' \subseteq Pending
            /\ \A g \in Pending' : g.n # f.n /\ (g.src = CAN => f.n < g.n)
<1> DEFINE f == Head(canIn)
           t == Tail(canIn)
<1>1. /\ t \in Seq(Message) /\ Len(canIn) \in Nat /\ Len(canIn) > 0 /\ f \in Message
      /\ f = canIn[1] /\ 1 \in DOMAIN canIn /\ DOMAIN canIn = 1..Len(canIn)
      /\ DOMAIN t = 1..Len(canIn)-1
      /\ \A i \in DOMAIN t : i + 1 \in DOMAIN canIn /\ t[i] = canIn[i+1]
      /\ ToSet(t) \subseteq ToSet(canIn) /\ f \in ToSet(canIn)
  BY TailFacts DEF TypeInv
<1>2. canIn' = t
  OBVIOUS
<1> HIDE DEF t, f
<1>3. f \in Pending /\ f.src = CAN
  BY <1>1, PendingIs DEF PendInv
<1>4. Pending' = ToSet(t) \union UNION {InRx(c) : c \in Conns}
  <2>1. \A c \in Conns : InRx(c)' = InRx(c)
    BY DEF InRx
  <2>2. ToSet(canIn)' = ToSet(t)
    BY <1>2
  <2> QED
    BY <2>1, <2>2 DEF Pending
<1>5. Pending' \subseteq Pending
  BY <1>1, <1>4 DEF Pending
<1>6. \A i, j \in DOMAIN t : i < j => t[i].n < t[j].n
  BY <1>1 DEF PendInv
<1>7. PendInv'
  <2>1. \A c \in Conns : InRx(c)' = InRx(c)
    BY DEF InRx
  <2>2. \A h \in Pending' : h.n \in 1..sent' /\ h.kind \in Kinds
    BY <1>5 DEF PendInv
  <2>3. \A h \in ToSet(canIn)' : h.src = CAN
    BY <1>1, <1>2 DEF PendInv, ToSet
  <2> QED
    BY <1>2, <1>5, <1>6, <2>1, <2>2, <2>3 DEF PendInv
<1>8. ASSUME NEW g \in Pending' PROVE g.n # f.n /\ (g.src = CAN => f.n < g.n)
  <2>1. CASE g \in ToSet(t)
    <3>1. PICK i \in DOMAIN t : g = canIn[i+1] /\ i + 1 \in DOMAIN canIn /\ 1 < i + 1
      BY <1>1, <2>1 DEF ToSet
    <3>2. f.n < g.n
      BY <1>1, <3>1 DEF PendInv
    <3>3. f.n \in Int /\ g.n \in Int
      BY <1>3, <1>5, PendingType
    <3> QED
      BY <3>2, <3>3
  <2>2. CASE g \notin ToSet(t)
    <3>1. PICK c \in Conns : g \in InRx(c)
      BY <1>4, <2>2
    <3>2. g.src # CAN
      BY <3>1, Sizes DEF PendInv
    <3> QED
      BY <1>3, <1>5, <3>2 DEF PendInv
  <2> QED
    BY <2>1, <2>2
<1> QED
  BY <1>1, <1>2, <1>3, <1>5, <1>7, <1>8 DEF f

\* The first frame, or piece, of client c is taken: the same.
LEMMA TakeRx ==
  ASSUME TypeInv, PendInv, NEW c \in Conns, rx[c] # <<>>, rx' = [rx EXCEPT ![c] = Tail(@)],
         UNCHANGED <<canIn, sent>>
  PROVE  LET f == Head(rx[c]).f
         IN /\ f \in Message /\ f \in Pending /\ f.src = c
            /\ rx' \in [Conns -> Seq(Piece)] /\ PendInv' /\ Pending' \subseteq Pending
            /\ \A g \in Pending' : g.n # f.n /\ (g.src = c => f.n < g.n)
<1> DEFINE s == rx[c]
           f == Head(s).f
           t == Tail(s)
<1>1. /\ t \in Seq(Piece) /\ Len(s) \in Nat /\ Len(s) > 0 /\ Head(s) \in Piece
      /\ Head(s) = s[1] /\ 1 \in DOMAIN s /\ DOMAIN s = 1..Len(s)
      /\ DOMAIN t = 1..Len(s)-1
      /\ \A i \in DOMAIN t : i + 1 \in DOMAIN s /\ t[i] = s[i+1]
  BY TailFacts DEF TypeInv
<1>2. f \in Message /\ f = s[1].f
  BY <1>1 DEF Piece
<1>3. \A d \in Conns : rx'[d] = IF d = c THEN t ELSE rx[d]
  BY DEF TypeInv
<1>4. rx' \in [Conns -> Seq(Piece)]
  <2>1. \A d \in Conns : rx'[d] \in Seq(Piece)
    BY <1>1, <1>3 DEF TypeInv
  <2> QED
    BY <2>1 DEF TypeInv
<1> HIDE DEF t
<1>5. \A d \in Conns : InRx(d)' = IF d = c THEN {t[i].f : i \in DOMAIN t} ELSE InRx(d)
  BY <1>3 DEF InRx
<1>6. \A d \in Conns : InRx(d)' \subseteq InRx(d)
  BY <1>1, <1>5 DEF InRx
<1>7. f \in InRx(c)
  BY <1>1, <1>2 DEF InRx
<1>8. f \in Pending /\ f.src = c
  BY <1>7, PendingIs DEF PendInv
<1>9. Pending' \subseteq Pending
  BY <1>6 DEF Pending
<1>10. \A d \in Conns : Rising(d)'
  <2>1. \A i, j \in DOMAIN s : i < j => s[i].f.n < s[j].f.n
    BY RisingFacts DEF Rising
  <2>2. ASSUME NEW i \in DOMAIN t, NEW j \in DOMAIN t, i < j PROVE t[i].f.n < t[j].f.n
    <3>1. i + 1 \in DOMAIN s /\ j + 1 \in DOMAIN s /\ i + 1 < j + 1
      BY <1>1, <2>2
    <3>2. s[i+1].f.n < s[j+1].f.n
      BY <2>1, <3>1
    <3> QED
      BY <1>1, <3>2
  <2>3. \A d \in Conns : d # c => Rising(d)'
    BY <1>3, RisingFacts DEF Rising
  <2>4. Rising(c)'
    BY <1>3, <2>2 DEF Rising
  <2> QED
    BY <2>3, <2>4
<1>11. PendInv'
  BY <1>6, <1>9, <1>10 DEF PendInv, Rising
<1>12. ASSUME NEW g \in Pending' PROVE g.n # f.n /\ (g.src = c => f.n < g.n)
  <2>1. CASE g \in InRx(c)'
    <3>1. PICK i \in DOMAIN t : g = s[i+1].f /\ i + 1 \in DOMAIN s /\ 1 < i + 1
      BY <1>1, <1>5, <2>1
    <3>2. f.n < g.n
      BY <1>1, <1>2, <3>1 DEF PendInv
    <3>3. f.n \in Int /\ g.n \in Int
      BY <1>8, <1>9, PendingType
    <3> QED
      BY <3>2, <3>3
  <2>2. CASE g \notin InRx(c)'
    <3>1. g \in ToSet(canIn) \/ \E d \in Conns \ {c} : g \in InRx(d)
      BY <1>5, <2>2 DEF Pending
    <3>2. g.src # c
      BY <3>1, Sizes DEF PendInv
    <3> QED
      BY <1>8, <1>9, <3>2 DEF PendInv
  <2> QED
    BY <2>1, <2>2
<1> QED
  BY <1>2, <1>4, <1>8, <1>9, <1>11, <1>12 DEF f

LEMMA FrameFacts ==
  ASSUME sent \in Nat, sent < MaxFrames, NEW s \in Conns \union {CAN}, NEW k \in Kinds
  PROVE  /\ Frame(s, k) \in Message /\ Frame(s, k).n = sent + 1 /\ Frame(s, k).src = s
         /\ Frame(s, k).kind = k /\ s # Node
  BY Sizes DEF Frame, Message

\* A new frame has a number of its own, above all others.
LEMMA AddUnique ==
  ASSUME TypeInv, PendInv, NEW f, f.n = sent + 1, f.kind \in Kinds, sent' = sent + 1,
         \A g \in Pending' : g \in Pending \/ g = f
  PROVE  /\ \A h \in Pending' : h.n \in 1..sent' /\ h.kind \in Kinds
         /\ \A g, h \in Pending' : g.n = h.n => g = h
<1>1. sent \in Nat /\ \A h \in Pending : h.n \in 1..sent /\ h.kind \in Kinds
  BY Sizes DEF PendInv, TypeInv
<1> QED
  BY <1>1 DEF PendInv

LEMMA AddCan ==
  ASSUME TypeInv, PendInv, sent < MaxFrames, sent' = sent + 1, NEW k \in Kinds,
         canIn' = Append(canIn, Frame(CAN, k)), UNCHANGED rx
  PROVE  /\ PendInv' /\ canIn' \in Seq(Message)
         /\ \A g \in Pending' : g \in Pending \/ g.n = sent + 1
         /\ \A g \in ToSet(canIn)' : g \in ToSet(canIn) \/ g.n = sent + 1
<1> DEFINE f == Frame(CAN, k)
<1>1. f \in Message /\ f.n = sent + 1 /\ f.src = CAN /\ f.kind = k /\ sent \in Nat
  BY FrameFacts, Sizes DEF TypeInv
<1> HIDE DEF f
<1>2. /\ canIn' \in Seq(Message) /\ Len(canIn) \in Nat
      /\ DOMAIN canIn = 1..Len(canIn) /\ DOMAIN canIn' = 1..Len(canIn)+1
      /\ canIn'[Len(canIn)+1] = f
      /\ \A i \in DOMAIN canIn : canIn'[i] = canIn[i]
      /\ ToSet(canIn') = ToSet(canIn) \union {f}
  BY <1>1, AppendFacts DEF TypeInv, f
<1>3. \A c \in Conns : InRx(c)' = InRx(c)
  BY DEF InRx
<1>4. ToSet(canIn)' = ToSet(canIn) \union {f}
  BY <1>2 DEF ToSet
<1>5. Pending' = Pending \union {f}
  BY <1>3, <1>4 DEF Pending
<1>6. \A i \in DOMAIN canIn : canIn[i].n \in 1..sent
  BY PendingIs DEF PendInv, ToSet
<1>7. \A i, j \in DOMAIN canIn' : i < j => canIn'[i].n < canIn'[j].n
  BY <1>1, <1>2, <1>6 DEF PendInv
<1>8. PendInv'
  BY <1>1, <1>3, <1>4, <1>5, <1>7, AddUnique DEF PendInv
<1> QED
  BY <1>1, <1>2, <1>4, <1>5, <1>8

LEMMA AddRx ==
  ASSUME TypeInv, PendInv, sent < MaxFrames, sent' = sent + 1, NEW k \in Kinds,
         NEW c \in Conns, NEW p \in {"whole", "head"},
         rx' = [rx EXCEPT ![c] = Append(@, [f |-> Frame(c, k), part |-> p])], UNCHANGED canIn
  PROVE  /\ PendInv' /\ rx' \in [Conns -> Seq(Piece)]
         /\ \A g \in Pending' : g \in Pending \/ g.n = sent + 1
<1> DEFINE f == Frame(c, k)
           e == [f |-> f, part |-> p]
           s == rx[c]
           t == Append(s, e)
<1>1. f \in Message /\ f.n = sent + 1 /\ f.src = c /\ f.kind = k /\ sent \in Nat
  BY FrameFacts, Sizes DEF TypeInv
<1> HIDE DEF f
<1>2. e \in Piece /\ e.f = f /\ s \in Seq(Piece)
  BY <1>1 DEF Piece, TypeInv
<1> HIDE DEF e
<1>3. /\ t \in Seq(Piece) /\ Len(s) \in Nat
      /\ DOMAIN s = 1..Len(s) /\ DOMAIN t = 1..Len(s)+1
      /\ t[Len(s)+1] = e /\ \A i \in DOMAIN s : t[i] = s[i]
  BY <1>2, AppendFacts
<1>4. \A d \in Conns : rx'[d] = IF d = c THEN t ELSE rx[d]
  BY DEF TypeInv, e, f
<1>5. rx' \in [Conns -> Seq(Piece)]
  <2>1. \A d \in Conns : rx'[d] \in Seq(Piece)
    BY <1>3, <1>4 DEF TypeInv
  <2> QED
    BY <2>1 DEF TypeInv
<1> HIDE DEF t
<1>6. \A d \in Conns : InRx(d)' = IF d = c THEN InRx(c) \union {f} ELSE InRx(d)
  <2>1. InRx(c) = {s[i].f : i \in DOMAIN s}
    BY DEF InRx
  <2>2. {t[i].f : i \in DOMAIN t} = InRx(c) \union {f}
    <3> HIDE DEF s
    <3> QED
      BY <1>2, <1>3, <2>1
  <2>3. InRx(c)' = {t[i].f : i \in DOMAIN t}
    BY <1>4 DEF InRx
  <2>4. \A d \in Conns : d # c => InRx(d)' = InRx(d)
    BY <1>4 DEF InRx
  <2> QED
    BY <2>2, <2>3, <2>4
<1>7. Pending' = Pending \union {f}
  BY <1>6 DEF Pending
<1>8. \A i \in DOMAIN s : s[i].f.n \in 1..sent
  BY PendingIs DEF PendInv, InRx
<1>9. \A i, j \in DOMAIN t : i < j => t[i].f.n < t[j].f.n
  <2>1. \A i, j \in DOMAIN s : i < j => s[i].f.n < s[j].f.n
    BY RisingFacts DEF Rising
  <2>2. ASSUME NEW i \in DOMAIN t, NEW j \in DOMAIN t, i < j PROVE t[i].f.n < t[j].f.n
    <3>1. i \in DOMAIN s /\ t[i] = s[i] /\ (j \in DOMAIN s \/ j = Len(s)+1)
      <4> HIDE DEF s
      <4>1. i \in 1..Len(s)+1 /\ j \in 1..Len(s)+1
        BY <1>3
      <4>2. i \in 1..Len(s) /\ (j \in 1..Len(s) \/ j = Len(s)+1)
        BY <1>3, <2>2, <4>1
      <4> QED
        BY <1>3, <4>2
    <3>2. CASE j \in DOMAIN s
      BY <1>3, <2>1, <2>2, <3>1, <3>2
    <3>3. CASE j = Len(s)+1
      <4>1. s[i].f.n \in 1..sent /\ t[j].f.n = sent + 1
        BY <1>1, <1>2, <1>3, <1>8, <3>1, <3>3
      <4> QED
        BY <1>1, <3>1, <4>1
    <3> QED
      BY <3>1, <3>2, <3>3
  <2> QED
    BY <2>2
<1>10. \A d \in Conns : Rising(d)'
  <2>1. \A d \in Conns : d # c => Rising(d)'
    BY <1>4, RisingFacts DEF Rising
  <2>2. Rising(c)'
    BY <1>4, <1>9 DEF Rising
  <2> QED
    BY <2>1, <2>2
<1>11. PendInv'
  BY <1>1, <1>6, <1>7, <1>10, AddUnique DEF PendInv, Rising
<1> QED
  BY <1>1, <1>5, <1>7, <1>11

LEMMA DropRx ==
  ASSUME TypeInv, PendInv, NEW c \in Conns, rx' = [rx EXCEPT ![c] = <<>>],
         UNCHANGED <<canIn, sent>>
  PROVE  PendInv' /\ rx' \in [Conns -> Seq(Piece)] /\ Pending' \subseteq Pending
<1>1. \A d \in Conns : rx'[d] = IF d = c THEN <<>> ELSE rx[d]
  BY DEF TypeInv
<1>2. rx' \in [Conns -> Seq(Piece)]
  BY DEF TypeInv
<1>3. \A d \in Conns : InRx(d)' = IF d = c THEN {} ELSE InRx(d)
  BY <1>1 DEF InRx
<1>4. Pending' \subseteq Pending
  BY <1>3 DEF Pending
<1>5. \A d \in Conns : \A i, j \in DOMAIN rx'[d] : i < j => rx'[d][i].f.n < rx'[d][j].f.n
  BY <1>1 DEF PendInv
<1> QED
  BY <1>2, <1>3, <1>4, <1>5 DEF PendInv

\* The rest of a frame arrives.
LEMMA RestRx ==
  ASSUME TypeInv, PendInv, NEW c \in Conns, rx[c] # <<>>,
         rx' = [rx EXCEPT ![c][Len(rx[c])].part = "whole"], UNCHANGED <<canIn, sent>>
  PROVE  PendInv' /\ rx' \in [Conns -> Seq(Piece)] /\ Pending' = Pending
<1> DEFINE s == rx[c]
           t == [s EXCEPT ![Len(s)].part = "whole"]
<1>1. s \in Seq(Piece) /\ Len(s) \in Nat /\ Len(s) > 0 /\ DOMAIN s = 1..Len(s)
  BY DEF TypeInv
<1>2. \A d \in Conns : rx'[d] = IF d = c THEN t ELSE rx[d]
  BY DEF TypeInv
<1>3. t \in Seq(Piece) /\ DOMAIN t = DOMAIN s /\ \A i \in DOMAIN s : t[i].f = s[i].f
  <2>1. s[Len(s)] \in Piece
    BY <1>1
  <2>2. [s[Len(s)] EXCEPT !.part = "whole"] \in Piece
        /\ [s[Len(s)] EXCEPT !.part = "whole"].f = s[Len(s)].f
    BY <2>1 DEF Piece
  <2>3. t = [s EXCEPT ![Len(s)] = [s[Len(s)] EXCEPT !.part = "whole"]]
    BY <1>1
  <2> HIDE DEF t
  <2> QED
    BY <1>1, <2>2, <2>3
<1>4. rx' \in [Conns -> Seq(Piece)]
  <2>1. \A d \in Conns : rx'[d] \in Seq(Piece)
    BY <1>2, <1>3 DEF TypeInv
  <2> QED
    BY <2>1 DEF TypeInv
<1> HIDE DEF t
<1>5. \A d \in Conns : InRx(d)' = InRx(d)
  BY <1>2, <1>3 DEF InRx
<1>6. Pending' = Pending
  BY <1>5 DEF Pending
<1>7. \A d \in Conns : \A i, j \in DOMAIN rx'[d] : i < j => rx'[d][i].f.n < rx'[d][j].f.n
  BY <1>2, <1>3 DEF PendInv
<1> QED
  BY <1>4, <1>5, <1>6, <1>7 DEF PendInv

-----------------------------------------------------------------------------
(* Steps of the outputs *)

LEMMA Delivered ==
  ASSUME NEW q, Deliver(q)
  PROVE  /\ got' = q.got /\ missed' = q.missed /\ toCan' = q.toCan /\ tx' = q.tx
         /\ Shown(Out)' = Shown(q)
         /\ OutTyped(q) => OutTyped(Out)'
         /\ OutFine(q) => OutFine(Out)'
<1>1. got' = q.got /\ missed' = q.missed /\ toCan' = q.toCan /\ tx' = q.tx
  BY DEF Deliver
<1>2. Out'.got = q.got /\ Out'.missed = q.missed /\ Out'.toCan = q.toCan /\ Out'.tx = q.tx
  BY <1>1 DEF Out
<1> HIDE DEF Out
<1> QED
  BY <1>1, <1>2 DEF Shown, OutTyped, OutFine

LEMMA OutIs == Out.got = got /\ Out.missed = missed /\ Out.toCan = toCan /\ Out.tx = tx
  BY DEF Out

LEMMA OutIsNext ==
  Out'.got = got' /\ Out'.missed = missed' /\ Out'.toCan = toCan' /\ Out'.tx = tx'
  BY DEF Out

LEMMA OutSame ==
  ASSUME UNCHANGED <<got, missed, toCan>>
  PROVE  Shown(Out)' = Shown(Out) /\ (OutFine(Out) => OutFine(Out)')
<1>1. Out'.got = Out.got /\ Out'.missed = Out.missed /\ Out'.toCan = Out.toCan
  BY OutIs, OutIsNext
<1> HIDE DEF Out
<1> QED
  BY <1>1 DEF Shown, OutFine

LEMMA SettledStays ==
  ASSUME TypeInv, HistInv,
         \/ sent' = sent /\ Pending' \subseteq Pending
         \/ sent' = sent + 1 /\ \A g \in Pending' : g \in Pending \/ g.n = sent + 1,
         NEW h \in Shown(Out)
  PROVE  Settled(h)'
<1>1. h \in Message /\ h.n \in Int /\ sent \in Nat
  BY ShownTyped, NumberType, Sizes DEF TypeInv
<1>2. Settled(h)
  BY DEF HistInv
<1>3. CASE sent' = sent /\ Pending' \subseteq Pending
  BY <1>2, <1>3 DEF Settled, IsAnswer
<1>4. CASE sent' = sent + 1 /\ \A g \in Pending' : g \in Pending \/ g.n = sent + 1
  BY <1>1, <1>2, <1>4 DEF Settled, IsAnswer
<1> QED
  BY <1>3, <1>4

LEMMA HistStays ==
  ASSUME TypeInv, HistInv, OutFine(Out)',
         \/ sent' = sent /\ Pending' \subseteq Pending
         \/ sent' = sent + 1 /\ \A g \in Pending' : g \in Pending \/ g.n = sent + 1,
         \A h \in Shown(Out)' : h \in Shown(Out) \/ Settled(h)'
  PROVE  HistInv'
  BY SettledStays DEF HistInv

LEMMA MissedSame ==
  ASSUME UNCHANGED <<got, missed, est, since, rsend, cmsg>>, MissedIsResent
  PROVE  MissedIsResent'
  BY DEF MissedIsResent, Times

LEMMA RetrySame ==
  ASSUME UNCHANGED <<got, missed, toCan, est, since, rsend, cmsg, sent, canIn>>,
         rsend => pc' # "recv", RetryInv
  PROVE  RetryInv'
<1>1. Shown(Out)' = Shown(Out)
  BY OutSame
<1> HIDE DEF Out
<1> QED
  BY <1>1 DEF RetryInv, Times

\* Broadcasts of frames that are not from CAN leave alone what is known of those that are.
LEMMA NotFromCan ==
  ASSUME TypeInv, RetryInv, MissedIsResent, NEW q, NEW G, Later(Out, q, G), Deliver(q),
         \A h \in G : h.src # CAN, UNCHANGED <<est, since, rsend, cmsg, sent, canIn>>,
         rsend => pc' # "recv"
  PROVE  RetryInv' /\ MissedIsResent'
<1>1. /\ got' = q.got /\ missed' = q.missed /\ Shown(Out)' = Shown(q)
      /\ \A c \in Conns : q.missed[c] \in Seq(Message)
  BY Delivered DEF Later, OutTyped
<1>2. \A c \in Conns : \A h \in Message : h.src = CAN =>
         /\ h \in ToSet(got'[c]) <=> h \in ToSet(got[c])
         /\ h \in ToSet(missed'[c]) <=> h \in ToSet(missed[c])
         /\ Times(h, missed'[c]) = Times(h, missed[c])
  <2>1. \A h \in Message : h.src = CAN => h \notin G
    OBVIOUS
  <2> QED
    BY <1>1, <2>1, OutIs DEF Later
<1>3. \A h \in Shown(Out)' : h.src = CAN => h \in Shown(Out)
  BY <1>1 DEF Later
<1>4. est \in SUBSET Conns /\ cmsg \in Message
  BY DEF TypeInv
<1> HIDE DEF Out
<1>5. RetryInv'
  <2> SUFFICES ASSUME rsend' PROVE RetryInv'
    BY DEF RetryInv
  <2>1. /\ pc' # "recv" /\ cmsg'.src = CAN /\ cmsg'.kind \in Kinds /\ cmsg'.n <= sent'
        /\ \A h \in Shown(Out)' : h.src = CAN => h.n <= cmsg'.n
        /\ \A g \in ToSet(canIn)' : cmsg'.n < g.n
    BY <1>3 DEF RetryInv
  <2>2. \A c \in est' : since'[c] < cmsg'.n =>
          cmsg' \in ToSet(got'[c]) \/ Times(cmsg', missed'[c]) = 1
    BY <1>2, <1>4 DEF RetryInv
  <2> QED
    BY <2>1, <2>2 DEF RetryInv
<1>6. MissedIsResent'
  <2> SUFFICES ASSUME NEW c \in est, NEW f \in ToSet(missed'[c]), f.src = CAN, f.n > since[c]
               PROVE  f \in ToSet(got'[c]) \/ Times(f, missed'[c]) = 2 \/ (rsend' /\ cmsg' = f)
    BY DEF MissedIsResent
  <2>1. f \in Message
    BY <1>1, <1>4, AppendFacts DEF ToSet
  <2> QED
    BY <1>2, <1>4, <2>1 DEF MissedIsResent
<1> QED
  BY <1>5, <1>6

\* A connection is gone, and the track may be switched off.
LEMMA DropOut ==
  ASSUME TypeInv, HistInv, RetryInv, MissedIsResent, SinceInv, NEW c \in Conns, Drop(c),
         toCan' \in {toCan, Append(toCan, Own("RTOF", 0))},
         UNCHANGED <<rsend, cmsg, sent, canIn>>, rsend => pc' # "recv"
  PROVE  /\ OutTyped(Out)' /\ OutFine(Out)'
         /\ \A h \in Shown(Out)' : h \in Shown(Out) \/ h = Own("RTOF", 0)
         /\ RetryInv' /\ MissedIsResent' /\ SinceInv'
         /\ est' \in SUBSET Conns /\ since' \in [Conns -> 0..MaxFrames]
<1> DEFINE r == Own("RTOF", 0)
<1>1. r \in Message /\ r.src = Node /\ r.kind = "RTOF"
  BY Sizes DEF Own, Message
<1> HIDE DEF r
<1>2. /\ tx \in [Conns -> 0..Room] /\ toCan \in Seq(Message) /\ since \in [Conns -> 0..MaxFrames]
      /\ got \in [Conns -> Seq(Message)] /\ missed \in [Conns -> Seq(Message)]
  BY OutIs DEF TypeInv, OutTyped
<1>3. /\ \A d \in Conns : got'[d] = IF d = c THEN <<>> ELSE got[d]
      /\ \A d \in Conns : missed'[d] = IF d = c THEN <<>> ELSE missed[d]
      /\ \A d \in Conns : since'[d] = IF d = c THEN 0 ELSE since[d]
      /\ est' = est \ {c}
  BY <1>2 DEF Drop
<1>4. /\ tx' \in [Conns -> 0..Room] /\ got' \in [Conns -> Seq(Message)]
      /\ missed' \in [Conns -> Seq(Message)] /\ since' \in [Conns -> 0..MaxFrames]
  BY <1>2, Sizes DEF Drop
<1>5. /\ Append(toCan, r) \in Seq(Message) /\ ToSet(Append(toCan, r)) = ToSet(toCan) \union {r}
      /\ toCan' \in {toCan, Append(toCan, r)}
  BY <1>1, <1>2, AppendFacts DEF r
<1>6. OutTyped(Out)'
  BY <1>2, <1>4, <1>5, OutIsNext DEF OutTyped
<1>7. ASSUME NEW h \in Shown(Out)' PROVE h \in Shown(Out) \/ h = r
  <2>1. h \in ToSet(toCan') \/ \E d \in Conns : h \in ToSet(got'[d]) \/ h \in ToSet(missed'[d])
    BY ShownIs, OutIsNext, <1>7 DEF Shown
  <2>2. \A d \in Conns : (h \in ToSet(got'[d]) => h \in ToSet(got[d]))
                         /\ (h \in ToSet(missed'[d]) => h \in ToSet(missed[d]))
    BY <1>3 DEF ToSet
  <2>3. h \in ToSet(toCan') => h \in ToSet(toCan) \/ h = r
    BY <1>5
  <2> QED
    BY <2>1, <2>2, <2>3, ShownIs, OutIs
<1>8. OutFine(Out)'
  <2>1. Ordered(toCan) /\ Once(toCan)
    BY OutIs DEF HistInv, OutFine
  <2>2. Follows(toCan, r)
    BY <1>1 DEF Follows, Repeatable
  <2>3. Ordered(toCan') /\ Once(toCan')
    BY <1>1, <1>2, <1>5, <2>1, <2>2, AppendFine
  <2>4. ASSUME NEW d \in Conns
        PROVE  Ordered(got'[d]) /\ Once(got'[d]) /\ \A h \in ToSet(got'[d]) : h.src # d
    <3>1. CASE d = c
      BY <3>1, <1>3 DEF Ordered, Once, ToSet
    <3>2. CASE d # c
      BY <3>2, <1>3, OutIs DEF HistInv, OutFine
    <3> QED
      BY <3>1, <3>2
  <2> QED
    BY <2>3, <2>4, OutIsNext DEF OutFine
<1>9. SinceInv'
  <2>1. sent' = sent /\ 0 <= sent
    BY Sizes DEF TypeInv
  <2> QED
    BY <1>3, <2>1 DEF SinceInv
<1>10. est \in SUBSET Conns
  BY DEF TypeInv
<1>11. MissedIsResent'
  BY <1>3, <1>10 DEF MissedIsResent, Times
<1>12. RetryInv'
  <2> SUFFICES ASSUME rsend' PROVE RetryInv'
    BY DEF RetryInv
  <2>1. \A h \in Shown(Out)' : h.src = CAN => h.n <= cmsg'.n
    BY <1>1, <1>7, Sizes DEF RetryInv
  <2>2. \A d \in est' : since'[d] < cmsg'.n =>
          cmsg' \in ToSet(got'[d]) \/ Times(cmsg', missed'[d]) = 1
    BY <1>3, <1>10 DEF RetryInv
  <2> QED
    BY <2>1, <2>2 DEF RetryInv
<1> QED
  BY <1>3, <1>4, <1>6, <1>7, <1>8, <1>9, <1>10, <1>11, <1>12 DEF r

-----------------------------------------------------------------------------
(* The steps *)

LEMMA GwInit == Init => GwInv
<1> SUFFICES ASSUME Init PROVE GwInv
  OBVIOUS
<1>1. 0 \in Conns /\ 0 \in 0..NConns /\ 0 \in 0..MaxFrames /\ 0 \in 0..MaxLost /\ 0 \in 0..MaxOpen
      /\ 0 \in 0..Room /\ \A c \in Conns : c # CAN
  BY Sizes DEF Conns
<1>2. NoFrame \in Message
  BY <1>1 DEF NoFrame, Message
<1>3. \A S : <<>> \in Seq(S)
  OBVIOUS
<1>4. OutTyped(Out)
  BY <1>1, <1>3, OutIs DEF Init, OutTyped
<1>5. TypeInv
  BY <1>1, <1>2, <1>3, <1>4 DEF Init, TypeInv
<1>6. ToSet(<<>>) = {} /\ DOMAIN <<>> = {}
  BY DEF ToSet
<1>7. \A c \in Conns : rx[c] = <<>> /\ got[c] = <<>> /\ missed[c] = <<>>
  BY DEF Init
<1>8. Shown(Out) = {}
  BY <1>6, <1>7, OutIs DEF Init, Shown
<1>9. OutFine(Out)
  BY <1>6, <1>7, OutIs DEF Init, OutFine, Ordered, Once
<1>10. \A c \in Conns : InRx(c) = {}
  BY <1>6, <1>7 DEF InRx
<1>11. Pending = {}
  BY <1>6, <1>10 DEF Init, Pending
<1>12. PendInv
  BY <1>6, <1>7, <1>10, <1>11 DEF Init, PendInv
<1>13. LoopInv /\ CountInv /\ RetryInv /\ SinceInv /\ MissedIsResent
  BY <1>1 DEF Init, LoopInv, CountInv, RetryInv, SinceInv, MissedIsResent
<1> QED
  BY <1>5, <1>8, <1>9, <1>12, <1>13 DEF GwInv, HistInv

LEMMA SentIsNat == ASSUME TypeInv PROVE sent \in Nat /\ lost \in Nat /\ maxq \in Nat /\ told \in Nat
  BY Sizes DEF TypeInv

LEMMA StepCanArrive == ASSUME GwInv, CanArrive PROVE GwInv'
<1>1. /\ UNCHANGED <<pc, conn, cmsg, rsend, est, rx, nrconn, nrClients, maxq,
                     tx, got, missed, toCan, opened, since, lost, told>>
      /\ sent < MaxFrames /\ pc = "recv" /\ sent' = sent + 1
  BY DEF CanArrive, outVars
<1>2. PICK k \in Kinds : canIn' = Append(canIn, Frame(CAN, k))
  BY DEF CanArrive
<1>3. TypeInv /\ PendInv /\ HistInv /\ ~rsend /\ sent \in Nat
  BY <1>1, SentIsNat DEF GwInv, RetryInv
<1>4. /\ PendInv' /\ canIn' \in Seq(Message)
      /\ \A g \in Pending' : g \in Pending \/ g.n = sent + 1
  BY <1>1, <1>2, <1>3, AddCan
<1>5. HistInv'
  BY <1>1, <1>3, <1>4, OutSame, HistStays DEF HistInv
<1>6. sent' \in 0..MaxFrames
  BY <1>1, <1>3, Sizes
<1>7. OutTyped(Out)'
  BY <1>1, <1>3, OutIs, OutIsNext DEF TypeInv, OutTyped
<1>8. TypeInv'
  BY <1>1, <1>3, <1>4, <1>6, <1>7 DEF TypeInv
<1>9. MissedIsResent'
  BY <1>1, MissedSame DEF GwInv
<1>10. RetryInv' /\ LoopInv' /\ CountInv'
  BY <1>1, <1>3 DEF GwInv, RetryInv, LoopInv, CountInv
<1>11. SinceInv'
  <2>1. \A c \in Conns : since[c] \in Int
    BY <1>3, Sizes DEF TypeInv
  <2> QED
    BY <1>1, <1>3, <2>1 DEF GwInv, SinceInv
<1> QED
  BY <1>4, <1>5, <1>8, <1>9, <1>10, <1>11 DEF GwInv

\* Steps that neither send nor take a frame.
LEMMA StepControl ==
  ASSUME GwInv, CanOverflow \/ RecvNone \/ StackDone \/ Clear
  PROVE  GwInv'
<1>1. /\ UNCHANGED <<cmsg, rsend, canIn, est, rx, tx, got, missed, toCan, sent, opened, since, told>>
      /\ pc' # "recv"
  BY DEF CanOverflow, RecvNone, StackDone, Clear, Unserved, outVars
<1>2. TypeInv /\ PendInv /\ HistInv /\ MissedIsResent /\ RetryInv
  BY DEF GwInv
<1>3. OutTyped(Out)'
  BY <1>1, <1>2, OutIs, OutIsNext DEF TypeInv, OutTyped
<1>4. PendInv' /\ Pending' = Pending
  BY <1>1, <1>2, PendSame
<1>5. HistInv'
  BY <1>1, <1>2, <1>4, OutSame, HistStays DEF HistInv
<1>6. MissedIsResent' /\ RetryInv' /\ SinceInv'
  BY <1>1, <1>2, MissedSame, RetrySame DEF GwInv, SinceInv
<1>7. /\ pc' \in {"recv", "eth", "proc", "report", "clear", "resend"}
      /\ conn' \in Conns /\ nrconn' \in 0..NConns /\ nrClients' \in 0..NConns
      /\ maxq' \in 0..MaxLost /\ lost' \in 0..MaxLost /\ LoopInv' /\ CountInv'
  <2>1. 0 \in Conns /\ 0 \in 0..NConns /\ 0 \in 0..MaxLost
    BY Sizes DEF Conns
  <2>2. /\ conn \in Conns /\ nrconn \in 0..NConns /\ nrClients \in 0..NConns
        /\ maxq \in 0..MaxLost /\ lost \in 0..MaxLost /\ told \in Nat /\ MaxLost \in Nat
        /\ pc \in {"recv", "eth", "proc", "report", "clear", "resend"}
        /\ LoopInv /\ CountInv
    BY <1>2, Sizes DEF TypeInv, GwInv
  <2>3. CASE CanOverflow
    <3>1. /\ UNCHANGED <<pc, conn, nrconn, nrClients>>
          /\ lost < MaxLost /\ lost' = lost + 1 /\ maxq' = maxq + 1 /\ told' = told
      BY <2>3 DEF CanOverflow
    <3> QED
      BY <2>2, <3>1 DEF LoopInv, CountInv
  <2>4. CASE RecvNone
    BY <2>2, <2>4, <1>1 DEF RecvNone, Unserved, LoopInv, CountInv
  <2>5. CASE StackDone
    <3>1. /\ UNCHANGED <<nrClients, maxq, lost, told>> /\ pc = "eth" /\ pc' = "proc"
          /\ conn' = 0 /\ nrconn' = 0
      BY <2>5 DEF StackDone
    <3> QED
      BY <2>1, <2>2, <3>1 DEF LoopInv, CountInv
  <2>6. CASE Clear
    <3>1. /\ UNCHANGED <<conn, nrconn, lost, told>> /\ pc = "clear" /\ pc' = "resend"
          /\ nrClients' = nrconn /\ maxq' = 0
      BY <2>6 DEF Clear
    <3> QED
      BY <2>1, <2>2, <3>1 DEF LoopInv, CountInv
  <2> QED
    BY <2>3, <2>4, <2>5, <2>6
<1>8. TypeInv'
  BY <1>1, <1>2, <1>3, <1>7 DEF TypeInv
<1> QED
  BY <1>4, <1>5, <1>6, <1>7, <1>8 DEF GwInv

\* The stack: connections come, frames arrive, buffers drain.
LEMMA StepConnect ==
  ASSUME GwInv, NEW c \in Conns, Connect(c)
  PROVE  GwInv'
<1>1. /\ UNCHANGED <<pc, conn, cmsg, rsend, canIn, nrconn, nrClients, maxq, toCan, lost, told,
                     rx, tx, got, missed, sent>>
      /\ pc = "eth" /\ opened' = opened + 1 /\ opened < MaxOpen /\ est' = est \union {c}
      /\ since' = [since EXCEPT ![c] = sent]
  BY DEF Connect, Stack
<1>2. TypeInv /\ PendInv /\ HistInv /\ MissedIsResent /\ RetryInv /\ SinceInv
      /\ sent \in 0..MaxFrames /\ opened \in 0..MaxOpen /\ since \in [Conns -> 0..MaxFrames]
  BY DEF GwInv, TypeInv
<1>3. OutTyped(Out)'
  BY <1>1, <1>2, OutIs, OutIsNext DEF TypeInv, OutTyped
<1>4. PendInv' /\ Pending' = Pending
  BY <1>1, <1>2, PendSame
<1>5. Shown(Out)' = Shown(Out) /\ HistInv'
  BY <1>1, <1>2, <1>4, OutSame, HistStays DEF HistInv
<1>6. /\ since' \in [Conns -> 0..MaxFrames] /\ opened' \in 0..MaxOpen
      /\ \A d \in Conns : since'[d] = IF d = c THEN sent ELSE since[d]
  BY <1>1, <1>2, Sizes
<1>7. TypeInv' /\ LoopInv' /\ CountInv'
  BY <1>1, <1>2, <1>3, <1>6 DEF GwInv, TypeInv, LoopInv, CountInv
<1>8. SinceInv'
  BY <1>1, <1>2, <1>6 DEF SinceInv
<1> HIDE DEF Out
<1>9. RetryInv'
  <2> SUFFICES ASSUME rsend PROVE RetryInv'
    BY <1>1 DEF RetryInv
  <2>1. cmsg.n <= sent /\ cmsg.n \in Int
    BY <1>2, NumberType DEF RetryInv, TypeInv
  <2>2. ASSUME NEW d \in est', since'[d] < cmsg'.n
        PROVE  cmsg' \in ToSet(got'[d]) \/ Times(cmsg', missed'[d]) = 1
    <3>1. d \in Conns /\ (d = c \/ d \in est)
      BY <1>1, <1>2 DEF TypeInv
    <3>2. d # c
      BY <1>1, <1>2, <1>6, <2>1, <2>2, Sizes
    <3> QED
      BY <1>1, <1>2, <1>6, <2>2, <3>1, <3>2 DEF RetryInv
  <2> QED
    BY <1>1, <1>2, <1>5, <2>2 DEF RetryInv
<1>10. MissedIsResent'
  <2>1. ASSUME NEW f \in ToSet(missed[c]), f.src = CAN PROVE f.n \in Int /\ f.n <= sent
    <3>1. f \in Shown(Out)
      BY <2>1, ShownIs, OutIs
    <3>2. f \in Message
      BY <1>2, <3>1, ShownTyped DEF TypeInv
    <3> QED
      BY <1>2, <2>1, <3>1, <3>2, NumberType, Sizes DEF HistInv, Settled
  <2> SUFFICES ASSUME NEW d \in est', NEW f \in ToSet(missed[d]), f.src = CAN, f.n > since'[d]
               PROVE  f \in ToSet(got[d]) \/ Times(f, missed[d]) = 2 \/ (rsend /\ cmsg = f)
    BY <1>1 DEF MissedIsResent, Times
  <2>2. d \in Conns /\ (d = c \/ d \in est)
    BY <1>1, <1>2 DEF TypeInv
  <2>3. d # c
    BY <1>2, <1>6, <2>1, Sizes
  <2> QED
    BY <1>2, <1>6, <2>2, <2>3 DEF MissedIsResent
<1> QED
  BY <1>4, <1>5, <1>7, <1>8, <1>9, <1>10 DEF GwInv

LEMMA StepArrive ==
  ASSUME GwInv, NEW c \in Conns, NEW k \in Kinds, NEW p \in {"whole", "head"}, Arrive(c, k, p)
  PROVE  GwInv'
<1>1. /\ UNCHANGED <<pc, conn, cmsg, rsend, canIn, nrconn, nrClients, maxq, toCan, lost, told,
                     est, tx, got, missed, opened, since>>
      /\ pc = "eth" /\ sent < MaxFrames /\ sent' = sent + 1
      /\ rx' = [rx EXCEPT ![c] = Append(@, [f |-> Frame(c, k), part |-> p])]
  BY DEF Arrive, Stack
<1>2. TypeInv /\ PendInv /\ HistInv /\ MissedIsResent /\ RetryInv /\ SinceInv /\ sent \in Nat
  BY SentIsNat DEF GwInv
<1>3. OutTyped(Out)'
  BY <1>1, <1>2, OutIs, OutIsNext DEF TypeInv, OutTyped
<1>4. /\ PendInv' /\ rx' \in [Conns -> Seq(Piece)]
      /\ \A g \in Pending' : g \in Pending \/ g.n = sent + 1
  BY <1>1, <1>2, AddRx
<1>5. Shown(Out)' = Shown(Out) /\ HistInv'
  BY <1>1, <1>2, <1>4, OutSame, HistStays DEF HistInv
<1>6. sent' \in 0..MaxFrames
  BY <1>1, <1>2, Sizes
<1>7. TypeInv' /\ LoopInv' /\ CountInv'
  BY <1>1, <1>2, <1>3, <1>4, <1>6 DEF GwInv, TypeInv, LoopInv, CountInv
<1>8. SinceInv'
  <2>1. \A d \in Conns : since[d] \in Int
    BY <1>2, Sizes DEF TypeInv
  <2> QED
    BY <1>1, <1>2, <2>1 DEF SinceInv
<1> HIDE DEF Out
<1>9. RetryInv'
  <2>1. rsend => cmsg.n <= sent + 1
    BY <1>2, NumberType DEF RetryInv, TypeInv
  <2> QED
    BY <1>1, <1>2, <1>5, <2>1 DEF RetryInv, Times
<1>10. MissedIsResent'
  BY <1>1, <1>2, MissedSame
<1> QED
  BY <1>4, <1>5, <1>7, <1>8, <1>9, <1>10 DEF GwInv

LEMMA StepArriveRest ==
  ASSUME GwInv, NEW c \in Conns, ArriveRest(c) \/ Drain(c)
  PROVE  GwInv'
<1>1. /\ UNCHANGED <<pc, conn, cmsg, rsend, canIn, nrconn, nrClients, maxq, toCan, lost, told,
                     est, got, missed, sent, opened, since>>
      /\ pc = "eth"
  BY DEF ArriveRest, Drain, Stack
<1>2. TypeInv /\ PendInv /\ HistInv /\ MissedIsResent /\ RetryInv
  BY DEF GwInv
<1>3. PendInv' /\ rx' \in [Conns -> Seq(Piece)] /\ Pending' = Pending
  <2>1. CASE ArriveRest(c)
    BY <1>1, <1>2, <2>1, RestRx DEF ArriveRest
  <2>2. CASE Drain(c)
    BY <1>1, <1>2, <2>2, PendSame DEF Drain, TypeInv
  <2> QED
    BY <2>1, <2>2
<1>4. tx' \in [Conns -> 0..Room]
  <2>1. tx \in [Conns -> 0..Room]
    BY <1>2, OutIs DEF TypeInv, OutTyped
  <2>2. CASE ArriveRest(c)
    BY <2>1, <2>2 DEF ArriveRest
  <2>3. CASE Drain(c)
    BY <2>1, <2>3, Sizes DEF Drain
  <2> QED
    BY <2>2, <2>3
<1>5. OutTyped(Out)'
  BY <1>1, <1>2, <1>4, OutIs, OutIsNext DEF TypeInv, OutTyped
<1>6. HistInv'
  BY <1>1, <1>2, <1>3, OutSame, HistStays DEF HistInv
<1>7. TypeInv' /\ LoopInv' /\ CountInv' /\ SinceInv'
  BY <1>1, <1>2, <1>3, <1>5 DEF GwInv, TypeInv, LoopInv, CountInv, SinceInv
<1>8. MissedIsResent' /\ RetryInv'
  BY <1>1, <1>2, MissedSame, RetrySame
<1> QED
  BY <1>3, <1>6, <1>7, <1>8 DEF GwInv

\* A connection is closed by the client, or by CBusEthServer for being idle.
LEMMA StepDisconnect ==
  ASSUME GwInv, NEW c \in Conns, Disconnect(c)
  PROVE  GwInv'
<1>1. /\ UNCHANGED <<pc, conn, cmsg, rsend, canIn, nrconn, nrClients, maxq, toCan, lost, told,
                     sent, opened>>
      /\ pc = "eth" /\ Drop(c)
  BY DEF Disconnect, Stack
<1>2. TypeInv /\ PendInv /\ HistInv /\ MissedIsResent /\ RetryInv /\ SinceInv
  BY DEF GwInv
<1>3. /\ OutTyped(Out)' /\ OutFine(Out)'
      /\ \A h \in Shown(Out)' : h \in Shown(Out) \/ h = Own("RTOF", 0)
      /\ RetryInv' /\ MissedIsResent' /\ SinceInv'
      /\ est' \in SUBSET Conns /\ since' \in [Conns -> 0..MaxFrames]
  BY <1>1, <1>2, DropOut
<1>4. PendInv' /\ rx' \in [Conns -> Seq(Piece)] /\ Pending' \subseteq Pending
  BY <1>1, <1>2, DropRx DEF Drop
<1>5. HistInv'
  BY <1>1, <1>2, <1>3, <1>4, HistStays DEF Own, Settled, IsAnswer
<1>6. TypeInv' /\ LoopInv' /\ CountInv'
  BY <1>1, <1>2, <1>3, <1>4 DEF GwInv, TypeInv, LoopInv, CountInv
<1> QED
  BY <1>3, <1>4, <1>5, <1>6 DEF GwInv

LEMMA StepNextConn ==
  ASSUME GwInv, NextConn
  PROVE  GwInv'
<1>1. /\ UNCHANGED <<cmsg, rsend, canIn, nrClients, maxq, sent, opened, lost, told>>
      /\ pc = "proc"
      /\ nrconn' = (IF conn \in est THEN nrconn + 1 ELSE nrconn)
      /\ conn' = (IF conn + 1 = NConns THEN 0 ELSE conn + 1)
      /\ pc' = (IF conn + 1 = NConns THEN "report" ELSE "proc")
  BY DEF NextConn
<1>2. TypeInv /\ PendInv /\ HistInv /\ MissedIsResent /\ RetryInv /\ SinceInv
      /\ conn \in Conns /\ nrconn \in 0..NConns /\ LoopInv /\ CountInv
  BY DEF GwInv, TypeInv
<1>3. conn' \in Conns /\ nrconn' \in 0..NConns /\ LoopInv' /\ CountInv'
      /\ pc' \in {"proc", "report"}
  BY <1>1, <1>2, Sizes DEF LoopInv, CountInv, Conns
<1>4. CASE UNCHANGED <<est, rx, tx, got, missed, since, toCan>>
  <2>1. OutTyped(Out)'
    BY <1>2, <1>4, OutIs, OutIsNext DEF TypeInv, OutTyped
  <2>2. PendInv' /\ Pending' = Pending
    BY <1>1, <1>2, <1>4, PendSame
  <2>3. HistInv'
    BY <1>1, <1>2, <1>4, <2>2, OutSame, HistStays DEF HistInv
  <2>4. MissedIsResent' /\ RetryInv' /\ SinceInv'
    BY <1>1, <1>2, <1>3, <1>4, MissedSame, RetrySame DEF SinceInv
  <2>5. TypeInv'
    BY <1>1, <1>2, <1>3, <1>4, <2>1 DEF TypeInv
  <2> QED
    BY <1>3, <2>2, <2>3, <2>4, <2>5 DEF GwInv
<1>5. CASE /\ Drop(conn)
           /\ toCan' = IF PowerOff THEN Append(toCan, Own("RTOF", 0)) ELSE toCan
  <2>1. /\ OutTyped(Out)' /\ OutFine(Out)'
        /\ \A h \in Shown(Out)' : h \in Shown(Out) \/ h = Own("RTOF", 0)
        /\ RetryInv' /\ MissedIsResent' /\ SinceInv'
        /\ est' \in SUBSET Conns /\ since' \in [Conns -> 0..MaxFrames]
    BY <1>1, <1>2, <1>3, <1>5, DropOut
  <2>2. PendInv' /\ rx' \in [Conns -> Seq(Piece)] /\ Pending' \subseteq Pending
    BY <1>1, <1>2, <1>5, DropRx DEF Drop
  <2>3. HistInv'
    BY <1>1, <1>2, <2>1, <2>2, HistStays DEF Own, Settled, IsAnswer
  <2>4. TypeInv'
    BY <1>1, <1>2, <1>3, <2>1, <2>2 DEF TypeInv
  <2> QED
    BY <1>3, <2>1, <2>2, <2>3, <2>4 DEF GwInv
<1> QED
  BY <1>4, <1>5 DEF NextConn

\* Everyone is told the number of clients, and of lost frames.
LEMMA StepReport ==
  ASSUME GwInv, Report
  PROVE  GwInv'
<1>0. PICK g : g = Own("Yreport", nrconn)
  OBVIOUS
<1> DEFINE q == Broadcast(Out, g, All)
<1>1. /\ UNCHANGED <<conn, rsend, rx, nrconn, maxq, cmsg, canIn, est, nrClients, sent, opened,
                     since, lost>>
      /\ pc = "report"
  BY DEF Report, Served
<1>2. TypeInv /\ PendInv /\ HistInv /\ MissedIsResent /\ RetryInv /\ SinceInv /\ CountInv
      /\ nrconn \in 0..NConns /\ OutTyped(Out) /\ OutFine(Out) /\ est \in SUBSET Conns
  BY DEF GwInv, TypeInv, HistInv
<1>3. PendInv' /\ Pending' = Pending
  BY <1>1, <1>2, PendSame
<1>4. told \in Nat /\ maxq \in Nat /\ lost \in Nat
  BY <1>2, SentIsNat
<1>5. CASE nrconn # nrClients
  <2>1. Deliver(q) /\ told' = told + maxq /\ pc' = "clear"
    BY <1>0, <1>5 DEF Report
  <2>2. g \in Message /\ g.src = Node /\ g.kind = "Yreport"
    BY <1>0, <1>2, Sizes DEF Own, Message, Conns
  <2>3. Later(Out, q, {g})
    <3>1. Fresh(Out, g) /\ g.src \notin Conns
      BY <2>2, Sizes DEF Fresh, Repeatable
    <3> QED
      BY <1>2, <2>2, <3>1, BroadcastLater
  <2> HIDE DEF q
  <2>4. OutTyped(Out)' /\ OutFine(Out)' /\ Shown(Out)' = Shown(q)
    BY <2>1, <2>3, Delivered DEF Later
  <2>5. Settled(g)'
    BY <2>2 DEF Settled, IsAnswer
  <2>6. HistInv'
    BY <1>1, <1>2, <1>3, <2>3, <2>4, <2>5, HistStays DEF Later
  <2>7. RetryInv' /\ MissedIsResent'
    BY <1>1, <1>2, <2>1, <2>2, <2>3, NotFromCan, Sizes
  <2>8. TypeInv' /\ LoopInv' /\ SinceInv'
    BY <1>1, <1>2, <1>4, <2>1, <2>4 DEF TypeInv, LoopInv, SinceInv
  <2>9. CountInv'
    BY <1>1, <1>2, <1>4, <2>1 DEF CountInv
  <2> QED
    BY <1>3, <2>6, <2>7, <2>8, <2>9 DEF GwInv
<1>6. CASE nrconn = nrClients
  <2>1. pc' = "resend" /\ UNCHANGED <<tx, got, missed, toCan, told>>
    BY <1>6 DEF Report, outVars
  <2>2. OutTyped(Out)'
    BY <1>2, <2>1, OutIs, OutIsNext DEF OutTyped
  <2>3. HistInv'
    BY <1>1, <1>2, <1>3, <2>1, OutSame, HistStays DEF HistInv
  <2>4. MissedIsResent' /\ RetryInv' /\ SinceInv'
    BY <1>1, <1>2, <2>1, MissedSame, RetrySame DEF SinceInv
  <2>5. TypeInv' /\ LoopInv' /\ CountInv'
    BY <1>1, <1>2, <2>1, <2>2 DEF TypeInv, LoopInv, CountInv
  <2> QED
    BY <1>3, <2>3, <2>4, <2>5 DEF GwInv
<1> QED
  BY <1>5, <1>6

\* A frame that is taken from its queue, and its answers, are settled.
LEMMA TakenSettled ==
  ASSUME TypeInv, PendInv, NEW f \in Pending, f.src # Node, UNCHANGED sent,
         \A g \in Pending' : g.n # f.n /\ (g.src = f.src => f.n < g.n)
  PROVE  /\ Settled(f)' /\ \A h \in Answers(f.n) : Settled(h)'
         /\ f \in Message /\ f.n \in 0..MaxFrames
         /\ \A h \in Answers(f.n) : h.src = Node
<1>1. f \in Message /\ f.n \in 1..sent /\ f.n \in 0..MaxFrames /\ f.n <= sent
  BY PendingType, Sizes DEF PendInv, TypeInv
<1>2. \A h \in Answers(f.n) : h.src = Node /\ h.n = f.n
  BY <1>1, OwnFacts DEF Answers
<1> QED
  BY <1>1, <1>2 DEF Settled, IsAnswer

\* Nothing of a frame that waits has gone out.
LEMMA WaitingUnseen ==
  ASSUME TypeInv, HistInv, NEW f \in Pending, f.src # Node
  PROVE  Unanswered(Out, f.n) /\ \A h \in Shown(Out) : h.src = f.src => h.n < f.n
  BY DEF HistInv, Settled, Unanswered

\* CBusEthProcess: a frame from a client is parsed and passed on.
LEMMA StepGetFrame ==
  ASSUME GwInv, GetFrame
  PROVE  GwInv'
<1>0. PICK f : f = Head(rx[conn]).f
  OBVIOUS
<1> DEFINE q == RelayOf(Out, f, conn)
<1>1. /\ UNCHANGED <<pc, conn, rsend, nrconn, cmsg, canIn, est, nrClients, sent, opened, since,
                     lost>>
      /\ pc = "proc" /\ conn \in est /\ rx[conn] # <<>>
      /\ rx' = [rx EXCEPT ![conn] = Tail(@)]
  BY DEF GetFrame, Parse, Served
<1>2. TypeInv /\ PendInv /\ HistInv /\ MissedIsResent /\ RetryInv /\ SinceInv /\ CountInv
      /\ OutTyped(Out) /\ OutFine(Out) /\ est \in SUBSET Conns /\ conn \in Conns
  BY DEF GwInv, TypeInv, HistInv
<1>3. /\ f \in Message /\ f \in Pending /\ f.src = conn
      /\ rx' \in [Conns -> Seq(Piece)] /\ PendInv' /\ Pending' \subseteq Pending
      /\ \A g \in Pending' : g.n # f.n /\ (g.src = conn => f.n < g.n)
  BY <1>0, <1>1, <1>2, TakeRx
<1>4. told \in Nat /\ maxq \in 0..MaxLost /\ lost \in Nat
  BY <1>2, SentIsNat DEF TypeInv
<1>5. SinceInv' /\ f.src # Node /\ f.src # CAN
  BY <1>1, <1>2, <1>3, Sizes DEF SinceInv
<1>6. LoopInv'
  BY <1>1 DEF GwInv, LoopInv
<1>7. CASE Head(rx[conn]).part = "whole"
  <2>1. Deliver(q) /\ TellLost(f)
    BY <1>0, <1>7 DEF GetFrame, Parse, RelayOf
  <2>2. /\ Settled(f)' /\ \A h \in Answers(f.n) : Settled(h)'
        /\ f.n \in 0..MaxFrames /\ \A h \in Answers(f.n) : h.src = Node
    BY <1>1, <1>2, <1>3, <1>5, TakenSettled
  <2>3. Unanswered(Out, f.n) /\ \A h \in Shown(Out) : h.src = f.src => h.n < f.n
    BY <1>2, <1>3, <1>5, WaitingUnseen
  <2>4. Later(Out, q, Answers(f.n) \union {f})
    BY <1>2, <1>3, <1>5, <2>2, <2>3, RelayLater
  <2> HIDE DEF q
  <2>5. OutTyped(Out)' /\ OutFine(Out)' /\ Shown(Out)' = Shown(q)
    BY <2>1, <2>4, Delivered DEF Later
  <2>6. HistInv'
    BY <1>1, <1>2, <1>3, <2>2, <2>4, <2>5, HistStays DEF Later
  <2>7. \A h \in Answers(f.n) \union {f} : h.src # CAN
    BY <1>5, <2>2, Sizes
  <2>8. RetryInv' /\ MissedIsResent'
    BY <1>1, <1>2, <2>1, <2>4, <2>7, NotFromCan
  <2>9. maxq' \in 0..MaxLost /\ told' \in Nat /\ CountInv'
    BY <1>1, <1>2, <1>4, <2>1, Sizes DEF TellLost, CountInv
  <2>10. TypeInv'
    BY <1>1, <1>2, <1>3, <2>5, <2>9 DEF TypeInv
  <2> QED
    BY <1>3, <1>5, <1>6, <2>6, <2>8, <2>9, <2>10 DEF GwInv
<1>8. CASE Head(rx[conn]).part # "whole"
  <2>1. UNCHANGED <<tx, got, missed, toCan, maxq, told>>
    BY <1>8 DEF GetFrame, Parse, outVars
  <2>2. OutTyped(Out)'
    BY <1>2, <2>1, OutIs, OutIsNext DEF OutTyped
  <2>3. HistInv'
    BY <1>1, <1>2, <1>3, <2>1, OutSame, HistStays DEF HistInv
  <2>4. MissedIsResent' /\ RetryInv'
    BY <1>1, <1>2, <2>1, MissedSame, RetrySame
  <2>5. TypeInv' /\ CountInv'
    BY <1>1, <1>2, <1>3, <2>1, <2>2 DEF TypeInv, CountInv
  <2> QED
    BY <1>3, <1>5, <1>6, <2>3, <2>4, <2>5 DEF GwInv
<1> QED
  BY <1>7, <1>8

\* A frame that is passed on reaches every connection, or is missed there, once.
LEMMA RelayReaches ==
  ASSUME NEW o, OutTyped(o), OutFine(o), est \in SUBSET Conns,
         NEW f \in Message, f.n \in 0..MaxFrames, f.src # Node, Unanswered(o, f.n),
         \A h \in Shown(o) : h.src = f.src => h.n < f.n, Relayed(f),
         NEW x, NEW c \in est, c # x
  PROVE  IF ParseCmdEth(o, f).tx[c] = Room THEN Times(f, RelayOf(o, f, x).missed[c]) = 1
                                           ELSE f \in ToSet(RelayOf(o, f, x).got[c])
<1> DEFINE p == ParseCmdEth(o, f)
           q == Broadcast(p, f, x)
<1>1. Later(o, p, Answers(f.n)) /\ \A h \in Answers(f.n) : h.src = Node
  BY ParseLater, OwnFacts DEF Answers
<1>2. f \notin Shown(o)
  BY NumberType
<1>3. OutTyped(p) /\ f \notin Shown(p)
  BY <1>1, <1>2 DEF Later
<1>4. RelayOf(o, f, x) = q /\ f.kind # "Yreport"
  BY DEF RelayOf, Relayed
<1> HIDE DEF p
<1>5. IF p.tx[c] = Room THEN q.missed[c] = Append(p.missed[c], f) /\ q.got[c] = p.got[c]
                        ELSE q.got[c] = Append(p.got[c], f) /\ q.missed[c] = p.missed[c]
  BY <1>3, <1>4, BroadcastAdds
<1> HIDE DEF q
<1>6. c \in Conns /\ p.missed[c] \in Seq(Message) /\ p.got[c] \in Seq(Message)
  BY <1>3 DEF OutTyped
<1>7. f \notin ToSet(p.missed[c])
  BY <1>3, <1>6, ShownIs
<1>8. Times(f, Append(p.missed[c], f)) = 1
  BY <1>6, <1>7, TimesFacts
<1>9. f \in ToSet(Append(p.got[c], f))
  BY <1>6, AppendFacts
<1> QED
  BY <1>4, <1>5, <1>8, <1>9 DEF p

\* A frame from CAN is parsed and passed on; it is kept when a connection has no room.
LEMMA StepRecv ==
  ASSUME GwInv, Recv
  PROVE  GwInv'
<1>0. PICK f : f = Head(canIn)
  OBVIOUS
<1> DEFINE p == ParseCmdEth(Out, f)
           q == RelayOf(Out, f, NotCAN)
           retry == Relayed(f) /\ Failed(p, NotCAN)
<1>1. /\ UNCHANGED <<maxq, told, conn, est, rx, nrconn, nrClients, sent, opened, since, lost>>
      /\ pc = "recv" /\ canIn # <<>> /\ canIn' = Tail(canIn)
  BY DEF Recv, Unserved
<1>2. /\ cmsg' = (IF retry THEN f ELSE cmsg) /\ rsend' = retry
      /\ pc' = (IF retry THEN "eth" ELSE "recv") /\ Deliver(q)
  BY <1>0 DEF Recv, RelayOf
<1>3. TypeInv /\ PendInv /\ HistInv /\ MissedIsResent /\ ~rsend /\ SinceInv /\ CountInv
      /\ OutTyped(Out) /\ OutFine(Out) /\ est \in SUBSET Conns /\ cmsg \in Message
  BY <1>1 DEF GwInv, TypeInv, HistInv, RetryInv
<1>4. /\ f \in Message /\ f \in Pending /\ f.src = CAN
      /\ canIn' \in Seq(Message) /\ PendInv' /\ Pending' \subseteq Pending
      /\ \A g \in Pending' : g.n # f.n /\ (g.src = CAN => f.n < g.n)
  BY <1>0, <1>1, <1>3, TakeCan
<1>5. f.src # Node /\ f.src \notin Conns /\ NotCAN \notin Conns /\ f.kind \in Kinds /\ f.n <= sent
  BY <1>3, <1>4, Sizes DEF PendInv, CAN
<1>6. /\ Settled(f)' /\ \A h \in Answers(f.n) : Settled(h)'
      /\ f.n \in 0..MaxFrames /\ \A h \in Answers(f.n) : h.src = Node
  BY <1>1, <1>3, <1>4, <1>5, TakenSettled
<1>7. Unanswered(Out, f.n) /\ \A h \in Shown(Out) : h.src = f.src => h.n < f.n
  BY <1>3, <1>4, <1>5, WaitingUnseen
<1>8. Later(Out, q, Answers(f.n) \union {f}) /\ Later(Out, p, Answers(f.n))
  BY <1>3, <1>4, <1>5, <1>6, <1>7, RelayLater, ParseLater
<1>9. Relayed(f) => \A c \in est : IF p.tx[c] = Room THEN Times(f, q.missed[c]) = 1
                                                     ELSE f \in ToSet(q.got[c])
  BY <1>3, <1>4, <1>5, <1>6, <1>7, RelayReaches
<1>10. \A c \in est : Relayed(f) /\ p.tx[c] = Room => retry
  BY <1>3, <1>5 DEF Failed
<1>11. ~Relayed(f) => q = p
  BY DEF RelayOf
<1> HIDE DEF p, q, retry
<1>12. /\ OutTyped(Out)' /\ OutFine(Out)' /\ Shown(Out)' = Shown(q)
       /\ got' = q.got /\ missed' = q.missed
       /\ \A c \in Conns : q.missed[c] \in Seq(Message)
  BY <1>2, <1>8, Delivered DEF Later, OutTyped
<1>13. HistInv'
  BY <1>1, <1>3, <1>4, <1>6, <1>8, <1>12, HistStays DEF Later
<1>14. \A g \in ToSet(canIn)' : f.n < g.n
  BY <1>4 DEF PendInv, Pending
<1>15. RetryInv'
  <2> SUFFICES ASSUME retry PROVE RetryInv'
    BY <1>2 DEF RetryInv
  <2>1. Relayed(f) /\ cmsg' = f /\ pc' = "eth"
    BY <1>2 DEF retry
  <2>2. \A h \in Shown(Out)' : h.src = CAN => h.n <= f.n
    <3>1. \A h \in Shown(Out) : h.src = CAN => h.n <= f.n
      BY <1>3, <1>4, <1>7, ShownTyped, NumberType
    <3>2. f.n <= f.n
      BY <1>4, NumberType
    <3> QED
      BY <1>6, <1>8, <1>12, <3>1, <3>2, Sizes DEF Later
  <2>3. \A c \in est' : cmsg' \in ToSet(got'[c]) \/ Times(cmsg', missed'[c]) = 1
    BY <1>1, <1>9, <1>12, <2>1
  <2> QED
    BY <1>1, <1>4, <1>5, <1>14, <2>1, <2>2, <2>3 DEF RetryInv
<1>16. MissedIsResent'
  <2> SUFFICES ASSUME NEW c \in est, NEW h \in ToSet(missed'[c]), h.src = CAN, h.n > since[c]
               PROVE  h \in ToSet(got'[c]) \/ Times(h, missed'[c]) = 2 \/ (rsend' /\ cmsg' = h)
    BY <1>1 DEF MissedIsResent
  <2>1. c \in Conns /\ h \in Message
    BY <1>3, <1>12, AppendFacts DEF ToSet
  <2>2. h \notin Answers(f.n)
    BY <1>6, Sizes
  <2>3. CASE h = f
    <3>1. f \notin Shown(Out)
      BY <1>4, <1>7, NumberType
    <3>2. Relayed(f)
      <4>1. f \notin Shown(p)
        BY <1>8, <2>2, <2>3, <3>1 DEF Later
      <4>2. f \in Shown(q)
        BY <1>12, <2>1, <2>3, ShownIs
      <4> QED
        BY <1>11, <4>1, <4>2
    <3> QED
      BY <1>2, <1>9, <1>10, <1>12, <2>3, <3>2
  <2>4. CASE h # f
    <3>1. /\ h \in ToSet(got'[c]) <=> h \in ToSet(got[c])
          /\ h \in ToSet(missed[c])
          /\ Times(h, missed'[c]) = Times(h, missed[c])
      BY <1>8, <1>12, <2>1, <2>2, <2>4, OutIs DEF Later
    <3> QED
      BY <1>3, <3>1 DEF MissedIsResent
  <2> QED
    BY <2>3, <2>4
<1>17. TypeInv'
  <2>1. cmsg' \in Message /\ rsend' \in BOOLEAN /\ pc' \in {"eth", "recv"}
    BY <1>2, <1>3, <1>4 DEF retry
  <2> QED
    BY <1>1, <1>3, <1>4, <1>12, <2>1 DEF TypeInv
<1>18. LoopInv' /\ CountInv' /\ SinceInv'
  BY <1>1, <1>2, <1>3 DEF LoopInv, CountInv, SinceInv
<1> QED
  BY <1>4, <1>13, <1>15, <1>16, <1>17, <1>18 DEF GwInv

\* The frame that was kept is broadcast again.
LEMMA StepResend ==
  ASSUME GwInv, Resend
  PROVE  GwInv'
<1>1. /\ UNCHANGED <<canIn, maxq, told, conn, est, rx, nrconn, nrClients, sent, opened, since,
                     lost>>
      /\ pc = "resend" /\ pc' = "recv" /\ rsend' = FALSE /\ cmsg' = NoFrame
  BY DEF Resend, Unserved
<1>2. TypeInv /\ PendInv /\ HistInv /\ MissedIsResent /\ RetryInv /\ SinceInv /\ CountInv
      /\ OutTyped(Out) /\ OutFine(Out) /\ est \in SUBSET Conns /\ cmsg \in Message
  BY DEF GwInv, TypeInv, HistInv
<1>3. PendInv' /\ Pending' = Pending
  BY <1>1, <1>2, PendSame
<1>4. NoFrame \in Message
  BY Sizes DEF NoFrame, Message
<1>5. RetryInv' /\ LoopInv' /\ CountInv' /\ SinceInv'
  BY <1>1, <1>2 DEF RetryInv, LoopInv, CountInv, SinceInv
<1>6. CASE ~rsend
  <2>1. UNCHANGED <<tx, got, missed, toCan>>
    BY <1>6 DEF Resend, outVars
  <2>2. OutTyped(Out)'
    BY <1>2, <2>1, OutIs, OutIsNext DEF OutTyped
  <2>3. HistInv'
    BY <1>1, <1>2, <1>3, <2>1, OutSame, HistStays DEF HistInv
  <2>4. MissedIsResent'
    BY <1>1, <1>2, <1>6, <2>1 DEF MissedIsResent, Times
  <2>5. TypeInv'
    BY <1>1, <1>2, <1>4, <2>2 DEF TypeInv
  <2> QED
    BY <1>3, <1>5, <2>3, <2>4, <2>5 DEF GwInv
<1>7. CASE rsend
  <2>0. PICK f : f = cmsg
    OBVIOUS
  <2> DEFINE q == Broadcast(Out, f, All)
  <2>1. Deliver(q)
    BY <1>7, <2>0 DEF Resend
  <2>2. /\ f \in Message /\ f.src = CAN /\ f.src # Node /\ f.src \notin Conns /\ f.kind \in Kinds
        /\ f.n <= sent /\ f.kind # "Yreport"
        /\ \A h \in Shown(Out) : h.src = CAN => h.n <= f.n
        /\ \A g \in ToSet(canIn) : f.n < g.n
        /\ \A c \in est : since[c] < f.n => f \in ToSet(got[c]) \/ Times(f, missed[c]) = 1
    BY <1>2, <1>7, <2>0, Sizes, GatewayAssumption DEF RetryInv, GatewayAssumption
  <2>3. Later(Out, q, {f})
    <3>1. Fresh(Out, f)
      BY <2>2 DEF Fresh, Repeatable
    <3> QED
      BY <1>2, <2>2, <3>1, BroadcastLater
  <2>4. \A c \in est :
          IF tx[c] = Room THEN q.missed[c] = Append(missed[c], f) /\ q.got[c] = got[c]
                          ELSE q.got[c] = Append(got[c], f) /\ q.missed[c] = missed[c]
    <3>1. \A c \in est : c # All
      BY <1>2, Sizes DEF Node
    <3>2. \A c \in est : c # All =>
            IF Out.tx[c] = Room THEN q.missed[c] = Append(Out.missed[c], f) /\ q.got[c] = Out.got[c]
                                ELSE q.got[c] = Append(Out.got[c], f) /\ q.missed[c] = Out.missed[c]
      BY <1>2, <2>2, BroadcastAdds
    <3> HIDE DEF q
    <3> QED
      BY <3>1, <3>2, OutIs
  <2> HIDE DEF q
  <2>5. /\ OutTyped(Out)' /\ OutFine(Out)' /\ Shown(Out)' = Shown(q)
        /\ got' = q.got /\ missed' = q.missed
        /\ \A c \in Conns : q.missed[c] \in Seq(Message)
    BY <2>1, <2>3, Delivered DEF Later, OutTyped
  <2>6. Settled(f)'
    <3>1. \A g \in Pending : g.src = CAN => g \in ToSet(canIn)
      BY <1>2, PendingIs, Sizes DEF PendInv
    <3> QED
      BY <1>1, <1>3, <2>2, <3>1 DEF Settled, IsAnswer
  <2>7. HistInv'
    BY <1>1, <1>2, <1>3, <2>3, <2>5, <2>6, HistStays DEF Later
  <2>8. MissedIsResent'
    <3> SUFFICES ASSUME NEW c \in est, NEW h \in ToSet(missed'[c]), h.src = CAN, h.n > since[c]
                 PROVE  h \in ToSet(got'[c]) \/ Times(h, missed'[c]) = 2
      BY <1>1 DEF MissedIsResent
    <3>1. c \in Conns /\ h \in Message /\ got[c] \in Seq(Message) /\ missed[c] \in Seq(Message)
          /\ since[c] \in Int /\ h.n \in Int
      <4>1. c \in Conns /\ got[c] \in Seq(Message) /\ missed[c] \in Seq(Message) /\ since[c] \in Int
        BY <1>2, OutIs, Sizes DEF OutTyped, TypeInv
      <4>2. h \in Message
        BY <2>5, <4>1, AppendFacts DEF ToSet
      <4> QED
        BY <4>1, <4>2, NumberType
    <3>2. CASE h # f
      <4>1. /\ h \in ToSet(got'[c]) <=> h \in ToSet(got[c])
            /\ h \in ToSet(missed[c])
            /\ Times(h, missed'[c]) = Times(h, missed[c])
        BY <2>3, <2>5, <3>1, <3>2, OutIs DEF Later
      <4> QED
        BY <1>2, <2>0, <3>2, <4>1 DEF MissedIsResent
    <3>3. CASE h = f
      <4>1. f \in ToSet(got[c]) \/ Times(f, missed[c]) = 1
        BY <2>2, <3>1, <3>3
      <4>2. CASE tx[c] = Room
        <5>1. missed'[c] = Append(missed[c], f) /\ got'[c] = got[c]
          BY <2>4, <2>5, <4>2
        <5>2. Times(f, missed'[c]) = Times(f, missed[c]) + 1
          BY <2>2, <3>1, <5>1, TimesFacts
        <5> QED
          BY <3>3, <4>1, <5>1, <5>2
      <4>3. CASE tx[c] # Room
        <5>1. got'[c] = Append(got[c], f)
          BY <2>4, <2>5, <4>3
        <5>2. f \in ToSet(Append(got[c], f))
          BY <2>2, <3>1, AppendFacts
        <5> QED
          BY <3>3, <5>1, <5>2
      <4> QED
        BY <4>2, <4>3
    <3> QED
      BY <3>2, <3>3
  <2>9. TypeInv'
    BY <1>1, <1>2, <1>4, <2>5 DEF TypeInv
  <2> QED
    BY <1>3, <1>5, <2>7, <2>8, <2>9 DEF GwInv
<1> QED
  BY <1>6, <1>7

LEMMA GwStep == GwInv /\ [Next]_vars => GwInv'
<1> SUFFICES ASSUME GwInv, [Next]_vars PROVE GwInv'
  OBVIOUS
<1>1. CASE UNCHANGED vars
  <2>1. UNCHANGED <<pc, conn, cmsg, rsend, canIn, est, rx, nrconn, nrClients, maxq,
                    sent, tx, got, missed, toCan, opened, since, lost, told>>
    BY <1>1 DEF vars, outVars
  <2>2. TypeInv /\ PendInv /\ HistInv /\ MissedIsResent /\ RetryInv
    BY DEF GwInv
  <2>3. OutTyped(Out)'
    BY <2>1, <2>2, OutIs, OutIsNext DEF TypeInv, OutTyped
  <2>4. PendInv' /\ Pending' = Pending
    BY <2>1, <2>2, PendSame
  <2>5. HistInv'
    BY <2>1, <2>2, <2>4, OutSame, HistStays DEF HistInv
  <2>6. MissedIsResent' /\ RetryInv'
    BY <2>1, <2>2, MissedSame, RetrySame DEF RetryInv
  <2>7. TypeInv' /\ LoopInv' /\ CountInv' /\ SinceInv'
    BY <2>1, <2>2, <2>3 DEF GwInv, TypeInv, LoopInv, CountInv, SinceInv
  <2> QED
    BY <2>4, <2>5, <2>6, <2>7 DEF GwInv
<1>2. CASE \E c \in Conns : Connect(c) \/ Disconnect(c) \/ ArriveRest(c) \/ Drain(c)
  BY <1>2, StepConnect, StepDisconnect, StepArriveRest
<1>3. CASE \E c \in Conns : \E k \in Kinds, p \in IF Split THEN {"whole", "head"} ELSE {"whole"} :
             Arrive(c, k, p)
  BY <1>3, StepArrive
<1>4. CASE CanArrive \/ CanOverflow \/ Loop
  BY <1>4, StepCanArrive, StepControl, StepRecv, StepResend, StepGetFrame, StepNextConn, StepReport
     DEF Loop
<1> QED
  BY <1>1, <1>2, <1>3, <1>4 DEF Next

LEMMA GwAlways == Spec => []GwInv
  BY GwInit, GwStep, PTL DEF Spec

-----------------------------------------------------------------------------
LEMMA MessageOK == ASSUME NEW f \in Message PROVE FrameOK(f)
  BY DEF Message, FrameOK

LEMMA SequenceOK == ASSUME NEW s \in Seq(Message) PROVE AllOK(s)
  BY AppendFacts, MessageOK DEF AllOK

LEMMA TypeHolds == GwInv => TypeOK
<1> SUFFICES ASSUME GwInv PROVE TypeOK
  OBVIOUS
<1>1. TypeInv
  BY DEF GwInv
<1>2. FrameOK(cmsg) /\ AllOK(canIn) /\ AllOK(toCan)
  BY <1>1, MessageOK, SequenceOK, OutIs DEF TypeInv, OutTyped
<1>3. ASSUME NEW c \in Conns
      PROVE  /\ \A i \in DOMAIN rx[c] : FrameOK(rx[c][i].f)
             /\ tx[c] \in 0..Room /\ AllOK(got[c]) /\ AllOK(missed[c])
  BY <1>1, RxFacts, MessageOK, SequenceOK, OutIs DEF TypeInv, OutTyped
<1> QED
  BY <1>1, <1>2, <1>3 DEF TypeInv, TypeOK

\* No lost frame is reported twice, by the report on a new number of clients or by the
\* answer to a status request, although frames are lost between the broadcast of a report
\* and the clearing of maxcanq and maxethq (CBusEthServer, parseCmdEth); and every count
\* and every buffer stays in its range.
THEOREM LossesReportedOnce == Spec => []NotReportedTwice
<1>1. GwInv => NotReportedTwice
  <2> SUFFICES ASSUME GwInv PROVE told <= lost
    BY TypeHolds DEF NotReportedTwice
  <2>1. told \in Nat /\ maxq \in Nat /\ lost \in Nat /\ CountInv
    BY SentIsNat DEF GwInv
  <2> QED
    BY <2>1 DEF CountInv
<1> QED
  BY <1>1, GwAlways, PTL

\* Whoever sent it, a frame never overtakes an older one of the same sender on its way to
\* CAN or to a client: neither the frame from CAN that is broadcast a second time, with
\* frames from Ethernet in between, nor one after a lost connection.
THEOREM SendersInOrder == Spec => []SameSourceOrder
<1>1. GwInv => SameSourceOrder
  <2> SUFFICES ASSUME GwInv, NEW s \in Outputs PROVE Ordered(s)
    BY DEF SameSourceOrder, Ordered
  <2>1. OutFine(Out)
    BY DEF GwInv, HistInv
  <2>2. Ordered(toCan) /\ \A c \in Conns : Ordered(got[c])
    BY <2>1, OutIs DEF OutFine
  <2> QED
    BY <2>2 DEF Outputs
<1> QED
  BY <1>1, GwAlways, PTL

\* A frame from Ethernet goes out once, to CAN and to each client, and so does the answer
\* to a request; no client gets its own frame back, whoever connects or leaves meanwhile.
THEOREM EthernetOnce == Spec => []EthOnce
<1>1. GwInv => EthOnce
  <2> SUFFICES ASSUME GwInv PROVE EthOnce
    OBVIOUS
  <2>1. OutFine(Out)
    BY DEF GwInv, HistInv
  <2>2. Once(toCan) /\ \A c \in Conns : Once(got[c]) /\ \A h \in ToSet(got[c]) : h.src # c
    BY <2>1, OutIs DEF OutFine
  <2>3. ASSUME NEW s \in Outputs PROVE Once(s)
    BY <2>2 DEF Outputs
  <2>4. \A c \in Conns : \A i \in DOMAIN got[c] : got[c][i].src # c
    BY <2>2 DEF ToSet
  <2> QED
    BY <2>3, <2>4 DEF EthOnce, Once, Repeatable
<1> QED
  BY <1>1, GwAlways, PTL

\* A frame from CAN that some connection had no room for is offered to it a second time,
\* unless the connection is gone: none is dropped at the first refusal (main loop, cmsg and
\* the result of CBusEthBroadcast).
THEOREM MissedOffered == Spec => []MissedIsResent
<1>1. GwInv => MissedIsResent
  BY DEF GwInv
<1> QED
  BY <1>1, GwAlways, PTL
=============================================================================

--------------------------- MODULE TcpConn_proof ---------------------------
(***************************************************************************)
(* Theorems about the connections of TCP, for any number of sockets and     *)
(* gateways, any limits of retries and any faults of the network.           *)
(***************************************************************************)
EXTENDS TcpConn, FiniteSetTheorems, TLAPS

-----------------------------------------------------------------------------
(* The least and the greatest of a set of numbers.                          *)

LEMMA SmallestExists ==
  ASSUME NEW T, IsFiniteSet(T), NEW C \in SUBSET SUBSET T, C # {}
  PROVE  \E X \in C : \A Y \in C : Y \subseteq X => Y = X
<1>1. IsWellFoundedOn(StrictSubsetOrdering(T), SUBSET T)
  BY FS_StrictSubsetOrderingWellFounded, FS_FiniteSubsetsOfFinite
<1>2. PICK X \in C : \A Y \in C : <<Y, X>> \notin StrictSubsetOrdering(T)
  BY <1>1, WFMin
<1> QED BY <1>2 DEF StrictSubsetOrdering

LEMMA MinInSet ==
  ASSUME NEW S \in SUBSET Nat, S # {}
  PROVE  Min(S) \in S /\ \A y \in S : Min(S) <= y
<1>1. PICK z \in S : TRUE
  OBVIOUS
<1>2. PICK T : T = 0..z
  OBVIOUS
<1>9. IsFiniteSet(T)
  BY <1>2, FS_Interval, 0 \in Int, z \in Int
<1> DEFINE C == {S \cap 0..y : y \in S \cap 0..z}
<1>3. C \in SUBSET SUBSET T
  BY <1>2
<1>4. C # {}
  BY z \in S \cap 0..z
<1> HIDE DEF C
<1>5. PICK X \in C : \A Y \in C : Y \subseteq X => Y = X
  BY <1>9, <1>3, <1>4, SmallestExists
<1>6. PICK m \in S \cap 0..z : X = S \cap 0..m
  BY DEF C
<1>7. ASSUME NEW y \in S, y < m PROVE FALSE
  <2>1. S \cap 0..y \in C
    BY <1>7, y \in S \cap 0..z DEF C
  <2>2. S \cap 0..y \subseteq X /\ m \in X /\ m \notin S \cap 0..y
    BY <1>6, <1>7
  <2> QED BY <2>1, <2>2, <1>5
<1>8. m \in S /\ \A y \in S : m <= y
  BY <1>7
<1> QED BY <1>8 DEF Min

LEMMA MaxInSet ==
  ASSUME NEW n \in Nat, NEW S \in SUBSET (1..n), S # {}
  PROVE  Max(S) \in S
<1>1. PICK T : T = 1..n
  OBVIOUS
<1>7. IsFiniteSet(T)
  BY <1>1, FS_Interval, 1 \in Int, n \in Int
<1> DEFINE C == {S \cap y..n : y \in S}
<1>2. C \in SUBSET SUBSET T
  BY <1>1
<1>8. C # {}
  OBVIOUS
<1> HIDE DEF C
<1>3. PICK X \in C : \A Y \in C : Y \subseteq X => Y = X
  BY <1>7, <1>2, <1>8, SmallestExists
<1>4. PICK m \in S : X = S \cap m..n
  BY DEF C
<1>5. ASSUME NEW y \in S, y > m PROVE FALSE
  <2>1. S \cap y..n \in C
    BY DEF C
  <2>2. S \cap y..n \subseteq X /\ m \in X /\ m \notin S \cap y..n
    BY <1>4, <1>5
  <2> QED BY <2>1, <2>2, <1>3
<1>6. \A y \in S : m >= y
  BY <1>5
<1> QED BY <1>6 DEF Max

-----------------------------------------------------------------------------
(* The types.                                                               *)

Seqs == [isn : Isns \union {0}, n : Int]
Ends == Clients \union {Nobody}
MaxRetries == Max({TCP_MAX_RETRIES, TCP_MAX_SYN_RETRIES})

Segments ==
  [toClient : BOOLEAN, client : Ends, port : Int, flags : SUBSET {"SYN", "ACK", "FIN", "RST"},
   seq : Seqs, len : Nat, window : BOOLEAN, ack : Seqs]
Sockets ==
  [bServer : BOOLEAN, smState : States, client : Ends, port : Int, MySEQ : Seqs, RemoteSEQ : Seqs,
   bSYNSent : BOOLEAN, bFINSent : BOOLEAN, bTXFIN : BOOLEAN, bTimerEnabled : BOOLEAN,
   remoteWindow : BOOLEAN, bTXASAP : BOOLEAN,
   retryCount : 0..MaxRetries, vUnackedKeepalives : 0..TCP_MAX_UNACKED_KEEP_ALIVES,
   out : SUBSET Segments]
Requests == [client : Ends, port : Int, seq : Seqs]

\* The states of a socket that has a connection, and those of a client that has none yet or
\* none any more.
Linked == Closing \union {"TCP_SYN_RECEIVED", "TCP_ESTABLISHED"}
Early == Opening \union {"TCP_CLOSED", "TCP_CLOSED_BUT_RESERVED"}
Agreeing == {"TCP_ESTABLISHED", "TCP_CLOSE_WAIT"}

\* A server socket with a connection has a number of its own; a client has no number of the
\* server before they are connected.
SocketInv(t) ==
  /\ t \in Sockets
  /\ IF t.bServer
     THEN t.smState \in Linked \union {"TCP_LISTEN"} /\ (t.smState # "TCP_LISTEN" => t.MySEQ.isn # 0)
     ELSE t.smState # "TCP_LISTEN" /\ (t.smState \in Early => t.RemoteSEQ.isn = 0)

TypeInv ==
  /\ srv \in [Servers -> Sockets] /\ cl \in [Clients -> Sockets]
  /\ \A s \in Servers : SocketInv(srv[s]) /\ srv[s].bServer /\ srv[s].out = {}
  /\ \A c \in Clients : SocketInv(cl[c]) /\ ~cl[c].bServer /\ cl[c].out = {}
  /\ SYNQueue \in Seq(Requests) /\ Len(SYNQueue) <= TCP_SYN_QUEUE_MAX_ENTRIES
  /\ net \subseteq Segments /\ opens \in [Clients -> Nat]

FullInv == full \subseteq Ends

\* What an acknowledgement that is no reset says: its sender takes the two numbers for one
\* connection.
Confirms(g) == ~g.toClient /\ "ACK" \in g.flags /\ "RST" \notin g.flags

\* Whatever of this a client has said or goes by, it has accepted, as far as a server socket
\* still has the number.
AgreedInv ==
  \A s \in Servers :
    LET own == srv[s].MySEQ.isn
    IN own # 0 =>
       /\ \A g \in net : Confirms(g) /\ g.ack.isn = own => <<g.seq.isn, own>> \in agreed
       /\ \A c \in Clients : cl[c].RemoteSEQ.isn = own => <<cl[c].MySEQ.isn, own>> \in agreed

\* An established server socket has numbers that are agreed.
AllAgreed ==
  \A s \in Servers :
    srv[s].smState \in Agreeing => <<srv[s].RemoteSEQ.isn, srv[s].MySEQ.isn>> \in agreed

ConnInv == TypeInv /\ AgreedInv /\ AllAgreed

\* LFSRRand finds a number that nothing in use or on its way has.
NumberLeft == Isns \ Numbers # {}

-----------------------------------------------------------------------------
(* What the operators on a socket make of it.                               *)

\* A segment that the socket t sends now: a reset, or without an acknowledgement, or with
\* the numbers of the connection.
Says(t, g) ==
  /\ g \in Segments /\ g.toClient = t.bServer
  /\ \/ "RST" \in g.flags \/ "ACK" \notin g.flags
     \/ g.seq.isn = t.MySEQ.isn /\ g.ack.isn = t.RemoteSEQ.isn

\* The socket t has become u, of the same connection or of none.
Transmits(t, u) ==
  u \in Sockets /\ u.bServer = t.bServer /\ \A g \in u.out : g \in t.out \/ Says(t, g)
StaysOpen(t, u) ==
  Transmits(t, u) /\ u.MySEQ.isn = t.MySEQ.isn /\ u.RemoteSEQ.isn = t.RemoteSEQ.isn
IsClosed(t, u) ==
  /\ Transmits(t, u) /\ u.MySEQ = None /\ u.RemoteSEQ = None
  /\ u.smState \in IF t.bServer THEN {"TCP_LISTEN"} ELSE {"TCP_CLOSED", "TCP_CLOSED_BUT_RESERVED"}

\* The states a connection goes through after a: none comes to be established that was not.
Follows(a, b) == b = a \/ (a \in Linked /\ b \in Linked /\ (b \in Agreeing => a \in Agreeing))
Proceeds(t, u) == (StaysOpen(t, u) /\ Follows(t.smState, u.smState)) \/ IsClosed(t, u)

LEMMA Limits ==
  /\ TCP_MAX_RETRIES \in Nat /\ TCP_MAX_SYN_RETRIES \in Nat /\ TCP_MAX_UNACKED_KEEP_ALIVES \in Nat
  /\ MaxRetries \in Nat /\ TCP_MAX_RETRIES <= MaxRetries /\ TCP_MAX_SYN_RETRIES <= MaxRetries
<1>1. /\ TCP_MAX_RETRIES \in Nat /\ TCP_MAX_SYN_RETRIES \in Nat
      /\ TCP_MAX_UNACKED_KEEP_ALIVES \in Nat
  BY ConnAssumption
<1>2. ASSUME NEW a \in Nat, NEW b \in Nat PROVE Max({a, b}) \in {a, b} /\ Max({a, b}) >= a /\ Max({a, b}) >= b
  <2>1. \E x \in {a, b} : \A y \in {a, b} : x >= y
    BY SMT
  <2> QED BY <2>1 DEF Max
<1> QED BY <1>1, <1>2 DEF MaxRetries

LEMMA NoneIsNumber == None \in Seqs /\ None.isn = 0
BY DEF None, Seqs

LEMMA PlusType ==
  ASSUME NEW s \in Seqs, NEW k \in Int
  PROVE  Plus(s, k) \in Seqs /\ Plus(s, k).isn = s.isn /\ Plus(s, k).n = s.n + k
BY DEF Plus, Seqs

LEMMA FlagTypes == {"SYN", "ACK", "FIN", "RST"} = {"SYN", "RST"} \union {"ACK", "FIN"}
OBVIOUS

\* What SendTCP puts on the wire, and what it changes.
LEMMA SendStays ==
  ASSUME NEW t \in Sockets, NEW flags \in SUBSET {"SYN", "ACK", "FIN", "RST"},
         NEW mode \in {"plain", "reset", "keep"},
         mode = "keep" => t.vUnackedKeepalives < TCP_MAX_UNACKED_KEEP_ALIVES
  PROVE  LET u == SendTCP(t, flags, mode)
         IN /\ StaysOpen(t, u) /\ u.smState = t.smState /\ u.RemoteSEQ = t.RemoteSEQ
            /\ "RST" \in flags => \A g \in u.out : g \in t.out \/ "RST" \in g.flags
<1> DEFINE fin == t.bTXFIN \/ "FIN" \in flags
           sent == IF fin /\ t.remoteWindow /\ flags \cap {"SYN", "RST"} = {} THEN flags \cup {"FIN"}
                   ELSE flags \ {"FIN"}
           timed == sent \cap {"SYN", "FIN"} # {}
           keep == mode = "keep" /\ ~timed
           seq == IF "SYN" \in sent THEN Plus(t.MySEQ, -t.MySEQ.n)
                  ELSE IF keep THEN Plus(t.MySEQ, -1) ELSE t.MySEQ
           count == IF timed THEN IF mode = "reset" THEN 0 ELSE t.retryCount
                    ELSE IF t.bTimerEnabled /\ mode = "plain" /\ t.retryCount > 0
                         THEN t.retryCount - 1 ELSE t.retryCount
           unacked == IF keep THEN t.vUnackedKeepalives + 1 ELSE t.vUnackedKeepalives
           g0 == [toClient |-> t.bServer, client |-> t.client, port |-> t.port,
                  flags |-> sent, seq |-> seq, len |-> IF keep THEN 1 ELSE 0,
                  window |-> (IF t.bServer THEN Nobody ELSE t.client) \notin full,
                  ack |-> IF "ACK" \in sent THEN t.RemoteSEQ ELSE None]
           mine == IF "SYN" \in sent THEN Plus(seq, 1) ELSE t.MySEQ
           u == SendTCP(t, flags, mode)
<1>1. t.MySEQ \in Seqs /\ t.RemoteSEQ \in Seqs /\ t.MySEQ.n \in Int
  BY DEF Sockets, Seqs
<1>2. seq \in Seqs /\ seq.isn = t.MySEQ.isn /\ mine \in Seqs /\ mine.isn = t.MySEQ.isn
  <2> HIDE DEF sent, keep
  <2>1. seq \in Seqs /\ seq.isn = t.MySEQ.isn
    <3>1. Plus(t.MySEQ, -t.MySEQ.n) \in Seqs /\ Plus(t.MySEQ, -t.MySEQ.n).isn = t.MySEQ.isn
      BY <1>1, PlusType, -t.MySEQ.n \in Int
    <3>2. Plus(t.MySEQ, -1) \in Seqs /\ Plus(t.MySEQ, -1).isn = t.MySEQ.isn
      BY <1>1, PlusType, -1 \in Int
    <3> QED BY <1>1, <3>1, <3>2
  <2> HIDE DEF seq
  <2>2. Plus(seq, 1) \in Seqs /\ Plus(seq, 1).isn = seq.isn
    BY <2>1, PlusType, 1 \in Int
  <2> QED BY <1>1, <2>1, <2>2
<1>3. sent \in SUBSET {"SYN", "ACK", "FIN", "RST"} /\ ("RST" \in flags => "RST" \in sent)
  OBVIOUS
<1>4. count \in 0..MaxRetries /\ unacked \in 0..TCP_MAX_UNACKED_KEEP_ALIVES
  <2>1. t.retryCount \in 0..MaxRetries /\ t.vUnackedKeepalives \in 0..TCP_MAX_UNACKED_KEEP_ALIVES
    BY DEF Sockets
  <2> HIDE DEF timed
  <2>2. count \in 0..MaxRetries
    <3>1. ASSUME NEW r \in 0..MaxRetries, r > 0 PROVE r - 1 \in 0..MaxRetries
      BY <3>1, Limits
    <3> QED BY <2>1, <3>1, Limits
  <2>3. unacked \in 0..TCP_MAX_UNACKED_KEEP_ALIVES
    <3>1. CASE keep
      <4>1. t.vUnackedKeepalives < TCP_MAX_UNACKED_KEEP_ALIVES
        BY <3>1
      <4> QED BY <2>1, <3>1, <4>1, Limits
    <3> QED BY <2>1, <3>1
  <2> QED BY <2>2, <2>3
<1>5. g0 \in Segments /\ Says(t, g0) /\ ("RST" \in flags => "RST" \in g0.flags)
  <2>1. g0 \in Segments
    BY <1>1, <1>2, <1>3, NoneIsNumber DEF Segments, Sockets
  <2>2. g0.toClient = t.bServer /\ g0.flags = sent /\ g0.seq = seq
        /\ ("ACK" \in sent => g0.ack = t.RemoteSEQ)
    OBVIOUS
  <2> HIDE DEF g0, sent, seq
  <2> QED BY <2>1, <2>2, <1>2, <1>3 DEF Says
<1>6. u = [t EXCEPT !.bTXFIN = fin, !.bTXASAP = FALSE, !.bTimerEnabled = @ \/ timed, !.retryCount = count,
                    !.vUnackedKeepalives = unacked, !.MySEQ = mine,
                    !.bSYNSent = @ \/ "SYN" \in sent, !.bFINSent = @ \/ "FIN" \in sent,
                    !.out = @ \cup {g0}]
  BY DEF SendTCP, Sockets
<1>7. /\ fin \in BOOLEAN /\ (t.bTimerEnabled \/ timed) \in BOOLEAN
      /\ (t.bSYNSent \/ "SYN" \in sent) \in BOOLEAN /\ (t.bFINSent \/ "FIN" \in sent) \in BOOLEAN
  BY Zenon
<1> HIDE DEF fin, timed, count, unacked, mine, g0, sent, seq, keep, u
<1>8. u \in Sockets /\ u.bServer = t.bServer /\ u.smState = t.smState /\ u.MySEQ = mine
      /\ u.RemoteSEQ = t.RemoteSEQ /\ u.out = t.out \cup {g0}
  BY <1>2, <1>4, <1>5, <1>6, <1>7, ZenonT(60) DEF Sockets
<1> QED BY <1>2, <1>5, <1>8 DEF StaysOpen, Transmits, u

LEMMA StateKinds ==
  /\ Linked \subseteq States /\ Early \subseteq States /\ Agreeing \subseteq Linked
  /\ Linked \cap Early = {} /\ "TCP_LISTEN" \in States \ (Linked \union Early)
  /\ States = Linked \union Early \union {"TCP_LISTEN"}
BY DEF Linked, Early, Agreeing, States, Opening, Closing, Closed

LEMMA FreshSocket ==
  ASSUME NEW server \in BOOLEAN, NEW c \in Ends
  PROVE  LET u == Socket(server, c)
         IN /\ u \in Sockets /\ u.bServer = server /\ u.MySEQ = None /\ u.RemoteSEQ = None
            /\ u.out = {} /\ u.smState = (IF server THEN "TCP_LISTEN" ELSE "TCP_CLOSED")
            /\ SocketInv(u)
<1>1. 0 \in 0..MaxRetries /\ 0 \in 0..TCP_MAX_UNACKED_KEEP_ALIVES
  BY Limits
<1>2. "TCP_LISTEN" \in States /\ "TCP_CLOSED" \in States
  BY DEF States, Closed
<1>3. Socket(server, c) \in Sockets
  BY <1>1, <1>2, NoneIsNumber DEF Socket, Sockets
<1> QED BY <1>3, NoneIsNumber, StateKinds DEF Socket, SocketInv

LEMMA NobodyIsEnd == Nobody \in Ends /\ Clients \subseteq Ends
BY DEF Ends

LEMMA CloseCloses ==
  ASSUME NEW t \in Sockets
  PROVE  IsClosed(t, CloseSocket(t)) /\ CloseSocket(t).out = t.out
<1>1. t.bServer \in BOOLEAN /\ t.client \in Ends /\ t.out \in SUBSET Segments
  BY DEF Sockets
<1> DEFINE v == Socket(t.bServer, IF t.bServer THEN Nobody ELSE t.client)
<1>2. /\ v \in Sockets /\ v.bServer = t.bServer /\ v.MySEQ = None /\ v.RemoteSEQ = None
      /\ v.smState = (IF t.bServer THEN "TCP_LISTEN" ELSE "TCP_CLOSED")
  BY <1>1, FreshSocket, NobodyIsEnd
<1>3. CloseSocket(t) = [v EXCEPT !.out = t.out]
  <2>1. CASE t.bServer
    BY <2>1 DEF CloseSocket
  <2>2. CASE ~t.bServer
    <3>1. t.bServer = FALSE
      BY <1>1, <2>2
    <3> QED BY <3>1 DEF CloseSocket, CloseClient
  <2> QED BY <2>1, <2>2
<1> HIDE DEF v
<1>4. /\ CloseSocket(t) \in Sockets /\ CloseSocket(t).bServer = t.bServer
      /\ CloseSocket(t).MySEQ = None /\ CloseSocket(t).RemoteSEQ = None
      /\ CloseSocket(t).smState = (IF t.bServer THEN "TCP_LISTEN" ELSE "TCP_CLOSED")
      /\ CloseSocket(t).out = t.out
  BY <1>1, <1>2, <1>3 DEF Sockets
<1> QED BY <1>4 DEF IsClosed, Transmits

LEMMA StaysSelf ==
  ASSUME NEW t \in Sockets
  PROVE  StaysOpen(t, t) /\ Proceeds(t, t)
BY DEF StaysOpen, Transmits, Proceeds, Follows

LEMMA StaysThenStays ==
  ASSUME NEW t, NEW u, NEW v, StaysOpen(t, u), StaysOpen(u, v)
  PROVE  StaysOpen(t, v)
BY DEF StaysOpen, Transmits, Says

LEMMA StaysThenCloses ==
  ASSUME NEW t, NEW u, NEW v, StaysOpen(t, u), IsClosed(u, v)
  PROVE  IsClosed(t, v)
BY DEF StaysOpen, IsClosed, Transmits, Says

LEMMA ThenProceeds ==
  ASSUME NEW t, NEW u, NEW v, StaysOpen(t, u), Follows(t.smState, u.smState), Proceeds(u, v)
  PROVE  Proceeds(t, v)
<1>1. CASE IsClosed(u, v)
  BY <1>1, StaysThenCloses DEF Proceeds
<1>2. CASE StaysOpen(u, v) /\ Follows(u.smState, v.smState)
  BY <1>2, StaysThenStays DEF Proceeds, Follows
<1> QED BY <1>1, <1>2 DEF Proceeds

\* A socket after a change of fields that no message shows.
LEMMA ChangeStays ==
  ASSUME NEW t \in Sockets, NEW u \in Sockets, u.bServer = t.bServer, u.out = t.out,
         u.MySEQ.isn = t.MySEQ.isn, u.RemoteSEQ.isn = t.RemoteSEQ.isn
  PROVE  StaysOpen(t, u)
BY DEF StaysOpen, Transmits

LEMMA AnswerStays ==
  ASSUME NEW t \in Sockets, NEW flags \in SUBSET {"SYN", "ACK", "FIN", "RST"}, NEW state \in States
  PROVE  StaysOpen(t, Answer(t, flags, state)) /\ Answer(t, flags, state).smState = state
<1> DEFINE u == SendTCP(t, flags, "reset")
<1>1. StaysOpen(t, u)
  BY SendStays
<1>2. Answer(t, flags, state) = [u EXCEPT !.smState = state]
  BY DEF Answer
<1> HIDE DEF u
<1>3. u \in Sockets
  BY <1>1 DEF StaysOpen, Transmits
<1>4. [u EXCEPT !.smState = state] \in Sockets /\ [u EXCEPT !.smState = state].smState = state
      /\ StaysOpen(u, [u EXCEPT !.smState = state])
  BY <1>3, ChangeStays DEF Sockets
<1> QED BY <1>1, <1>2, <1>4, StaysThenStays

LEMMA RefuseStays ==
  ASSUME NEW t \in Sockets, NEW g \in Segments, NEW mode \in {"plain", "reset"}
  PROVE  StaysOpen(t, Refuse(t, g, mode)) /\ Refuse(t, g, mode).smState = t.smState
<1> DEFINE v == [t EXCEPT !.MySEQ = g.ack]
           u == SendTCP(v, {"RST"}, mode)
<1>1. g.ack \in Seqs /\ t.MySEQ \in Seqs
  BY DEF Segments, Sockets
<1>2. v \in Sockets /\ v.bServer = t.bServer /\ v.out = t.out /\ v.RemoteSEQ = t.RemoteSEQ
      /\ v.smState = t.smState
  BY <1>1 DEF Sockets
<1> HIDE DEF v
<1>3. /\ StaysOpen(v, u) /\ u.smState = t.smState /\ u.RemoteSEQ = t.RemoteSEQ
      /\ \A h \in u.out : h \in v.out \/ "RST" \in h.flags
  BY <1>2, SendStays
<1>4. Refuse(t, g, mode) = [u EXCEPT !.MySEQ = t.MySEQ]
  BY DEF Refuse, v
<1> HIDE DEF u
<1>5. u \in Sockets /\ u.bServer = t.bServer /\ \A h \in u.out : h \in t.out \/ Says(t, h)
  BY <1>2, <1>3 DEF StaysOpen, Transmits, Says
<1>6. LET w == [u EXCEPT !.MySEQ = t.MySEQ]
      IN w \in Sockets /\ w.bServer = t.bServer /\ w.out = u.out /\ w.MySEQ = t.MySEQ
         /\ w.RemoteSEQ = t.RemoteSEQ /\ w.smState = t.smState
  BY <1>1, <1>3, <1>5 DEF Sockets
<1> QED BY <1>4, <1>5, <1>6 DEF StaysOpen, Transmits

LEMMA StateNames ==
  /\ {"TCP_CLOSE_WAIT", "TCP_CLOSING", "TCP_FIN_WAIT_1", "TCP_FIN_WAIT_2", "TCP_LAST_ACK",
      "TCP_ESTABLISHED", "TCP_SYN_RECEIVED"} = Linked
  /\ Agreeing = {"TCP_ESTABLISHED", "TCP_CLOSE_WAIT"}
  /\ "TCP_SYN_SENT" \in States /\ "TCP_CLOSED" \in States /\ "TCP_CLOSED_BUT_RESERVED" \in States
BY DEF Linked, Agreeing, Closing, States, Opening, Closed

LEMMA AckFlags ==
  /\ {"ACK"} \in SUBSET {"SYN", "ACK", "FIN", "RST"}
  /\ {"RST"} \in SUBSET {"SYN", "ACK", "FIN", "RST"}
  /\ {"SYN"} \in SUBSET {"SYN", "ACK", "FIN", "RST"}
  /\ {"SYN", "ACK"} \in SUBSET {"SYN", "ACK", "FIN", "RST"}
  /\ {"FIN", "ACK"} \in SUBSET {"SYN", "ACK", "FIN", "RST"}
  /\ {"RST", "ACK"} \in SUBSET {"SYN", "ACK", "FIN", "RST"}
OBVIOUS

LEMMA ResetCloses ==
  ASSUME NEW t \in Sockets
  PROVE  IsClosed(t, Reset(t)) /\ Proceeds(t, Reset(t))
<1> DEFINE u == SendTCP(t, {"RST", "ACK"}, "plain")
<1>1. StaysOpen(t, u)
  BY SendStays, AckFlags
<1>2. Reset(t) = CloseSocket(u)
  BY DEF Reset
<1> HIDE DEF u
<1>3. IsClosed(u, CloseSocket(u))
  BY <1>1, CloseCloses DEF StaysOpen, Transmits
<1> QED BY <1>1, <1>2, <1>3, StaysThenCloses DEF Proceeds

LEMMA TakeFinProceeds ==
  ASSUME NEW t \in Sockets, NEW g \in Segments
  PROVE  Proceeds(t, TakeFin(t, g))
<1> DEFINE u == [t EXCEPT !.RemoteSEQ = Plus(@, 1)]
           w == SendTCP(u, {"ACK"}, "plain")
<1>1. u \in Sockets /\ u.smState = t.smState /\ StaysOpen(t, u)
  <2>1. t.RemoteSEQ \in Seqs
    BY DEF Sockets
  <2>2. Plus(t.RemoteSEQ, 1) \in Seqs /\ Plus(t.RemoteSEQ, 1).isn = t.RemoteSEQ.isn
    BY <2>1, PlusType, 1 \in Int
  <2>3. u \in Sockets /\ u.bServer = t.bServer /\ u.out = t.out /\ u.MySEQ = t.MySEQ
        /\ u.RemoteSEQ = Plus(t.RemoteSEQ, 1) /\ u.smState = t.smState
    BY <2>2 DEF Sockets
  <2> HIDE DEF u
  <2> QED BY <2>2, <2>3, ChangeStays
<1>2. \/ TakeFin(t, g) = t
      \/ t.smState = "TCP_ESTABLISHED" /\ TakeFin(t, g) = Answer(u, {"ACK"}, "TCP_CLOSE_WAIT")
      \/ t.smState = "TCP_FIN_WAIT_1" /\ TakeFin(t, g) = Answer(u, {"ACK"}, "TCP_CLOSING")
      \/ TakeFin(t, g) = CloseSocket(w)
  BY DEF TakeFin
<1> HIDE DEF u
<1>3. StaysOpen(u, w) /\ IsClosed(w, CloseSocket(w))
  <2>1. StaysOpen(u, w)
    BY <1>1, SendStays, AckFlags
  <2> HIDE DEF w
  <2> QED BY <2>1, CloseCloses DEF StaysOpen, Transmits
<1> HIDE DEF w
<1>4. CASE TakeFin(t, g) = t
  BY <1>4, StaysSelf
<1>5. CASE TakeFin(t, g) = CloseSocket(w)
  BY <1>1, <1>3, <1>5, StaysThenCloses DEF Proceeds
<1>6. ASSUME NEW state \in States, Follows(t.smState, state),
             TakeFin(t, g) = Answer(u, {"ACK"}, state)
      PROVE  Proceeds(t, TakeFin(t, g))
  BY <1>1, <1>6, AnswerStays, AckFlags, StaysThenStays DEF Proceeds
<1> QED BY <1>2, <1>4, <1>5, <1>6, StateNames, StateKinds DEF Follows

LEMMA AckedProceeds ==
  ASSUME NEW t \in Sockets, NEW g \in Segments
  PROVE  Proceeds(t, Acked(t, g))
<1> DEFINE all == All(t, g)
           u == [t EXCEPT !.bTimerEnabled = @ /\ t.bTXFIN /\ ~(all /\ t.bFINSent),
                          !.bTXFIN = @ /\ ~(all /\ t.bFINSent),
                          !.bTXASAP = @ \/ (~t.remoteWindow /\ g.window), !.remoteWindow = g.window]
           v == [u EXCEPT !.bTimerEnabled = TRUE, !.smState = "TCP_FIN_WAIT_2"]
           w == [u EXCEPT !.MySEQ = IF all THEN @ ELSE g.ack]
           x == SendTCP(w, {"RST", "ACK"}, "plain")
<1>1. u \in Sockets /\ u.smState = t.smState /\ StaysOpen(t, u) /\ u.out = t.out
      /\ u.bServer = t.bServer
  <2>1. u \in Sockets /\ u.bServer = t.bServer /\ u.out = t.out /\ u.MySEQ = t.MySEQ
        /\ u.RemoteSEQ = t.RemoteSEQ /\ u.smState = t.smState
    <3> DEFINE runs == t.bTimerEnabled /\ t.bTXFIN /\ ~(all /\ t.bFINSent)
               fin == t.bTXFIN /\ ~(all /\ t.bFINSent)
               soon == t.bTXASAP \/ (~t.remoteWindow /\ g.window)
    <3>1. u = [t EXCEPT !.bTimerEnabled = runs, !.bTXFIN = fin, !.bTXASAP = soon,
                        !.remoteWindow = g.window]
      BY DEF Sockets
    <3>2. runs \in BOOLEAN /\ fin \in BOOLEAN /\ soon \in BOOLEAN
      BY Zenon
    <3>3. g.window \in BOOLEAN
      BY DEF Segments
    <3> HIDE DEF runs, fin, soon, u
    <3> QED BY <3>1, <3>2, <3>3, ZenonT(60) DEF Sockets
  <2> HIDE DEF u
  <2> QED BY <2>1, ChangeStays
<1>2. \/ t.smState = "TCP_FIN_WAIT_1" /\ Acked(t, g) = TakeFin(v, g)
      \/ Acked(t, g) = CloseSocket(x)
      \/ Acked(t, g) = CloseSocket(u)
      \/ Acked(t, g) = u
      \/ Acked(t, g) = TakeFin(u, g)
  BY DEF Acked
<1> HIDE DEF u, all
<1>3. v \in Sockets /\ v.smState = "TCP_FIN_WAIT_2" /\ StaysOpen(u, v)
  <2>1. v \in Sockets /\ v.bServer = u.bServer /\ v.out = u.out /\ v.MySEQ = u.MySEQ
        /\ v.RemoteSEQ = u.RemoteSEQ /\ v.smState = "TCP_FIN_WAIT_2"
    BY <1>1, StateNames, StateKinds DEF Sockets
  <2> HIDE DEF v
  <2> QED BY <1>1, <2>1, ChangeStays
<1>4. IsClosed(t, CloseSocket(x))
  <2>1. w \in Sockets /\ w.bServer = t.bServer /\ w.out = t.out
    BY <1>1 DEF Sockets, Segments
  <2> HIDE DEF w
  <2>2. x \in Sockets /\ x.bServer = w.bServer /\ \A h \in x.out : h \in w.out \/ Says(t, h)
    BY <2>1, SendStays, AckFlags DEF StaysOpen, Transmits, Says
  <2> HIDE DEF x
  <2>3. IsClosed(x, CloseSocket(x)) /\ CloseSocket(x).out = x.out
    BY <2>2, CloseCloses
  <2> QED BY <2>1, <2>2, <2>3 DEF IsClosed, Transmits, Says
<1> HIDE DEF v, w, x
<1>5. Follows("TCP_FIN_WAIT_1", "TCP_FIN_WAIT_2") /\ Follows(t.smState, t.smState)
  BY StateNames DEF Follows
<1>6. CASE t.smState = "TCP_FIN_WAIT_1" /\ Acked(t, g) = TakeFin(v, g)
  BY <1>1, <1>3, <1>5, <1>6, TakeFinProceeds, StaysThenStays, ThenProceeds
<1>7. CASE Acked(t, g) = CloseSocket(x)
  BY <1>4, <1>7 DEF Proceeds
<1>8. CASE Acked(t, g) = CloseSocket(u)
  BY <1>1, <1>8, CloseCloses, StaysThenCloses DEF Proceeds
<1>9. CASE Acked(t, g) = u
  BY <1>1, <1>5, <1>9 DEF Proceeds
<1>10. CASE Acked(t, g) = TakeFin(u, g)
  BY <1>1, <1>5, <1>10, TakeFinProceeds, ThenProceeds
<1> QED BY <1>2, <1>6, <1>7, <1>8, <1>9, <1>10

\* What a segment must be to complete the handshake of a server socket.
Completes(t, g) ==
  /\ t.smState = "TCP_SYN_RECEIVED" /\ "ACK" \in g.flags /\ "RST" \notin g.flags
  /\ g.ack = t.MySEQ /\ g.seq.isn = t.RemoteSEQ.isn

LEMMA ConnectedProceeds ==
  ASSUME NEW t \in Sockets, NEW g \in Segments
  PROVE  LET u == Connected(t, g)
         IN \/ Proceeds(t, u)
            \/ Completes(t, g) /\ StaysOpen(t, u) /\ u.smState \in Linked
<1> DEFINE e == [t EXCEPT !.smState = "TCP_ESTABLISHED"]
<1>1. \/ Connected(t, g) \in {t, Refuse(t, g, "reset"), SendTCP(t, {"ACK"}, "reset"),
                              SendTCP(t, {"ACK"}, "plain"), CloseSocket(t), Acked(t, g)}
      \/ Completes(t, g) /\ Connected(t, g) = Acked(e, g)
  <2>1. CASE Connected(t, g) = Refuse(t, g, "reset")
    BY <2>1
  <2>2. CASE /\ Connected(t, g) = ConnectedAnyway(t, g)
             /\ ~(/\ t.smState = "TCP_SYN_RECEIVED" /\ Acceptable(t, g)
                  /\ g.flags \cap {"RST", "SYN", "ACK"} = {"ACK"} /\ g.ack # t.MySEQ)
    <3>1. CASE ~Acceptable(t, g) \/ g.flags \cap {"RST", "SYN"} # {}
               \/ g.flags \cap {"RST", "SYN", "ACK"} = {}
      BY <2>2, <3>1 DEF ConnectedAnyway, Is
    <3>2. CASE /\ Acceptable(t, g) /\ g.flags \cap {"RST", "SYN"} = {}
               /\ g.flags \cap {"RST", "SYN", "ACK"} # {}
      <4>1. /\ "ACK" \in g.flags /\ "RST" \notin g.flags
            /\ g.flags \cap {"RST", "SYN", "ACK"} = {"ACK"}
        BY <3>2
      <4>2. g.seq.isn = t.RemoteSEQ.isn
        BY <3>2 DEF Acceptable
      <4>3. CASE t.smState = "TCP_SYN_RECEIVED"
        <5>1. Completes(t, g)
          BY <2>2, <3>2, <4>1, <4>2, <4>3 DEF Completes
        <5>2. ConnectedAnyway(t, g) = Acked(e, g)
          BY <3>2, <4>1, <4>3 DEF ConnectedAnyway
        <5> QED BY <2>2, <5>1, <5>2
      <4>4. CASE t.smState # "TCP_SYN_RECEIVED"
        BY <2>2, <3>2, <4>1, <4>4 DEF ConnectedAnyway
      <4> QED BY <4>3, <4>4
    <3> QED BY <3>1, <3>2
  <2> QED BY <2>1, <2>2 DEF Connected
<1>2. Follows(t.smState, t.smState)
  BY DEF Follows
<1>3. ASSUME NEW u, StaysOpen(t, u), u.smState = t.smState PROVE Proceeds(t, u)
  BY <1>2, <1>3 DEF Proceeds
<1>4. /\ Proceeds(t, Refuse(t, g, "reset")) /\ Proceeds(t, t) /\ Proceeds(t, Acked(t, g))
      /\ Proceeds(t, SendTCP(t, {"ACK"}, "reset")) /\ Proceeds(t, SendTCP(t, {"ACK"}, "plain"))
      /\ Proceeds(t, CloseSocket(t))
  <2>1. Proceeds(t, Refuse(t, g, "reset"))
    BY <1>3, RefuseStays
  <2>2. Proceeds(t, SendTCP(t, {"ACK"}, "reset")) /\ Proceeds(t, SendTCP(t, {"ACK"}, "plain"))
    BY <1>3, SendStays, AckFlags
  <2>3. Proceeds(t, CloseSocket(t))
    BY CloseCloses DEF Proceeds
  <2> QED BY <2>1, <2>2, <2>3, StaysSelf, AckedProceeds
<1>5. CASE Completes(t, g) /\ Connected(t, g) = Acked(e, g)
  <2>1. e \in Sockets /\ StaysOpen(t, e) /\ e.smState = "TCP_ESTABLISHED"
    <3>1. e \in Sockets /\ e.bServer = t.bServer /\ e.out = t.out /\ e.MySEQ = t.MySEQ
          /\ e.RemoteSEQ = t.RemoteSEQ /\ e.smState = "TCP_ESTABLISHED"
      BY StateNames, StateKinds DEF Sockets
    <3> HIDE DEF e
    <3> QED BY <3>1, ChangeStays
  <2> HIDE DEF e
  <2>2. Proceeds(e, Acked(e, g))
    BY <2>1, AckedProceeds
  <2>3. CASE IsClosed(e, Acked(e, g))
    BY <1>5, <2>1, <2>3, StaysThenCloses DEF Proceeds
  <2>4. CASE StaysOpen(e, Acked(e, g)) /\ Follows("TCP_ESTABLISHED", Acked(e, g).smState)
    BY <1>5, <2>1, <2>4, StaysThenStays, StateNames DEF Follows
  <2> QED BY <2>1, <2>2, <2>3, <2>4 DEF Proceeds
<1> QED BY <1>1, <1>4, <1>5

LEMMA DisconnectProceeds ==
  ASSUME NEW t \in Sockets, t.bServer => t.smState \in Linked \union {"TCP_LISTEN"}
  PROVE  LET u == TCPDisconnect(t)
         IN \/ Proceeds(t, u)
            \/ /\ t.smState = "TCP_CLOSED_BUT_RESERVED" /\ u = [t EXCEPT !.smState = "TCP_CLOSED"]
<1>1. \/ TCPDisconnect(t) = CloseSocket(t)
      \/ /\ t.smState \in {"TCP_SYN_RECEIVED", "TCP_ESTABLISHED"}
         /\ TCPDisconnect(t) = Answer(t, {"FIN", "ACK"}, "TCP_FIN_WAIT_1")
      \/ /\ t.smState = "TCP_CLOSE_WAIT"
         /\ TCPDisconnect(t) = Answer(t, {"FIN", "ACK"}, "TCP_LAST_ACK")
      \/ /\ t.smState = "TCP_CLOSED_BUT_RESERVED"
         /\ TCPDisconnect(t) = [t EXCEPT !.smState = "TCP_CLOSED"]
      \/ TCPDisconnect(t) = Reset(t)
  BY DEF TCPDisconnect
<1>2. ASSUME NEW state \in Linked \ Agreeing, t.smState \in Linked,
             TCPDisconnect(t) = Answer(t, {"FIN", "ACK"}, state)
      PROVE  Proceeds(t, TCPDisconnect(t))
  <2>1. StaysOpen(t, Answer(t, {"FIN", "ACK"}, state))
        /\ Answer(t, {"FIN", "ACK"}, state).smState = state
    BY <1>2, AnswerStays, AckFlags, StateKinds
  <2> QED BY <1>2, <2>1 DEF Proceeds, Follows
<1> QED BY <1>1, <1>2, CloseCloses, ResetCloses, StateNames DEF Proceeds

LEMMA RepeatProceeds ==
  ASSUME NEW t \in Sockets, NEW flags \in SUBSET {"SYN", "ACK", "FIN", "RST"},
         NEW k \in 0..MaxRetries, NEW v, v = [t EXCEPT !.retryCount = k]
  PROVE  Proceeds(t, SendTCP(v, flags, "plain"))
<1>1. v \in Sockets /\ v.smState = t.smState /\ StaysOpen(t, v)
  <2>1. v \in Sockets /\ v.bServer = t.bServer /\ v.out = t.out /\ v.MySEQ = t.MySEQ
        /\ v.RemoteSEQ = t.RemoteSEQ /\ v.smState = t.smState
    BY DEF Sockets
  <2> QED BY <2>1, ChangeStays
<1>2. StaysOpen(v, SendTCP(v, flags, "plain")) /\ SendTCP(v, flags, "plain").smState = v.smState
  BY <1>1, SendStays
<1> QED BY <1>1, <1>2, StaysThenStays DEF Proceeds, Follows

LEMMA ExpiredProceeds ==
  ASSUME NEW t \in Sockets
  PROVE  Proceeds(t, Expired(t))
<1>1. t.retryCount \in 0..MaxRetries
  BY DEF Sockets
<1>2. ASSUME NEW flags \in SUBSET {"SYN", "ACK", "FIN", "RST"}, t.retryCount < MaxRetries
      PROVE  Proceeds(t, Repeat(t, flags))
  <2>1. t.retryCount + 1 \in 0..MaxRetries
    BY <1>1, <1>2, Limits
  <2> QED BY <1>2, <2>1, RepeatProceeds DEF Repeat
<1>3. Proceeds(t, SynAgain(t))
  <2> DEFINE k == Min({t.retryCount, TCP_MAX_RETRIES - 1})
             w == [t EXCEPT !.retryCount = k]
  <2>1. k \in {t.retryCount, TCP_MAX_RETRIES - 1} /\ k <= t.retryCount /\ k <= TCP_MAX_RETRIES - 1
    <3>1. ASSUME NEW a \in Int, NEW b \in Int
          PROVE  Min({a, b}) \in {a, b} /\ Min({a, b}) <= a /\ Min({a, b}) <= b
      <4>1. \E x \in {a, b} : \A y \in {a, b} : x <= y
        BY SMT
      <4> QED BY <4>1 DEF Min
    <3>2. t.retryCount \in Int /\ TCP_MAX_RETRIES - 1 \in Int
      BY <1>1, Limits
    <3> QED BY <3>1, <3>2
  <2> HIDE DEF k
  <2>2. k + 1 \in 0..MaxRetries
    BY <2>1, <1>1, Limits
  <2>3. [w EXCEPT !.retryCount = @ + 1] = [t EXCEPT !.retryCount = k + 1]
    BY DEF Sockets
  <2>4. SynAgain(t) = SendTCP([w EXCEPT !.retryCount = @ + 1], {"SYN"}, "plain")
    BY DEF SynAgain, Repeat, k
  <2> HIDE DEF w
  <2> QED BY <2>2, <2>3, <2>4, RepeatProceeds, AckFlags
<1>4. \/ Expired(t) \in {Reset(t), t, SynAgain(t)}
      \/ /\ t.retryCount < TCP_MAX_RETRIES \/ t.retryCount < TCP_MAX_SYN_RETRIES
         /\ Expired(t) \in {Repeat(t, {"SYN", "ACK"}), Repeat(t, {"FIN", "ACK"}), Repeat(t, {"ACK"})}
  BY DEF Expired, ExpiredButFin2
<1>5. t.retryCount < TCP_MAX_RETRIES \/ t.retryCount < TCP_MAX_SYN_RETRIES
      => t.retryCount < MaxRetries
  BY <1>1, Limits
<1> QED BY <1>2, <1>3, <1>4, <1>5, ResetCloses, StaysSelf, AckFlags

LEMMA TickProceeds ==
  ASSUME NEW t \in Sockets
  PROVE  Proceeds(t, Tick(t))
<1>1. CASE t.smState = "TCP_CLOSE_WAIT"
  <2>1. Tick(t) = Answer(t, {"FIN", "ACK"}, "TCP_LAST_ACK")
    BY <1>1 DEF Tick, CloseWaitOver
  <2>2. StaysOpen(t, Tick(t)) /\ Tick(t).smState = "TCP_LAST_ACK"
    BY <2>1, AnswerStays, AckFlags, StateNames, StateKinds
  <2> QED BY <1>1, <2>2, StateNames DEF Proceeds, Follows
<1>2. CASE t.smState # "TCP_CLOSE_WAIT"
  BY <1>2, ExpiredProceeds DEF Tick
<1> QED BY <1>1, <1>2

LEMMA KeepAliveProceeds ==
  ASSUME NEW t \in Sockets, t.smState = "TCP_ESTABLISHED"
  PROVE  Proceeds(t, KeepAlive(t))
<1> DEFINE v == TCPDisconnect(t)
           u == TCPDisconnect(v)
<1>1. CASE t.vUnackedKeepalives < TCP_MAX_UNACKED_KEEP_ALIVES
  <2>1. KeepAlive(t) = SendTCP(t, {"ACK"}, "keep")
    BY <1>1 DEF KeepAlive
  <2>2. StaysOpen(t, KeepAlive(t)) /\ KeepAlive(t).smState = t.smState
    BY <1>1, <2>1, SendStays, AckFlags
  <2> QED BY <2>2 DEF Proceeds, Follows
<1>2. CASE ~(t.vUnackedKeepalives < TCP_MAX_UNACKED_KEEP_ALIVES)
  <2>1. v = Answer(t, {"FIN", "ACK"}, "TCP_FIN_WAIT_1")
    BY DEF TCPDisconnect, Opening
  <2>2. StaysOpen(t, v) /\ v.smState = "TCP_FIN_WAIT_1" /\ v \in Sockets
    <3>1. "TCP_FIN_WAIT_1" \in States
      BY StateNames, StateKinds
    <3>2. StaysOpen(t, v) /\ v.smState = "TCP_FIN_WAIT_1"
      BY <2>1, <3>1, AnswerStays, AckFlags
    <3> QED BY <3>2 DEF StaysOpen, Transmits
  <2>3. KeepAlive(t) = IF t.bServer THEN u ELSE [u EXCEPT !.smState = "TCP_CLOSED_BUT_RESERVED"]
    BY <1>2 DEF KeepAlive
  <2> HIDE DEF v
  <2>4. u = Reset(v)
    BY <2>2 DEF TCPDisconnect, Opening
  <2>5. IsClosed(t, u)
    BY <2>2, <2>4, ResetCloses, StaysThenCloses
  <2> HIDE DEF u
  <2>6. CASE t.bServer
    BY <2>3, <2>5, <2>6 DEF Proceeds
  <2>7. CASE ~t.bServer
    <3> DEFINE w == [u EXCEPT !.smState = "TCP_CLOSED_BUT_RESERVED"]
    <3>1. u \in Sockets
      BY <2>5 DEF IsClosed, Transmits
    <3>2. w \in Sockets /\ w.bServer = u.bServer /\ w.out = u.out /\ w.MySEQ = u.MySEQ
          /\ w.RemoteSEQ = u.RemoteSEQ /\ w.smState = "TCP_CLOSED_BUT_RESERVED"
      BY <3>1, StateNames DEF Sockets
    <3> HIDE DEF w
    <3>3. IsClosed(t, w)
      BY <2>5, <2>7, <3>2 DEF IsClosed, Transmits
    <3> QED BY <2>3, <2>7, <3>3 DEF Proceeds, w
  <2> QED BY <2>6, <2>7
<1> QED BY <1>1, <1>2

LEMMA HeardStays ==
  ASSUME NEW t \in Sockets
  PROVE  LET u == [t EXCEPT !.vUnackedKeepalives = 0]
         IN /\ u \in Sockets /\ StaysOpen(t, u) /\ u.smState = t.smState /\ u.out = t.out
            /\ u.MySEQ = t.MySEQ /\ u.RemoteSEQ = t.RemoteSEQ /\ u.bServer = t.bServer
<1> DEFINE u == [t EXCEPT !.vUnackedKeepalives = 0]
<1>1. 0 \in 0..TCP_MAX_UNACKED_KEEP_ALIVES
  BY Limits
<1>2. /\ u \in Sockets /\ u.smState = t.smState /\ u.out = t.out
      /\ u.MySEQ = t.MySEQ /\ u.RemoteSEQ = t.RemoteSEQ /\ u.bServer = t.bServer
  BY <1>1 DEF Sockets
<1> HIDE DEF u
<1> QED BY <1>2, ChangeStays DEF u

\* The invariants of the module follow from those here.
LEMMA TypeIsOK ==
  ASSUME TypeInv, FullInv
  PROVE  TypeOK /\ (AllAgreed => EstablishedIsAgreed)
<1>1. ASSUME NEW t, SocketInv(t), t.out = {} PROVE SocketOK(t)
  <2>1. t.MySEQ \in Seqs /\ t.RemoteSEQ \in Seqs /\ t.smState \in States
        /\ t.retryCount \in 0..MaxRetries /\ t.vUnackedKeepalives \in 0..TCP_MAX_UNACKED_KEEP_ALIVES
    BY <1>1 DEF SocketInv, Sockets
  <2>2. t.MySEQ.isn \in Isns \union {0} /\ t.RemoteSEQ.isn \in Isns \union {0}
    BY <2>1 DEF Seqs
  <2> QED BY <1>1, <2>1, <2>2 DEF SocketOK, MaxRetries
<1>2. ASSUME NEW s \in Servers
      PROVE  SocketOK(srv[s]) /\ srv[s].bServer /\ srv[s].smState \notin Opening \cup {"TCP_CLOSED"}
  <2>1. SocketInv(srv[s]) /\ srv[s].bServer /\ srv[s].out = {}
    BY DEF TypeInv
  <2> QED BY <1>1, <2>1, StateKinds DEF SocketInv, Early
<1>3. ASSUME NEW c \in Clients
      PROVE  SocketOK(cl[c]) /\ ~cl[c].bServer /\ cl[c].smState # "TCP_LISTEN"
  BY <1>1 DEF TypeInv, SocketInv
<1>4. TypeOK
  BY <1>2, <1>3 DEF TypeOK, TypeInv, FullInv, Ends
<1> QED BY <1>4 DEF EstablishedIsAgreed, AllAgreed, Agreeing

-----------------------------------------------------------------------------
(* What becomes of the invariant when a socket changes.                     *)

LEMMA ProceedsKeeps ==
  ASSUME NEW t, NEW u, SocketInv(t), Proceeds(t, u)
  PROVE  SocketInv(u) /\ u.bServer = t.bServer
<1>1. CASE StaysOpen(t, u) /\ Follows(t.smState, u.smState)
  BY <1>1, StateKinds DEF StaysOpen, Transmits, Follows, SocketInv
<1>2. CASE IsClosed(t, u)
  BY <1>2, StateKinds, NoneIsNumber DEF IsClosed, Transmits, SocketInv
<1> QED BY <1>1, <1>2 DEF Proceeds

\* A server socket s may become t: the same connection, none, or one with a fresh number; it
\* is established only with what is agreed.
ServerMay(s, t) ==
  /\ SocketInv(t) /\ t.bServer /\ \A g \in t.out : g \in Segments /\ g.toClient
  /\ t.MySEQ.isn \in {0, srv[s].MySEQ.isn} \union (Isns \ Numbers)
  /\ t.smState \in Agreeing =>
       t.MySEQ.isn = srv[s].MySEQ.isn /\ <<t.RemoteSEQ.isn, t.MySEQ.isn>> \in agreed

LEMMA ServerStep ==
  ASSUME ConnInv, NEW s \in Servers, NEW t, NEW rest \in SUBSET net,
         ServerMay(s, t), SrvBecomes(s, t, rest),
         UNCHANGED opens, SYNQueue' \in Seq(Requests), Len(SYNQueue') <= TCP_SYN_QUEUE_MAX_ENTRIES
  PROVE  ConnInv'
<1> DEFINE v == [t EXCEPT !.out = {}]
<1>1. t \in Sockets
  BY DEF ServerMay, SocketInv
<1>2. v \in Sockets /\ v.out = {} /\ v.bServer = t.bServer /\ v.smState = t.smState
      /\ v.MySEQ = t.MySEQ /\ v.RemoteSEQ = t.RemoteSEQ
  BY <1>1 DEF Sockets
<1>3. SocketInv(v) /\ v.bServer
  BY <1>2 DEF ServerMay, SocketInv
<1>4. cl' = cl /\ srv' = [srv EXCEPT ![s] = v] /\ net' = rest \cup t.out
      /\ agreed' = {p \in agreed : \E r \in Servers : srv'[r].MySEQ.isn = p[2]}
  BY DEF SrvBecomes, Sends
<1> HIDE DEF v
<1>5. srv'[s] = v /\ \A r \in Servers : r # s => srv'[r] = srv[r]
  BY <1>4 DEF ConnInv, TypeInv
<1>6. TypeInv'
  <2>1. srv' \in [Servers -> Sockets]
    BY <1>2, <1>4 DEF ConnInv, TypeInv
  <2>2. \A r \in Servers : SocketInv(srv'[r]) /\ srv'[r].bServer /\ srv'[r].out = {}
    BY <1>2, <1>3, <1>5 DEF ConnInv, TypeInv
  <2>3. net' \subseteq Segments
    BY <1>4 DEF ConnInv, TypeInv, ServerMay
  <2> QED BY <1>4, <2>1, <2>2, <2>3 DEF ConnInv, TypeInv
<1>7. \A g \in net' : Confirms(g) => g \in net
  BY <1>4 DEF ServerMay, Confirms
<1>8. ASSUME NEW r \in Servers, NEW a, srv'[r].MySEQ.isn # 0, <<a, srv'[r].MySEQ.isn>> \in agreed
      PROVE  <<a, srv'[r].MySEQ.isn>> \in agreed'
  BY <1>4, <1>8
<1>9. ASSUME NEW r \in Servers, srv'[r].MySEQ.isn # 0
      PROVE  LET own == srv'[r].MySEQ.isn
             IN /\ \A g \in net' : Confirms(g) /\ g.ack.isn = own => <<g.seq.isn, own>> \in agreed'
                /\ \A c \in Clients : cl'[c].RemoteSEQ.isn = own => <<cl'[c].MySEQ.isn, own>> \in agreed'
  <2>1. CASE srv'[r].MySEQ.isn = srv[r].MySEQ.isn
    BY <1>4, <1>7, <1>8, <1>9, <2>1 DEF ConnInv, AgreedInv
  <2>2. CASE srv'[r].MySEQ.isn # srv[r].MySEQ.isn
    <3>1. r = s /\ srv'[r].MySEQ.isn \notin Numbers
      BY <1>2, <1>5, <1>9, <2>2 DEF ServerMay
    <3>2. ASSUME NEW g \in net PROVE g.ack.isn # srv'[r].MySEQ.isn
      BY <3>1 DEF Numbers
    <3>3. ASSUME NEW c \in Clients PROVE cl'[c].RemoteSEQ.isn # srv'[r].MySEQ.isn
      BY <1>4, <3>1 DEF Numbers
    <3> QED BY <1>7, <3>2, <3>3
  <2> QED BY <2>1, <2>2
<1>10. AgreedInv'
  BY <1>9 DEF AgreedInv
<1>11. ASSUME NEW r \in Servers, srv'[r].smState \in Agreeing
       PROVE  <<srv'[r].RemoteSEQ.isn, srv'[r].MySEQ.isn>> \in agreed'
  <2>1. srv'[r].MySEQ.isn # 0
    BY <1>6, <1>11, StateKinds DEF TypeInv, SocketInv
  <2>2. <<srv'[r].RemoteSEQ.isn, srv'[r].MySEQ.isn>> \in agreed
    <3>1. CASE r = s
      BY <1>2, <1>5, <1>11, <3>1 DEF ServerMay
    <3>2. CASE r # s
      BY <1>5, <1>11, <3>2 DEF ConnInv, AllAgreed
    <3> QED BY <3>1, <3>2
  <2> QED BY <1>8, <2>1, <2>2
<1>12. AllAgreed'
  BY <1>11 DEF AllAgreed
<1> QED BY <1>6, <1>10, <1>12 DEF ConnInv

\* A pair of numbers that the client c, which becomes u, goes by or sends away: that of its
\* connection, that of the connection it accepts, or none.
Vouched(c, u, a, b) ==
  \/ b = 0
  \/ a = cl[c].MySEQ.isn /\ b = cl[c].RemoteSEQ.isn
  \/ u.smState = "TCP_ESTABLISHED" /\ a = u.MySEQ.isn /\ b = u.RemoteSEQ.isn
ClientMay(c, u) ==
  /\ SocketInv(u) /\ ~u.bServer /\ Vouched(c, u, u.MySEQ.isn, u.RemoteSEQ.isn)
  /\ \A g \in u.out : g \in Segments /\ (Confirms(g) => Vouched(c, u, g.seq.isn, g.ack.isn))

LEMMA ClientStep ==
  ASSUME ConnInv, NEW c \in Clients, NEW u, NEW rest \in SUBSET net,
         ClientMay(c, u), ClBecomes(c, u, rest),
         UNCHANGED SYNQueue, opens' \in [Clients -> Nat]
  PROVE  ConnInv'
<1> DEFINE v == [u EXCEPT !.out = {}]
<1>1. u \in Sockets
  BY DEF ClientMay, SocketInv
<1>2. v \in Sockets /\ v.out = {} /\ v.bServer = u.bServer /\ v.smState = u.smState
      /\ v.MySEQ = u.MySEQ /\ v.RemoteSEQ = u.RemoteSEQ
  BY <1>1 DEF Sockets
<1>3. SocketInv(v) /\ ~v.bServer
  BY <1>2 DEF ClientMay, SocketInv
<1>4. srv' = srv /\ cl' = [cl EXCEPT ![c] = v] /\ net' = rest \cup u.out
      /\ agreed' = agreed \cup (IF u.smState = "TCP_ESTABLISHED"
                                 THEN {<<u.MySEQ.isn, u.RemoteSEQ.isn>>} ELSE {})
  BY DEF ClBecomes, Sends
<1> HIDE DEF v
<1>5. cl'[c] = v /\ \A d \in Clients : d # c => cl'[d] = cl[d]
  BY <1>4 DEF ConnInv, TypeInv
<1>6. TypeInv'
  <2>1. cl' \in [Clients -> Sockets]
    BY <1>2, <1>4 DEF ConnInv, TypeInv
  <2>2. \A d \in Clients : SocketInv(cl'[d]) /\ ~cl'[d].bServer /\ cl'[d].out = {}
    BY <1>2, <1>3, <1>5 DEF ConnInv, TypeInv
  <2>3. net' \subseteq Segments
    BY <1>4 DEF ConnInv, TypeInv, ClientMay
  <2> QED BY <1>4, <2>1, <2>2, <2>3 DEF ConnInv, TypeInv
<1>7. ASSUME NEW s \in Servers, srv[s].MySEQ.isn # 0, NEW a, Vouched(c, u, a, srv[s].MySEQ.isn)
      PROVE  <<a, srv[s].MySEQ.isn>> \in agreed'
  BY <1>4, <1>7 DEF Vouched, ConnInv, AgreedInv
<1>8. ASSUME NEW s \in Servers, srv[s].MySEQ.isn # 0
      PROVE  LET own == srv[s].MySEQ.isn
             IN /\ \A g \in net' : Confirms(g) /\ g.ack.isn = own => <<g.seq.isn, own>> \in agreed'
                /\ \A d \in Clients : cl'[d].RemoteSEQ.isn = own => <<cl'[d].MySEQ.isn, own>> \in agreed'
  <2>1. ASSUME NEW g \in net', Confirms(g), g.ack.isn = srv[s].MySEQ.isn
        PROVE  <<g.seq.isn, srv[s].MySEQ.isn>> \in agreed'
    <3>1. CASE g \in net
      BY <1>4, <1>8, <2>1, <3>1 DEF ConnInv, AgreedInv
    <3>2. CASE g \in u.out
      BY <1>7, <1>8, <2>1, <3>2 DEF ClientMay
    <3> QED BY <1>4, <3>1, <3>2
  <2>2. ASSUME NEW d \in Clients, cl'[d].RemoteSEQ.isn = srv[s].MySEQ.isn
        PROVE  <<cl'[d].MySEQ.isn, srv[s].MySEQ.isn>> \in agreed'
    <3>1. CASE d = c
      BY <1>2, <1>5, <1>7, <1>8, <2>2, <3>1 DEF ClientMay
    <3>2. CASE d # c
      BY <1>4, <1>5, <1>8, <2>2, <3>2 DEF ConnInv, AgreedInv
    <3> QED BY <3>1, <3>2
  <2> QED BY <2>1, <2>2
<1>9. AgreedInv'
  BY <1>4, <1>8 DEF AgreedInv
<1>10. AllAgreed'
  BY <1>4 DEF ConnInv, AllAgreed
<1> QED BY <1>6, <1>9, <1>10 DEF ConnInv

LEMMA FreshNumber ==
  ASSUME NumberLeft
  PROVE  Isn \in Isns \ Numbers /\ Isn # 0 /\ [isn |-> Isn, n |-> 0] \in Seqs
<1>1. Isns \subseteq Nat \ {0}
  BY ConnAssumption
<1>2. Isn \in Isns \ Numbers
  BY <1>1, MinInSet DEF NumberLeft, Isn
<1> QED BY <1>1, <1>2 DEF Seqs

\* A socket that goes on or is closed, whatever the event.
LEMMA ServerProceeds ==
  ASSUME ConnInv, NEW s \in Servers, NEW t, Proceeds(srv[s], t)
  PROVE  ServerMay(s, t)
<1>1. SocketInv(srv[s]) /\ srv[s].bServer /\ srv[s].out = {}
  BY DEF ConnInv, TypeInv
<1>2. SocketInv(t) /\ t.bServer
  BY <1>1, ProceedsKeeps
<1>3. \A g \in t.out : g \in Segments /\ g.toClient
  BY <1>1 DEF Proceeds, StaysOpen, IsClosed, Transmits, Says
<1>4. CASE StaysOpen(srv[s], t) /\ Follows(srv[s].smState, t.smState)
  BY <1>2, <1>3, <1>4 DEF ServerMay, StaysOpen, Follows, ConnInv, AllAgreed
<1>5. CASE IsClosed(srv[s], t)
  BY <1>1, <1>2, <1>3, <1>5, NoneIsNumber, StateKinds DEF ServerMay, IsClosed
<1> QED BY <1>4, <1>5 DEF Proceeds

LEMMA ClientProceeds ==
  ASSUME ConnInv, NEW c \in Clients, NEW u, Proceeds(cl[c], u)
  PROVE  ClientMay(c, u)
<1>1. SocketInv(cl[c]) /\ ~cl[c].bServer /\ cl[c].out = {}
  BY DEF ConnInv, TypeInv
<1>2. SocketInv(u) /\ ~u.bServer
  BY <1>1, ProceedsKeeps
<1>3. \A g \in u.out : Says(cl[c], g)
  BY <1>1 DEF Proceeds, StaysOpen, IsClosed, Transmits
<1>4. \A g \in u.out : g \in Segments /\ (Confirms(g) => Vouched(c, u, g.seq.isn, g.ack.isn))
  BY <1>3 DEF Says, Confirms, Vouched
<1>5. Vouched(c, u, u.MySEQ.isn, u.RemoteSEQ.isn)
  BY NoneIsNumber DEF Proceeds, StaysOpen, IsClosed, Vouched
<1> QED BY <1>2, <1>4, <1>5 DEF ClientMay

-----------------------------------------------------------------------------
(* The events that begin a connection or look at a segment.                 *)

LEMMA ServerAnswers ==
  ASSUME ConnInv, NumberLeft, NEW s \in Servers, NEW v \in Sockets, v.bServer, v.out = {},
         v.MySEQ.isn = Isn
  PROVE  ServerMay(s, Answer(v, {"SYN", "ACK"}, "TCP_SYN_RECEIVED"))
<1> DEFINE t == Answer(v, {"SYN", "ACK"}, "TCP_SYN_RECEIVED")
<1>1. StaysOpen(v, t) /\ t.smState = "TCP_SYN_RECEIVED"
  <2>1. "TCP_SYN_RECEIVED" \in States
    BY StateNames, StateKinds
  <2> QED BY <2>1, AnswerStays, AckFlags
<1> HIDE DEF t
<1>2. t \in Sockets /\ t.bServer /\ t.MySEQ.isn = Isn /\ \A g \in t.out : g \in Segments /\ g.toClient
  BY <1>1 DEF StaysOpen, Transmits, Says
<1>3. SocketInv(t)
  BY <1>1, <1>2, FreshNumber, StateNames DEF SocketInv
<1>4. t.smState \notin Agreeing
  BY <1>1 DEF Agreeing
<1>5. ServerMay(s, t)
  BY <1>2, <1>3, <1>4, FreshNumber DEF ServerMay
<1> QED BY <1>5 DEF t

LEMMA ListeningMay ==
  ASSUME ConnInv, NumberLeft, NEW s \in Servers, NEW g \in Segments, NEW x,
         x = [srv[s] EXCEPT !.vUnackedKeepalives = 0]
  PROVE  ServerMay(s, Listening(x, g, Isn))
<1> DEFINE u == [x EXCEPT !.client = g.client, !.port = g.port]
           v == [u EXCEPT !.RemoteSEQ = Plus(g.seq, 1), !.MySEQ = [isn |-> Isn, n |-> 0]]
<1>1. srv[s] \in Sockets /\ srv[s].bServer /\ srv[s].out = {}
  BY DEF ConnInv, TypeInv
<1>2. x \in Sockets /\ x.out = {} /\ x.bServer /\ StaysOpen(srv[s], x)
  BY <1>1, HeardStays
<1>3. u \in Sockets /\ u.out = {} /\ u.bServer /\ StaysOpen(srv[s], u)
  <2>1. g.client \in Ends /\ g.port \in Int
    BY DEF Segments
  <2>2. /\ u \in Sockets /\ u.out = x.out /\ u.bServer = x.bServer /\ u.MySEQ = x.MySEQ
        /\ u.RemoteSEQ = x.RemoteSEQ
    BY <1>2, <2>1 DEF Sockets
  <2> HIDE DEF u
  <2>3. StaysOpen(x, u)
    BY <1>2, <2>2, ChangeStays
  <2> QED BY <1>2, <2>2, <2>3, StaysThenStays
<1>4. Listening(x, g, Isn) \in {CloseSocket(u), CloseSocket(Refuse(u, g, "plain")),
                                Answer(v, {"SYN", "ACK"}, "TCP_SYN_RECEIVED")}
  BY DEF Listening
<1> HIDE DEF u
<1>5. CASE Listening(x, g, Isn) = CloseSocket(u)
  BY <1>3, <1>5, CloseCloses, StaysThenCloses, ServerProceeds DEF Proceeds
<1>6. CASE Listening(x, g, Isn) = CloseSocket(Refuse(u, g, "plain"))
  <2> DEFINE w == Refuse(u, g, "plain")
  <2>1. StaysOpen(u, w)
    BY <1>3, RefuseStays
  <2> HIDE DEF w
  <2>2. StaysOpen(srv[s], w) /\ w \in Sockets
    BY <1>3, <2>1, StaysThenStays DEF StaysOpen, Transmits
  <2>3. IsClosed(srv[s], CloseSocket(w))
    BY <2>2, CloseCloses, StaysThenCloses
  <2> QED BY <1>6, <2>3, ServerProceeds DEF Proceeds, w
<1>7. CASE Listening(x, g, Isn) = Answer(v, {"SYN", "ACK"}, "TCP_SYN_RECEIVED")
  <2>1. Plus(g.seq, 1) \in Seqs /\ [isn |-> Isn, n |-> 0] \in Seqs
    BY FreshNumber, PlusType, 1 \in Int DEF Segments
  <2>2. v \in Sockets /\ v.bServer = u.bServer /\ v.out = u.out /\ v.MySEQ = [isn |-> Isn, n |-> 0]
    BY <1>3, <2>1 DEF Sockets
  <2> HIDE DEF v
  <2>3. v \in Sockets /\ v.bServer /\ v.out = {} /\ v.MySEQ.isn = Isn
    BY <1>3, <2>2
  <2> QED BY <1>7, <2>3, ServerAnswers
<1> QED BY <1>4, <1>5, <1>6, <1>7

\* A segment that completes the handshake at the server comes from a client that has
\* accepted the connection.
LEMMA CompletesAgreed ==
  ASSUME ConnInv, NEW s \in Servers, NEW g \in net, ~g.toClient, Completes(srv[s], g)
  PROVE  <<srv[s].RemoteSEQ.isn, srv[s].MySEQ.isn>> \in agreed
<1>1. srv[s].MySEQ.isn # 0
  BY StateNames, StateKinds DEF ConnInv, TypeInv, SocketInv, Completes
<1>2. Confirms(g) /\ g.ack.isn = srv[s].MySEQ.isn /\ g.seq.isn = srv[s].RemoteSEQ.isn
  BY DEF Completes, Confirms
<1> QED BY <1>1, <1>2 DEF ConnInv, AgreedInv

LEMMA ServerHandles ==
  ASSUME ConnInv, NumberLeft, NEW s \in Servers, NEW g \in net, ~g.toClient
  PROVE  ServerMay(s, HandleTCPSeg(srv[s], g, Isn))
<1> DEFINE x == [srv[s] EXCEPT !.vUnackedKeepalives = 0]
           t == Connected(x, g)
<1>1. g \in Segments /\ SocketInv(srv[s]) /\ srv[s] \in Sockets /\ srv[s].bServer /\ srv[s].out = {}
  BY DEF ConnInv, TypeInv
<1>2. /\ x \in Sockets /\ StaysOpen(srv[s], x) /\ x.smState = srv[s].smState /\ x.out = {}
      /\ x.MySEQ = srv[s].MySEQ /\ x.RemoteSEQ = srv[s].RemoteSEQ /\ x.bServer
  BY <1>1, HeardStays
<1>3. srv[s].smState # "TCP_SYN_SENT"
  BY <1>1 DEF SocketInv, Linked, Closing
<1>4. CASE srv[s].smState = "TCP_LISTEN"
  BY <1>1, <1>4, ListeningMay DEF HandleTCPSeg
<1>5. CASE srv[s].smState # "TCP_LISTEN"
  <2>1. HandleTCPSeg(srv[s], g, Isn) = t
    BY <1>3, <1>5 DEF HandleTCPSeg
  <2> HIDE DEF x
  <2>2. Proceeds(x, t) \/ (Completes(x, g) /\ StaysOpen(x, t) /\ t.smState \in Linked)
    BY <1>1, <1>2, ConnectedProceeds
  <2> HIDE DEF t
  <2>3. CASE Proceeds(x, t)
    BY <1>2, <2>1, <2>3, ThenProceeds, ServerProceeds DEF Follows
  <2>4. CASE Completes(x, g) /\ StaysOpen(x, t) /\ t.smState \in Linked
    <3>1. <<srv[s].RemoteSEQ.isn, srv[s].MySEQ.isn>> \in agreed /\ srv[s].MySEQ.isn # 0
      BY <1>1, <1>2, <1>5, <2>4, CompletesAgreed DEF Completes, SocketInv
    <3>2. /\ t \in Sockets /\ t.bServer /\ t.MySEQ.isn = srv[s].MySEQ.isn
          /\ t.RemoteSEQ.isn = srv[s].RemoteSEQ.isn /\ \A h \in t.out : h \in Segments /\ h.toClient
      BY <1>2, <2>4 DEF StaysOpen, Transmits, Says
    <3>3. SocketInv(t)
      BY <2>4, <3>1, <3>2 DEF SocketInv
    <3> QED BY <2>1, <3>1, <3>2, <3>3 DEF ServerMay
  <2> QED BY <2>2, <2>3, <2>4
<1> QED BY <1>4, <1>5

LEMMA ClientHandles ==
  ASSUME ConnInv, NEW c \in Clients, NEW g \in net,
         cl[c].smState \notin {"TCP_CLOSED", "TCP_CLOSED_BUT_RESERVED"}, NEW isn
  PROVE  ClientMay(c, HandleTCPSeg(cl[c], g, isn))
<1> DEFINE x == [cl[c] EXCEPT !.vUnackedKeepalives = 0]
<1>1. g \in Segments /\ SocketInv(cl[c]) /\ cl[c] \in Sockets /\ ~cl[c].bServer /\ cl[c].out = {}
      /\ cl[c].smState # "TCP_LISTEN"
  BY DEF ConnInv, TypeInv, SocketInv
<1>2. /\ x \in Sockets /\ StaysOpen(cl[c], x) /\ x.smState = cl[c].smState /\ x.out = {}
      /\ x.MySEQ = cl[c].MySEQ /\ x.RemoteSEQ = cl[c].RemoteSEQ /\ ~x.bServer
  BY <1>1, HeardStays
<1>3. HandleTCPSeg(cl[c], g, isn) = IF cl[c].smState = "TCP_SYN_SENT" THEN SynSent(x, g)
                                    ELSE Connected(x, g)
  BY <1>1 DEF HandleTCPSeg
<1> HIDE DEF x
<1>4. Follows(cl[c].smState, x.smState)
  BY <1>2 DEF Follows
<1>5. CASE cl[c].smState # "TCP_SYN_SENT"
  <2>1. ~Completes(x, g) \/ cl[c].smState = "TCP_SYN_RECEIVED"
    BY <1>2 DEF Completes
  <2>2. CASE Proceeds(x, Connected(x, g))
    BY <1>2, <1>3, <1>4, <1>5, <2>2, ThenProceeds, ClientProceeds
  <2>3. CASE Completes(x, g) /\ StaysOpen(x, Connected(x, g)) /\ Connected(x, g).smState \in Linked
    <3> DEFINE u == Connected(x, g)
    <3> HIDE DEF u
    <3>1. StaysOpen(cl[c], u)
      BY <1>2, <2>3, StaysThenStays DEF u
    <3>2. SocketInv(u) /\ ~u.bServer
      BY <1>1, <2>3, <3>1, StateKinds DEF SocketInv, StaysOpen, Transmits, u
    <3>3. Vouched(c, u, u.MySEQ.isn, u.RemoteSEQ.isn)
      BY <3>1 DEF StaysOpen, Vouched
    <3>4. \A h \in u.out : h \in Segments /\ (Confirms(h) => Vouched(c, u, h.seq.isn, h.ack.isn))
      BY <1>1, <3>1 DEF StaysOpen, Transmits, Says, Confirms, Vouched
    <3> QED BY <1>3, <1>5, <3>2, <3>3, <3>4 DEF ClientMay, u
  <2> QED BY <1>1, <1>2, <2>2, <2>3, ConnectedProceeds
<1>6. CASE cl[c].smState = "TCP_SYN_SENT"
  <2> DEFINE v == [x EXCEPT !.RemoteSEQ = Plus(g.seq, 1), !.remoteWindow = g.window]
             w == Answer(v, {"ACK"}, "TCP_ESTABLISHED")
             u == [w EXCEPT !.bTimerEnabled = FALSE]
  <2>1. SynSent(x, g) \in {x, Refuse(x, g, "reset"), u}
    BY DEF SynSent
  <2>2. CASE SynSent(x, g) \in {x, Refuse(x, g, "reset")}
    <3>1. StaysOpen(x, SynSent(x, g)) /\ SynSent(x, g).smState = x.smState
      BY <1>1, <1>2, <2>2, RefuseStays, StaysSelf
    <3> QED BY <1>2, <1>3, <1>4, <1>6, <3>1, StaysThenStays, ClientProceeds DEF Proceeds
  <2>3. CASE SynSent(x, g) = u
    <3>1. Plus(g.seq, 1) \in Seqs /\ g.window \in BOOLEAN
      BY <1>1, PlusType, 1 \in Int DEF Segments
    <3>2. v \in Sockets /\ v.bServer = x.bServer /\ v.out = x.out
      BY <1>2, <3>1 DEF Sockets
    <3> HIDE DEF v
    <3>3. StaysOpen(v, w) /\ w.smState = "TCP_ESTABLISHED"
      BY <3>2, AnswerStays, AckFlags, StateNames, StateKinds
    <3> HIDE DEF w
    <3>4. u \in Sockets /\ u.bServer = w.bServer /\ u.out = w.out /\ u.MySEQ = w.MySEQ
          /\ u.RemoteSEQ = w.RemoteSEQ /\ u.smState = "TCP_ESTABLISHED"
      BY <3>3 DEF Sockets, StaysOpen, Transmits
    <3> HIDE DEF u
    <3>5. \A h \in u.out : Says(u, h)
      BY <1>2, <3>2, <3>3, <3>4 DEF StaysOpen, Transmits, Says
    <3>6. SocketInv(u) /\ ~u.bServer
      BY <1>2, <3>2, <3>3, <3>4, StateNames, StateKinds DEF SocketInv, StaysOpen, Transmits
    <3>7. \A h \in u.out : h \in Segments /\ (Confirms(h) => Vouched(c, u, h.seq.isn, h.ack.isn))
      BY <3>4, <3>5 DEF Says, Confirms, Vouched
    <3> QED BY <1>3, <1>6, <2>3, <3>4, <3>6, <3>7 DEF ClientMay, Vouched
  <2> QED BY <2>1, <2>2, <2>3
<1> QED BY <1>5, <1>6

-----------------------------------------------------------------------------
(* The steps.                                                               *)

LEMMA InitConn == Init => ConnInv
<1> SUFFICES ASSUME Init PROVE ConnInv
  OBVIOUS
<1>1. ASSUME NEW s \in Servers
      PROVE  srv[s] \in Sockets /\ SocketInv(srv[s]) /\ srv[s].bServer /\ srv[s].out = {}
             /\ srv[s].MySEQ.isn = 0 /\ srv[s].smState = "TCP_LISTEN"
  <2>1. srv[s] = Socket(TRUE, Nobody)
    BY DEF Init
  <2> QED BY <2>1, FreshSocket, NobodyIsEnd, NoneIsNumber
<1>2. ASSUME NEW c \in Clients
      PROVE  cl[c] \in Sockets /\ SocketInv(cl[c]) /\ ~cl[c].bServer /\ cl[c].out = {}
  <2>1. cl[c] = Socket(FALSE, c)
    BY DEF Init
  <2> QED BY <2>1, FreshSocket, NobodyIsEnd
<1>3. srv \in [Servers -> Sockets] /\ cl \in [Clients -> Sockets]
  BY <1>1, <1>2 DEF Init
<1>4. SYNQueue \in Seq(Requests) /\ Len(SYNQueue) <= TCP_SYN_QUEUE_MAX_ENTRIES /\ net \subseteq Segments
  BY ConnAssumption DEF Init
<1>5. opens \in [Clients -> Nat]
  BY DEF Init
<1>6. TypeInv
  BY <1>1, <1>2, <1>3, <1>4, <1>5 DEF TypeInv
<1>7. AgreedInv /\ AllAgreed
  BY <1>1, StateKinds DEF AgreedInv, AllAgreed
<1> QED BY <1>6, <1>7 DEF ConnInv

LEMMA SameNet == net \in SUBSET net
OBVIOUS

\* A step of one server socket that leaves the queue as it is, and one of a client.
LEMMA ServerActs ==
  ASSUME ConnInv, NEW s \in Servers, NEW t, Proceeds(srv[s], t), SrvBecomes(s, t, net),
         UNCHANGED <<SYNQueue, opens>>
  PROVE  ConnInv'
<1>1. ServerMay(s, t)
  BY ServerProceeds
<1>2. SYNQueue' \in Seq(Requests) /\ Len(SYNQueue') <= TCP_SYN_QUEUE_MAX_ENTRIES
  BY DEF ConnInv, TypeInv
<1> QED BY <1>1, <1>2, ServerStep, SameNet

LEMMA ClientActs ==
  ASSUME ConnInv, NEW c \in Clients, NEW t, ClientMay(c, t), ClBecomes(c, t, net),
         UNCHANGED <<SYNQueue, opens>>
  PROVE  ConnInv'
<1>1. opens' \in [Clients -> Nat]
  BY DEF ConnInv, TypeInv
<1> QED BY <1>1, ClientStep, SameNet

LEMMA SocketTypes ==
  ASSUME ConnInv
  PROVE  /\ \A s \in Servers : /\ srv[s] \in Sockets /\ SocketInv(srv[s]) /\ srv[s].bServer
                               /\ srv[s].out = {} /\ srv[s].smState \in Linked \union {"TCP_LISTEN"}
         /\ \A c \in Clients : /\ cl[c] \in Sockets /\ SocketInv(cl[c]) /\ ~cl[c].bServer
                               /\ cl[c].out = {}
BY DEF ConnInv, TypeInv, SocketInv

LEMMA TimerSteps ==
  ASSUME ConnInv
  PROVE  /\ \A s \in Servers : TickServer(s) \/ KeepServer(s) => ConnInv'
         /\ \A c \in Clients : TickClient(c) \/ KeepClient(c) => ConnInv'
<1>1. ASSUME NEW s \in Servers, TickServer(s) PROVE ConnInv'
  BY <1>1, SocketTypes, TickProceeds, ServerActs DEF TickServer
<1>2. ASSUME NEW s \in Servers, KeepServer(s) PROVE ConnInv'
  BY <1>2, SocketTypes, KeepAliveProceeds, ServerActs DEF KeepServer, Watched
<1>3. ASSUME NEW c \in Clients, TickClient(c) PROVE ConnInv'
  BY <1>3, SocketTypes, TickProceeds, ClientProceeds, ClientActs DEF TickClient
<1>4. ASSUME NEW c \in Clients, KeepClient(c) PROVE ConnInv'
  BY <1>4, SocketTypes, KeepAliveProceeds, ClientProceeds, ClientActs DEF KeepClient, Watched
<1> QED BY <1>1, <1>2, <1>3, <1>4

LEMMA LeaveSteps ==
  ASSUME ConnInv
  PROVE  /\ \A s \in Servers : LeaveServer(s) => ConnInv'
         /\ \A c \in Clients : LeaveClient(c) => ConnInv'
<1>1. ASSUME NEW s \in Servers, LeaveServer(s) PROVE ConnInv'
  <2>1. Proceeds(srv[s], TCPDisconnect(srv[s]))
    BY <1>1, SocketTypes, DisconnectProceeds DEF LeaveServer
  <2> QED BY <1>1, <2>1, ServerActs DEF LeaveServer
<1>2. ASSUME NEW c \in Clients, LeaveClient(c) PROVE ConnInv'
  <2> DEFINE u == TCPDisconnect(cl[c])
  <2>1. ClBecomes(c, u, net) /\ UNCHANGED <<SYNQueue, opens>>
    BY <1>2 DEF LeaveClient
  <2>2. Proceeds(cl[c], u) \/ (/\ cl[c].smState = "TCP_CLOSED_BUT_RESERVED"
                               /\ u = [cl[c] EXCEPT !.smState = "TCP_CLOSED"])
    BY SocketTypes, DisconnectProceeds
  <2> HIDE DEF u
  <2>3. CASE Proceeds(cl[c], u)
    BY <2>1, <2>3, ClientProceeds, ClientActs
  <2>4. CASE /\ cl[c].smState = "TCP_CLOSED_BUT_RESERVED"
             /\ u = [cl[c] EXCEPT !.smState = "TCP_CLOSED"]
    <3>1. /\ u \in Sockets /\ u.bServer = cl[c].bServer /\ u.out = {} /\ u.MySEQ = cl[c].MySEQ
          /\ u.RemoteSEQ = cl[c].RemoteSEQ /\ u.smState = "TCP_CLOSED"
      BY <2>4, SocketTypes, StateNames DEF Sockets
    <3>2. cl[c].RemoteSEQ.isn = 0
      BY <2>4, SocketTypes DEF SocketInv, Early
    <3>3. SocketInv(u) /\ ~u.bServer
      BY <3>1, <3>2, SocketTypes DEF SocketInv
    <3>4. ClientMay(c, u)
      BY <3>1, <3>2, <3>3 DEF ClientMay, Vouched
    <3> QED BY <2>1, <3>4, ClientActs
  <2> QED BY <2>2, <2>3, <2>4
<1> QED BY <1>1, <1>2

LEMMA OpenSteps ==
  ASSUME ConnInv, NumberLeft, NEW c \in Clients
  PROVE  ArpIsResolved(c) \/ TCPOpen(c) => ConnInv'
<1>1. ASSUME ArpIsResolved(c) PROVE ConnInv'
  <2> DEFINE v == [cl[c] EXCEPT !.MySEQ = [isn |-> Isn, n |-> 0]]
             u == Answer(v, {"SYN"}, "TCP_SYN_SENT")
  <2>1. cl[c].smState = "TCP_GATEWAY_GET_ARP" /\ ClBecomes(c, u, net) /\ UNCHANGED <<SYNQueue, opens>>
    BY <1>1 DEF ArpIsResolved
  <2>2. cl[c].RemoteSEQ.isn = 0
    BY <2>1, SocketTypes DEF SocketInv, Early, Opening
  <2>3. v \in Sockets /\ ~v.bServer /\ v.out = {} /\ v.RemoteSEQ = cl[c].RemoteSEQ
    BY SocketTypes, FreshNumber DEF Sockets
  <2> HIDE DEF v
  <2>4. StaysOpen(v, u) /\ u.smState = "TCP_SYN_SENT"
    BY <2>3, AnswerStays, AckFlags, StateNames
  <2> HIDE DEF u
  <2>5. SocketInv(u) /\ ~u.bServer /\ u.RemoteSEQ.isn = 0
    BY <2>2, <2>3, <2>4 DEF SocketInv, StaysOpen, Transmits
  <2>6. \A h \in u.out : h \in Segments /\ (Confirms(h) => h.ack.isn = 0)
    BY <2>2, <2>3, <2>4 DEF StaysOpen, Transmits, Says, Confirms
  <2>7. ClientMay(c, u)
    BY <2>5, <2>6 DEF ClientMay, Vouched
  <2> QED BY <2>1, <2>7, ClientActs
<1>2. ASSUME TCPOpen(c) PROVE ConnInv'
  <2> DEFINE u == [cl[c] EXCEPT !.port = opens[c] + 1, !.bTimerEnabled = TRUE,
                                !.smState = "TCP_GATEWAY_GET_ARP"]
  <2>1. cl[c].smState = "TCP_CLOSED" /\ ClBecomes(c, u, net) /\ UNCHANGED SYNQueue
        /\ opens' = [opens EXCEPT ![c] = @ + 1] /\ opens \in [Clients -> Nat]
    BY <1>2 DEF TCPOpen, ConnInv, TypeInv
  <2>2. opens' \in [Clients -> Nat] /\ opens[c] + 1 \in Int
    BY <2>1
  <2>3. "TCP_GATEWAY_GET_ARP" \in States /\ "TCP_GATEWAY_GET_ARP" # "TCP_LISTEN"
    BY DEF States, Opening
  <2>4. /\ u \in Sockets /\ ~u.bServer /\ u.out = {} /\ u.RemoteSEQ = cl[c].RemoteSEQ
        /\ u.smState = "TCP_GATEWAY_GET_ARP"
    BY <2>2, <2>3, SocketTypes, ZenonT(60) DEF Sockets
  <2> HIDE DEF u
  <2>5. u.RemoteSEQ.isn = 0
    BY <2>1, <2>4, SocketTypes DEF SocketInv, Early
  <2>6. ClientMay(c, u)
    BY <2>3, <2>4, <2>5 DEF ClientMay, Vouched, SocketInv
  <2> QED BY <2>1, <2>2, <2>6, ClientStep, SameNet
<1> QED BY <1>1, <1>2

\* Segments that are gone and a queue that changes do not matter.
LEMMA FewerSegments ==
  ASSUME ConnInv, net' \in SUBSET net, UNCHANGED <<srv, cl, agreed>>, opens' \in [Clients -> Nat],
         \/ SYNQueue' \in Seq(Requests) /\ Len(SYNQueue') <= TCP_SYN_QUEUE_MAX_ENTRIES
         \/ UNCHANGED SYNQueue
  PROVE  ConnInv'
<1>1. TypeInv'
  <2>1. srv' = srv /\ cl' = cl /\ net' \subseteq Segments
    BY DEF ConnInv, TypeInv
  <2>2. SYNQueue' \in Seq(Requests) /\ Len(SYNQueue') <= TCP_SYN_QUEUE_MAX_ENTRIES
    BY DEF ConnInv, TypeInv
  <2> QED BY <2>1, <2>2 DEF ConnInv, TypeInv
<1>2. AgreedInv'
  BY DEF ConnInv, AgreedInv
<1>3. AllAgreed'
  BY DEF ConnInv, AllAgreed
<1> QED BY <1>1, <1>2, <1>3 DEF ConnInv

LEMMA ArriveStep ==
  ASSUME ConnInv, NumberLeft, NEW c \in Clients, NEW p \in Ports, Arrive(c, p)
  PROVE  ConnInv'
<1>1. PICK g \in net, rest \in SUBSET net :
        g.client = c /\ (IF g.toClient THEN AtClient(g, rest) ELSE AtServer(g, rest))
  BY DEF Arrive
<1>2. rest \in SUBSET net /\ g \in Segments /\ g.toClient \in BOOLEAN
  BY <1>1 DEF ConnInv, TypeInv, Segments
<1>3. UNCHANGED opens /\ opens' \in [Clients -> Nat]
  BY DEF Arrive, ConnInv, TypeInv
<1>4. SYNQueue \in Seq(Requests) /\ Len(SYNQueue) <= TCP_SYN_QUEUE_MAX_ENTRIES
  BY DEF ConnInv, TypeInv
<1>5. CASE g.toClient
  <2>1. AtClient(g, rest)
    BY <1>1, <1>5
  <2>2. CASE net' = rest /\ UNCHANGED <<srv, cl, agreed>> /\ UNCHANGED SYNQueue
    BY <1>2, <1>3, <2>2, FewerSegments
  <2>3. CASE /\ cl[c].smState \notin {"TCP_CLOSED", "TCP_CLOSED_BUT_RESERVED"}
             /\ ClBecomes(c, HandleTCPSeg(cl[c], g, Isn), rest) /\ UNCHANGED SYNQueue
    <3>1. ClientMay(c, HandleTCPSeg(cl[c], g, Isn))
      BY <2>3, ClientHandles
    <3> QED BY <1>2, <1>3, <2>3, <3>1, ClientStep
  <2> QED BY <1>1, <2>1, <2>2, <2>3 DEF AtClient
<1>6. CASE ~g.toClient
  <2>1. AtServer(g, rest)
    BY <1>1, <1>6
  <2>2. CASE Matching(g) \cup Free # {}
    <3> DEFINE s == IF Matching(g) # {} THEN Min(Matching(g)) ELSE Max(Free)
    <3>1. SrvBecomes(s, HandleTCPSeg(srv[s], g, Isn), rest) /\ UNCHANGED SYNQueue
      BY <2>1, <2>2 DEF AtServer
    <3>2. s \in Servers
      <4>1. Matching(g) \in SUBSET Nat /\ Matching(g) \subseteq Servers
        BY DEF Matching, Servers
      <4>2. Free \in SUBSET (1..NumServers) /\ NumServers \in Nat
        BY ConnAssumption DEF Free, Servers
      <4>3. CASE Matching(g) # {}
        BY <4>1, <4>3, MinInSet
      <4>4. CASE Matching(g) = {}
        BY <2>2, <4>2, <4>4, MaxInSet DEF Servers
      <4> QED BY <4>3, <4>4
    <3> HIDE DEF s
    <3>3. ServerMay(s, HandleTCPSeg(srv[s], g, Isn))
      BY <1>6, <3>2, ServerHandles
    <3> QED BY <1>2, <1>3, <1>4, <3>1, <3>2, <3>3, ServerStep
  <2>3. CASE Matching(g) \cup Free = {}
    <3>1. Enqueue(g) /\ net' = rest /\ UNCHANGED <<srv, cl, agreed>>
      BY <2>1, <2>3 DEF AtServer
    <3> DEFINE e == [client |-> g.client, port |-> g.port, seq |-> g.seq]
    <3>2. e \in Requests
      BY <1>2 DEF Requests, Segments
    <3> HIDE DEF e
    <3>3. \/ UNCHANGED SYNQueue
          \/ SYNQueue' = Append(SYNQueue, e) /\ Len(SYNQueue) < TCP_SYN_QUEUE_MAX_ENTRIES
      BY <3>1 DEF Enqueue, e
    <3>4. SYNQueue' \in Seq(Requests) /\ Len(SYNQueue') <= TCP_SYN_QUEUE_MAX_ENTRIES
      BY <1>4, <3>2, <3>3, ConnAssumption
    <3> QED BY <1>2, <1>3, <3>1, <3>4, FewerSegments
  <2> QED BY <2>2, <2>3
<1> QED BY <1>2, <1>5, <1>6

LEMMA TickQueueStep ==
  ASSUME ConnInv, NumberLeft, NEW s \in Servers, TickQueue(s)
  PROVE  ConnInv'
<1> DEFINE e == Head(SYNQueue)
           v == [srv[s] EXCEPT !.client = e.client, !.port = e.port, !.RemoteSEQ = Plus(e.seq, 1),
                               !.MySEQ = [isn |-> Isn, n |-> 0]]
<1>1. SYNQueue # <<>> /\ SYNQueue' = Tail(SYNQueue) /\ UNCHANGED opens
      /\ SrvBecomes(s, Answer(v, {"SYN", "ACK"}, "TCP_SYN_RECEIVED"), net)
  BY DEF TickQueue
<1>2. SYNQueue \in Seq(Requests) /\ Len(SYNQueue) <= TCP_SYN_QUEUE_MAX_ENTRIES
  BY DEF ConnInv, TypeInv
<1>3. e \in Requests /\ SYNQueue' \in Seq(Requests) /\ Len(SYNQueue') <= TCP_SYN_QUEUE_MAX_ENTRIES
  BY <1>1, <1>2, ConnAssumption
<1> HIDE DEF e
<1>4. e.client \in Ends /\ e.port \in Int /\ Plus(e.seq, 1) \in Seqs /\ [isn |-> Isn, n |-> 0] \in Seqs
  BY <1>3, FreshNumber, PlusType, 1 \in Int DEF Requests
<1>5. v \in Sockets /\ v.bServer /\ v.out = {} /\ v.MySEQ = [isn |-> Isn, n |-> 0]
  BY <1>4, SocketTypes, ZenonT(40) DEF Sockets
<1> HIDE DEF v
<1>6. v.MySEQ.isn = Isn
  BY <1>5
<1>7. ServerMay(s, Answer(v, {"SYN", "ACK"}, "TCP_SYN_RECEIVED"))
  BY <1>5, <1>6, ServerAnswers
<1> QED BY <1>1, <1>3, <1>7, ServerStep, SameNet

LEMMA QueueTimeoutStep ==
  ASSUME ConnInv, QueueTimeout
  PROVE  ConnInv'
<1>1. PICK i \in DOMAIN SYNQueue : SYNQueue' = RemoveAt(SYNQueue, i)
  BY DEF QueueTimeout
<1>2. SYNQueue \in Seq(Requests) /\ Len(SYNQueue) <= TCP_SYN_QUEUE_MAX_ENTRIES /\ i \in 1..Len(SYNQueue)
  BY <1>1 DEF ConnInv, TypeInv
<1>3. /\ SubSeq(SYNQueue, 1, i - 1) \in Seq(Requests) /\ Len(SubSeq(SYNQueue, 1, i - 1)) = i - 1
      /\ SubSeq(SYNQueue, i + 1, Len(SYNQueue)) \in Seq(Requests)
      /\ Len(SubSeq(SYNQueue, i + 1, Len(SYNQueue))) = Len(SYNQueue) - i
  BY <1>2
<1>4. SYNQueue' \in Seq(Requests) /\ Len(SYNQueue') = Len(SYNQueue) - 1
  <2>1. ASSUME NEW a \in Seq(Requests), NEW b \in Seq(Requests)
        PROVE  a \o b \in Seq(Requests) /\ Len(a \o b) = Len(a) + Len(b)
    OBVIOUS
  <2>2. SYNQueue' = SubSeq(SYNQueue, 1, i - 1) \o SubSeq(SYNQueue, i + 1, Len(SYNQueue))
    BY <1>1 DEF RemoveAt
  <2>3. i - 1 + (Len(SYNQueue) - i) = Len(SYNQueue) - 1
    BY <1>2
  <2> QED BY <1>3, <2>1, <2>2, <2>3
<1>5. SYNQueue' \in Seq(Requests) /\ Len(SYNQueue') <= TCP_SYN_QUEUE_MAX_ENTRIES
  BY <1>2, <1>4, ConnAssumption
<1>6. UNCHANGED <<srv, cl, net, opens, agreed>> /\ net' \in SUBSET net /\ opens' \in [Clients -> Nat]
  BY DEF QueueTimeout, ConnInv, TypeInv
<1> QED BY <1>5, <1>6, FewerSegments

LEMMA BootSteps ==
  ASSUME ConnInv
  PROVE  /\ BootServer => ConnInv'
         /\ \A c \in Clients : BootClient(c) => ConnInv'
<1>1. ASSUME BootServer PROVE ConnInv'
  <2>1. /\ srv' = [s \in Servers |-> Socket(TRUE, Nobody)] /\ SYNQueue' = <<>>
        /\ UNCHANGED <<cl, net, opens>>
    BY <1>1 DEF BootServer
  <2>2. LET u == Socket(TRUE, Nobody)
        IN u \in Sockets /\ SocketInv(u) /\ u.bServer /\ u.out = {} /\ u.MySEQ.isn = 0
           /\ u.smState = "TCP_LISTEN"
    BY FreshSocket, NobodyIsEnd, NoneIsNumber
  <2>3. srv' \in [Servers -> Sockets] /\ \A s \in Servers : srv'[s] = Socket(TRUE, Nobody)
    BY <2>1, <2>2
  <2>4. SYNQueue' \in Seq(Requests) /\ Len(SYNQueue') <= TCP_SYN_QUEUE_MAX_ENTRIES
    BY <2>1, ConnAssumption
  <2>5. TypeInv'
    BY <2>1, <2>2, <2>3, <2>4 DEF ConnInv, TypeInv
  <2>6. AgreedInv' /\ AllAgreed'
    BY <2>2, <2>3, StateKinds DEF AgreedInv, AllAgreed
  <2> QED BY <2>5, <2>6 DEF ConnInv
<1>2. ASSUME NEW c \in Clients, BootClient(c) PROVE ConnInv'
  <2> DEFINE u == Socket(FALSE, c)
  <2>1. cl' = [cl EXCEPT ![c] = u] /\ UNCHANGED <<srv, SYNQueue, net, opens, agreed>>
    BY <1>2 DEF BootClient
  <2>2. u \in Sockets /\ SocketInv(u) /\ ~u.bServer /\ u.out = {} /\ u.RemoteSEQ.isn = 0
    BY FreshSocket, NobodyIsEnd, NoneIsNumber
  <2> HIDE DEF u
  <2>3. cl' \in [Clients -> Sockets] /\ cl'[c] = u /\ \A d \in Clients : d # c => cl'[d] = cl[d]
    BY <2>1, <2>2 DEF ConnInv, TypeInv
  <2>4. TypeInv'
    BY <2>1, <2>2, <2>3 DEF ConnInv, TypeInv
  <2>5. AgreedInv'
    BY <2>1, <2>2, <2>3 DEF ConnInv, AgreedInv
  <2>6. AllAgreed'
    BY <2>1 DEF ConnInv, AllAgreed
  <2> QED BY <2>4, <2>5, <2>6 DEF ConnInv
<1> QED BY <1>1, <1>2

\* What waited for the window to open is sent.
LEMMA SendLaterSteps ==
  ASSUME ConnInv
  PROVE  /\ \A s \in Servers : TickSendServer(s) => ConnInv'
         /\ \A c \in Clients : TickSendClient(c) => ConnInv'
<1>1. ASSUME NEW t \in Sockets PROVE Proceeds(t, SendTCP(t, {"ACK"}, "reset"))
  BY SendStays, AckFlags DEF Proceeds, Follows
<1>2. ASSUME NEW s \in Servers, TickSendServer(s) PROVE ConnInv'
  BY <1>1, <1>2, SocketTypes, ServerActs DEF TickSendServer
<1>3. ASSUME NEW c \in Clients, TickSendClient(c) PROVE ConnInv'
  BY <1>1, <1>3, SocketTypes, ClientProceeds, ClientActs DEF TickSendClient
<1> QED BY <1>2, <1>3

\* The receive space of a gateway's MAC is none of the connections' business.
LEMMA SpaceSteps ==
  ASSUME ConnInv, NEW e, Fill(e) \/ Drain(e)
  PROVE  ConnInv'
<1>1. net' \in SUBSET net /\ UNCHANGED <<srv, cl, SYNQueue, opens, agreed>>
  BY DEF Fill, Drain
<1> QED BY <1>1, FewerSegments DEF ConnInv, TypeInv

LEMMA NextFull ==
  ASSUME FullInv, [Next]_vars
  PROVE  FullInv'
<1>1. \/ UNCHANGED full
      \/ \E e : full' = full \ {e}
      \/ \E e \in Clients \cup {Nobody} : full' = full \cup {e}
  BY DEF Next, vars, TickServer, KeepServer, TickQueue, LeaveServer, TickSendServer, TickClient,
         KeepClient, ArpIsResolved, TCPOpen, LeaveClient, BootClient, TickSendClient, Arrive, Fill,
         Drain, QueueTimeout, Lose, BootServer
<1> QED BY <1>1 DEF FullInv, Ends

LEMMA NextConn ==
  ASSUME ConnInv, NumberLeft, [Next]_vars
  PROVE  ConnInv'
<1>1. ASSUME NEW s \in Servers,
             TickServer(s) \/ KeepServer(s) \/ TickQueue(s) \/ LeaveServer(s) \/ TickSendServer(s)
      PROVE  ConnInv'
  BY <1>1, TimerSteps, TickQueueStep, LeaveSteps, SendLaterSteps
<1>2. ASSUME NEW c \in Clients,
             TickClient(c) \/ KeepClient(c) \/ ArpIsResolved(c) \/ TCPOpen(c) \/ LeaveClient(c)
               \/ BootClient(c) \/ TickSendClient(c)
      PROVE  ConnInv'
  BY <1>2, TimerSteps, OpenSteps, LeaveSteps, BootSteps, SendLaterSteps
<1>3. ASSUME NEW c \in Clients, NEW p \in Ports, Arrive(c, p) PROVE ConnInv'
  BY <1>3, ArriveStep
<1>4. ASSUME Lose PROVE ConnInv'
  <2>1. net' \in SUBSET net /\ UNCHANGED <<srv, cl, SYNQueue, opens, agreed>>
    BY <1>4 DEF Lose
  <2> QED BY <2>1, FewerSegments DEF ConnInv, TypeInv
<1>5. CASE UNCHANGED vars
  <2>1. net' \in SUBSET net /\ UNCHANGED <<srv, cl, SYNQueue, opens, agreed>>
    BY <1>5 DEF vars
  <2> QED BY <2>1, FewerSegments DEF ConnInv, TypeInv
<1> QED BY <1>1, <1>2, <1>3, <1>4, <1>5, QueueTimeoutStep, BootSteps, SpaceSteps DEF Next

-----------------------------------------------------------------------------
(* What follows for every behaviour.                                        *)

\* The handshake (HandleTCPSeg in TCP_SYN_RECEIVED and the operators around it): a server
\* socket is established only with a client that has accepted exactly this connection,
\* whatever is lost, repeated, overtaken or restarted.  NumberLeft is what is assumed of
\* LFSRRand: there is always an initial number that nothing in use or on its way has.
THEOREM EstablishedByBoth == Spec /\ []NumberLeft => []EstablishedIsAgreed
<1>1. Init => ConnInv
  BY InitConn
<1>2. ConnInv /\ NumberLeft /\ [Next]_vars => ConnInv'
  BY NextConn
<1>3. Init => FullInv
  BY DEF Init, FullInv
<1>4. FullInv /\ [Next]_vars => FullInv'
  BY NextFull
<1>5. ConnInv /\ FullInv => EstablishedIsAgreed
  BY TypeIsOK DEF ConnInv
<1> QED BY <1>1, <1>2, <1>3, <1>4, <1>5, PTL DEF Spec
=============================================================================

----------------------------- MODULE TcpStream -----------------------------
(***************************************************************************)
(* One direction of an established TCP connection between two gateways that *)
(* are bridged, both with the stack's TCP.c: the transmit FIFO with its     *)
(* sequence numbers, window and retransmission at one end (S), the receive  *)
(* FIFO with its hole at the other (R), and a network that loses, repeats   *)
(* and reorders what they send.                                             *)
(*                                                                         *)
(* Pointers into a FIFO are positions counted from its start.  Bytes are    *)
(* told apart by the place they were put in.  Sequence numbers start at 0.  *)
(* The operators below take an end as a record and return what it becomes;  *)
(* what it transmits is in its field out.                                   *)
(***************************************************************************)
EXTENDS Integers, Sequences, SequencesExt

CONSTANTS
  TxSize,        \* bufferRxStart - bufferTxStart: the FIFO holds one byte less
  RxSize,        \* bufferEnd - bufferRxStart + 1: the same
  RemoteMSS,     \* wRemoteMSS
  WordSize,      \* 2^16 in the code: the window is a WORD
  MaxPut,        \* bytes put at a time
  TCP_MAX_RETRIES, TCP_MAX_UNACKED_KEEP_ALIVES,
  MaxBytes, MaxLost, MaxDup, MaxSwap, MaxTight, MaxEarly, MaxFaults
                 \* bounds: bytes, segments lost, repeated and overtaken, times the
                 \* receive buffer of the MAC is nearly full, times a timer is early, and all
                 \* of these together, of which all but an overtaken segment count twice

ASSUME StreamAssumption ==
  /\ TxSize \in Nat \ {0, 1} /\ RxSize \in Nat \ {0, 1}
  /\ RemoteMSS \in Nat \ {0} /\ WordSize \in Nat \ {0} /\ TxSize + RxSize < WordSize
  /\ MaxPut \in Nat \ {0} /\ TCP_MAX_RETRIES \in Nat
  /\ TCP_MAX_UNACKED_KEEP_ALIVES \in Nat \ {0}
  /\ {MaxBytes, MaxLost, MaxDup, MaxSwap, MaxTight, MaxEarly, MaxFaults} \subseteq Nat

VARIABLES
  S, R,          \* the two ends
  data, acks,    \* segments on their way to R, and back
  smState,       \* the state of S's socket: established, or closed step by step once given up
  sent, got,     \* bytes put at S, and taken at R
  spent          \* what of each bound is used up

streamVars == <<S, R, data, acks, smState, sent, got, spent>>

\* Copying into and out of a FIFO of n bytes from position at on, which the code does
\* in two pieces at the end of it.
Fill(buf, at, bytes) ==
  [p \in DOMAIN buf |-> LET k == ((p - at) % Len(buf)) + 1
                        IN IF k \in DOMAIN bytes THEN bytes[k] ELSE buf[p]]
Part(buf, at, n) == [k \in 1 .. n |-> buf[((at + k - 2) % Len(buf)) + 1]]
Lower(a, b) == IF a < b THEN a ELSE b
Between(from, to, size) == (to - from) % size

----------------------------------------------------------------------------
(* The sending end.  Positions run from 1 to TxSize.                        *)

Wrap(p) == ((p - 1) % TxSize) + 1
Unsent(s) == Between(s.txUnackedTail, s.txHead, TxSize)
InFlight(s) == Between(s.txTail, s.txUnackedTail, TxSize)
TCPIsPutReady(s) == Between(s.txHead + 1, s.txTail, TxSize)

\* SendTCP: what the window, the segment size and the FIFO allow, or a bare ACK.  The
\* timers start again, from the first interval if reset.  Slip: a bare ACK counts as a
\* retry.
SendCounted(s, reset) ==
  LET room == Lower(Unsent(s), s.remoteWindow)
      len == Lower(room, RemoteMSS)
  IN [s EXCEPT
        !.txUnackedTail = Wrap(@ + len), !.MySEQ = @ + len, !.remoteWindow = @ - len,
        !.bTimerEnabled = @ \/ len > 0,
        !.retryCount = IF len > 0 /\ reset THEN 0 ELSE @,
        !.bTimer2Enabled = FALSE, !.bHalfFullFlush = FALSE,
        !.bTXASAP = FALSE, !.bTXASAPWithoutTimerReset = room > RemoteMSS,
        !.out = Append(@, [seq |-> s.MySEQ, bytes |-> Part(s.txBuf, s.txUnackedTail, len)])]
BareAck(s) == Unsent(s) = 0 \/ s.remoteWindow = 0
SendTCP(s, reset) ==
  [SendCounted(s, reset) EXCEPT
     !.retryCount = IF BareAck(s) /\ s.bTimerEnabled /\ ~reset /\ @ > 0 THEN @ - 1 ELSE @]
\* Once the connection is given up: a FIN goes with the last bytes if the window and the
\* segment leave room for it, and counts like them.  (What R makes of the FIN is in TcpConn:
\* it reads nothing any more.)
SendFin(s, reset) ==
  IF Unsent(s) >= s.remoteWindow \/ Unsent(s) >= RemoteMSS THEN SendTCP(s, reset)
  ELSE [SendCounted(s, reset) EXCEPT !.bFINSent = TRUE, !.bTimerEnabled = TRUE,
                                     !.retryCount = IF reset THEN 0 ELSE @]
TCPFlush(s) == IF Unsent(s) = 0 THEN s ELSE SendTCP(s, TRUE)

\* TCPPutArray of len bytes, of which n go in: it flushes when the FIFO is half full, once,
\* and when it is full.
TCPPutArray(s, len, n) ==
  LET free == TCPIsPutReady(s)
      a == IF ~s.bHalfFullFlush /\ free <= TxSize \div 2
           THEN [TCPFlush(s) EXCEPT !.bHalfFullFlush = TRUE] ELSE s
      b == [a EXCEPT !.txBuf = Fill(@, a.txHead, [k \in 1 .. n |-> sent + k]),
                     !.txHead = Wrap(@ + n)]
  IN IF free = 0 THEN TCPFlush(s)
     ELSE IF free <= len THEN TCPFlush(b)
     ELSE [b EXCEPT !.bTimer2Enabled = TRUE]

\* The FIFO is rewound to the first byte that is not acknowledged.
Rewind(s) == [s EXCEPT !.MySEQ = @ - InFlight(s), !.txUnackedTail = s.txTail]

\* TCPTick when the retransmission timer has expired.
RolledBack(s) ==
  [Rewind(s) EXCEPT !.retryCount = @ + 1, !.remoteWindow = (@ + InFlight(s)) % WordSize]
Retransmit(s) == SendTCP(RolledBack(s), FALSE)

\* HandleTCPSeg at S: the acknowledged bytes leave the FIFO, and the next to be sent
\* moves along if it was behind them.  Slip: it does not.
AckedOnly(s, d) ==
  [s EXCEPT !.txTail = Wrap(@ + d), !.bHalfFullFlush = FALSE,
            !.bRXNoneACKed1 = FALSE, !.bRXNoneACKed2 = FALSE]
Acked(s, d) ==
  LET a == AckedOnly(s, d)
  IN IF d <= InFlight(s) THEN a
     ELSE [a EXCEPT !.MySEQ = @ + d - InFlight(s), !.txUnackedTail = a.txTail]

\* The third segment in a row without a new acknowledgement rewinds the FIFO.
NoneAcked(s) ==
  IF InFlight(s) = 0 THEN s
  ELSE [IF s.bRXNoneACKed2 THEN [Rewind(s) EXCEPT !.bTXASAPWithoutTimerReset = TRUE] ELSE s
          EXCEPT !.bRXNoneACKed1 = TRUE, !.bRXNoneACKed2 = s.bRXNoneACKed1]

\* The window that a segment announces is what is left after all that is in flight: in
\* a WORD, which an acknowledgement that was overtaken can make very large.  Slip: nothing
\* is sent when it opens.
NewWindowOnly(s, ack, window) ==
  [s EXCEPT !.remoteWindow = (window - (s.MySEQ - ack)) % WordSize]
NewWindow(s, ack, window) ==
  LET w == (window - (s.MySEQ - ack)) % WordSize
  IN [s EXCEPT !.remoteWindow = w, !.bTXASAP = @ \/ (s.remoteWindow = 0 /\ w # 0)]

HandleAck(t, ack, window) ==
  LET s == [t EXCEPT !.vUnackedKeepalives = 0]
      d == ack - (s.MySEQ - InFlight(s))
      a == IF d \in 1 .. TxSize THEN Acked(s, d) ELSE NoneAcked(s)
      b == IF a.txTail = a.txHead THEN [a EXCEPT !.bTimerEnabled = FALSE] ELSE a
  IN IF ack > s.MySEQ + Unsent(s) THEN SendTCP(s, FALSE) ELSE NewWindow(b, ack, window)

----------------------------------------------------------------------------
(* The receiving end.  Positions run from 1 to RxSize.                      *)

RxWrap(p) == ((p - 1) % RxSize) + 1
TCPIsGetReady(r) == Between(r.rxTail, r.rxHead, RxSize)
FreeSpace(r) == RxSize - 1 - TCPIsGetReady(r)

\* SendTCP of an end without data: an ACK with the window, which the receive buffer of
\* the MAC may limit.
SendAck(r, mac) ==
  [r EXCEPT !.bTimer2Enabled = FALSE, !.bDelayedACKTimerEnabled = FALSE,
            !.bOneSegmentReceived = FALSE, !.bTXASAPWithoutTimerReset = FALSE,
            !.out = Append(@, [ack |-> r.RemoteSEQ, window |-> Lower(FreeSpace(r), mac)])]

\* Bytes in sequence go to the head of the FIFO, and what was received behind them is
\* joined to them when the hole is filled.  Slip: before.
JoinEarly(r, n) ==
  IF r.sHoleSize = -1 THEN r
  ELSE [r EXCEPT !.RemoteSEQ = @ + r.wFutureDataSize,
                 !.rxHead = RxWrap(@ + r.wFutureDataSize), !.sHoleSize = -1]
Join(r, n) ==
  LET hole == r.sHoleSize - n
      more == r.wFutureDataSize + hole
  IN IF r.sHoleSize = -1 THEN r
     ELSE IF more < 0 THEN [r EXCEPT !.sHoleSize = -1]
     ELSE IF hole <= 0 THEN [r EXCEPT !.RemoteSEQ = @ + more, !.rxHead = RxWrap(@ + more),
                                      !.sHoleSize = -1]
     ELSE [r EXCEPT !.sHoleSize = hole]

InSequence(r, bytes, missing) ==
  LET n == Lower(Len(bytes) + missing, FreeSpace(r))
      new == SubSeq(bytes, 1 - missing, n - missing)
  IN Join([r EXCEPT !.RemoteSEQ = @ + n, !.rxBuf = Fill(@, r.rxHead, new),
                    !.rxHead = RxWrap(@ + n)], n)

\* Bytes after a hole are put where they belong, and one run of them is remembered.
OutOfSequence(r, bytes, missing) ==
  LET n == Lower(Len(bytes), FreeSpace(r) - missing)
      end == missing + n
      known == r.sHoleSize + r.wFutureDataSize
      filled == [r EXCEPT !.rxBuf = Fill(@, r.rxHead + missing, SubSeq(bytes, 1, n))]
  IN IF r.sHoleSize = -1
     THEN [filled EXCEPT !.sHoleSize = missing, !.wFutureDataSize = n]
     ELSE IF missing < r.sHoleSize
     THEN [filled EXCEPT !.sHoleSize = missing,
             !.wFutureDataSize = IF end > known \/ end < r.sHoleSize THEN n ELSE known - missing]
     ELSE IF end > known /\ missing <= known
     THEN [filled EXCEPT !.wFutureDataSize = end - r.sHoleSize]
     ELSE filled

\* The acceptance tests for segments with and without bytes.
Acceptable(r, len, missing) ==
  IF len > 0 THEN FreeSpace(r) > 0 /\ missing < FreeSpace(r) /\ missing + len > 0
  ELSE missing = 0 \/ missing \in 0 .. FreeSpace(r) - 1

\* HandleTCPSeg at R.  The second segment is acknowledged at once, the first a bit later.
HandleData(r, seq, bytes, mac) ==
  LET missing == seq - r.RemoteSEQ
      a == IF missing <= 0 THEN InSequence(r, bytes, missing) ELSE OutOfSequence(r, bytes, missing)
  IN IF ~Acceptable(r, Len(bytes), missing) THEN SendAck(r, mac)
     ELSE IF bytes = <<>> THEN r
     ELSE IF r.bOneSegmentReceived THEN SendAck(a, mac)
     ELSE [a EXCEPT !.bOneSegmentReceived = TRUE, !.bDelayedACKTimerEnabled = TRUE]

\* TCPGet until the FIFO is empty, as the gateway reads it: the last byte asks for a window
\* update as soon as possible, the others for one a bit later.
TCPGet(r) ==
  [r EXCEPT !.rxTail = r.rxHead, !.bTXASAPWithoutTimerReset = TRUE,
            !.bTimer2Enabled = @ \/ TCPIsGetReady(r) > 1]

----------------------------------------------------------------------------
(* The steps.  Each handler runs as a whole, from the main loop.            *)

\* Earlier traffic, all acknowledged and read, has left the FIFOs empty near their ends.
Start(size) == size - 1

StreamInit ==
  /\ S = [txHead |-> Start(TxSize), txUnackedTail |-> Start(TxSize),
          txTail |-> Start(TxSize), txBuf |-> [p \in 1 .. TxSize |-> 0],
          MySEQ |-> 0, remoteWindow |-> RxSize - 1, retryCount |-> 0,
          vUnackedKeepalives |-> 0,
          bTimerEnabled |-> FALSE, bTimer2Enabled |-> FALSE, bHalfFullFlush |-> FALSE,
          bTXASAP |-> FALSE, bTXASAPWithoutTimerReset |-> FALSE, bFINSent |-> FALSE,
          bRXNoneACKed1 |-> FALSE, bRXNoneACKed2 |-> FALSE, out |-> <<>>]
  /\ R = [rxHead |-> Start(RxSize), rxTail |-> Start(RxSize), rxBuf |-> [p \in 1 .. RxSize |-> 0],
          RemoteSEQ |-> 0, sHoleSize |-> -1, wFutureDataSize |-> 0,
          bOneSegmentReceived |-> FALSE, bDelayedACKTimerEnabled |-> FALSE,
          bTimer2Enabled |-> FALSE, bTXASAPWithoutTimerReset |-> FALSE, out |-> <<>>]
  /\ data = <<>> /\ acks = <<>> /\ smState = "TCP_ESTABLISHED"
  /\ sent = 0 /\ got = <<>>
  /\ spent = [lost |-> 0, dup |-> 0, swap |-> 0, tight |-> 0, early |-> 0]

Bound == [lost |-> MaxLost, dup |-> MaxDup, swap |-> MaxSwap, tight |-> MaxTight,
          early |-> MaxEarly]
Spend(what) == [spent EXCEPT ![what] = @ + 1]
Left(what) ==
  /\ spent[what] < Bound[what]
  /\ LET others == spent.lost + spent.dup + spent.tight + spent.early
     IN 2 * others + spent.swap + (IF what = "swap" THEN 1 ELSE 2) <= MaxFaults

\* What an end transmitted goes to the network.  (The quantifiers make TLC evaluate what an
\* end becomes once.)
SBecomes(end) == \E s \in {end} : S' = [s EXCEPT !.out = <<>>] /\ data' = data \o s.out
RBecomes(end) == \E r \in {end} : R' = [r EXCEPT !.out = <<>>] /\ acks' = acks \o r.out

Established == smState = "TCP_ESTABLISHED"
Open == smState # "TCP_CLOSED"
Send(s, reset) == IF Established THEN SendTCP(s, reset) ELSE SendFin(s, reset)

\* The application puts bytes while there is room for some.
Put ==
  /\ Established /\ TCPIsPutReady(S) > 0
  /\ \E len \in 1 .. MaxPut :
       LET n == Lower(len, TCPIsPutReady(S))
       IN /\ sent + n <= MaxBytes /\ sent' = sent + n
          /\ SBecomes(TCPPutArray(S, len, n))
  /\ UNCHANGED <<R, acks, smState, got, spent>>

\* TCPTick: what is to be sent as soon as possible, and what the second timer is for.
TickSend ==
  /\ Open
  /\ S.bTXASAP \/ S.bTXASAPWithoutTimerReset \/ S.bTimer2Enabled
  /\ SBecomes(Send(S, ~S.bTXASAPWithoutTimerReset))
  /\ UNCHANGED <<R, acks, smState, sent, got, spent>>

\* The retransmission timer is far longer than the others and than the way to R and
\* back: it is early if anything else is still to come.
Quiet ==
  /\ data = <<>> /\ acks = <<>>
  /\ ~(S.bTXASAP \/ S.bTXASAPWithoutTimerReset \/ S.bTimer2Enabled)
  /\ ~(R.bDelayedACKTimerEnabled \/ R.bTXASAPWithoutTimerReset \/ R.bTimer2Enabled)
Expires ==
  /\ Open /\ S.bTimerEnabled
  /\ \/ Quiet /\ UNCHANGED spent
     \/ ~Quiet /\ Left("early") /\ spent' = Spend("early")
  /\ UNCHANGED <<R, acks, sent, got>>
TickRetransmit ==
  /\ Expires /\ smState # "TCP_FIN_WAIT_2" /\ S.retryCount < TCP_MAX_RETRIES
  /\ SBecomes(Send(RolledBack(S), FALSE)) /\ UNCHANGED smState
\* After that the connection is given up: what is left goes with a FIN, with as many retries
\* again, and then S closes its socket.
TickGiveUp ==
  /\ Expires /\ Established /\ S.retryCount >= TCP_MAX_RETRIES
  /\ SBecomes(SendFin(S, TRUE)) /\ smState' = "TCP_FIN_WAIT_1"
TickClose ==
  /\ Expires
  /\ \/ smState = "TCP_FIN_WAIT_1" /\ S.retryCount >= TCP_MAX_RETRIES
     \/ smState = "TCP_FIN_WAIT_2"
  /\ smState' = "TCP_CLOSED" /\ UNCHANGED <<S, data>>

\* With the timer off and nothing heard for long, a byte that R has is sent to make it
\* answer; the connection is given up after some of them.
TickKeepAlive ==
  /\ Established /\ ~S.bTimerEnabled /\ Quiet
  /\ IF S.vUnackedKeepalives = TCP_MAX_UNACKED_KEEP_ALIVES
     THEN smState' = "TCP_CLOSED" /\ UNCHANGED <<S, data>>
     ELSE /\ SBecomes([S EXCEPT !.vUnackedKeepalives = @ + 1,
                               !.out = <<[seq |-> S.MySEQ - 1, bytes |-> <<0>>]>>])
          /\ UNCHANGED smState
  /\ UNCHANGED <<R, acks, sent, got, spent>>

\* The network delivers a segment, in its turn or before it, and may keep a copy.
Arrives(channel, i) ==
  \/ i = 1 /\ UNCHANGED spent
  \/ i > 1 /\ Left("swap") /\ spent' = Spend("swap")
Keeps(channel, i, rest) ==
  \/ Arrives(channel, i) /\ rest = RemoveAt(channel, i)
  \/ i = 1 /\ Left("dup") /\ spent' = Spend("dup") /\ rest = channel

\* While S closes its socket the timer runs on, and an acknowledgement of all that S has sent,
\* or sends again, passes for one of the FIN; the next one ends it.
Heard(ack, window) ==
  LET s == HandleAck(S, ack, window)
  IN IF Established THEN s ELSE [s EXCEPT !.bTimerEnabled = TRUE]
StateAfter(s, ack) ==
  CASE Established -> smState
    [] smState = "TCP_FIN_WAIT_1" ->
         IF s.bFINSent /\ s.MySEQ = ack THEN "TCP_FIN_WAIT_2" ELSE smState
    [] OTHER -> "TCP_CLOSED"
RecvAck ==
  /\ Open
  /\ \E i \in DOMAIN acks :
       /\ Keeps(acks, i, acks')
       /\ SBecomes(Heard(acks[i].ack, acks[i].window))
       /\ smState' = StateAfter(S', acks[i].ack)
  /\ UNCHANGED <<R, sent, got>>

\* The MAC has little room to spare now and then, or none, and the window is that.
RecvData ==
  \E i \in DOMAIN data :
     LET d == data[i]
         free == HandleData(R, d.seq, d.bytes, RxSize)
     IN /\ \/ Keeps(data, i, data') /\ RBecomes(free)
           \/ /\ i = 1 /\ Left("tight") /\ spent' = Spend("tight") /\ data' = Tail(data)
              /\ \E mac \in 0 .. RxSize - 2 :
                   LET tight == HandleData(R, d.seq, d.bytes, mac)
                   IN tight # free /\ RBecomes(tight)
        /\ UNCHANGED <<S, smState, sent, got>>

TickR ==
  /\ R.bTXASAPWithoutTimerReset \/ R.bTimer2Enabled \/ R.bDelayedACKTimerEnabled
  /\ \/ RBecomes(SendAck(R, RxSize)) /\ UNCHANGED spent
     \/ /\ \E mac \in 0 .. FreeSpace(R) - 1 : RBecomes(SendAck(R, mac))
        /\ Left("tight") /\ spent' = Spend("tight")
  /\ UNCHANGED <<S, data, smState, sent, got>>

Get ==
  /\ TCPIsGetReady(R) > 0
  /\ got' = got \o Part(R.rxBuf, R.rxTail, TCPIsGetReady(R))
  /\ RBecomes(TCPGet(R))
  /\ UNCHANGED <<S, data, smState, sent, spent>>

LoseSegment ==
  /\ Left("lost") /\ spent' = Spend("lost")
  /\ \/ data # <<>> /\ data' = Tail(data) /\ UNCHANGED acks
     \/ acks # <<>> /\ acks' = Tail(acks) /\ UNCHANGED data
  /\ UNCHANGED <<S, R, smState, sent, got>>

Handler == TickSend \/ TickRetransmit \/ TickGiveUp \/ TickClose \/ TickKeepAlive
           \/ RecvAck \/ RecvData \/ TickR
StreamNext == Handler \/ Put \/ Get \/ LoseSegment

\* The main loops of both ends keep running the stack, and R's reads what arrives.
StreamSpec == StreamInit /\ [][StreamNext]_streamVars /\ WF_streamVars(Handler) /\ WF_streamVars(Get)

----------------------------------------------------------------------------
\* Every variable has one of the values the code can give it.
StreamTypeOK ==
  /\ {S.txHead, S.txUnackedTail, S.txTail} \subseteq 1 .. TxSize
  /\ S.MySEQ \in 0 .. MaxBytes /\ S.remoteWindow \in 0 .. WordSize - 1
  /\ S.retryCount \in 0 .. TCP_MAX_RETRIES
  /\ {R.rxHead, R.rxTail} \subseteq 1 .. RxSize
  /\ R.RemoteSEQ \in 0 .. MaxBytes
  /\ R.sHoleSize \in -1 .. RxSize - 1 /\ R.wFutureDataSize \in 0 .. RxSize - 1
  /\ S.out = <<>> /\ R.out = <<>>
  /\ smState \in {"TCP_ESTABLISHED", "TCP_FIN_WAIT_1", "TCP_FIN_WAIT_2", "TCP_CLOSED"}
  /\ sent \in 0 .. MaxBytes /\ got \in Seq(0 .. MaxBytes)

\* The bytes come out at R as they went in at S: in order, none lost, twice or changed,
\* whatever the network does (SendTCP, HandleTCPSeg).
Stream == INSTANCE ByteStream
KeepsPromise == Stream!Spec

\* S never sends more than R has room for.  (An acknowledgement that was overtaken, or a
\* window that the MAC made smaller, makes NewWindow wrap.)
WindowKept ==
  spent.swap = 0 /\ spent.tight = 0 => S.MySEQ <= R.RemoteSEQ + FreeSpace(R)

\* The pointers and the sequence numbers of the two ends agree: what S may still have to
\* send again is exactly what R is not known to have, no byte leaves the transmit FIFO
\* before R has it, and none is sent that R has no room for.
EndsAgree ==
  /\ StreamTypeOK /\ WindowKept
  /\ S.MySEQ + Unsent(S) = sent
  /\ S.MySEQ - InFlight(S) <= R.RemoteSEQ /\ R.RemoteSEQ <= sent

\* The connection is never given up because the reader is slow, but only after as many
\* segments were lost or timers early as the stack has tries (SendTCP).  One more would be
\* right; but an acknowledgement leaves retryCount as it is, and if it closes the window when
\* the last retry has been made, the next expiry gives up.  (Where NewWindow wraps, S takes a
\* closed window for an open one, and its retries for lost.)
GivenUpForLosses ==
  ~Established /\ spent.swap = 0 /\ spent.tight = 0 =>
    spent.lost + spent.early >= Lower(TCP_MAX_RETRIES, TCP_MAX_UNACKED_KEEP_ALIVES)

\* Everything put arrives in the end, unless the connection is given up or R's window is
\* open and S does not know it: an ACK without data is all S sends then, and R does not
\* answer it.
Unaware == S.bTimerEnabled /\ S.remoteWindow = 0 /\ FreeSpace(R) > 0
EventuallyArrives == []<>(Len(got) = sent \/ ~Established \/ Unaware)
=============================================================================

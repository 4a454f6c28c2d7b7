------------------------------ MODULE Gateway ------------------------------
(***************************************************************************)
(* How frames are relayed between the CAN bus and the Ethernet clients: the *)
(* main loop of cangc1e.c with parseCmdEth (commands.c) and CBusEthServer,  *)
(* CBusEthProcess and CBusEthBroadcast (gcaeth.c).                          *)
(*                                                                         *)
(* One turn of the main loop: CAN frames are taken from canbusRecv until    *)
(* there is none or a client has no room; doEth polls the TCP/IP stack,     *)
(* which is the only place where connections come and go, data arrives and  *)
(* transmit buffers drain; every connection is served; the frame a client   *)
(* had no room for is broadcast again.  CAN frames arrive at any time.      *)
(*                                                                         *)
(* Frames are numbered in the order they are sent, whoever sends them.      *)
(***************************************************************************)
EXTENDS Integers, FiniteSets, SequencesExt

CONSTANTS
  NConns,       \* TCP_SOCKET_COUNT
  Room,         \* frames the transmit buffer of a socket has room for
  Kinds,        \* kinds of frames that are sent
  MaxFrames,    \* bound: frames sent
  MaxLost,      \* bound: frames the receive path loses
  MaxOpen,      \* bound: connections made
  CommandAck,   \* CFG_COMMAND_ACK is set in NV1
  PowerOff,     \* CFG_POWEROFF_ATIDLE is set in NV1
  Split,        \* TCP may deliver a frame in two pieces
  Closes        \* connections may be closed

ASSUME GatewayAssumption ==
  /\ NConns \in 1..253 /\ Room \in Nat \ {0}
  /\ Kinds \subseteq {"plain", "ext", "query", "command", "status"}
  /\ MaxFrames \in Nat /\ MaxLost \in Nat /\ MaxOpen \in Nat
  /\ CommandAck \in BOOLEAN /\ PowerOff \in BOOLEAN
  /\ Split \in BOOLEAN /\ Closes \in BOOLEAN

Conns  == 0..NConns-1
NotCAN == 254              \* excludeConn: to all connections, not to CAN
All    == 255              \* excludeConn: to everywhere

CAN    == NotCAN           \* senders other than connections: the CAN bus and
Node   == All              \* the module itself

VARIABLES
  pc, conn,     \* position in the main loop; connection being served
  cmsg, rsend,  \* last frame from CAN; it is to be broadcast again
  canIn,        \* frames canbusRecv has yet to return
  est,          \* connections TCPIsConnected holds for
  rx,           \* receive buffer of each socket
  tx,           \* frames in the transmit buffer of each socket
  nrconn, nrClients,
  maxq,         \* maxcanq and maxethq: frames lost, and not yet reported
  \* history
  sent,         \* frames sent so far
  opened,       \* connections made so far
  got,          \* frames put into the transmit buffer of each connection
  missed,       \* frames a connection had no room for
  since,        \* frames sent before the connection was made
  toCan,        \* frames given to canbusSend
  lost, told    \* frames lost, and reported as lost

outVars == <<tx, got, missed, toCan>>
vars == <<pc, conn, cmsg, rsend, canIn, est, rx, nrconn, nrClients, maxq,
          sent, outVars, opened, since, lost, told>>

\* What a frame makes parseCmdEth do.
\*   plain    nothing: an opcode of no interest here
\*   ext      nothing, not even an acknowledgement: an extended frame
\*   query    an answer to everyone: QNN
\*   command  an answer to everyone, and the frame is not passed on: RQNPN,
\*            SNN, RQNP, RQMN, NVRD, NVSET
\*   status   a Y frame, from Ethernet only: an answer to Ethernet only
Frame(s, k) == [src |-> s, n |-> sent + 1, kind |-> k]
NoFrame == [src |-> Node, n |-> 0, kind |-> "plain"]

\* Frames of the module itself; Y frames (bit 7 of dlc) never go to CAN.
Own(k, n) == [src |-> Node, n |-> n, kind |-> k]
IsY(f)    == f.kind \in {"status", "Ystatus", "Yack", "Yreport"}

Init ==
  /\ pc = "recv" /\ conn = 0 /\ cmsg = NoFrame /\ rsend = FALSE
  /\ canIn = <<>> /\ est = {}
  /\ rx = [c \in Conns |-> <<>>] /\ tx = [c \in Conns |-> 0]
  /\ nrconn = 0 /\ nrClients = 0 /\ maxq = 0
  /\ sent = 0 /\ opened = 0
  /\ got = [c \in Conns |-> <<>>] /\ missed = [c \in Conns |-> <<>>]
  /\ since = [c \in Conns |-> 0] /\ toCan = <<>> /\ lost = 0 /\ told = 0

-----------------------------------------------------------------------------
(* CBusEthBroadcast.  Its arguments and results are records of the outputs,  *)
(* as one handler may broadcast several frames in a row.                     *)

Out == [tx |-> tx, got |-> got, missed |-> missed, toCan |-> toCan]

\* The history leaves out the Y frames that report the number of clients.
Record(s, f) == IF f.kind = "Yreport" THEN s ELSE Append(s, f)

Broadcast(out, f, exclude) ==
  LET dest == est \ {exclude}
      full == {c \in dest : out.tx[c] = Room}
  IN [tx     |-> [c \in Conns |-> IF c \in dest \ full THEN out.tx[c] + 1 ELSE out.tx[c]],
      got    |-> [c \in Conns |-> IF c \in dest \ full
                                  THEN Record(out.got[c], f) ELSE out.got[c]],
      missed |-> [c \in Conns |-> IF c \in full
                                  THEN Record(out.missed[c], f) ELSE out.missed[c]],
      toCan  |-> IF exclude # NotCAN /\ ~IsY(f) THEN Append(out.toCan, f) ELSE out.toCan]

\* CBusEthBroadcast returns an error: a connection had no room.
Failed(out, exclude) == \E c \in est \ {exclude} : out.tx[c] = Room

Deliver(out) == /\ tx' = out.tx /\ got' = out.got
                /\ missed' = out.missed /\ toCan' = out.toCan

\* The broadcasts of parseCmdEth, and its result.
ParseCmdEth(out, f) ==
  LET acked == IF CommandAck /\ f.kind \notin {"status", "ext"}
               THEN Broadcast(out, Own("Yack", f.n), All) ELSE out
  IN CASE f.kind \in {"plain", "ext"} -> acked
       [] f.kind = "status" -> Broadcast(acked, Own("Ystatus", f.n), All)
       [] OTHER             -> Broadcast(acked, Own("answer", f.n), All)
Relayed(f) == f.kind \in {"plain", "ext", "query"}

\* A status answer carries maxcanq and maxethq and clears them.
TellLost(f) == IF f.kind = "status" THEN maxq' = 0 /\ told' = told + maxq
                                    ELSE UNCHANGED <<maxq, told>>

-----------------------------------------------------------------------------
(* The receive interrupt, and the bus *)

\* A frame comes in; only Recv looks at it, so it need not come at other times.
CanArrive ==
  /\ sent < MaxFrames /\ pc = "recv"
  /\ \E k \in Kinds \ {"status"} : canIn' = Append(canIn, Frame(CAN, k))
  /\ sent' = sent + 1
  /\ UNCHANGED <<pc, conn, cmsg, rsend, est, rx, nrconn, nrClients, maxq,
                 outVars, opened, since, lost, told>>

\* canbusFifo counts a frame it has no room for; the counters are looked at
\* while connections are served, so an earlier loss may as well come then.
CanOverflow ==
  /\ lost < MaxLost /\ pc \in {"proc", "report", "clear"}
  /\ lost' = lost + 1 /\ maxq' = maxq + 1
  /\ UNCHANGED <<pc, conn, cmsg, rsend, canIn, est, rx, nrconn, nrClients, sent,
                 outVars, opened, since, told>>

-----------------------------------------------------------------------------
(* The main loop: frames from CAN *)

Unserved == UNCHANGED <<conn, est, rx, nrconn, nrClients, sent, opened, since, lost>>

\* Slips: the loop goes on after a failed broadcast, with the frame saved; the
\* error is forgotten.
RecvNoBreak ==
  /\ pc = "recv" /\ canIn # <<>>
  /\ LET f      == Head(canIn)
         parsed == ParseCmdEth(Out, f)
         retry  == Relayed(f) /\ Failed(parsed, NotCAN)
     IN /\ cmsg' = IF rsend THEN cmsg ELSE f
        /\ Deliver(IF Relayed(f) THEN Broadcast(parsed, f, NotCAN) ELSE parsed)
        /\ rsend' = (rsend \/ retry)
        /\ UNCHANGED pc
  /\ canIn' = Tail(canIn)
  /\ UNCHANGED <<maxq, told>> /\ Unserved

RecvNoRetry ==
  /\ pc = "recv" /\ canIn # <<>>
  /\ LET f      == Head(canIn)
         parsed == ParseCmdEth(Out, f)
     IN /\ cmsg' = f
        /\ Deliver(IF Relayed(f) THEN Broadcast(parsed, f, NotCAN) ELSE parsed)
  /\ canIn' = Tail(canIn)
  /\ UNCHANGED <<pc, rsend, maxq, told>> /\ Unserved

Recv ==
  /\ pc = "recv" /\ canIn # <<>>
  /\ LET f      == Head(canIn)
         parsed == ParseCmdEth(Out, f)
         retry  == Relayed(f) /\ Failed(parsed, NotCAN)
     IN /\ cmsg' = IF retry THEN f ELSE cmsg      \* it is not looked at otherwise
        /\ Deliver(IF Relayed(f) THEN Broadcast(parsed, f, NotCAN) ELSE parsed)
        /\ rsend' = retry
        /\ pc' = IF retry THEN "eth" ELSE "recv"
  /\ canIn' = Tail(canIn)
  /\ UNCHANGED <<maxq, told>> /\ Unserved

RecvNone ==
  /\ pc = "recv" /\ canIn = <<>>
  /\ pc' = "eth"
  /\ UNCHANGED <<cmsg, rsend, canIn, maxq, told, outVars>> /\ Unserved

\* The frame a client had no room for goes out again: to every connection that
\* is up now, and to CAN.
Resend ==
  /\ pc = "resend"
  /\ IF rsend THEN Deliver(Broadcast(Out, cmsg, All)) ELSE UNCHANGED outVars
  /\ rsend' = FALSE /\ cmsg' = NoFrame
  /\ pc' = "recv"
  /\ UNCHANGED <<canIn, maxq, told>> /\ Unserved

-----------------------------------------------------------------------------
(* The TCP/IP stack, polled by StackTask, and the clients *)

Stack == pc = "eth" /\ UNCHANGED <<pc, conn, cmsg, rsend, canIn, nrconn, nrClients,
                                   maxq, toCan, lost, told>>

Connect(c) ==
  /\ Stack /\ c \notin est /\ opened < MaxOpen
  /\ opened' = opened + 1
  /\ est' = est \union {c}
  /\ since' = [since EXCEPT ![c] = sent]
  /\ UNCHANGED <<rx, tx, got, missed, sent>>

\* Connection c is gone.  What its buffers hold is lost, read or not, and nothing
\* of it is known to the next client.
Drop(c) ==
  /\ est' = est \ {c}
  /\ rx' = [rx EXCEPT ![c] = <<>>] /\ tx' = [tx EXCEPT ![c] = 0]
  /\ got' = [got EXCEPT ![c] = <<>>] /\ missed' = [missed EXCEPT ![c] = <<>>]
  /\ since' = [since EXCEPT ![c] = 0]

\* The client closes, or is lost.
Disconnect(c) ==
  /\ Closes
  /\ Stack /\ c \in est
  /\ Drop(c)
  /\ UNCHANGED <<sent, opened>>

\* Data arrives: a whole frame, or its first piece; then the rest of it.
Arrive(c, k, part) ==
  /\ Stack /\ c \in est /\ sent < MaxFrames
  /\ rx[c] # <<>> => Last(rx[c]).part # "head"
  /\ rx' = [rx EXCEPT ![c] = Append(@, [f |-> Frame(c, k), part |-> part])]
  /\ sent' = sent + 1
  /\ UNCHANGED <<est, tx, got, missed, opened, since>>

ArriveRest(c) ==
  /\ Stack /\ c \in est
  /\ rx[c] # <<>> /\ Last(rx[c]).part = "head"
  /\ rx' = [rx EXCEPT ![c][Len(rx[c])].part = "whole"]
  /\ UNCHANGED <<est, tx, got, missed, sent, opened, since>>

\* The client has acknowledged a frame.
Drain(c) ==
  /\ Stack /\ c \in est /\ tx[c] > 0
  /\ tx' = [tx EXCEPT ![c] = @ - 1]
  /\ UNCHANGED <<est, rx, got, missed, sent, opened, since>>

StackDone ==
  /\ pc = "eth" /\ pc' = "proc"
  /\ conn' = 0 /\ nrconn' = 0
  /\ UNCHANGED <<cmsg, rsend, canIn, est, rx, nrClients, maxq, sent, outVars,
                 opened, since, lost, told>>

-----------------------------------------------------------------------------
(* CBusEthServer and CBusEthProcess *)

Served == UNCHANGED <<cmsg, canIn, est, nrClients, sent, opened, since, lost>>

\* A frame is parsed, and passed on to all but the sender.  The first piece of
\* a frame, when no more data is there, is dropped with the local buffer.
Parse(exclude) ==
  /\ pc = "proc" /\ conn \in est /\ rx[conn] # <<>>
  /\ LET f      == Head(rx[conn]).f
         parsed == ParseCmdEth(Out, f)
     IN IF Head(rx[conn]).part = "whole"
        THEN /\ Deliver(IF Relayed(f) THEN Broadcast(parsed, f, exclude) ELSE parsed)
             /\ TellLost(f)
        ELSE UNCHANGED <<outVars, maxq, told>>
  /\ UNCHANGED <<pc, conn, rsend, nrconn>> /\ Served

\* Slips: the frame is not sent to CAN; it stays in the receive buffer.
GetFrameNoCAN == Parse(NotCAN) /\ rx' = [rx EXCEPT ![conn] = Tail(@)]
GetFramePeek  == Parse(conn) /\ UNCHANGED rx

GetFrame == Parse(conn) /\ rx' = [rx EXCEPT ![conn] = Tail(@)]

\* The next connection; one that was idle for too long is closed, and the track
\* is switched off (RTOF) when NV1 asks for it.
NextConn ==
  /\ pc = "proc" /\ (conn \in est => rx[conn] = <<>>)
  /\ nrconn' = IF conn \in est THEN nrconn + 1 ELSE nrconn
  /\ conn' = IF conn + 1 = NConns THEN 0 ELSE conn + 1
  /\ pc' = IF conn + 1 = NConns THEN "report" ELSE "proc"
  /\ \/ UNCHANGED <<est, rx, tx, got, missed, since, toCan>>
     \/ /\ Closes /\ conn \in est
        /\ Drop(conn)
        /\ toCan' = IF PowerOff THEN Append(toCan, Own("RTOF", 0)) ELSE toCan
  /\ UNCHANGED <<cmsg, rsend, canIn, nrClients, maxq, sent, opened, lost, told>>

\* The number of clients has changed: everyone is told, and told of the frames
\* lost.  The counters are cleared after the broadcast.
Report ==
  /\ pc = "report"
  /\ IF nrconn # nrClients
     THEN /\ Deliver(Broadcast(Out, Own("Yreport", nrconn), All))
          /\ told' = told + maxq
          /\ pc' = "clear"
     ELSE pc' = "resend" /\ UNCHANGED <<outVars, told>>
  /\ UNCHANGED <<conn, rsend, rx, nrconn, maxq>> /\ Served

\* Slip: the counters are not cleared.
ClearNot ==
  /\ pc = "clear" /\ pc' = "resend"
  /\ nrClients' = nrconn
  /\ UNCHANGED <<conn, cmsg, rsend, canIn, est, rx, nrconn, maxq, sent, outVars,
                 opened, since, lost, told>>

Clear ==
  /\ pc = "clear" /\ pc' = "resend"
  /\ maxq' = 0
  /\ nrClients' = nrconn
  /\ UNCHANGED <<conn, cmsg, rsend, canIn, est, rx, nrconn, sent, outVars, opened, since,
                 lost, told>>

-----------------------------------------------------------------------------
Loop == \/ Recv \/ RecvNone \/ Resend
        \/ StackDone \/ GetFrame \/ NextConn \/ Report \/ Clear

Next ==
  \/ CanArrive \/ CanOverflow
  \/ Loop
  \/ \E c \in Conns :
       \/ Connect(c) \/ Disconnect(c) \/ ArriveRest(c) \/ Drain(c)
       \/ \E k \in Kinds, p \in IF Split THEN {"whole", "head"} ELSE {"whole"} :
            Arrive(c, k, p)

Spec == Init /\ [][Next]_vars

\* The main loop turns for ever.
FairSpec == Spec /\ WF_vars(Loop)

-----------------------------------------------------------------------------
(* Properties *)

FrameOK(f) == /\ f.src \in Conns \union {CAN, Node}
              /\ f.n \in 0..MaxFrames \union Conns \union {NConns}
              /\ f.kind \in Kinds \union
                   {"plain", "answer", "Ystatus", "Yack", "Yreport", "RTOF"}

AllOK(s) == \A i \in DOMAIN s : FrameOK(s[i])

\* Every variable holds what its C counterpart can; no transmit buffer is filled
\* beyond its room.
TypeOK ==
  /\ pc \in {"recv", "eth", "proc", "report", "clear", "resend"}
  /\ conn \in Conns /\ FrameOK(cmsg) /\ rsend \in BOOLEAN
  /\ AllOK(canIn) /\ est \subseteq Conns
  /\ \A c \in Conns : /\ \A i \in DOMAIN rx[c] : FrameOK(rx[c][i].f)
                       /\ tx[c] \in 0..Room
                       /\ AllOK(got[c]) /\ AllOK(missed[c])
  /\ nrconn \in 0..NConns /\ nrClients \in 0..NConns
  /\ maxq \in 0..MaxLost /\ lost \in 0..MaxLost /\ told \in Nat
  /\ sent \in 0..MaxFrames /\ AllOK(toCan)

\* What was put out: to each connection, and to CAN.
Outputs == {got[c] : c \in Conns} \union {toCan}

\* No receiver sees two frames of one sender in the wrong order, although a CAN
\* frame may be broadcast twice, with frames from Ethernet in between.
SameSourceOrder ==
  \A s \in Outputs : \A i, j \in DOMAIN s :
    i < j /\ s[i].src = s[j].src /\ s[i].src # Node => s[i].n <= s[j].n

\* A frame from Ethernet goes to each receiver once, and so does the answer to a
\* request, and a client never gets its own frame: only a CAN frame is ever broadcast
\* again (CBusEthProcess, the excludeConn of CBusEthBroadcast).
EthOnce ==
  /\ \A s \in Outputs : \A i, j \in DOMAIN s :
       i # j /\ s[i] = s[j] => s[i].src = CAN \/ s[i].kind \in {"Yreport", "RTOF"}
  /\ \A c \in Conns : \A i \in DOMAIN got[c] : got[c][i].src # c

\* A CAN frame that a client had no room for is offered to it once more, after
\* the stack was polled: the client gets it, or had no room twice, or the second
\* offer is still to come (the frame came after the connection was made).
Times(f, s) == Cardinality({i \in DOMAIN s : s[i] = f})
MissedIsResent ==
  \A c \in est : \A f \in ToSet(missed[c]) :
    f.src = CAN /\ f.n > since[c] =>
      f \in ToSet(got[c]) \/ Times(f, missed[c]) = 2 \/ (rsend /\ cmsg = f)

\* No lost frame is reported twice, by whichever of the two ways (CBusEthServer, a status
\* request), and all the counts stay in their ranges.
NotReportedTwice == TypeOK /\ told <= lost

\* A frame that has arrived from a client goes to CAN, and to every other client
\* that was there before it, unless that client has no room (CBusEthProcess).
ArrivedFrom(c, n) == \E i \in DOMAIN rx[c] : /\ rx[c][i].f.n = n
                                            /\ Relayed(rx[c][i].f)
In(n, s) == \E i \in DOMAIN s : s[i].n = n /\ s[i].src # Node
Everywhere(c, n) ==
  /\ In(n, toCan)
  /\ \A d \in est \ {c} : since[d] < n => In(n, got[d]) \/ In(n, missed[d])
RelayedToAll ==
  \A c \in Conns, n \in 1..MaxFrames : ArrivedFrom(c, n) ~> Everywhere(c, n)

=============================================================================

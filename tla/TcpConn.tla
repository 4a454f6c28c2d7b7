------------------------------ MODULE TcpConn ------------------------------
(***************************************************************************)
(* How TCP.c opens, keeps and closes connections: the server sockets of one *)
(* gateway with the queue for those that have to wait, the client sockets   *)
(* of others that bridge to it, all run by this stack, and a network that   *)
(* loses, repeats and reorders segments.  Gateways restart.                 *)
(*                                                                         *)
(* No data is sent here (TcpStream has it), and of a window only whether it  *)
(* is open is told.  A sequence number is a pair: which initial number it   *)
(* is counted from, and how far; numbers counted from different ones are    *)
(* never near each other.                                                   *)
(* The operators on a socket return what it becomes, and in its field out   *)
(* what it transmits.                                                       *)
(***************************************************************************)
EXTENDS Integers, FiniteSets, Sequences, FiniteSetsExt, SequencesExt

CONSTANTS
  NumServers,    \* server sockets, in the order FindMatchingSocket looks at them
  Clients, Nobody,
                 \* gateways with a client socket, and none of them
  Isns,          \* initial sequence numbers: enough to find one that is not in use
  TCP_MAX_RETRIES, TCP_MAX_SYN_RETRIES, TCP_MAX_UNACKED_KEEP_ALIVES,
  TCP_SYN_QUEUE_MAX_ENTRIES,
  MaxOpens, MaxFaults
                 \* bounds: connections opened by each client; together: connections left
                 \* by an application, restarts, segments lost and repeated, early timers, times
                 \* a MAC runs out of receive space

Servers == 1 .. NumServers
Ports == 1 .. MaxOpens
ASSUME ConnAssumption ==
  /\ NumServers \in Nat \ {0} /\ Isns \subseteq Nat \ {0} /\ IsFiniteSet(Clients) /\ Nobody \notin Clients
  /\ {TCP_MAX_RETRIES, TCP_MAX_SYN_RETRIES, TCP_MAX_UNACKED_KEEP_ALIVES,
      TCP_SYN_QUEUE_MAX_ENTRIES, MaxOpens, MaxFaults} \subseteq Nat

VARIABLES
  srv,           \* the server sockets
  cl,            \* the client sockets
  SYNQueue,      \* clients that wait for a server socket
  net,           \* segments on their way
  opens,         \* how often each client opened its socket, which counts NextPort up
  full,          \* gateways whose MAC has no receive space to spare; Nobody is the server's
  agreed,        \* pairs of initial numbers that a client has accepted
  faults         \* how many of MaxFaults have happened

vars == <<srv, cl, SYNQueue, net, opens, full, agreed, faults>>

None == [isn |-> 0, n |-> 0]
Plus(s, k) == [s EXCEPT !.n = @ + k]

Closed == {"TCP_LISTEN", "TCP_CLOSED"}
Opening == {"TCP_GATEWAY_GET_ARP", "TCP_SYN_SENT"}
Closing == {"TCP_FIN_WAIT_1", "TCP_FIN_WAIT_2", "TCP_CLOSING", "TCP_LAST_ACK", "TCP_CLOSE_WAIT"}

----------------------------------------------------------------------------
(* One socket.                                                              *)

Socket(server, c) ==
  [bServer |-> server, smState |-> IF server THEN "TCP_LISTEN" ELSE "TCP_CLOSED",
   client |-> c, port |-> 0, MySEQ |-> None, RemoteSEQ |-> None,
   bSYNSent |-> FALSE, bFINSent |-> FALSE, bTXFIN |-> FALSE, bTimerEnabled |-> FALSE,
   remoteWindow |-> TRUE, bTXASAP |-> FALSE,
   retryCount |-> 0, vUnackedKeepalives |-> 0, out |-> {}]

\* CloseSocket: a server socket listens again.
CloseClient(t) == [Socket(FALSE, t.client) EXCEPT !.out = t.out]
CloseSocket(t) == IF t.bServer THEN [Socket(TRUE, Nobody) EXCEPT !.out = t.out] ELSE CloseClient(t)

\* SendTCP.  mode is "reset" or "keep" for SENDTCP_RESET_TIMERS and SENDTCP_KEEP_ALIVE, and
\* "plain" for neither: a keep-alive repeats the byte before the next one.  A FIN goes
\* with the first segment that the window leaves room for; until then no timer is started,
\* and one that runs does not count.
SendTCP(t, flags, mode) ==
  LET fin == t.bTXFIN \/ "FIN" \in flags
      sent == IF fin /\ t.remoteWindow /\ flags \cap {"SYN", "RST"} = {} THEN flags \cup {"FIN"}
              ELSE flags \ {"FIN"}
      timed == sent \cap {"SYN", "FIN"} # {}
      keep == mode = "keep" /\ ~timed
      seq == IF "SYN" \in sent THEN Plus(t.MySEQ, -t.MySEQ.n)
             ELSE IF keep THEN Plus(t.MySEQ, -1) ELSE t.MySEQ
  IN [t EXCEPT
        !.bTXFIN = fin, !.bTXASAP = FALSE, !.bTimerEnabled = @ \/ timed,
        !.retryCount = IF timed THEN IF mode = "reset" THEN 0 ELSE @
                       ELSE IF t.bTimerEnabled /\ mode = "plain" /\ @ > 0 THEN @ - 1 ELSE @,
        !.vUnackedKeepalives = IF keep THEN @ + 1 ELSE @,
        !.MySEQ = IF "SYN" \in sent THEN Plus(seq, 1) ELSE @,
        !.bSYNSent = @ \/ "SYN" \in sent, !.bFINSent = @ \/ "FIN" \in sent,
        !.out = @ \cup {[toClient |-> t.bServer, client |-> t.client, port |-> t.port,
                         flags |-> sent, seq |-> seq, len |-> IF keep THEN 1 ELSE 0,
                         window |-> (IF t.bServer THEN Nobody ELSE t.client) \notin full,
                         ack |-> IF "ACK" \in sent THEN t.RemoteSEQ ELSE None]}]

\* A reset for a segment with an acknowledgement that does not belong here.
Refuse(t, g, mode) ==
  [SendTCP([t EXCEPT !.MySEQ = g.ack], {"RST"}, mode) EXCEPT !.MySEQ = t.MySEQ]

Is(g, flag) == flag \in g.flags
Answer(t, flags, state) == [SendTCP(t, flags, "reset") EXCEPT !.smState = state]

\* HandleTCPSeg in TCP_LISTEN: FindMatchingSocket has written the sender into the socket.
Listening(t, g, isn) ==
  LET u == [t EXCEPT !.client = g.client, !.port = g.port]
  IN IF Is(g, "RST") THEN CloseSocket(u)
     ELSE IF Is(g, "ACK") THEN CloseSocket(Refuse(u, g, "plain"))
     ELSE IF ~Is(g, "SYN") THEN CloseSocket(u)
     ELSE Answer([u EXCEPT !.RemoteSEQ = Plus(g.seq, 1), !.MySEQ = [isn |-> isn, n |-> 0]],
                 {"SYN", "ACK"}, "TCP_SYN_RECEIVED")

\* HandleTCPSeg in TCP_SYN_SENT.  (A SYN without an ACK comes from no server socket.)
SynSent(t, g) ==
  IF Is(g, "RST") THEN t
  ELSE IF Is(g, "ACK") /\ g.ack # t.MySEQ THEN Refuse(t, g, "reset")
  ELSE IF ~Is(g, "SYN") THEN t
  ELSE [Answer([t EXCEPT !.RemoteSEQ = Plus(g.seq, 1), !.remoteWindow = g.window],
               {"ACK"}, "TCP_ESTABLISHED") EXCEPT !.bTimerEnabled = FALSE]

SegmentLength(g) == g.len + Cardinality(g.flags \cap {"SYN", "FIN"})
Acceptable(t, g) ==
  /\ g.seq.isn = t.RemoteSEQ.isn
  /\ LET missing == g.seq.n - t.RemoteSEQ.n
     IN IF SegmentLength(g) = 0 THEN missing >= 0 ELSE missing + SegmentLength(g) > 0

\* What is acknowledged: all (with the FIN, which MySEQ does not count, or so the code
\* takes it), or not all, or more than was ever sent.
All(t, g) == g.ack = t.MySEQ \/ (t.bFINSent /\ g.ack = Plus(t.MySEQ, 1))
TooMuch(t, g) == g.ack.isn = t.MySEQ.isn /\ g.ack.n > t.MySEQ.n /\ ~All(t, g)

\* The FIN of the other end, when it is next.
TakeFin(t, g) ==
  LET u == [t EXCEPT !.RemoteSEQ = Plus(@, 1)]
  IN CASE ~Is(g, "FIN") \/ g.seq # t.RemoteSEQ -> t
     [] t.smState = "TCP_ESTABLISHED" -> Answer(u, {"ACK"}, "TCP_CLOSE_WAIT")
     [] t.smState = "TCP_FIN_WAIT_1" -> Answer(u, {"ACK"}, "TCP_CLOSING")
     [] t.smState = "TCP_FIN_WAIT_2" -> CloseSocket(SendTCP(u, {"ACK"}, "plain"))
     [] OTHER -> t

\* The states in which acknowledgements count, once one has been looked at: the window
\* is that of the segment, and what waited for it is sent as soon as possible.
Acked(t, g) ==
  LET all == All(t, g)
      u == [t EXCEPT !.bTimerEnabled = @ /\ t.bTXFIN /\ ~(all /\ t.bFINSent),
                     !.bTXFIN = @ /\ ~(all /\ t.bFINSent),
                     !.bTXASAP = @ \/ (~t.remoteWindow /\ g.window), !.remoteWindow = g.window]
  IN CASE t.smState = "TCP_FIN_WAIT_1" /\ all /\ t.bFINSent ->
            TakeFin([u EXCEPT !.bTimerEnabled = TRUE, !.smState = "TCP_FIN_WAIT_2"], g)
     [] t.smState = "TCP_FIN_WAIT_2" /\ ~Is(g, "FIN") ->
            CloseSocket(SendTCP([u EXCEPT !.MySEQ = IF all THEN @ ELSE g.ack],
                                {"RST", "ACK"}, "plain"))
     [] t.smState = "TCP_CLOSING" -> IF all THEN CloseSocket(u) ELSE u
     [] OTHER -> TakeFin(u, g)

\* HandleTCPSeg in the other states.  Slip: any acknowledgement completes the handshake.
ConnectedAnyway(t, g) ==
  CASE ~Acceptable(t, g) -> IF Is(g, "RST") THEN t ELSE SendTCP(t, {"ACK"}, "reset")
    [] Acceptable(t, g) /\ g.flags \cap {"RST", "SYN"} # {} -> CloseSocket(t)
    [] Acceptable(t, g) /\ g.flags \cap {"RST", "SYN", "ACK"} = {} -> t
    [] OTHER ->
       CASE t.smState = "TCP_LAST_ACK" -> IF g.ack = Plus(t.MySEQ, 1) THEN CloseSocket(t) ELSE t
         [] t.smState = "TCP_SYN_RECEIVED" -> Acked([t EXCEPT !.smState = "TCP_ESTABLISHED"], g)
         [] t.smState \notin {"TCP_LAST_ACK", "TCP_SYN_RECEIVED"} /\ TooMuch(t, g) ->
              SendTCP(t, {"ACK"}, "plain")
         [] OTHER -> Acked(t, g)
Connected(t, g) ==
  IF /\ t.smState = "TCP_SYN_RECEIVED" /\ Acceptable(t, g)
     /\ g.flags \cap {"RST", "SYN", "ACK"} = {"ACK"} /\ g.ack # t.MySEQ
  THEN Refuse(t, g, "reset")
  ELSE ConnectedAnyway(t, g)

HandleTCPSeg(t, g, isn) ==
  LET u == [t EXCEPT !.vUnackedKeepalives = 0]
  IN CASE t.smState = "TCP_LISTEN" -> Listening(u, g, isn)
     [] t.smState = "TCP_SYN_SENT" -> SynSent(u, g)
     [] OTHER -> Connected(u, g)

Reset(t) == CloseSocket(SendTCP(t, {"RST", "ACK"}, "plain"))
TCPDisconnect(t) ==
  CASE t.smState \in Opening -> CloseSocket(t)
    [] t.smState \in {"TCP_SYN_RECEIVED", "TCP_ESTABLISHED"} ->
         Answer(t, {"FIN", "ACK"}, "TCP_FIN_WAIT_1")
    [] t.smState = "TCP_CLOSE_WAIT" -> Answer(t, {"FIN", "ACK"}, "TCP_LAST_ACK")
    [] t.smState = "TCP_CLOSED_BUT_RESERVED" -> [t EXCEPT !.smState = "TCP_CLOSED"]
    [] OTHER -> Reset(t)

\* TCPTick when the retransmission timer of a socket has expired.  A SYN is repeated for
\* ever.  Slip: it is not.
Repeat(t, flags) == SendTCP([t EXCEPT !.retryCount = @ + 1], flags, "plain")
SynGivenUp(t) == IF t.retryCount < TCP_MAX_RETRIES THEN Repeat(t, {"SYN"}) ELSE t
SynAgain(t) == Repeat([t EXCEPT !.retryCount = Min({@, TCP_MAX_RETRIES - 1})], {"SYN"})
\* Slip: there is no end to TCP_FIN_WAIT_2.
ExpiredButFin2(t) ==
  CASE t.smState = "TCP_SYN_SENT" -> SynAgain(t)
    [] t.smState = "TCP_SYN_RECEIVED" ->
         IF t.retryCount < TCP_MAX_SYN_RETRIES THEN Repeat(t, {"SYN", "ACK"}) ELSE Reset(t)
    [] t.smState \in {"TCP_FIN_WAIT_1", "TCP_LAST_ACK"} ->
         IF t.retryCount < TCP_MAX_RETRIES THEN Repeat(t, {"FIN", "ACK"}) ELSE Reset(t)
    [] t.smState = "TCP_CLOSING" ->
         IF t.retryCount < TCP_MAX_RETRIES THEN Repeat(t, {"ACK"}) ELSE Reset(t)
    [] OTHER -> t
Expired(t) == IF t.smState = "TCP_FIN_WAIT_2" THEN Reset(t) ELSE ExpiredButFin2(t)
\* When the time to wait for the application in TCP_CLOSE_WAIT is over.
CloseWaitOver(t) == Answer(t, {"FIN", "ACK"}, "TCP_LAST_ACK")
\* When nothing was heard for long.  Slip: without end.
KeepAliveOnly(t) == SendTCP([t EXCEPT !.vUnackedKeepalives = 0], {"ACK"}, "keep")
KeepAlive(t) ==
  LET u == TCPDisconnect(TCPDisconnect(t))
  IN IF t.vUnackedKeepalives < TCP_MAX_UNACKED_KEEP_ALIVES THEN SendTCP(t, {"ACK"}, "keep")
     ELSE IF t.bServer THEN u ELSE [u EXCEPT !.smState = "TCP_CLOSED_BUT_RESERVED"]

----------------------------------------------------------------------------
(* The gateways and the network.                                            *)

Init ==
  /\ srv = [s \in Servers |-> Socket(TRUE, Nobody)]
  /\ cl = [c \in Clients |-> Socket(FALSE, c)]
  /\ SYNQueue = <<>> /\ net = {} /\ full = {} /\ agreed = {}
  /\ opens = [c \in Clients |-> 0]
  /\ faults = 0

Fault == faults < MaxFaults /\ faults' = faults + 1

\* LFSRRand gives an initial number that nothing on the way or waiting belongs to.
Numbers == {g.seq.isn : g \in net} \cup {g.ack.isn : g \in net}
           \cup {srv[s].MySEQ.isn : s \in Servers} \cup {srv[s].RemoteSEQ.isn : s \in Servers}
           \cup {cl[c].MySEQ.isn : c \in Clients} \cup {cl[c].RemoteSEQ.isn : c \in Clients}
           \cup {e.seq.isn : e \in Range(SYNQueue)}
Isn == Min(Isns \ Numbers)

\* The socket t at s or c, with rest left in the network.
Sends(t, rest) == net' = rest \cup t.out
SrvBecomes(s, t, rest) ==
  /\ UNCHANGED cl /\ srv' = [srv EXCEPT ![s] = [t EXCEPT !.out = {}]] /\ Sends(t, rest)
  /\ agreed' = {p \in agreed : \E r \in Servers : srv'[r].MySEQ.isn = p[2]}
ClBecomes(c, t, rest) ==
  /\ UNCHANGED srv /\ cl' = [cl EXCEPT ![c] = [t EXCEPT !.out = {}]] /\ Sends(t, rest)
  /\ agreed' = agreed \cup (IF t.smState = "TCP_ESTABLISHED" THEN {<<t.MySEQ.isn, t.RemoteSEQ.isn>>}
                             ELSE {})

Ours(t, g) == t.client = g.client /\ t.port = g.port

\* FindMatchingSocket: the first socket that has this connection, or the last that
\* listens, or a place in the queue for a SYN that is not in it.
Matching(g) == {s \in Servers : srv[s].smState # "TCP_LISTEN" /\ Ours(srv[s], g)}
Free == {s \in Servers : srv[s].smState = "TCP_LISTEN"}
Waits(g) == \E e \in Range(SYNQueue) : Ours(e, g)
Enqueue(g) ==
  IF Is(g, "SYN") /\ Len(SYNQueue) < TCP_SYN_QUEUE_MAX_ENTRIES /\ ~Waits(g)
  THEN SYNQueue' = Append(SYNQueue, [client |-> g.client, port |-> g.port, seq |-> g.seq])
  ELSE UNCHANGED SYNQueue

AtServer(g, rest) ==
  IF Matching(g) \cup Free # {}
  THEN LET s == IF Matching(g) # {} THEN Min(Matching(g)) ELSE Max(Free)
       IN SrvBecomes(s, HandleTCPSeg(srv[s], g, Isn), rest) /\ UNCHANGED SYNQueue
  ELSE Enqueue(g) /\ net' = rest /\ UNCHANGED <<srv, cl, agreed>>
AtClient(g, rest) ==
  /\ UNCHANGED SYNQueue
  /\ LET t == cl[g.client]
     IN IF t.smState \in {"TCP_CLOSED", "TCP_CLOSED_BUT_RESERVED"} \/ ~Ours(t, g)
        THEN net' = rest /\ UNCHANGED <<srv, cl, agreed>>
        ELSE ClBecomes(g.client, HandleTCPSeg(t, g, Isn), rest)

\* The next segment of a connection, whichever it is, arrives, and may arrive again.
Arrive(c, p) ==
  /\ UNCHANGED <<opens, full>>
  /\ \E g \in net :
       /\ g.client = c /\ g.port = p
       /\ \E rest \in {net \ {g}, net} :
            /\ IF rest = net THEN Fault ELSE UNCHANGED faults
            /\ IF g.toClient THEN AtClient(g, rest) ELSE AtServer(g, rest)
Lose ==
  /\ \E g \in net : net' = net \ {g}
  /\ Fault /\ UNCHANGED <<srv, cl, SYNQueue, opens, full, agreed>>

\* A timer is far longer than a way there and back: it is early if a segment of its
\* connection is still on the way.
InTime(t) ==
  IF \E g \in net : Ours(t, g) THEN Fault ELSE UNCHANGED faults

\* What TCPTick makes of a socket whose timer runs, and of one that is only watched.
Timed(t) == t.smState = "TCP_CLOSE_WAIT" \/ (t.bTimerEnabled /\ t.smState # "TCP_GATEWAY_GET_ARP")
Watched(t) == t.smState = "TCP_ESTABLISHED" /\ ~t.bTimerEnabled
Tick(t) == IF t.smState = "TCP_CLOSE_WAIT" THEN CloseWaitOver(t) ELSE Expired(t)
TickServer(s) ==
  /\ UNCHANGED <<SYNQueue, opens, full>> /\ Timed(srv[s]) /\ SrvBecomes(s, Tick(srv[s]), net)
  /\ InTime(srv[s])
TickClient(c) ==
  /\ UNCHANGED <<SYNQueue, opens, full>> /\ Timed(cl[c]) /\ ClBecomes(c, Tick(cl[c]), net)
  /\ InTime(cl[c])
KeepServer(s) ==
  /\ UNCHANGED <<SYNQueue, opens, full>> /\ Watched(srv[s]) /\ SrvBecomes(s, KeepAlive(srv[s]), net)
  /\ InTime(srv[s])
KeepClient(c) ==
  /\ UNCHANGED <<SYNQueue, opens, full>> /\ Watched(cl[c]) /\ ClBecomes(c, KeepAlive(cl[c]), net)
  /\ InTime(cl[c])

\* What waited for the window to open.
TickSendServer(s) ==
  /\ srv[s].bTXASAP /\ SrvBecomes(s, SendTCP(srv[s], {"ACK"}, "reset"), net)
  /\ UNCHANGED <<SYNQueue, opens, full, faults>>
TickSendClient(c) ==
  /\ cl[c].bTXASAP /\ ClBecomes(c, SendTCP(cl[c], {"ACK"}, "reset"), net)
  /\ UNCHANGED <<SYNQueue, opens, full, faults>>

\* The MAC address of the other end is known, after as many requests as it takes.
ArpIsResolved(c) ==
  /\ UNCHANGED <<SYNQueue, opens, full, faults>> /\ cl[c].smState = "TCP_GATEWAY_GET_ARP"
  /\ ClBecomes(c, Answer([cl[c] EXCEPT !.MySEQ = [isn |-> Isn, n |-> 0]], {"SYN"}, "TCP_SYN_SENT"),
               net)

\* A server socket that is free takes the first of the queue; one that waits too long is
\* forgotten.
TickQueue(s) ==
  /\ srv[s].smState = "TCP_LISTEN" /\ SYNQueue # <<>>
  /\ LET e == Head(SYNQueue)
         t == [srv[s] EXCEPT !.client = e.client, !.port = e.port, !.RemoteSEQ = Plus(e.seq, 1),
                             !.MySEQ = [isn |-> Isn, n |-> 0]]
     IN SrvBecomes(s, Answer(t, {"SYN", "ACK"}, "TCP_SYN_RECEIVED"), net)
  /\ SYNQueue' = Tail(SYNQueue) /\ UNCHANGED <<opens, full, faults>>
QueueTimeout ==
  /\ \E i \in DOMAIN SYNQueue : SYNQueue' = RemoveAt(SYNQueue, i)
  /\ UNCHANGED <<srv, cl, net, opens, full, agreed, faults>>

TCPOpen(c) ==
  /\ cl[c].smState = "TCP_CLOSED" /\ opens[c] < MaxOpens
  /\ opens' = [opens EXCEPT ![c] = @ + 1]
  /\ ClBecomes(c, [cl[c] EXCEPT !.port = opens[c] + 1, !.bTimerEnabled = TRUE,
                                !.smState = "TCP_GATEWAY_GET_ARP"], net)
  /\ UNCHANGED <<SYNQueue, full, faults>>

\* The applications: the server leaves a client that says nothing, and the bridge leaves
\* its socket whatever became of it.
LeaveServer(s) ==
  /\ srv[s].smState = "TCP_ESTABLISHED"
  /\ SrvBecomes(s, TCPDisconnect(srv[s]), net)
  /\ Fault /\ UNCHANGED <<SYNQueue, opens, full>>
LeaveClient(c) ==
  /\ cl[c].smState # "TCP_CLOSED"
  /\ ClBecomes(c, TCPDisconnect(cl[c]), net)
  /\ IF cl[c].smState = "TCP_CLOSED_BUT_RESERVED" THEN UNCHANGED faults ELSE Fault
  /\ UNCHANGED <<SYNQueue, opens, full>>

\* A gateway restarts: TCPInit.  NextPort is kept.
BootServer ==
  /\ srv' = [s \in Servers |-> Socket(TRUE, Nobody)] /\ SYNQueue' = <<>> /\ agreed' = {}
  /\ full' = full \ {Nobody}
  /\ Fault /\ UNCHANGED <<cl, net, opens>>
BootClient(c) ==
  /\ cl[c].smState # "TCP_CLOSED"
  /\ cl' = [cl EXCEPT ![c] = Socket(FALSE, c)]
  /\ full' = full \ {c}
  /\ Fault /\ UNCHANGED <<srv, SYNQueue, net, opens, agreed>>

\* The receive buffer of a gateway's MAC fills up with what others send it, and is read.
Fill(e) ==
  /\ e \notin full /\ full' = full \cup {e}
  /\ Fault /\ UNCHANGED <<srv, cl, SYNQueue, net, opens, agreed>>
Drain(e) ==
  /\ e \in full /\ full' = full \ {e}
  /\ UNCHANGED <<srv, cl, SYNQueue, net, opens, agreed, faults>>

Next ==
  \/ \E s \in Servers : TickServer(s) \/ KeepServer(s) \/ TickQueue(s) \/ LeaveServer(s)
                        \/ TickSendServer(s)
  \/ \E c \in Clients : \/ TickClient(c) \/ KeepClient(c) \/ ArpIsResolved(c)
                         \/ TCPOpen(c) \/ LeaveClient(c) \/ BootClient(c) \/ TickSendClient(c)
  \/ \E c \in Clients, p \in Ports : Arrive(c, p)
  \/ \E e \in Clients \cup {Nobody} : Fill(e) \/ Drain(e)
  \/ QueueTimeout \/ Lose \/ BootServer

\* The main loops run the stack, and the network delivers what it does not lose.  A
\* keep-alive waits while anything is heard; a timer that runs does go off, whatever is
\* heard: keep-alives are rarer, and one that is answered halves a longer interval.
Spec ==
  /\ Init /\ [][Next]_vars
  /\ \A s \in Servers : WF_vars(KeepServer(s) \/ TickQueue(s)) /\ SF_vars(TickServer(s))
                         /\ WF_vars(TickSendServer(s))
  /\ \A c \in Clients :
       /\ WF_vars(KeepClient(c) \/ ArpIsResolved(c)) /\ SF_vars(TickClient(c))
       /\ WF_vars(TickSendClient(c))
       /\ \A p \in Ports : WF_vars(Arrive(c, p))
  /\ \A e \in Clients \cup {Nobody} : WF_vars(Drain(e))

----------------------------------------------------------------------------
\* Every variable has one of the values the code can give it.
States == Closed \cup Opening \cup Closing
          \cup {"TCP_SYN_RECEIVED", "TCP_ESTABLISHED", "TCP_CLOSED_BUT_RESERVED"}
SocketOK(t) ==
  /\ t.smState \in States /\ t.out = {}
  /\ t.retryCount \in 0 .. Max({TCP_MAX_RETRIES, TCP_MAX_SYN_RETRIES})
  /\ t.vUnackedKeepalives \in 0 .. TCP_MAX_UNACKED_KEEP_ALIVES
  /\ t.MySEQ.isn \in Isns \cup {0} /\ t.RemoteSEQ.isn \in Isns \cup {0}
TypeOK ==
  /\ \A s \in Servers : SocketOK(srv[s]) /\ srv[s].bServer
                         /\ srv[s].smState \notin Opening \cup {"TCP_CLOSED"}
  /\ \A c \in Clients : SocketOK(cl[c]) /\ ~cl[c].bServer /\ cl[c].smState # "TCP_LISTEN"
  /\ Len(SYNQueue) <= TCP_SYN_QUEUE_MAX_ENTRIES /\ full \subseteq Clients \cup {Nobody}

\* A server socket is established only with a client that has accepted exactly this
\* connection: not from an old segment of another one (the test of the acknowledgement in
\* TCP_SYN_RECEIVED).
EstablishedIsAgreed ==
  TypeOK /\ \A s \in Servers : srv[s].smState \in {"TCP_ESTABLISHED", "TCP_CLOSE_WAIT"} =>
                       <<srv[s].RemoteSEQ.isn, srv[s].MySEQ.isn>> \in agreed

\* A socket that is to close and takes the window of the other end for closed: it sends no
\* FIN, and its timer does not run or does not count.  Nothing tells it that the window
\* is open again unless the other end sends a segment of its own.
Shut(t) == t.smState \in {"TCP_FIN_WAIT_1", "TCP_CLOSING", "TCP_LAST_ACK"} /\ ~t.remoteWindow

\* Half-open connections end.  No server socket is kept for ever for a client that
\* restarted or went away, unless it is shut, and a client that believes in a connection
\* which the server gateway has forgotten notices (TCP_MAX_UNACKED_KEEP_ALIVES, the
\* resets).
Present(s) == LET c == srv[s].client
              IN c \in Clients /\ cl[c].port = srv[s].port /\ cl[c].smState # "TCP_CLOSED"
Believes(c) == cl[c].smState = "TCP_ESTABLISHED"
HalfOpenEnds ==
  /\ \A s \in Servers : []<>(srv[s].smState = "TCP_LISTEN" \/ Present(s) \/ Shut(srv[s]))
  /\ \A c \in Clients : []<>(Believes(c) => \E s \in Servers : Ours(srv[s], cl[c]))

\* No socket stays in a closing state, whatever is lost, unless it is shut: the comment in
\* TCPDisconnect that these states close themselves after some delay is not true of that.
ClosingEnds ==
  /\ \A s \in Servers : []<>(srv[s].smState \notin Closing \/ Shut(srv[s]))
  /\ \A c \in Clients : []<>(cl[c].smState \notin Closing \/ Shut(cl[c]))

\* A client does not wait for ever beside a server socket that is free.
WaitersAreServed ==
  \A c \in Clients : []<>(cl[c].smState = "TCP_SYN_SENT" => Free = {})
=============================================================================

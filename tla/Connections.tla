---------------------------- MODULE Connections ----------------------------
(***************************************************************************)
(* Who keeps which TCP connection, and for how long (gcaeth.c):            *)
(* CBusEthTick counts the time each connection has been silent and has     *)
(* openBridge look after the connection to a remote gateway, CBusEthProcess *)
(* closes connections that were silent for too long, and the TCP/IP stack   *)
(* moves the sockets on while it is polled between the two.                 *)
(*                                                                         *)
(* Connection 0 is for the bridge, the others serve clients.  Socket 0 is   *)
(* the one client socket of TCPIPConfig.h, the others are server sockets.   *)
(***************************************************************************)
EXTENDS Integers, FiniteSetsExt

CONSTANTS
  Servers,          \* server sockets: TCP_SOCKET_COUNT - 1
  IdleTime,         \* half seconds of silence a connection may have
  HBEATS_INTERVAL,  \* half seconds between two looks at the bridge
  IdleTimeout       \* CFG_IDLE_TIMEOUT is set in NV1

ASSUME ConnectionsAssumption ==
  /\ Servers \in 1..252 /\ IdleTime \in 0..254
  /\ HBEATS_INTERVAL \in 1..255
  /\ IdleTimeout \in BOOLEAN

Sockets == 0..Servers
Conns   == 0..Servers
INVALID == 254              \* no socket, and no bridge (0xFE)

VARIABLES
  pc,                \* what the main loop does next: tick, stack, serve
  doEthTick,
  handle,            \* HCB[].socket
  idle,              \* HCB[].idle
  hbeatCounter, bridgeSocketIndex,
  remoteIP,          \* EE_REMOTEIP holds an address
  sock,              \* smState of each socket
  bServer,           \* the sockets that go back to listening
  rx,                \* the sockets with data to read
  left,              \* the sockets that left ESTABLISHED in this poll
  silence,           \* history: ticks since the connection was made or heard
  before             \* history: the silence of a connection it took the socket
                     \* over from within one poll, unseen by CBusEthProcess

vars == <<pc, doEthTick, handle, idle, hbeatCounter, bridgeSocketIndex,
          remoteIP, sock, bServer, rx, left, silence, before>>

\* smState, with the states of a connection being made or being taken down
\* put together: opening stands for SEND_ARP, GET_ARP and SYN_SENT, listen for
\* SYN_RECEIVED too, closing for FIN_WAIT_1, FIN_WAIT_2, CLOSING and LAST_ACK.
States == {"closed", "reserved", "listen", "opening", "est", "closeWait", "closing"}

\* CBusEthInit, with TCPOpen for each server socket.
Init ==
  /\ pc = "tick" /\ doEthTick = FALSE
  /\ remoteIP \in BOOLEAN
  /\ handle = [c \in Conns |-> IF c > 0 \/ remoteIP THEN c ELSE INVALID]
  /\ idle = [c \in Conns |-> 0]
  /\ hbeatCounter = 0 /\ bridgeSocketIndex = IF remoteIP THEN 0 ELSE INVALID
  /\ sock = [s \in Sockets |-> IF s > 0 THEN "listen"
                               ELSE IF remoteIP THEN "opening" ELSE "closed"]
  /\ bServer = Sockets \ {0} /\ rx = {} /\ left = {}
  /\ silence = [s \in Sockets |-> 0] /\ before = [s \in Sockets |-> 0]

-----------------------------------------------------------------------------
(* The stack's interface, as functions of a socket's state. *)

\* CloseSocket, for a server socket or another.
Closed(server) == IF server THEN "listen" ELSE "closed"

\* TCPDisconnect: a connection is taken down in order, anything else at once.
Disconnected(state, server) ==
  IF state \in {"est", "closeWait"} THEN "closing" ELSE Closed(server)

Connected(h) == h \in Sockets /\ sock[h] = "est"          \* TCPIsConnected

-----------------------------------------------------------------------------
(* The timer interrupt, and CBusEthTick *)

Timer ==
  /\ ~doEthTick /\ doEthTick' = TRUE
  /\ UNCHANGED <<pc, handle, idle, hbeatCounter, bridgeSocketIndex, remoteIP,
                 sock, bServer, rx, left, silence, before>>

\* The connection openBridge uses.
BridgeConn == IF bridgeSocketIndex \in Conns THEN bridgeSocketIndex
              ELSE Min({c \in Conns : ~Connected(handle[c])})

\* openBridge: the old socket is closed, if close says so, and a closed client
\* socket is opened; there is only socket 0.
OpenBridge(counted, close) ==
  LET old    == handle[BridgeConn]
      closes == close /\ old \in Sockets
      after  == IF closes THEN [sock EXCEPT ![old] = Disconnected(@, FALSE)] ELSE sock
      free   == after[0] = "closed"
  IN /\ bServer' = IF closes THEN bServer \ {old} ELSE bServer
     /\ sock' = IF free THEN [after EXCEPT ![0] = "opening"] ELSE after
     /\ handle' = [handle EXCEPT ![BridgeConn] = IF free THEN 0 ELSE INVALID]
     /\ idle' = [counted EXCEPT ![BridgeConn] = 0]
     /\ bridgeSocketIndex' = BridgeConn

\* isBridgeConnected, the remote address and room are what openBridge looks at.
BridgeWanted ==
  /\ remoteIP
  /\ ~(bridgeSocketIndex \in Conns /\ Connected(handle[bridgeSocketIndex]))
  /\ bridgeSocketIndex \in Conns \/ \E c \in Conns : ~Connected(handle[c])

Beat(n) == n = HBEATS_INTERVAL

TickWith(counts, close) ==
  /\ pc = "tick" /\ pc' = "stack"
  /\ doEthTick' = FALSE
  /\ LET counted == [c \in Conns |-> IF counts THEN (idle[c] + 1) % 256 ELSE idle[c]]
         beat    == Beat(hbeatCounter + 1)
     IN IF ~doEthTick
        THEN UNCHANGED <<handle, idle, hbeatCounter, bridgeSocketIndex, sock,
                         bServer, silence>>
        ELSE /\ hbeatCounter' = IF beat THEN 0 ELSE hbeatCounter + 1
             /\ IF beat /\ BridgeWanted
                THEN OpenBridge(counted, close)
                ELSE idle' = counted /\ UNCHANGED <<handle, bridgeSocketIndex, sock, bServer>>
             /\ silence' = [s \in Sockets |-> IF silence[s] > IdleTime THEN silence[s]
                                              ELSE silence[s] + 1]
  /\ UNCHANGED <<remoteIP, rx, left, before>>

\* Slips: the old socket of the bridge is not closed; the idle time is not counted.
TickNoClose == TickWith(IdleTimeout, FALSE)
TickNotIdle == TickWith(~IdleTimeout, TRUE)
CBusEthTick == TickWith(IdleTimeout, TRUE)

-----------------------------------------------------------------------------
(* The TCP/IP stack, polled by StackTask *)

Stack == pc = "stack" /\ UNCHANGED <<pc, doEthTick, handle, idle, hbeatCounter,
                                     bridgeSocketIndex, remoteIP, bServer>>

Move(s, from, to) == sock[s] = from /\ sock' = [sock EXCEPT ![s] = to]

UpToIdle(n) == IF n > IdleTime THEN IdleTime + 1 ELSE n      \* a bound

\* A client connects to a server socket; the remote gateway accepts the bridge.
\* A socket that left ESTABLISHED in the same poll may be taken over at once.
Establish(s) ==
  /\ Stack
  /\ \/ s \in bServer /\ Move(s, "listen", "est")
     \/ Move(s, "opening", "est")
  /\ silence' = [silence EXCEPT ![s] = 0]
  /\ before' = [before EXCEPT ![s] = IF s \in left THEN UpToIdle(@ + silence[s]) ELSE 0]
  /\ rx' = rx \ {s}
  /\ UNCHANGED left

\* Data arrives, for CBusEthProcess to read.
Data(s) ==
  /\ Stack /\ sock[s] = "est" /\ s \notin rx
  /\ rx' = rx \union {s}
  /\ UNCHANGED <<sock, left, silence, before>>

\* The peer closes (FIN) or resets, it stops to acknowledge, or it no longer
\* answers keep alive segments, after which a client socket stays reserved.
Lose(s) ==
  /\ Stack
  /\ \E to \in {"closeWait", "closing", Closed(s \in bServer)}
               \union (IF s \in bServer THEN {} ELSE {"reserved"}) : Move(s, "est", to)
  /\ left' = left \union {s}
  /\ rx' = rx \ {s}                      \* it is never read any more
  /\ UNCHANGED <<silence, before>>

\* A client gives up while it connects (FIN in SYN_RECEIVED).
Abort(s) == /\ Stack /\ s \in bServer /\ Move(s, "listen", "closing")
            /\ UNCHANGED <<rx, left, silence, before>>

\* The stack closes its side some time after the peer did.
CloseWait(s) == Stack /\ Move(s, "closeWait", "closing")
                /\ UNCHANGED <<rx, left, silence, before>>

\* The last acknowledgement, a reset or a timeout ends the connection.
Finish(s) == Stack /\ Move(s, "closing", Closed(s \in bServer))
             /\ UNCHANGED <<rx, left, silence, before>>

StackDone ==
  /\ pc = "stack" /\ pc' = "serve"
  /\ left' = {}
  /\ UNCHANGED <<doEthTick, handle, idle, hbeatCounter, bridgeSocketIndex,
                 remoteIP, sock, bServer, rx, silence, before>>

-----------------------------------------------------------------------------
(* CBusEthProcess.  Frames it reads may set or clear the remote address.      *)

\* forgets: idle is reset for connections that are down; closes: the server
\* sockets it closes for good.
Serve(forgets, closes) ==
  /\ pc = "serve" /\ pc' = "tick"
  /\ LET up     == {c \in Conns : Connected(handle[c])}
         heard  == {c \in up : handle[c] \in rx}
         evicted == {c \in up \ heard : idle[c] > IdleTime}
         reset  == heard \union evicted \union (IF forgets THEN Conns \ up ELSE {})
     IN /\ idle' = [c \in Conns |-> IF c \in reset THEN 0 ELSE idle[c]]
        /\ rx' = rx \ {handle[c] : c \in heard}
        /\ silence' = [s \in Sockets |-> IF \E c \in heard : handle[c] = s THEN 0
                                         ELSE silence[s]]
        /\ before' = [s \in Sockets |-> IF \E c \in reset : handle[c] = s THEN 0
                                        ELSE before[s]]
        /\ sock' = [s \in Sockets |-> IF \E c \in evicted : handle[c] = s
                                      THEN Disconnected(sock[s], s \in bServer)
                                      ELSE sock[s]]
        /\ bServer' = IF closes THEN bServer \ {handle[c] : c \in evicted} ELSE bServer
  /\ remoteIP' \in BOOLEAN
  /\ UNCHANGED <<doEthTick, handle, hbeatCounter, bridgeSocketIndex, left>>

\* Slips: idle is kept while nobody is connected; TCPClose for TCPDisconnect.
ServeKeepsIdle == Serve(FALSE, FALSE)
ServeCloses == Serve(TRUE, TRUE)
CBusEthProcess == Serve(TRUE, FALSE)

-----------------------------------------------------------------------------
Loop == CBusEthTick \/ StackDone \/ CBusEthProcess

Next ==
  \/ Timer \/ Loop
  \/ \E s \in Sockets :
       Establish(s) \/ Data(s) \/ Lose(s) \/ Abort(s) \/ CloseWait(s) \/ Finish(s)

Spec == Init /\ [][Next]_vars

\* The main loop turns and the timer ticks for ever, the stack's own timers run
\* out, and the remote gateway accepts the bridge if it is asked again and again.
FairSpec ==
  /\ Spec
  /\ WF_vars(Loop) /\ WF_vars(Timer)
  /\ \A s \in Sockets : SF_vars(CloseWait(s)) /\ SF_vars(Finish(s))
  /\ SF_vars(Establish(0))

-----------------------------------------------------------------------------
(* Properties *)

FlagsOK == doEthTick \in BOOLEAN /\ remoteIP \in BOOLEAN

DataOK ==
  /\ pc \in {"tick", "stack", "serve"}
  /\ handle \in [Conns -> Sockets \union {INVALID}]
  /\ idle \in [Conns -> 0..255]
  /\ hbeatCounter \in 0..HBEATS_INTERVAL-1
  /\ bridgeSocketIndex \in Conns \union {INVALID}
  /\ sock \in [Sockets -> States]
  /\ bServer \subseteq Sockets /\ rx \subseteq Sockets /\ left \subseteq Sockets
  /\ silence \in [Sockets -> 0..IdleTime+1]
  /\ before \in [Sockets -> 0..IdleTime+1]

\* Every variable holds what its C counterpart can.
TypeOK == FlagsOK /\ DataOK

\* Whatever the bridge and the idle timer do, each server connection keeps its
\* own socket and that socket goes back to listening; the bridge has the client
\* socket or none (openBridge, CBusEthProcess).
ServersKept ==
  /\ \A c \in Conns \ {0} : handle[c] = c /\ c \in bServer /\ sock[c] # "closed"
  /\ handle[0] \in {0, INVALID} /\ bridgeSocketIndex \in {0, INVALID}

\* A connection is closed for its own silence only, never because the bridge is
\* looked after, and for that of the client that had the socket before only if it
\* took the socket over within one poll of the stack: CBusEthProcess sees a socket
\* that is down between its own calls or never, because it does not ask
\* TCPWasReset.  One tick may be counted from before the connection: it was made
\* after CBusEthTick and before CBusEthProcess could see the socket down.
ClosedForOwnSilence ==
  [][\A s \in Sockets : pc # "stack" /\ sock[s] = "est" /\ sock'[s] # "est"
       => silence[s] + before[s] >= IdleTime]_vars

\* With the idle timeout switched on, a connection that stays silent is closed.
SilentIsClosed ==
  \A s \in Sockets : sock[s] = "est" ~> sock[s] # "est" \/ s \in rx

\* The bridge comes back, whatever became of its socket.
BridgeComesBack == remoteIP ~> sock[0] = "est" \/ ~remoteIP

=============================================================================

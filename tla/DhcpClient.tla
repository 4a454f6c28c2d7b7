----------------------------- MODULE DhcpClient -----------------------------
(***************************************************************************)
(* The DHCP client of the stack (DHCP.c, and the part of StackTask that runs *)
(* it) with the servers of its network.  Datagrams are lost, repeated and   *)
(* late, the link goes down, NVSET starts the client anew or switches it    *)
(* off, and a server may reach a client without an address by broadcast     *)
(* only, or directly only, and need not state how long its lease is.        *)
(*                                                                         *)
(* Time passes in units of DHCP_TIMEOUT.  Each server keeps one address for *)
(* this client, which therefore has the server's name.                      *)
(***************************************************************************)
EXTENDS Naturals, FiniteSets

CONSTANTS
  Servers, None,
  Lease,         \* the lease that servers give
  LeaseCounted,  \* what the client counts of it: a thirty-second less
  LeaseDefault,  \* what it counts of a lease that is not stated: sixty seconds
  Unstated,      \* the servers that do not state their lease
  MaxLate,       \* how late an acknowledgement may come
  MAX_UDP_SOCKETS,
  MaxFaults      \* bound: datagrams lost, repeated or late, refusals, links lost, NVSETs

ASSUME DhcpAssumption ==
  /\ None \notin Servers
  /\ {Lease, LeaseCounted, LeaseDefault, MaxLate, MAX_UDP_SOCKETS, MaxFaults} \subseteq Nat
  /\ LeaseDefault > 0 /\ LeaseDefault <= LeaseCounted

\* A lease exceeds what the client counts of it by three renewals and by the time that an
\* acknowledgement may be late.
LongEnough == LeaseCounted + 3 + MaxLate < Lease

VARIABLES
  DHCPClient,    \* the client, with AppConfig.MyIPAddr
  sockets,       \* UDP sockets it has taken
  link,          \* MACIsLinked
  leases,        \* what is left of the lease at each server
  reach,         \* does a server reach the client directly, or by broadcast
  net, faults

vars == <<DHCPClient, sockets, link, leases, reach, net, faults>>

Fault == faults < MaxFaults /\ faults' = faults + 1
NoFault == UNCHANGED faults

----------------------------------------------------------------------------
(* The client.                                                              *)

\* DHCPInit, after UDPClose of the socket it may have.  Slip: the socket stays open.
Initial(x) ==
  [x EXCEPT !.smState = "GET_SOCKET", !.hDHCPSocket = FALSE, !.bIsBound = FALSE,
            !.bOfferReceived = FALSE, !.bUseUnicastMode = TRUE]
ClosedNot(x) == sockets
Closed(x) == IF x.hDHCPSocket THEN sockets - 1 ELSE sockets
DHCPInit(x) == DHCPClient' = Initial(x) /\ sockets' = Closed(x)
DHCPDisable(x) ==
  /\ DHCPClient' = [x EXCEPT !.smState = "DISABLED", !.hDHCPSocket = FALSE]
  /\ sockets' = Closed(x)

Init ==
  /\ DHCPClient = [smState |-> "GET_SOCKET", hDHCPSocket |-> FALSE, bIsBound |-> FALSE,
                   bOfferReceived |-> FALSE, bUseUnicastMode |-> TRUE, renewal |-> 1,
                   dwLeaseTime |-> 0, validValues |-> FALSE, dwServerID |-> None,
                   tempIPAddress |-> None,
                   MyIPAddr |-> None]
  /\ sockets = 0 /\ link = TRUE /\ net = {} /\ faults = 0
  /\ leases = [s \in Servers |-> 0]
  /\ reach \in [Servers -> SUBSET BOOLEAN \ {{}}]

\* DHCPTask, one state at a time.  The task waits in each of these states while the
\* controller is busy; a datagram that arrives meanwhile is discarded.
GetSocket ==
  /\ DHCPClient.smState = "GET_SOCKET" /\ sockets < MAX_UDP_SOCKETS
  /\ DHCPClient' = [DHCPClient EXCEPT !.hDHCPSocket = TRUE, !.smState = "SEND_DISCOVERY"]
  /\ sockets' = sockets + 1 /\ UNCHANGED <<link, leases, reach, net, faults>>

Send(type, ids, addr, unicast) ==
  net' = net \cup {[type |-> type, id |-> s, addr |-> addr, unicast |-> unicast] : s \in ids}

\* Each pass through SEND_DISCOVERY forgets the offer; with a link it also asks for
\* another, to be answered the other way.  Slip: always the same way.
Forgotten(x) ==
  [x EXCEPT !.dwLeaseTime = LeaseDefault, !.validValues = FALSE, !.bIsBound = FALSE,
            !.bOfferReceived = FALSE]
Discovery(x) == [Forgotten(x) EXCEPT !.smState = "GET_OFFER"]
DiscoveryToggled(x) == [Discovery(x) EXCEPT !.bUseUnicastMode = ~@]
SendDiscovery ==
  /\ DHCPClient.smState = "SEND_DISCOVERY"
  /\ IF link
     THEN /\ DHCPClient' = DiscoveryToggled(DHCPClient)
          /\ Send("DISCOVER", Servers, None, DHCPClient'.bUseUnicastMode)
     ELSE DHCPClient' = Forgotten(DHCPClient) /\ UNCHANGED net
  /\ UNCHANGED <<sockets, link, leases, reach, faults>>

SendRequest ==
  /\ DHCPClient.smState = "SEND_REQUEST"
  /\ DHCPClient' = [DHCPClient EXCEPT !.smState = "GET_REQUEST_ACK"]
  /\ Send("REQUEST", {DHCPClient.dwServerID}, DHCPClient.tempIPAddress, DHCPClient.bUseUnicastMode)
  /\ UNCHANGED <<sockets, link, leases, reach, faults>>

SendRenew ==
  /\ DHCPClient.smState = "SEND_RENEW"
  /\ DHCPClient' = [DHCPClient EXCEPT !.bOfferReceived = FALSE, !.smState = "GET_RENEW_ACK"]
  /\ Send("RENEW", Servers \cap {DHCPClient.tempIPAddress}, DHCPClient.tempIPAddress, DHCPClient.bUseUnicastMode)
  /\ UNCHANGED <<sockets, link, leases, reach, faults>>

\* _DHCPReceive, which returns the type of g: what it keeps of g it keeps before it looks
\* at the server.  A refusal has no address and no lease, and of a lease that is not stated
\* the client counts what it counted before.  Slip: the server does not matter.
Kept(x, g) ==
  [x EXCEPT !.tempIPAddress = g.addr, !.validValues = TRUE,
            !.dwLeaseTime = IF g.type = "NAK" \/ g.id \in Unstated THEN @ ELSE LeaseCounted]
FromAnyServer(x, g) == g.type
TypeOf(x, g) == IF x.dwServerID = g.id THEN g.type ELSE "UNKNOWN"
_DHCPReceive(x, g) ==
  LET y == IF x.bOfferReceived THEN x ELSE Kept(x, g)
  IN IF g.type # "OFFER" THEN [client |-> y, type |-> TypeOf(x, g)]
     ELSE IF x.bOfferReceived THEN [client |-> x, type |-> "UNKNOWN"]
     ELSE [client |-> [y EXCEPT !.dwServerID = g.id, !.bOfferReceived = TRUE], type |-> "OFFER"]

\* DHCPTask when a datagram has been received.
Bound(x) == [x EXCEPT !.smState = "BOUND", !.hDHCPSocket = FALSE]
Taken(r) ==
  CASE r.client.smState = "GET_OFFER" /\ r.type = "OFFER" ->
         [r.client EXCEPT !.smState = "SEND_REQUEST"]
    [] r.client.smState = "GET_REQUEST_ACK" /\ r.type = "ACK" ->
         [Bound(r.client) EXCEPT !.bIsBound = TRUE,
            !.MyIPAddr = IF r.client.validValues THEN r.client.tempIPAddress ELSE @]
    [] r.client.smState = "GET_RENEW_ACK" /\ r.type = "ACK" -> Bound(r.client)
    [] r.client.smState \in {"GET_REQUEST_ACK", "GET_RENEW_ACK"} /\ r.type = "NAK" ->
         [r.client EXCEPT !.smState = "SEND_DISCOVERY"]
    [] OTHER -> r.client
Waiting == {"GET_OFFER", "GET_REQUEST_ACK", "GET_RENEW_ACK"}
Receive(g) ==
  IF DHCPClient.smState \in Waiting
  THEN /\ DHCPClient' = Taken(_DHCPReceive(DHCPClient, g))
       /\ sockets' = IF DHCPClient'.hDHCPSocket THEN sockets ELSE sockets - 1
  ELSE UNCHANGED <<DHCPClient, sockets>>

\* What a unit of time does to the client: a second of the lease, or the end of a wait.
Later(x) ==
  CASE x.smState \in {"GET_OFFER", "GET_REQUEST_ACK"} -> [x EXCEPT !.smState = "SEND_DISCOVERY"]
    [] x.smState = "BOUND" /\ x.dwLeaseTime >= 2 -> [x EXCEPT !.dwLeaseTime = @ - 1]
    [] x.smState = "BOUND" /\ x.dwLeaseTime < 2 /\ sockets < MAX_UDP_SOCKETS ->
         [x EXCEPT !.smState = "SEND_RENEW", !.renewal = 1, !.hDHCPSocket = TRUE]
    [] x.smState = "GET_RENEW_ACK" /\ x.renewal < 3 ->
         [x EXCEPT !.smState = "SEND_RENEW", !.renewal = @ + 1]
    [] x.smState = "GET_RENEW_ACK" /\ x.renewal = 3 -> [x EXCEPT !.smState = "SEND_DISCOVERY"]
    [] OTHER -> x

----------------------------------------------------------------------------
(* Servers, network and time.                                               *)

\* An answer leaves the server; one that does not reach the client is lost.
Answer(s, g, type, rest) ==
  net' = rest \cup
         {a \in {[type |-> type, id |-> s, addr |-> IF type = "NAK" THEN None ELSE s,
                  unicast |-> g.unicast]} : g.type = "RENEW" \/ g.unicast \in reach[s]}
Grants(s, g, rest) ==
  /\ Answer(s, g, "ACK", rest) /\ leases' = [leases EXCEPT ![s] = Lease] /\ NoFault
Refuses(s, g, rest) ==
  /\ leases[s] = 0 /\ Answer(s, g, "NAK", rest) /\ Fault /\ UNCHANGED leases

\* A server offers, grants or refuses: its address is free as long as no lease is promised.
Serve(s) ==
  /\ \E g \in net :
       LET rest == net \ {g} IN
       /\ g.id = s
       /\ \/ g.type = "DISCOVER" /\ Answer(s, g, "OFFER", rest) /\ UNCHANGED leases /\ NoFault
          \/ g.type \in {"REQUEST", "RENEW"} /\ (Grants(s, g, rest) \/ Refuses(s, g, rest))
  /\ UNCHANGED <<DHCPClient, sockets, link, reach>>

Answers == {g \in net : g.type \in {"OFFER", "ACK", "NAK"}}
Deliver ==
  /\ \E g \in Answers : Receive(g) /\ \/ net' = net \ {g} /\ NoFault
                                      \/ net' = net /\ Fault
  /\ UNCHANGED <<link, leases, reach>>
Lose ==
  /\ \E g \in net : net' = net \ {g}
  /\ Fault /\ UNCHANGED <<DHCPClient, sockets, link, leases, reach>>

\* Time passes once the client and the network have done what they had to do, or an
\* answer is late, an acknowledgement by MaxLate at most; but the time that a client counts
\* of a lease is longer than any datagram lives.
Tick ==
  /\ DHCPClient.smState \in Waiting \cup {"BOUND", "DISABLED"} \/ ~link
  /\ IF net = {} THEN NoFault ELSE DHCPClient.smState # "BOUND" /\ Fault
  /\ \A g \in net : g.type = "ACK" => leases[g.id] + MaxLate > Lease
  /\ DHCPClient' = Later(DHCPClient)
  /\ sockets' = IF DHCPClient'.hDHCPSocket /\ ~DHCPClient.hDHCPSocket THEN sockets + 1 ELSE sockets
  /\ leases' = [s \in Servers |-> IF leases[s] > 0 THEN leases[s] - 1 ELSE 0]
  /\ UNCHANGED <<link, reach, net>>

\* StackTask sees that the link is down, unless the client is switched off.
LinkDown ==
  /\ link /\ link' = FALSE /\ net' = {} /\ Fault
  /\ IF DHCPClient.smState = "DISABLED" THEN UNCHANGED <<DHCPClient, sockets>>
     ELSE DHCPInit([DHCPClient EXCEPT !.MyIPAddr = None])
  /\ UNCHANGED <<leases, reach>>
LinkUp ==
  /\ ~link /\ link' = TRUE /\ UNCHANGED <<DHCPClient, sockets, leases, reach, net, faults>>

\* NVSET of NV1 with and without CFG_DHCP_CLIENT.  A client switched on again sees at once
\* that the link has gone meanwhile.
Configure ==
  /\ DHCPInit([DHCPClient EXCEPT !.MyIPAddr = IF link THEN @ ELSE None])
  /\ IF DHCPClient.smState = "DISABLED" THEN NoFault ELSE Fault
  /\ UNCHANGED <<link, leases, reach, net>>
Disable ==
  /\ DHCPDisable(DHCPClient) /\ Fault /\ UNCHANGED <<link, leases, reach, net>>

Task == GetSocket \/ SendDiscovery \/ SendRequest \/ SendRenew
Next ==
  \/ Task \/ Deliver \/ Lose \/ Tick \/ LinkDown \/ LinkUp \/ Configure \/ Disable
  \/ \E s \in Servers : Serve(s)

\* The main loop runs the stack, servers answer, and a link that is lost comes back.
Spec ==
  /\ Init /\ [][Next]_vars
  /\ WF_vars(Task) /\ WF_vars(Deliver) /\ WF_vars(Tick) /\ WF_vars(LinkUp)
  /\ \A s \in Servers : WF_vars(Serve(s))
----------------------------------------------------------------------------
\* Every variable has one of the values the code can give it; the socket is open in the
\* states between GET_SOCKET and BOUND.
WithoutSocket == {"GET_SOCKET", "BOUND", "DISABLED"}
SmStates == Waiting \cup WithoutSocket \cup {"SEND_DISCOVERY", "SEND_REQUEST", "SEND_RENEW"}
Addresses == Servers \cup {None}
ClientStates ==
  [smState : SmStates, hDHCPSocket : BOOLEAN, bIsBound : BOOLEAN, bOfferReceived : BOOLEAN,
   bUseUnicastMode : BOOLEAN, renewal : 1 .. 3, dwLeaseTime : 0 .. LeaseCounted,
   validValues : BOOLEAN, dwServerID : Addresses, tempIPAddress : Addresses,
   MyIPAddr : Addresses]
Datagrams ==
  [type : {"DISCOVER", "OFFER", "REQUEST", "RENEW", "ACK", "NAK"}, id : Addresses,
   addr : Addresses, unicast : BOOLEAN]
TypeOK ==
  /\ DHCPClient \in ClientStates /\ net \subseteq Datagrams
  /\ DHCPClient.hDHCPSocket = (DHCPClient.smState \notin WithoutSocket)
  /\ sockets \in Nat /\ link \in BOOLEAN /\ faults \in 0 .. MaxFaults
  /\ leases \in [Servers -> 0 .. Lease] /\ reach \in [Servers -> SUBSET BOOLEAN]

\* While the client says that it is bound, the server whose address it uses still holds
\* the lease: not another server's offer under a late acknowledgement of this one, and not
\* longer than all renewals take (dwServerID, the thirty-second less).  A client that is
\* switched off keeps its address without renewing it, as the comment of DHCPDisable says
\* (DHCP.c:267-271).
BoundIsLeased ==
  DHCPClient.bIsBound /\ DHCPClient.smState # "DISABLED" =>
    DHCPClient.MyIPAddr \in Servers /\ leases[DHCPClient.MyIPAddr] > 0

\* The client never takes a second UDP socket, wherever it is started anew or switched off
\* (UDPClose in DHCPInit, in DHCPDisable and on each acknowledgement).
OneSocket == TypeOK /\ sockets = IF DHCPClient.hDHCPSocket THEN 1 ELSE 0

\* Whichever way servers can reach it, and whatever was lost, a client that is not left
\* switched off is bound in the end and its lease is then renewed for ever
\* (bUseUnicastMode, the repetitions).
StaysBound == <>[](DHCPClient.smState # "DISABLED" => DHCPClient.bIsBound)
=============================================================================

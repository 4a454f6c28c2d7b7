-------------------------- MODULE DhcpClient_proof --------------------------
(***************************************************************************)
(* Theorems about the DHCP client, for every set of servers and any number  *)
(* of faults.                                                               *)
(***************************************************************************)
EXTENDS DhcpClient, TLAPS

LEMMA Naturals ==
  /\ LeaseCounted \in Nat \ {0} /\ Lease \in Nat /\ MaxFaults \in Nat /\ MaxLate \in Nat
  /\ LeaseDefault \in 1 .. LeaseCounted
  BY DhcpAssumption DEF DhcpAssumption

\* A client in the right type holds a socket in the right states.
Held(x) == x.hDHCPSocket = (x.smState \notin WithoutSocket)

\* The variables that the client does not change, in their types.
OthersOK ==
  /\ net \subseteq Datagrams /\ link \in BOOLEAN /\ faults \in 0 .. MaxFaults
  /\ leases \in [Servers -> 0 .. Lease] /\ reach \in [Servers -> SUBSET BOOLEAN]
SocketsOK ==
  /\ DHCPClient \in ClientStates /\ Held(DHCPClient)
  /\ sockets = IF DHCPClient.hDHCPSocket THEN 1 ELSE 0

LEMMA Parts == OneSocket <=> OthersOK /\ SocketsOK
  BY DEF OneSocket, TypeOK, OthersOK, SocketsOK, Held, WithoutSocket

-----------------------------------------------------------------------------
(* What the operators on the client return.                                 *)

LEMMA InitialType ==
  ASSUME NEW x \in ClientStates
  PROVE  Initial(x) \in ClientStates /\ Held(Initial(x)) /\ ~Initial(x).hDHCPSocket
  BY DEF Initial, ClientStates, SmStates, WithoutSocket, Held

LEMMA ForgottenType ==
  ASSUME NEW x \in ClientStates
  PROVE  LET y == Forgotten(x)
         IN /\ y \in ClientStates /\ y.smState = x.smState /\ y.hDHCPSocket = x.hDHCPSocket
            /\ ~y.bIsBound /\ ~y.bOfferReceived /\ y.dwLeaseTime = LeaseDefault
<1>1. LeaseDefault \in 0 .. LeaseCounted
  BY Naturals
<1> QED
  BY <1>1 DEF Forgotten, ClientStates

LEMMA DiscoveryType ==
  ASSUME NEW x \in ClientStates, x.smState = "SEND_DISCOVERY", Held(x)
  PROVE  /\ DiscoveryToggled(x) \in ClientStates /\ Held(DiscoveryToggled(x))
         /\ DiscoveryToggled(x).hDHCPSocket = x.hDHCPSocket
         /\ ~DiscoveryToggled(x).bIsBound /\ ~DiscoveryToggled(x).bOfferReceived
         /\ DiscoveryToggled(x).dwLeaseTime = LeaseDefault
         /\ DiscoveryToggled(x).smState = "GET_OFFER"
<1> DEFINE y == Forgotten(x)
<1>1. /\ y \in ClientStates /\ y.smState = x.smState /\ y.hDHCPSocket = x.hDHCPSocket
      /\ ~y.bIsBound /\ ~y.bOfferReceived /\ y.dwLeaseTime = LeaseDefault
  BY ForgottenType
<1>2. DiscoveryToggled(x) = [[y EXCEPT !.smState = "GET_OFFER"] EXCEPT !.bUseUnicastMode = ~@]
  BY DEF DiscoveryToggled, Discovery
<1> HIDE DEF y
<1> QED
  BY <1>1, <1>2 DEF ClientStates, SmStates, Waiting, WithoutSocket, Held

LEMMA ReceiveType ==
  ASSUME NEW x \in ClientStates, NEW g \in Datagrams
  PROVE  LET r == _DHCPReceive(x, g)
         IN /\ r.client \in ClientStates /\ r.client.smState = x.smState
            /\ r.client.hDHCPSocket = x.hDHCPSocket
<1>1. Kept(x, g) \in ClientStates /\ Kept(x, g).smState = x.smState
      /\ Kept(x, g).hDHCPSocket = x.hDHCPSocket
  <2> DEFINE left == IF g.type = "NAK" \/ g.id \in Unstated THEN x.dwLeaseTime ELSE LeaseCounted
  <2>1. left \in 0 .. LeaseCounted /\ g.addr \in Addresses
    BY Naturals DEF ClientStates, Datagrams
  <2>2. Kept(x, g) = [x EXCEPT !.tempIPAddress = g.addr, !.validValues = TRUE, !.dwLeaseTime = left]
    BY DEF Kept
  <2> HIDE DEF left
  <2> QED
    BY <2>1, <2>2 DEF ClientStates
<1> DEFINE y == IF x.bOfferReceived THEN x ELSE Kept(x, g)
<1>2. y \in ClientStates /\ y.smState = x.smState /\ y.hDHCPSocket = x.hDHCPSocket
  BY <1>1
<1>3. LET z == [y EXCEPT !.dwServerID = g.id, !.bOfferReceived = TRUE]
      IN z \in ClientStates /\ z.smState = x.smState /\ z.hDHCPSocket = x.hDHCPSocket
  <2> HIDE DEF y
  <2> QED
    BY <1>2 DEF ClientStates, Datagrams
<1> QED
  BY <1>2, <1>3 DEF _DHCPReceive

\* An acknowledgement closes the socket, and no other datagram does.
LEMMA TakenType ==
  ASSUME NEW r, r.client \in ClientStates, r.client.smState \in Waiting, r.client.hDHCPSocket
  PROVE  Taken(r) \in ClientStates /\ Held(Taken(r))
  BY DEF Taken, Bound, ClientStates, SmStates, Waiting, WithoutSocket, Held

LEMMA LaterType ==
  ASSUME NEW x \in ClientStates, Held(x)
  PROVE  /\ Later(x) \in ClientStates /\ Held(Later(x))
         /\ x.hDHCPSocket => Later(x).hDHCPSocket
<1>1. CASE x.smState \in {"GET_OFFER", "GET_REQUEST_ACK"}
  BY <1>1 DEF Later, ClientStates, SmStates, Waiting, WithoutSocket, Held
<1>2. CASE x.smState = "BOUND" /\ x.dwLeaseTime >= 2
  <2>1. x.dwLeaseTime - 1 \in 0 .. LeaseCounted
    BY <1>2, Naturals DEF ClientStates
  <2>2. Later(x) = [x EXCEPT !.dwLeaseTime = x.dwLeaseTime - 1]
    BY <1>2 DEF Later, ClientStates
  <2> QED
    BY <1>2, <2>1, <2>2 DEF ClientStates, Held, WithoutSocket
<1>3. CASE x.smState = "BOUND" /\ x.dwLeaseTime < 2 /\ sockets < MAX_UDP_SOCKETS
  <2>1. Later(x) = [x EXCEPT !.smState = "SEND_RENEW", !.renewal = 1, !.hDHCPSocket = TRUE]
    BY <1>3 DEF Later, ClientStates
  <2>2. "SEND_RENEW" \in SmStates /\ 1 \in 1 .. 3
    BY DEF SmStates
  <2> QED
    BY <2>1, <2>2 DEF ClientStates, Held, WithoutSocket
<1>4. CASE x.smState = "GET_RENEW_ACK" /\ x.renewal < 3
  <2>1. x.renewal + 1 \in 1 .. 3
    BY <1>4 DEF ClientStates
  <2>2. Later(x) = [x EXCEPT !.smState = "SEND_RENEW", !.renewal = x.renewal + 1]
    BY <1>4 DEF Later
  <2> QED
    BY <1>4, <2>1, <2>2 DEF ClientStates, SmStates, Waiting, WithoutSocket, Held
<1>5. CASE x.smState = "GET_RENEW_ACK" /\ x.renewal = 3
  BY <1>5 DEF Later, ClientStates, SmStates, Waiting, WithoutSocket, Held
<1>6. CASE /\ x.smState \notin {"GET_OFFER", "GET_REQUEST_ACK"}
           /\ ~(x.smState = "BOUND" /\ x.dwLeaseTime >= 2)
           /\ ~(x.smState = "BOUND" /\ x.dwLeaseTime < 2 /\ sockets < MAX_UDP_SOCKETS)
           /\ ~(x.smState = "GET_RENEW_ACK" /\ x.renewal < 3)
           /\ ~(x.smState = "GET_RENEW_ACK" /\ x.renewal = 3)
  BY <1>6 DEF Later
<1> QED
  BY <1>1, <1>2, <1>3, <1>4, <1>5, <1>6, Zenon

-----------------------------------------------------------------------------
(* The steps.                                                               *)

LEMMA Initially == Init => OthersOK /\ SocketsOK
<1> SUFFICES ASSUME Init PROVE OthersOK /\ SocketsOK
  OBVIOUS
<1>1. 0 \in 0 .. LeaseCounted /\ 1 \in 1 .. 3 /\ None \in Addresses /\ "GET_SOCKET" \in SmStates
  BY Naturals DEF Addresses, SmStates, WithoutSocket
<1>2. SocketsOK
  <2>1. DHCPClient \in ClientStates
    BY <1>1, Zenon DEF Init, ClientStates
  <2>2. DHCPClient.hDHCPSocket = FALSE /\ DHCPClient.smState = "GET_SOCKET" /\ sockets = 0
    BY DEF Init
  <2> QED
    BY <2>1, <2>2 DEF SocketsOK, Held, WithoutSocket
<1>3. OthersOK
  BY Naturals DEF Init, OthersOK
<1> QED
  BY <1>2, <1>3

LEMMA DHCPInitStep ==
  ASSUME SocketsOK, NEW x \in ClientStates, x.hDHCPSocket = DHCPClient.hDHCPSocket, DHCPInit(x)
  PROVE  SocketsOK'
  BY InitialType DEF DHCPInit, SocketsOK, Closed

LEMMA DHCPDisableStep ==
  ASSUME SocketsOK, DHCPDisable(DHCPClient)
  PROVE  SocketsOK'
<1> DEFINE y == [DHCPClient EXCEPT !.smState = "DISABLED", !.hDHCPSocket = FALSE]
<1>1. y \in ClientStates /\ Held(y) /\ ~y.hDHCPSocket
  BY DEF SocketsOK, ClientStates, SmStates, Held, WithoutSocket
<1>2. sockets' = 0 /\ DHCPClient' = y
  BY DEF DHCPDisable, SocketsOK, Closed
<1> HIDE DEF y
<1> QED
  BY <1>1, <1>2 DEF SocketsOK

LEMMA SocketsStep == ASSUME OthersOK, SocketsOK, [Next]_vars PROVE SocketsOK'
<1>0. DHCPClient \in ClientStates /\ Held(DHCPClient)
  BY DEF SocketsOK
<1>1. CASE GetSocket
  <2>1. /\ DHCPClient' = [DHCPClient EXCEPT !.hDHCPSocket = TRUE, !.smState = "SEND_DISCOVERY"]
        /\ sockets' = sockets + 1 /\ sockets = 0
    BY <1>0, <1>1 DEF GetSocket, SocketsOK, Held, WithoutSocket
  <2>2. DHCPClient' \in ClientStates /\ Held(DHCPClient') /\ DHCPClient'.hDHCPSocket
    BY <1>0, <2>1 DEF ClientStates, SmStates, Held, WithoutSocket
  <2> QED
    BY <2>1, <2>2 DEF SocketsOK
<1>2. CASE SendDiscovery
  <2>1. CASE link
    BY <1>0, <1>2, <2>1, DiscoveryType DEF SendDiscovery, SocketsOK
  <2>2. CASE ~link
    BY <1>0, <1>2, <2>2, ForgottenType DEF SendDiscovery, SocketsOK, Held
  <2> QED
    BY <2>1, <2>2
<1>3. CASE SendRequest
  BY <1>3 DEF SendRequest, SocketsOK, Held, WithoutSocket, ClientStates, SmStates, Waiting
<1>4. CASE SendRenew
  BY <1>4 DEF SendRenew, SocketsOK, Held, WithoutSocket, ClientStates, SmStates, Waiting
<1>5. CASE Deliver
  <2>1. PICK g \in Answers : Receive(g)
    BY <1>5 DEF Deliver
  <2>2. g \in Datagrams
    BY <2>1 DEF Answers, OthersOK
  <2>3. CASE DHCPClient.smState \in Waiting
    <3> DEFINE r == _DHCPReceive(DHCPClient, g)
    <3>1. r.client \in ClientStates /\ r.client.smState \in Waiting /\ r.client.hDHCPSocket
      BY <1>0, <2>2, <2>3, ReceiveType DEF Held, WithoutSocket, Waiting
    <3>2. Taken(r) \in ClientStates /\ Held(Taken(r))
      <4> HIDE DEF r
      <4> QED
        BY <3>1, TakenType
    <3>3. /\ DHCPClient' = Taken(r) /\ sockets = 1
          /\ sockets' = IF DHCPClient'.hDHCPSocket THEN sockets ELSE sockets - 1
      BY <2>1, <2>3 DEF Receive, SocketsOK, Held, WithoutSocket, Waiting
    <3> QED
      BY <3>2, <3>3 DEF SocketsOK
  <2>4. CASE DHCPClient.smState \notin Waiting
    BY <2>1, <2>4 DEF Receive, SocketsOK
  <2> QED
    BY <2>3, <2>4
<1>6. CASE Tick
  BY <1>0, <1>6, LaterType DEF Tick, SocketsOK
<1>7. CASE LinkDown
  <2>1. [DHCPClient EXCEPT !.MyIPAddr = None] \in ClientStates
    BY <1>0 DEF ClientStates, Addresses
  <2>2. CASE DHCPClient.smState = "DISABLED"
    BY <1>7, <2>2 DEF LinkDown, SocketsOK
  <2>3. CASE DHCPClient.smState # "DISABLED"
    BY <1>0, <1>7, <2>1, <2>3, DHCPInitStep DEF LinkDown, ClientStates
  <2> QED
    BY <2>2, <2>3
<1>8. CASE Configure
  <2> DEFINE addr == IF link THEN DHCPClient.MyIPAddr ELSE None
  <2>1. addr \in Addresses
    BY <1>0 DEF ClientStates, Addresses
  <2>2. DHCPInit([DHCPClient EXCEPT !.MyIPAddr = addr])
    BY <1>8 DEF Configure
  <2> HIDE DEF addr
  <2>3. [DHCPClient EXCEPT !.MyIPAddr = addr] \in ClientStates
    BY <1>0, <2>1 DEF ClientStates
  <2> QED
    BY <1>0, <2>2, <2>3, DHCPInitStep DEF ClientStates
<1>10. CASE Disable
  BY <1>10, DHCPDisableStep DEF Disable
<1>9. CASE Lose \/ LinkUp \/ (\E s \in Servers : Serve(s)) \/ UNCHANGED vars
  BY <1>9 DEF Lose, LinkUp, Serve, vars, SocketsOK
<1> QED
  BY <1>1, <1>2, <1>3, <1>4, <1>5, <1>6, <1>7, <1>8, <1>9, <1>10 DEF Next, Task

\* What the client sends, and what a server answers, are datagrams.
LEMMA NetStep == ASSUME OthersOK, SocketsOK, [Next]_vars PROVE net' \subseteq Datagrams
<1>1. CASE SendDiscovery
  BY <1>1, DiscoveryType DEF SendDiscovery, Send, Datagrams, Addresses, SocketsOK, OthersOK, ClientStates
<1>2. CASE SendRequest \/ SendRenew
  BY <1>2 DEF SendRequest, SendRenew, Send, Datagrams, Addresses, SocketsOK, OthersOK, ClientStates
<1>3. ASSUME NEW s \in Servers, Serve(s) PROVE net' \subseteq Datagrams
  BY <1>3 DEF Serve, Answer, Grants, Refuses, Datagrams, Addresses, OthersOK
<1>4. CASE Deliver \/ Lose \/ LinkDown
  BY <1>4 DEF Deliver, Lose, LinkDown, OthersOK
<1>5. CASE UNCHANGED net
  BY <1>5 DEF OthersOK
<1> QED
  BY <1>1, <1>2, <1>3, <1>4, <1>5, Zenon
     DEF Next, Task, GetSocket, Tick, LinkUp, Configure, Disable, vars

LEMMA OthersStep == ASSUME OthersOK, SocketsOK, [Next]_vars PROVE OthersOK'
<1>1. net' \subseteq Datagrams
  BY NetStep
<1>2. link' \in BOOLEAN /\ reach' \in [Servers -> SUBSET BOOLEAN]
  BY DEF OthersOK, Next, Task, GetSocket, SendDiscovery, SendRequest, SendRenew, Deliver, Lose,
         Tick, LinkDown, LinkUp, Configure, Disable, Serve, vars
<1>3. faults' \in 0 .. MaxFaults
  <2>1. faults' = faults \/ (faults < MaxFaults /\ faults' = faults + 1)
    BY Zenon DEF Next, Task, GetSocket, SendDiscovery, SendRequest, SendRenew, Deliver, Lose,
         Tick, LinkDown, LinkUp, Configure, Disable, Serve, Grants, Refuses, Fault, NoFault, vars
  <2> QED
    BY <2>1, Naturals DEF OthersOK
<1>4. leases' \in [Servers -> 0 .. Lease]
  <2>1. CASE Tick
    BY <2>1, Naturals DEF Tick, OthersOK
  <2>2. ASSUME NEW s \in Servers, Serve(s) PROVE leases' \in [Servers -> 0 .. Lease]
    BY <2>2, Naturals DEF Serve, Grants, Refuses, OthersOK
  <2>3. CASE UNCHANGED leases
    BY <2>3 DEF OthersOK
  <2> QED
    BY <2>1, <2>2, <2>3 DEF Next, Task, GetSocket, SendDiscovery, SendRequest, SendRenew, Deliver,
       Lose, LinkDown, LinkUp, Configure, Disable, vars
<1> QED
  BY <1>1, <1>2, <1>3, <1>4 DEF OthersOK

\* The client never has more than one of the stack's UDP sockets, and none when it says so:
\* for any servers, any faults and any number of them (DHCPInit, DHCPTask).
THEOREM OneSocketAlways == Spec => []OneSocket
<1>1. Init => OthersOK /\ SocketsOK
  BY Initially
<1>2. OthersOK /\ SocketsOK /\ [Next]_vars => (OthersOK /\ SocketsOK)'
  BY OthersStep, SocketsStep
<1>3. OthersOK /\ SocketsOK => OneSocket
  BY Parts
<1> QED
  BY <1>1, <1>2, <1>3, PTL DEF Spec

-----------------------------------------------------------------------------
(* Why a lease outlasts its use.                                            *)

Renewing == {"SEND_RENEW", "GET_RENEW_ACK"}
Requesting == {"SEND_REQUEST", "GET_REQUEST_ACK"}

\* An offer or an acknowledgement is about the address of its server, and a lease that an
\* acknowledgement on its way grants is as old as an acknowledgement may be late.
NetInv ==
  /\ \A g \in net : g.type \in {"OFFER", "ACK"} => g.id \in Servers /\ g.addr = g.id
  /\ \A g \in net : g.type = "ACK" => leases[g.id] + MaxLate >= Lease

\* What the client knows in each state.  When it renews, the network holds nothing of
\* earlier exchanges.
StateInv(x) ==
  /\ x.smState \in {"GET_SOCKET", "GET_OFFER"} \cup Requesting => ~x.bIsBound
  /\ x.smState \in {"BOUND"} \cup Renewing => x.bIsBound
  /\ x.smState = "GET_OFFER" => ~x.bOfferReceived /\ x.dwLeaseTime > 0
  /\ x.smState \in Requesting =>
       /\ x.bOfferReceived /\ x.validValues /\ x.tempIPAddress = x.dwServerID
       /\ x.dwLeaseTime > 0
  /\ x.bIsBound => x.MyIPAddr \in Servers
  /\ x.smState \in {"BOUND"} \cup Renewing =>
       x.tempIPAddress = x.MyIPAddr /\ x.dwServerID = x.MyIPAddr /\ x.dwLeaseTime > 0
  /\ x.smState = "GET_RENEW_ACK" => ~x.bOfferReceived
LinkInv ==
  /\ ~link => \/ DHCPClient.smState = "DISABLED"
              \/ DHCPClient.smState \in {"GET_SOCKET", "SEND_DISCOVERY"} /\ ~DHCPClient.bIsBound
  /\ DHCPClient.smState \notin {"GET_SOCKET", "DISABLED"} => MAX_UDP_SOCKETS > 0
RenewInv ==
  DHCPClient.smState \in Renewing =>
    \A g \in net : g.type \in {"RENEW", "ACK", "NAK"} /\ g.id = DHCPClient.MyIPAddr

\* What is left of the lease covers the rest of what the client counts and all renewals.
Needed(x) ==
  CASE x.smState = "BOUND" -> x.dwLeaseTime + 4
    [] x.smState \in Renewing -> 5 - x.renewal
    [] OTHER -> 1
TimeInv ==
  DHCPClient.bIsBound /\ DHCPClient.smState # "DISABLED" =>
    leases[DHCPClient.MyIPAddr] >= Needed(DHCPClient)

LeaseInv == NetInv /\ StateInv(DHCPClient) /\ LinkInv /\ RenewInv /\ TimeInv

LEMMA NetInvStep == ASSUME OthersOK, SocketsOK, LeaseInv, [Next]_vars PROVE NetInv'
<1>0. (\A s \in Servers : leases[s] \in Nat) /\ Lease \in Nat /\ MaxLate \in Nat
  BY Naturals DEF OthersOK
<1>1. CASE SendDiscovery \/ SendRequest \/ SendRenew
  BY <1>1 DEF SendDiscovery, SendRequest, SendRenew, Send, LeaseInv, NetInv
<1>2. CASE Tick
  <2> SUFFICES ASSUME NEW g \in net', g.type \in {"OFFER", "ACK"}
               PROVE  /\ g.id \in Servers /\ g.addr = g.id
                      /\ g.type = "ACK" => leases'[g.id] + MaxLate >= Lease
    BY DEF NetInv
  <2>1. g \in net /\ g.id \in Servers /\ g.addr = g.id
    BY <1>2 DEF Tick, LeaseInv, NetInv
  <2>2. ASSUME g.type = "ACK" PROVE leases'[g.id] + MaxLate >= Lease
    <3>1. leases[g.id] + MaxLate > Lease
      BY <1>2, <2>1, <2>2 DEF Tick
    <3>2. leases'[g.id] \in Nat /\ leases'[g.id] + 1 >= leases[g.id]
      BY <1>0, <1>2, <2>1 DEF Tick
    <3> QED
      BY <1>0, <2>1, <3>1, <3>2
  <2> QED
    BY <2>1, <2>2
<1>3. ASSUME NEW s \in Servers, Serve(s) PROVE NetInv'
  <2>1. PICK g \in net :
          \/ Answer(s, g, "OFFER", net \ {g}) /\ UNCHANGED leases
          \/ Grants(s, g, net \ {g})
          \/ Refuses(s, g, net \ {g})
    BY <1>3 DEF Serve
  <2>2. CASE Answer(s, g, "OFFER", net \ {g}) /\ UNCHANGED leases
    BY <2>2 DEF Answer, LeaseInv, NetInv
  <2>3. CASE Grants(s, g, net \ {g})
    <3>1. leases' = [leases EXCEPT ![s] = Lease]
      BY <2>3 DEF Grants
    <3>2. leases'[s] = Lease /\ \A t \in Servers \ {s} : leases'[t] = leases[t]
      BY <3>1 DEF OthersOK
    <3>3. \A a \in net' : a \in net \/ (a.type = "ACK" /\ a.id = s /\ a.addr = s)
      BY <2>3 DEF Grants, Answer
    <3> QED
      BY <1>0, <3>2, <3>3 DEF LeaseInv, NetInv
  <2>4. CASE Refuses(s, g, net \ {g})
    <3>1. leases' = leases
      BY <2>4 DEF Refuses
    <3>2. \A a \in net' : a \in net \/ a.type = "NAK"
      BY <2>4 DEF Refuses, Answer
    <3> QED
      BY <3>1, <3>2 DEF LeaseInv, NetInv
  <2> QED
    BY <2>1, <2>2, <2>3, <2>4
<1>4. CASE GetSocket \/ Deliver \/ Lose \/ LinkDown \/ LinkUp \/ Configure \/ Disable
           \/ UNCHANGED vars
  <2>1. leases' = leases /\ net' \subseteq net
    BY <1>4, Zenon DEF GetSocket, Deliver, Lose, LinkDown, LinkUp, Configure, Disable, vars
  <2> QED
    BY <2>1 DEF LeaseInv, NetInv
<1> QED
  BY <1>1, <1>2, <1>3, <1>4 DEF Next, Task

\* What the client knows after a datagram: a server's answer to its request is about the
\* address it asked for, and nothing but a grant binds it.
LEMMA TakenState ==
  ASSUME SocketsOK, NetInv, StateInv(DHCPClient), RenewInv,
         DHCPClient.smState \in Waiting,
         NEW g \in net, g \in Datagrams, g.type \in {"OFFER", "ACK", "NAK"},
         NEW y, y = Taken(_DHCPReceive(DHCPClient, g))
  PROVE  /\ StateInv(y)
         /\ y.smState \notin {"GET_SOCKET"} \cup Renewing \/ y = DHCPClient
         /\ y.bIsBound => \/ y = DHCPClient
                          \/ /\ g.type = "ACK" /\ y.MyIPAddr = g.id
                             /\ Needed(y) \in Nat /\ Needed(y) <= LeaseCounted + 4
                          \/ /\ DHCPClient.smState = "GET_RENEW_ACK" /\ DHCPClient.bIsBound
                             /\ y.MyIPAddr = DHCPClient.MyIPAddr /\ Needed(y) = 1
<1> DEFINE x == DHCPClient
<1>0. /\ x \in ClientStates /\ x.dwLeaseTime \in 0 .. LeaseCounted
      /\ LeaseCounted \in Nat /\ LeaseCounted > 0
  BY Naturals DEF SocketsOK, ClientStates
<1> DEFINE left == IF g.type = "NAK" \/ g.id \in Unstated THEN x.dwLeaseTime ELSE LeaseCounted
<1>k. /\ Kept(x, g).smState = x.smState /\ Kept(x, g).tempIPAddress = g.addr
      /\ Kept(x, g).validValues /\ Kept(x, g).dwLeaseTime = left
      /\ Kept(x, g).bIsBound = x.bIsBound /\ Kept(x, g).bOfferReceived = x.bOfferReceived
      /\ Kept(x, g).MyIPAddr = x.MyIPAddr /\ Kept(x, g).dwServerID = x.dwServerID
      /\ Kept(x, g) \in ClientStates
  <2>1. left \in 0 .. LeaseCounted /\ g.addr \in Addresses
    BY <1>0 DEF Datagrams
  <2>2. Kept(x, g) = [x EXCEPT !.tempIPAddress = g.addr, !.validValues = TRUE,
                               !.dwLeaseTime = left]
    BY DEF Kept
  <2> HIDE DEF left
  <2> QED
    BY <1>0, <2>1, <2>2 DEF ClientStates
<1>l. left \in 0 .. LeaseCounted /\ (x.dwLeaseTime > 0 => left > 0)
  BY <1>0
<1> HIDE DEF left
<1>1. CASE x.smState = "GET_OFFER"
  <2>1. ~x.bIsBound /\ ~x.bOfferReceived /\ x.dwLeaseTime > 0
    BY <1>1 DEF StateInv
  <2>2. CASE g.type = "OFFER"
    <3>1. g.addr = g.id
      BY <2>2 DEF NetInv
    <3>2. y = [[Kept(x, g) EXCEPT !.dwServerID = g.id, !.bOfferReceived = TRUE]
                 EXCEPT !.smState = "SEND_REQUEST"]
      BY <1>1, <1>k, <2>1, <2>2 DEF Taken, _DHCPReceive, ClientStates
    <3>3. /\ y.smState = "SEND_REQUEST" /\ ~y.bIsBound /\ y.bOfferReceived /\ y.validValues
          /\ y.tempIPAddress = g.addr /\ y.dwServerID = g.id /\ y.dwLeaseTime = left
      BY <1>k, <2>1, <3>2 DEF ClientStates
    <3> QED
      BY <1>l, <2>1, <3>1, <3>3 DEF StateInv, Renewing, Requesting
  <2>3. CASE g.type # "OFFER"
    <3> DEFINE r == _DHCPReceive(x, g)
    <3>a. r.client = Kept(x, g) /\ r.type \in {"ACK", "NAK", "UNKNOWN"}
      BY <2>1, <2>3 DEF _DHCPReceive, TypeOf
    <3>b. r.client.smState = "GET_OFFER"
      BY <1>1, <1>k, <3>a
    <3>c. y = Taken(r)
      OBVIOUS
    <3>1. y = Kept(x, g)
      <4> HIDE DEF r
      <4> QED
        BY <3>a, <3>b, <3>c DEF Taken
    <3>2. y.smState = "GET_OFFER" /\ ~y.bIsBound /\ ~y.bOfferReceived /\ y.dwLeaseTime = left
      BY <1>1, <1>k, <2>1, <3>1
    <3> QED
      BY <1>l, <2>1, <3>2 DEF StateInv, Renewing, Requesting
  <2> QED
    BY <2>2, <2>3
<1>2. CASE x.smState = "GET_REQUEST_ACK"
  <2>1. /\ ~x.bIsBound /\ x.bOfferReceived /\ x.validValues
        /\ x.tempIPAddress = x.dwServerID /\ x.dwLeaseTime > 0
    BY <1>2 DEF StateInv, Requesting
  <2>2. CASE g.type = "ACK" /\ x.dwServerID = g.id
    <3>1. y = [Bound(x) EXCEPT !.bIsBound = TRUE, !.MyIPAddr = x.tempIPAddress]
      BY <1>2, <2>1, <2>2 DEF Taken, _DHCPReceive, TypeOf
    <3>2. /\ y.smState = "BOUND" /\ y.bIsBound /\ y.MyIPAddr = x.tempIPAddress
          /\ y.tempIPAddress = x.tempIPAddress /\ y.dwServerID = x.dwServerID
          /\ y.dwLeaseTime = x.dwLeaseTime
      BY <1>0, <2>1, <3>1 DEF Bound, ClientStates
    <3>3. g.id \in Servers
      BY <2>2 DEF NetInv
    <3>4. Needed(y) = y.dwLeaseTime + 4
      BY <1>0, <3>2 DEF Needed, Renewing
    <3> QED
      BY <1>0, <2>1, <2>2, <3>2, <3>3, <3>4 DEF StateInv, Renewing, Requesting
  <2>3. CASE g.type = "NAK" /\ x.dwServerID = g.id
    <3>1. y = [x EXCEPT !.smState = "SEND_DISCOVERY"]
      BY <1>2, <2>1, <2>3 DEF Taken, _DHCPReceive, TypeOf
    <3>2. y.smState = "SEND_DISCOVERY" /\ ~y.bIsBound
      BY <1>0, <2>1, <3>1 DEF ClientStates
    <3> QED
      BY <3>2 DEF StateInv, Renewing, Requesting
  <2>4. CASE g.type = "OFFER" \/ x.dwServerID # g.id
    <3>1. y = x
      BY <1>2, <2>1, <2>4 DEF Taken, _DHCPReceive, TypeOf
    <3> QED
      BY <2>1, <3>1
  <2> QED
    BY <2>2, <2>3, <2>4
<1>3. CASE x.smState = "GET_RENEW_ACK"
  <2>1. /\ x.bIsBound /\ ~x.bOfferReceived /\ x.MyIPAddr \in Servers /\ x.dwLeaseTime > 0
        /\ x.tempIPAddress = x.MyIPAddr /\ x.dwServerID = x.MyIPAddr
    BY <1>3 DEF StateInv, Renewing
  <2>2. g.type \in {"ACK", "NAK"} /\ g.id = x.MyIPAddr
    BY <1>3 DEF RenewInv, Renewing
  <2>3. CASE g.type = "ACK"
    <3>1. g.addr = g.id
      BY <2>3 DEF NetInv
    <3>2. y = Bound(Kept(x, g))
      BY <1>3, <1>k, <2>1, <2>2, <2>3 DEF Taken, _DHCPReceive, TypeOf
    <3>3. /\ y.smState = "BOUND" /\ y.bIsBound /\ y.MyIPAddr = x.MyIPAddr
          /\ y.tempIPAddress = g.addr /\ y.dwServerID = x.dwServerID /\ y.dwLeaseTime = left
      BY <1>k, <2>1, <3>2 DEF Bound, ClientStates
    <3>4. Needed(y) = y.dwLeaseTime + 4
      BY <1>0, <1>l, <3>3 DEF Needed, Renewing
    <3> QED
      BY <1>0, <1>l, <2>1, <2>2, <2>3, <3>1, <3>3, <3>4 DEF StateInv, Renewing, Requesting
  <2>4. CASE g.type = "NAK"
    <3>1. y = [Kept(x, g) EXCEPT !.smState = "SEND_DISCOVERY"]
      BY <1>3, <1>k, <2>1, <2>2, <2>4 DEF Taken, _DHCPReceive, TypeOf
    <3>2. y.smState = "SEND_DISCOVERY" /\ y.bIsBound /\ y.MyIPAddr = x.MyIPAddr
      BY <1>k, <2>1, <3>1 DEF ClientStates
    <3> QED
      BY <1>3, <2>1, <3>2 DEF StateInv, Renewing, Requesting, Needed
  <2> QED
    BY <2>2, <2>3, <2>4
<1> QED
  BY <1>1, <1>2, <1>3 DEF Waiting

\* What the client knows after a unit of time, which it can lose no more than the server.
LEMMA LaterState ==
  ASSUME SocketsOK, StateInv(DHCPClient), LinkInv,
         DHCPClient.smState \in Waiting \cup {"BOUND", "DISABLED"} \/ ~link,
         NEW y, y = Later(DHCPClient)
  PROVE  /\ (StateInv(y) /\ y.smState # "GET_SOCKET") \/ y = DHCPClient
         /\ y.smState \in Renewing => DHCPClient.smState \in {"BOUND", "GET_RENEW_ACK"}
         /\ y.bIsBound = DHCPClient.bIsBound /\ y.MyIPAddr = DHCPClient.MyIPAddr
         /\ y.bIsBound /\ y.smState # "DISABLED" => Needed(DHCPClient) = Needed(y) + 1
<1> DEFINE x == DHCPClient
<1>0. x \in ClientStates /\ x.dwLeaseTime \in Nat /\ x.renewal \in 1 .. 3
  BY Naturals DEF SocketsOK, ClientStates
<1>1. CASE x.smState \in {"GET_OFFER", "GET_REQUEST_ACK"}
  <2>1. y = [x EXCEPT !.smState = "SEND_DISCOVERY"] /\ ~x.bIsBound
    BY <1>1 DEF Later, StateInv, Requesting
  <2> QED
    BY <1>0, <2>1 DEF StateInv, Renewing, Requesting, ClientStates
<1>2. CASE x.smState = "BOUND" /\ x.dwLeaseTime >= 2
  <2>1. y = [x EXCEPT !.dwLeaseTime = x.dwLeaseTime - 1]
    BY <1>0, <1>2 DEF Later, ClientStates
  <2>2. /\ y.smState = "BOUND" /\ y.bIsBound = x.bIsBound /\ y.MyIPAddr = x.MyIPAddr
        /\ y.tempIPAddress = x.tempIPAddress /\ y.dwServerID = x.dwServerID
        /\ y.dwLeaseTime = x.dwLeaseTime - 1
    BY <1>0, <1>2, <2>1 DEF ClientStates
  <2> QED
    BY <1>0, <1>2, <2>2 DEF StateInv, Renewing, Requesting, Needed
<1>3. CASE x.smState = "BOUND" /\ ~(x.dwLeaseTime >= 2)
  <2>1. sockets < MAX_UDP_SOCKETS
    BY <1>3, DhcpAssumption DEF DhcpAssumption, SocketsOK, Held, WithoutSocket, LinkInv
  <2>2. y = [x EXCEPT !.smState = "SEND_RENEW", !.renewal = 1, !.hDHCPSocket = TRUE]
    BY <1>0, <1>3, <2>1 DEF Later
  <2>3. /\ y.smState = "SEND_RENEW" /\ y.bIsBound = x.bIsBound /\ y.MyIPAddr = x.MyIPAddr
        /\ y.tempIPAddress = x.tempIPAddress /\ y.dwServerID = x.dwServerID
        /\ y.dwLeaseTime = x.dwLeaseTime /\ y.renewal = 1
    BY <1>0, <2>2 DEF ClientStates
  <2>4. x.dwLeaseTime = 1
    BY <1>0, <1>3 DEF StateInv
  <2> QED
    BY <1>3, <2>3, <2>4 DEF StateInv, Renewing, Requesting, Needed
<1>4. CASE x.smState = "GET_RENEW_ACK" /\ x.renewal < 3
  <2>1. y = [x EXCEPT !.smState = "SEND_RENEW", !.renewal = x.renewal + 1]
    BY <1>4 DEF Later
  <2>2. /\ y.smState = "SEND_RENEW" /\ y.bIsBound = x.bIsBound /\ y.MyIPAddr = x.MyIPAddr
        /\ y.tempIPAddress = x.tempIPAddress /\ y.dwServerID = x.dwServerID
        /\ y.dwLeaseTime = x.dwLeaseTime /\ y.renewal = x.renewal + 1
    BY <1>0, <2>1 DEF ClientStates
  <2> QED
    BY <1>0, <1>4, <2>2 DEF StateInv, Renewing, Requesting, Needed
<1>5. CASE x.smState = "GET_RENEW_ACK" /\ ~(x.renewal < 3)
  <2>1. x.renewal = 3
    BY <1>0, <1>5
  <2>2. y = [x EXCEPT !.smState = "SEND_DISCOVERY"]
    BY <1>5, <2>1 DEF Later
  <2>3. y.smState = "SEND_DISCOVERY" /\ y.bIsBound = x.bIsBound /\ y.MyIPAddr = x.MyIPAddr
    BY <1>0, <2>2 DEF ClientStates
  <2> QED
    BY <1>5, <2>1, <2>3 DEF StateInv, Renewing, Requesting, Needed
<1>6. CASE x.smState \notin Waiting \cup {"BOUND"}
  <2>1. y = x
    BY <1>6 DEF Later, Waiting
  <2>2. \/ x.smState = "DISABLED"
        \/ ~x.bIsBound /\ x.smState \in {"GET_SOCKET", "SEND_DISCOVERY"}
    BY <1>6 DEF LinkInv
  <2> QED
    BY <2>1, <2>2 DEF Renewing
<1> QED
  BY <1>1, <1>2, <1>3, <1>4, <1>5, <1>6 DEF Waiting

\* One step, in the parts that change the client and those that do not.
LEMMA Rest ==
  ASSUME OthersOK, SocketsOK, LeaseInv, UNCHANGED <<DHCPClient, link>>,
         \A s \in Servers : leases'[s] >= leases[s] /\ leases'[s] \in Nat
  PROVE  StateInv(DHCPClient)' /\ LinkInv' /\ TimeInv'
<1>1. StateInv(DHCPClient)' /\ LinkInv'
  BY DEF LeaseInv, StateInv, LinkInv
<1>2. TimeInv'
  <2> SUFFICES ASSUME DHCPClient.bIsBound, DHCPClient.smState # "DISABLED"
               PROVE  leases'[DHCPClient.MyIPAddr] >= Needed(DHCPClient)
    BY DEF TimeInv, Needed
  <2>1. DHCPClient.MyIPAddr \in Servers
    BY DEF LeaseInv, StateInv
  <2>2. leases[DHCPClient.MyIPAddr] >= Needed(DHCPClient)
    BY DEF LeaseInv, TimeInv
  <2>3. Needed(DHCPClient) \in Nat
    BY Naturals DEF SocketsOK, ClientStates, Needed
  <2> QED
    BY <2>1, <2>2, <2>3, Naturals DEF OthersOK
<1> QED
  BY <1>1, <1>2

LEMMA SwitchedOff ==
  ASSUME DHCPClient'.smState = "DISABLED",
         DHCPClient'.bIsBound => DHCPClient'.MyIPAddr \in Servers
  PROVE  (StateInv(DHCPClient) /\ LinkInv /\ RenewInv /\ TimeInv)'
  BY DEF StateInv, LinkInv, RenewInv, TimeInv, Renewing, Requesting

LEMMA Unbound ==
  ASSUME DHCPClient'.smState \in {"GET_SOCKET", "SEND_DISCOVERY", "GET_OFFER"} \cup Requesting,
         ~DHCPClient'.bIsBound, StateInv(DHCPClient)', LinkInv'
  PROVE  (StateInv(DHCPClient) /\ LinkInv /\ RenewInv /\ TimeInv)'
  BY DEF RenewInv, TimeInv, Renewing, Requesting

LEMMA ClientStep ==
  ASSUME LongEnough, OthersOK, SocketsOK, LeaseInv, [Next]_vars
  PROVE  (StateInv(DHCPClient) /\ LinkInv /\ RenewInv /\ TimeInv)'
<1> DEFINE x == DHCPClient
<1>0. /\ x \in ClientStates /\ \A s \in Servers : leases[s] \in Nat
      /\ Lease \in Nat /\ MaxLate \in Nat /\ LeaseCounted \in Nat /\ LeaseDefault > 0
      /\ StateInv(x) /\ LinkInv /\ NetInv /\ RenewInv /\ TimeInv
  BY Naturals DEF OthersOK, SocketsOK, LeaseInv
<1>1. CASE GetSocket
  <2>1. /\ x' = [x EXCEPT !.hDHCPSocket = TRUE, !.smState = "SEND_DISCOVERY"]
        /\ ~x.bIsBound /\ UNCHANGED link /\ MAX_UDP_SOCKETS > 0
    BY <1>0, <1>1, DhcpAssumption DEF GetSocket, StateInv, DhcpAssumption, SocketsOK, Held, WithoutSocket
  <2>2. x'.smState = "SEND_DISCOVERY" /\ ~x'.bIsBound
    BY <1>0, <2>1 DEF ClientStates
  <2>3. StateInv(DHCPClient)' /\ LinkInv'
    BY <1>0, <2>1, <2>2 DEF StateInv, LinkInv, Renewing, Requesting
  <2> QED
    BY <2>2, <2>3, Unbound
<1>2. CASE SendDiscovery
  <2>1. /\ ~x'.bIsBound /\ ~x'.bOfferReceived /\ x'.dwLeaseTime = LeaseDefault /\ UNCHANGED link
        /\ x'.smState = IF link THEN "GET_OFFER" ELSE "SEND_DISCOVERY"
    <3>1. CASE link
      BY <1>0, <1>2, <3>1, DiscoveryType DEF SendDiscovery, SocketsOK
    <3>2. CASE ~link
      BY <1>0, <1>2, <3>2, ForgottenType DEF SendDiscovery
    <3> QED
      BY <3>1, <3>2
  <2>2. MAX_UDP_SOCKETS > 0
    BY <1>0, <1>2 DEF SendDiscovery, LinkInv
  <2>3. StateInv(DHCPClient)' /\ LinkInv'
    BY <1>0, <2>1, <2>2 DEF StateInv, LinkInv, Renewing, Requesting
  <2> QED
    BY <2>1, <2>3, Unbound
<1>3. CASE SendRequest
  <2>1. x' = [x EXCEPT !.smState = "GET_REQUEST_ACK"] /\ UNCHANGED link /\ x.smState = "SEND_REQUEST"
    BY <1>3 DEF SendRequest
  <2>2. /\ x'.smState = "GET_REQUEST_ACK" /\ ~x'.bIsBound /\ x'.bOfferReceived
        /\ x'.validValues /\ x'.tempIPAddress = x'.dwServerID /\ x'.dwLeaseTime > 0
    BY <1>0, <2>1 DEF ClientStates, StateInv, Requesting
  <2>3. StateInv(DHCPClient)' /\ LinkInv'
    BY <1>0, <2>1, <2>2 DEF StateInv, LinkInv, Renewing, Requesting
  <2> QED
    BY <2>2, <2>3, Unbound DEF Requesting
<1>4. CASE SendRenew
  <2>1. /\ x' = [x EXCEPT !.bOfferReceived = FALSE, !.smState = "GET_RENEW_ACK"]
        /\ UNCHANGED <<link, leases>> /\ x.smState = "SEND_RENEW"
    BY <1>4 DEF SendRenew
  <2>2. /\ x'.smState = "GET_RENEW_ACK" /\ x'.bIsBound = x.bIsBound /\ ~x'.bOfferReceived
        /\ x'.MyIPAddr = x.MyIPAddr /\ x'.tempIPAddress = x.tempIPAddress
        /\ x'.dwServerID = x.dwServerID /\ x'.dwLeaseTime = x.dwLeaseTime
        /\ x'.renewal = x.renewal
    BY <1>0, <2>1 DEF ClientStates
  <2>3. StateInv(DHCPClient)' /\ LinkInv'
    BY <1>0, <2>1, <2>2 DEF StateInv, LinkInv, Renewing, Requesting
  <2>4. x.tempIPAddress = x.MyIPAddr
    BY <1>0, <2>1 DEF StateInv, Renewing
  <2>5. \A g \in net' : g \in net \/ (g.type = "RENEW" /\ g.id = x.MyIPAddr)
    BY <1>4, <2>4 DEF SendRenew, Send
  <2>6. RenewInv'
    BY <1>0, <2>1, <2>2, <2>5 DEF RenewInv, Renewing
  <2>7. TimeInv'
    BY <1>0, <2>1, <2>2 DEF TimeInv, Needed, Renewing
  <2> QED
    BY <2>3, <2>6, <2>7
<1>5. CASE Deliver
  <2>1. PICK g \in Answers : Receive(g)
    BY <1>5 DEF Deliver
  <2>2. g \in net /\ g \in Datagrams /\ g.type \in {"OFFER", "ACK", "NAK"}
    BY <2>1 DEF Answers, OthersOK
  <2>3. UNCHANGED <<link, leases>> /\ net' \subseteq net
    BY <1>5 DEF Deliver
  <2>4. CASE UNCHANGED DHCPClient
    <3>1. StateInv(DHCPClient)' /\ LinkInv' /\ TimeInv'
      BY <1>0, <2>3, <2>4, Rest
    <3> QED
      BY <1>0, <2>3, <2>4, <3>1 DEF RenewInv
  <2>5. CASE x.smState \in Waiting /\ DHCPClient' # DHCPClient
    <3>1. x' = Taken(_DHCPReceive(x, g))
      BY <2>1, <2>5 DEF Receive
    <3>2. /\ StateInv(x') /\ x'.smState \notin {"GET_SOCKET"} \cup Renewing
          /\ x'.bIsBound => \/ /\ g.type = "ACK" /\ x'.MyIPAddr = g.id
                               /\ Needed(x') \in Nat /\ Needed(x') <= LeaseCounted + 4
                            \/ /\ x.smState = "GET_RENEW_ACK" /\ x.bIsBound
                               /\ x'.MyIPAddr = x.MyIPAddr /\ Needed(x') = 1
      BY <1>0, <2>2, <2>5, <3>1, TakenState
    <3>3. StateInv(DHCPClient)'
      BY <3>2 DEF StateInv
    <3>4. link /\ MAX_UDP_SOCKETS > 0
      BY <1>0, <2>5 DEF LinkInv, Waiting
    <3>5. LinkInv' /\ RenewInv'
      BY <2>3, <3>2, <3>4 DEF LinkInv, RenewInv
    <3>6. TimeInv'
      <4> SUFFICES ASSUME x'.bIsBound
                   PROVE  leases'[x'.MyIPAddr] >= Needed(x')
        BY DEF TimeInv, Needed
      <4>1. CASE /\ g.type = "ACK" /\ x'.MyIPAddr = g.id
                 /\ Needed(x') \in Nat /\ Needed(x') <= LeaseCounted + 4
        <5>1. g.id \in Servers /\ leases[g.id] + MaxLate >= Lease
          BY <1>0, <2>2, <4>1 DEF NetInv
        <5>2. Lease >= MaxLate + LeaseCounted + 4
          BY <1>0 DEF LongEnough
        <5>3. leases'[g.id] \in Nat /\ leases'[g.id] = leases[g.id]
          BY <1>0, <2>3, <5>1
        <5> HIDE DEF x
        <5> QED
          BY <1>0, <2>3, <4>1, <5>1, <5>2, <5>3
      <4>2. CASE /\ x.smState = "GET_RENEW_ACK" /\ x.bIsBound
                 /\ x'.MyIPAddr = x.MyIPAddr /\ Needed(x') = 1
        <5>1. Needed(x) \in Nat /\ Needed(x) >= 2
          BY <1>0, <4>2 DEF Needed, Renewing, ClientStates
        <5>2. leases[x.MyIPAddr] >= Needed(x) /\ x.MyIPAddr \in Servers
          BY <1>0, <4>2 DEF TimeInv, StateInv
        <5> QED
          BY <1>0, <2>3, <4>2, <5>1, <5>2
      <4> QED
        BY <3>2, <4>1, <4>2
    <3> QED
      BY <3>3, <3>5, <3>6
  <2> QED
    BY <2>1, <2>4, <2>5 DEF Receive
<1>6. CASE Tick
  <2> DEFINE y == Later(DHCPClient)
  <2>1. /\ x' = y /\ UNCHANGED <<link, net>>
        /\ x.smState \in Waiting \cup {"BOUND", "DISABLED"} \/ ~link
    BY <1>6 DEF Tick
  <2>2. /\ (StateInv(y) /\ y.smState # "GET_SOCKET") \/ y = x
        /\ y.smState \in Renewing => x.smState \in {"BOUND", "GET_RENEW_ACK"}
        /\ y.bIsBound = x.bIsBound /\ y.MyIPAddr = x.MyIPAddr
        /\ y.bIsBound /\ y.smState # "DISABLED" => Needed(x) = Needed(y) + 1
    BY <1>0, <2>1, LaterState
  <2> HIDE DEF y
  <2>3. StateInv(DHCPClient)'
    BY <1>0, <2>1, <2>2 DEF StateInv
  <2>4. LinkInv'
    <3>1. CASE link
      <4>1. CASE x.smState = "DISABLED"
        <5>1. y = x
          BY <4>1 DEF y, Later
        <5> QED
          BY <2>1, <3>1, <4>1, <5>1 DEF LinkInv
      <4>2. CASE x.smState # "DISABLED"
        BY <1>0, <2>1, <3>1, <4>2 DEF LinkInv, Waiting
      <4> QED
        BY <4>1, <4>2
    <3>2. CASE ~link
      <4>1. y = x
        BY <1>0, <3>2 DEF y, Later, LinkInv, Waiting
      <4> QED
        BY <1>0, <2>1, <4>1 DEF LinkInv
    <3> QED
      BY <3>1, <3>2
  <2>5. RenewInv'
    <3> SUFFICES ASSUME x'.smState \in Renewing, NEW g \in net'
                 PROVE  g.type \in {"RENEW", "ACK", "NAK"} /\ g.id = x'.MyIPAddr
      BY DEF RenewInv
    <3>1. x.smState = "GET_RENEW_ACK"
      BY <1>6, <2>1, <2>2 DEF Tick
    <3> QED
      BY <1>0, <2>1, <2>2, <3>1 DEF RenewInv, Renewing
  <2>6. TimeInv'
    <3> SUFFICES ASSUME x'.bIsBound, x'.smState # "DISABLED"
                 PROVE  leases'[x'.MyIPAddr] >= Needed(x')
      BY DEF TimeInv, Needed
    <3>0. x.smState # "DISABLED"
      BY <2>1 DEF y, Later, Waiting
    <3>1. /\ x.bIsBound /\ x'.MyIPAddr = x.MyIPAddr /\ x.MyIPAddr \in Servers
          /\ Needed(x) = Needed(x') + 1 /\ Needed(x') \in Nat
      <4>1. SocketsOK'
        BY SocketsStep
      <4> QED
        BY <1>0, <2>1, <2>2, <4>1 DEF StateInv, SocketsOK, ClientStates, Needed
    <3>2. leases[x.MyIPAddr] >= Needed(x)
      BY <1>0, <3>0, <3>1 DEF TimeInv
    <3>3. leases'[x.MyIPAddr] \in Nat /\ leases'[x.MyIPAddr] + 1 >= leases[x.MyIPAddr]
      BY <1>0, <1>6, <3>1 DEF Tick
    <3> QED
      BY <1>0, <3>1, <3>2, <3>3
  <2> QED
    BY <2>3, <2>4, <2>5, <2>6
<1>7. CASE (LinkDown /\ x.smState # "DISABLED") \/ Configure
  <2>1. PICK z : DHCPInit(z) /\ z \in ClientStates
    <3>1. \A addr \in Addresses : [x EXCEPT !.MyIPAddr = addr] \in ClientStates
      BY <1>0 DEF ClientStates
    <3>2. None \in Addresses /\ x.MyIPAddr \in Addresses
      BY <1>0 DEF ClientStates, Addresses
    <3>3. \E addr \in Addresses : DHCPInit([x EXCEPT !.MyIPAddr = addr])
      BY <1>7, <3>2 DEF LinkDown, Configure
    <3> QED
      BY <3>1, <3>3
  <2>2. x'.smState = "GET_SOCKET" /\ ~x'.bIsBound
    BY <2>1 DEF DHCPInit, Initial, ClientStates
  <2>3. StateInv(DHCPClient)' /\ LinkInv'
    BY <2>2 DEF StateInv, LinkInv, Renewing, Requesting
  <2> QED
    BY <2>2, <2>3, Unbound
<1>8. CASE Lose \/ UNCHANGED vars
  <2>1. UNCHANGED <<DHCPClient, link, leases>> /\ net' \subseteq net
    BY <1>8 DEF Lose, vars
  <2>2. StateInv(DHCPClient)' /\ LinkInv' /\ TimeInv'
    BY <1>0, <2>1, Rest
  <2> QED
    BY <1>0, <2>1, <2>2 DEF RenewInv
<1>11. CASE (LinkDown /\ x.smState = "DISABLED") \/ Disable
  <2>1. /\ x'.smState = "DISABLED" /\ x'.bIsBound = x.bIsBound /\ x'.MyIPAddr = x.MyIPAddr
    <3>1. CASE LinkDown /\ x.smState = "DISABLED"
      BY <3>1 DEF LinkDown
    <3>2. CASE Disable
      BY <1>0, <3>2 DEF Disable, DHCPDisable, ClientStates
    <3> QED
      BY <1>11, <3>1, <3>2
  <2>2. x.bIsBound => x.MyIPAddr \in Servers
    BY <1>0 DEF StateInv
  <2> QED
    BY <2>1, <2>2, SwitchedOff
<1>9. CASE LinkUp
  BY <1>0, <1>9 DEF LinkUp, StateInv, LinkInv, RenewInv, TimeInv, Needed
<1>10. ASSUME NEW s \in Servers, Serve(s)
       PROVE  (StateInv(DHCPClient) /\ LinkInv /\ RenewInv /\ TimeInv)'
  <2>1. PICK g \in net, type \in {"OFFER", "ACK", "NAK"} :
          /\ g.id = s /\ Answer(s, g, type, net \ {g})
          /\ (type = "OFFER") = (g.type = "DISCOVER")
    BY <1>10 DEF Serve, Grants, Refuses
  <2>2. UNCHANGED <<DHCPClient, link>>
    BY <1>10 DEF Serve
  <2>3. \A t \in Servers : leases'[t] >= leases[t] /\ leases'[t] \in Nat
    BY <1>0, <1>10 DEF Serve, Grants, Refuses, OthersOK
  <2>4. StateInv(DHCPClient)' /\ LinkInv' /\ TimeInv'
    BY <1>0, <2>2, <2>3, Rest
  <2>5. \A a \in net' : a \in net \/ (a.id = g.id /\ a.type = type)
    BY <2>1 DEF Answer
  <2> QED
    BY <1>0, <2>1, <2>2, <2>4, <2>5 DEF RenewInv
<1> QED
  BY <1>1, <1>2, <1>3, <1>4, <1>5, <1>6, <1>7, <1>8, <1>9, <1>10, <1>11 DEF Next, Task

LEMMA LeaseInvStep == ASSUME LongEnough, OthersOK, SocketsOK, LeaseInv, [Next]_vars PROVE LeaseInv'
  BY NetInvStep, ClientStep DEF LeaseInv

LEMMA LeaseInitially == ASSUME Init PROVE LeaseInv
<1>1. net = {} /\ link = TRUE /\ DHCPClient.smState = "GET_SOCKET" /\ ~DHCPClient.bIsBound
  BY DEF Init
<1> QED
  BY <1>1 DEF LeaseInv, NetInv, StateInv, LinkInv, RenewInv, TimeInv, Renewing, Requesting

\* The address the client uses is under lease at its server for as long as the client says
\* that it is bound, whatever is lost, repeated or late and however often: for every lease
\* that exceeds what the client counts of it by three renewals and the delay of one
\* acknowledgement.  A shorter lease runs out while the client still renews it, so the
\* condition cannot be dropped (dwServerID, the thirty-second less of dwLeaseTime,
\* DHCP.c:634-700).
THEOREM LeaseOutlastsUse == ASSUME LongEnough PROVE Spec => []BoundIsLeased
<1> DEFINE Inv == OthersOK /\ SocketsOK /\ LeaseInv
<1>1. Init => Inv
  BY Initially, LeaseInitially
<1>2. Inv /\ [Next]_vars => Inv'
  BY OthersStep, SocketsStep, LeaseInvStep
<1>3. Inv => BoundIsLeased
  <2> SUFFICES ASSUME OthersOK, SocketsOK, LeaseInv,
                      DHCPClient.bIsBound, DHCPClient.smState # "DISABLED"
               PROVE  DHCPClient.MyIPAddr \in Servers /\ leases[DHCPClient.MyIPAddr] > 0
    BY DEF BoundIsLeased
  <2>1. DHCPClient.MyIPAddr \in Servers
    BY DEF LeaseInv, StateInv
  <2>2. leases[DHCPClient.MyIPAddr] >= Needed(DHCPClient)
    BY DEF LeaseInv, TimeInv
  <2>3. Needed(DHCPClient) \in Nat /\ Needed(DHCPClient) >= 1
    BY Naturals DEF SocketsOK, ClientStates, Needed
  <2>4. leases[DHCPClient.MyIPAddr] \in Nat
    BY <2>1, Naturals DEF OthersOK
  <2> QED
    BY <2>1, <2>2, <2>3, <2>4
<1> QED
  BY <1>1, <1>2, <1>3, PTL DEF Spec
=============================================================================

----------------------------- MODULE LossyFifo -----------------------------
(***************************************************************************)
(* What the receive path of CANEther promises: the frames of the CAN bus    *)
(* come out in the order they came in, none twice, and those that are        *)
(* missing are counted, in a counter that may wrap.                         *)
(*                                                                         *)
(* Frames are numbers in the order of the bus, so a set of them is a queue: *)
(* the least is the oldest.                                                 *)
(***************************************************************************)
EXTENDS Integers

CONSTANT Item            \* what can be received: numbers, in the order of the bus

VARIABLES
  inTransit,             \* received, and not yet handed out
  out,                   \* the item handed out last, 0 before the first
  losses                 \* the counter

Init == inTransit = {} /\ out = 0 /\ losses = 0

Arrive(x) ==
  /\ x > out /\ \A y \in inTransit : x > y
  /\ inTransit' = inTransit \union {x}
  /\ UNCHANGED <<out, losses>>

\* An item may be lost wherever it is on its way.
Lose(x) ==
  /\ inTransit' = inTransit \ {x} /\ losses' # losses
  /\ UNCHANGED out

HandOut(x) ==
  /\ \A y \in inTransit : x <= y
  /\ out' = x
  /\ inTransit' = inTransit \ {x}
  /\ UNCHANGED losses

Next ==
  \/ \E x \in Item : Arrive(x)
  \/ \E x \in inTransit : Lose(x) \/ HandOut(x)

Spec == Init /\ [][Next]_<<inTransit, out, losses>>
=============================================================================

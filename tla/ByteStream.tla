---------------------------- MODULE ByteStream ----------------------------
(***************************************************************************)
(* What an established TCP connection promises, in one direction: the bytes *)
(* come out as they went in, none is lost, repeated or changed.  Bytes are  *)
(* told apart by the place they were put in.                                *)
(***************************************************************************)
EXTENDS Integers, Sequences

VARIABLES
  sent,                  \* number of bytes put in
  got                    \* the bytes taken out

Init == sent = 0 /\ got = <<>>

Put == /\ sent' \in Nat /\ sent' > sent
       /\ UNCHANGED got

\* Some of the bytes on the way are taken, the first ones first.
Get == \E n \in Len(got) + 1 .. sent :
         /\ got' = [i \in 1 .. n |-> i]
         /\ UNCHANGED sent

Spec == Init /\ [][Put \/ Get]_<<sent, got>>
=============================================================================

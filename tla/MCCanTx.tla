------------------------------ MODULE MCCanTx ------------------------------
(***************************************************************************)
(* CanTx for TLC.  maxCanTxFifo is read by Count alone, to set itself, and *)
(* by no property: states that differ in nothing else are taken for one.   *)
(***************************************************************************)
EXTENDS CanTx

WithoutMark == <<hwVars, fifoVars, errVars, pcVars, history>>
=============================================================================

---------------------------- MODULE CanTx_proof ----------------------------
(***************************************************************************)
(* Theorems about the CAN transmit path, for every fifo size, every number *)
(* of frames and every set of bus errors.                                  *)
(***************************************************************************)
EXTENDS CanTx, TLAPS

USE TxAssumption DEF FULL, TxAssumption

\* Where the write index may be, line by line: canSend is the only writer while
\* it is not 0xFF, and isr_low replaces 0xFF by a slot.
IndexInv ==
  /\ mainPc \in {"put", "inc"} => FifoTxIdxW \in 0..SW_FIFO-1
  /\ mainPc = "wrap" => FifoTxIdxW \in 1..SW_FIFO
  /\ mainPc = "testEq" => FifoTxIdxW \in 0..SW_FIFO-1
  /\ mainPc # "wrap" => FifoTxIdxW # SW_FIFO
  /\ mainPc # "idle" => issued \in Frames

TypeInv == FlagsOK /\ DataOK /\ IndexInv

-----------------------------------------------------------------------------
(* Type correctness.  The flags are settled by first order reasoning, the     *)
(* numbers and the fifo by arithmetic, so each has a lemma of its own.        *)

LEMMA InitType == Init => TypeInv
<1> SUFFICES ASSUME Init PROVE TypeInv
  OBVIOUS
<1>1. FlagsOK
  BY Zenon DEF Init, FlagsOK
<1>2. DataOK /\ IndexInv
  BY DEF Init, DataOK, IndexInv, Window, Frames
<1> QED
  BY <1>1, <1>2 DEF TypeInv

LEMMA FlagsStep ==
  ASSUME FlagsOK, [Next]_vars
  PROVE  FlagsOK'
<1> USE DEF FlagsOK, hwVars, errVars, pcVars, history
<1>1. ASSUME Call \/ MainStep PROVE FlagsOK'
  <2>1. ASSUME NEW from, NEW to, Goto(from, to) PROVE FlagsOK'
    BY <2>1, Zenon DEF Goto, Main
  <2>2. ASSUME NEW from, NEW to, Count(from, to) \/ Enable(from, to)
        PROVE  FlagsOK'
    BY <2>2, ZenonT(40) DEF Count, Enable, SetTXBnIE, Main
  <2>3. CASE Call \/ Retry
    BY <2>3, ZenonT(40) DEF Call, CallWith, Retry, SetTXBnIE, Main
  <2>4. CASE Copy
    BY <2>4, Zenon DEF Copy, Main
  <2>6. ASSUME Put \/ Inc \/ Wrap PROVE FlagsOK'
    <3>1. CASE Put
      BY <3>1, Zenon DEF Put, Main
    <3>2. CASE Inc
      BY <3>2, Zenon DEF Inc, Main
    <3>3. CASE Wrap
      BY <3>3, Zenon DEF Wrap, Main
    <3> QED
      BY <2>6, <3>1, <3>2, <3>3
  <2>7. CASE TestEq
    BY <2>7, Zenon DEF TestEq, Main
  <2>5. CASE SetRetries \/ SetTimeout \/ ClearFailed \/ SetTXREQ
    BY <2>5, ZenonT(40) DEF SetRetries, SetTimeout, StartTimeout, ClearFailed, ClearWith, SetTXREQ,
       Request, Main
  <2> QED
    BY <1>1, <2>1, <2>2, <2>3, <2>4, <2>5, <2>6, <2>7, Zenon
    DEF MainStep, CanSend, GiveUp, TestFifo, TestReq, TestFull
<1>2. ASSUME EnterIsrLow \/ IsrLow PROVE FlagsOK'
  <2>1. CASE EnterIsrLow
    BY <2>1, Zenon DEF EnterIsrLow
  <2>6. CASE TxFifoEnter
    BY <2>6, Zenon DEF TxFifoEnter
  <2>7. CASE IsrClear
    BY <2>7, Zenon DEF IsrClear
  <2>2. CASE IsrTx
    BY <2>2, ZenonT(40) DEF IsrTx
  <2>3. CASE TxFifoBusy \/ TxFifoEmpty
    BY <2>3, ZenonT(40) DEF TxFifoBusy, Busy, SetTXBnIE, TxFifoEmpty
  <2>4. CASE TxFifoLoad
    BY <2>4, Zenon DEF TxFifoLoad, Load, Request, StartTimeout
  <2>5. CASE IsrErr
    BY <2>5, ZenonT(40) DEF IsrErr
  <2> QED
    BY <1>2, <2>1, <2>2, <2>3, <2>4, <2>5, <2>6, <2>7, Zenon DEF IsrLow
<1>3. ASSUME CheckCANTimeout \/ TxDone \/ \E e \in Errors : BusError(e)
      PROVE  FlagsOK'
  <2>1. CASE CheckCANTimeout
    BY <2>1, Zenon DEF CheckCANTimeout, Timeout
  <2>2. CASE TxDone
    BY <2>2, Zenon DEF TxDone
  <2>3. ASSUME NEW e \in Errors, BusError(e) PROVE FlagsOK'
    BY <2>3, Zenon DEF BusError
  <2> QED
    BY <1>3, <2>1, <2>2, <2>3, Zenon
<1>4. ASSUME UNCHANGED vars PROVE FlagsOK'
  BY <1>4, ZenonT(40) DEF vars
<1> QED
  BY <1>1, <1>2, <1>3, <1>4, Zenon DEF Next

\* A frame is counted at most twice.
LEMMA RequestLoads ==
  ASSUME loads \in [Frames -> 0..2], NEW f, Request(f)
  PROVE  loads' \in [Frames -> 0..2]
  BY DEF Request

LEMMA MainData ==
  ASSUME DataOK, IndexInv, Call \/ MainStep
  PROVE  DataOK' /\ IndexInv'
<1> USE DEF DataOK, IndexInv, Main, Window, Frames, hwVars, fifoVars, errVars,
            history
<1>1. CASE Call
  BY <1>1 DEF Call, CallWith, SetTXBnIE
<1>2. CASE Retry
  BY <1>2 DEF Retry, SetTXBnIE
<1>3. CASE GiveUp
  BY <1>3 DEF GiveUp, Goto
<1>4. CASE TestFifo
  BY <1>4 DEF TestFifo, Goto
<1>5. CASE TestReq
  BY <1>5 DEF TestReq, Goto
<1>6. CASE Copy
  BY <1>6 DEF Copy
<1>7. CASE SetRetries
  BY <1>7 DEF SetRetries
<1>16. CASE SetTimeout
  BY <1>16 DEF SetTimeout, StartTimeout
<1>17. CASE ClearFailed
  BY <1>17 DEF ClearFailed, ClearWith
<1>15. CASE SetTXREQ
  <2>1. loads' \in [Frames -> 0..2]
    BY <1>15, RequestLoads DEF SetTXREQ
  <2>2. mainPc' = "enable" /\ accepted' \subseteq 1..issued'
    BY <1>15 DEF SetTXREQ
  <2> QED
    BY <1>15, <2>1, <2>2 DEF SetTXREQ
<1>8. CASE TestFull
  BY <1>8 DEF TestFull, Goto
<1>9. CASE Put
  BY <1>9 DEF Put
<1>10. CASE Inc
  BY <1>10 DEF Inc
<1>11. CASE Wrap
  BY <1>11 DEF Wrap
<1>12. CASE TestEq
  BY <1>12 DEF TestEq
<1>13. ASSUME NEW from \in {"count", "countFull"},
              NEW to \in {"enableOk", "enableFull"}, Count(from, to)
       PROVE  DataOK' /\ IndexInv'
  <2>1. maxCanTxFifo' \in 0..255
    BY <1>13 DEF Count
  <2> QED
    BY <1>13, <2>1 DEF Count
<1>14. ASSUME NEW from \in {"enable", "enableOk", "enableFull"},
              NEW to \in {"enableOk", "idle", "full"}, Enable(from, to)
       PROVE  DataOK' /\ IndexInv'
  BY <1>14 DEF Enable, SetTXBnIE
<1> QED
  BY <1>1, <1>2, <1>3, <1>4, <1>5, <1>6, <1>7, <1>8, <1>9, <1>10, <1>11, <1>12,
     <1>13, <1>14, <1>15, <1>16, <1>17
  DEF MainStep, CanSend

LEMMA IsrData ==
  ASSUME DataOK, IndexInv, EnterIsrLow \/ IsrLow
  PROVE  DataOK' /\ IndexInv'
<1> USE DEF DataOK, IndexInv, Frames, hwVars, fifoVars, errVars, history
<1>1. CASE EnterIsrLow
  BY <1>1 DEF EnterIsrLow
<1>2. CASE IsrTx
  BY <1>2 DEF IsrTx
<1>3. CASE TxFifoEnter
  BY <1>3 DEF TxFifoEnter
<1>8. CASE TxFifoBusy
  BY <1>8 DEF TxFifoBusy, Busy, SetTXBnIE
<1>4. CASE TxFifoLoad
  <2>1. loads' \in [Frames -> 0..2]
    BY <1>4, RequestLoads DEF TxFifoLoad, Load
  <2>2. FifoTxIdxR' \in 0..SW_FIFO-1 /\ FifoTxIdxW' \in {FifoTxIdxR, FifoTxIdxW}
    BY <1>4 DEF TxFifoLoad, Load, NextR, Unfull
  <2>3. FifoTxIdxW' = FifoTxIdxW \/ FifoTxIdxW = FULL
    BY <1>4 DEF TxFifoLoad, Load, Unfull
  <2> QED
    BY <1>4, <2>1, <2>2, <2>3 DEF TxFifoLoad, Load, StartTimeout
<1>5. CASE TxFifoEmpty
  BY <1>5 DEF TxFifoEmpty
<1>6. CASE IsrErr
  <2>1. /\ UNCHANGED <<TXB0, fifoVars, maxCanTxFifo, mainPc, issued, accepted, loads>>
        /\ isrPc' \in {"clear", "txFifo"} /\ isrRet' \in {isrRet, "clear"}
    BY <1>6 DEF IsrErr
  <2>2. larbRetryCount' \in 0..255
    <3>1. \/ larbRetryCount' = larbRetryCount
          \/ larbRetryCount > 0 /\ larbRetryCount' = larbRetryCount - 1
      BY <1>6, Zenon DEF IsrErr
    <3>2. larbRetryCount \in 0..255
      OBVIOUS
    <3> QED
      BY ONLY <3>1, <3>2
  <2>3. canTransmitTimeout' \in 0..2
    BY <1>6 DEF IsrErr
  <2> QED
    BY <2>1, <2>2, <2>3
<1>7. CASE IsrClear
  BY <1>7 DEF IsrClear
<1> QED
  BY <1>1, <1>2, <1>3, <1>4, <1>5, <1>6, <1>7, <1>8 DEF IsrLow

LEMMA EnvData ==
  ASSUME DataOK, IndexInv,
         CheckCANTimeout \/ TxDone \/ \E e \in Errors : BusError(e)
  PROVE  DataOK' /\ IndexInv'
<1>1. CASE CheckCANTimeout
  BY <1>1 DEF CheckCANTimeout, Timeout, DataOK, IndexInv, fifoVars, history
<1>2. CASE TxDone
  BY <1>2 DEF TxDone, DataOK, IndexInv, fifoVars, errVars, pcVars, history
<1>3. ASSUME NEW e \in Errors, BusError(e)
      PROVE  DataOK' /\ IndexInv'
  BY <1>3 DEF BusError, DataOK, IndexInv, fifoVars, errVars, pcVars, history
<1> QED
  BY <1>1, <1>2, <1>3

\* Every variable keeps its type, and the write index is where IndexInv says,
\* with isr_low entered at any line of canSend (canSend, canTxFifo).
THEOREM TypeCorrect == Spec => []TypeInv
<1>1. TypeInv /\ [Next]_vars => TypeInv'
  <2> SUFFICES ASSUME TypeInv, [Next]_vars PROVE TypeInv'
    OBVIOUS
  <2>1. FlagsOK'
    BY FlagsStep DEF TypeInv
  <2>2. CASE UNCHANGED vars
    BY <2>1, <2>2 DEF vars, TypeInv, DataOK, IndexInv, hwVars, fifoVars,
                      errVars, pcVars, history
  <2> QED
    BY <2>1, <2>2, MainData, IsrData, EnvData DEF Next, TypeInv
<1> QED
  BY <1>1, InitType, PTL DEF Spec

\* The memcpy of canSend into TxFifo stays inside the array, for every fifo size
\* and wherever the interrupts fall.
THEOREM PutStaysInBounds == Spec => [](TypeOK /\ PutInBounds)
<1>1. TypeInv => TypeOK /\ PutInBounds
  BY DEF TypeInv, IndexInv, PutInBounds, TypeOK
<1> QED
  BY <1>1, TypeCorrect, PTL

-----------------------------------------------------------------------------
(* The lines of canSend. *)

\* The lines at which the frame being sent is neither in TxFifo nor in TXB0.
Unsent == {"testFifo", "testReq", "testFull", "put", "inc", "wrap", "testEq",
           "countFull", "enableFull", "full"} \union Filling

\* The lines of canSend that only decide, those between the memcpy to TXB0 and
\* TXREQ, and those that touch neither TxFifo's contents nor TXB0.
Decide == TestFifo \/ TestReq \/ TestFull \/ GiveUp
Prepare == SetRetries \/ SetTimeout \/ ClearFailed
Leave == Count("count", "enableOk") \/ Count("countFull", "enableFull")
         \/ Enable("enable", "enableOk") \/ Enable("enableOk", "idle")
         \/ Enable("enableFull", "full")

LEMMA MainCases ==
  MainStep <=> \/ Retry \/ Decide \/ Copy \/ Prepare \/ SetTXREQ
               \/ Put \/ Inc \/ Wrap \/ TestEq \/ Leave
  BY Zenon DEF MainStep, CanSend, Decide, Prepare, Leave

\* What isr_low, isr_high and the bus leave alone, but for a frame loaded by canTxFifo.
LEMMA OthersLeave ==
  ASSUME \/ EnterIsrLow \/ IsrTx \/ TxFifoEnter \/ TxFifoBusy \/ TxFifoEmpty \/ IsrErr \/ IsrClear
         \/ CheckCANTimeout \/ TxDone \/ \E e \in Errors : BusError(e)
  PROVE  UNCHANGED <<TXB0, fifoVars, mainPc, issued, accepted, loads>>
  BY Zenon DEF EnterIsrLow, IsrTx, TxFifoEnter, TxFifoBusy, Busy, SetTXBnIE, TxFifoEmpty, IsrErr,
     IsrClear, CheckCANTimeout, Timeout, TxDone, BusError, hwVars, fifoVars, history, pcVars

\* isr_low is inside canSend only if another source has let it in, but for the last
\* line of the way by TXB0.
MaskInv ==
  mainPc \in Window \ {"enableOk"} => opened \/ (isrPc = "idle" /\ ~TXBnIE)

LEMMA MaskStep ==
  ASSUME TypeInv, MaskInv, [Next]_vars PROVE MaskInv'
<1>1. CASE Call \/ Retry
  BY <1>1, Zenon DEF Call, CallWith, Retry, Main, SetTXBnIE, MaskInv
<1>2. CASE Decide
  BY <1>2 DEF Decide, TestFifo, TestReq, TestFull, GiveUp, Goto, Main, hwVars, MaskInv, Window
<1>3. CASE Copy \/ Put \/ Inc \/ Wrap \/ TestEq
  BY <1>3 DEF Copy, Put, Inc, Wrap, TestEq, Main, hwVars, MaskInv, Window
<1>9. CASE Prepare \/ SetTXREQ
  BY <1>9 DEF Prepare, SetRetries, SetTimeout, ClearFailed, ClearWith, SetTXREQ, Main, hwVars,
              MaskInv, Window
<1>4. CASE Leave
  BY <1>4 DEF Leave, Count, Enable, SetTXBnIE, Main, hwVars, MaskInv, Window
<1>5. CASE EnterIsrLow
  BY <1>5, Zenon DEF EnterIsrLow, MaskInv, hwVars, Window
<1>6. CASE IsrLow
  <2>1. isrPc # "idle" /\ mainPc' = mainPc /\ opened' = opened
    BY <1>6 DEF IsrLow, IsrTx, TxFifoEnter, TxFifoBusy, Busy, TxFifoLoad, Load, TxFifoEmpty,
                IsrErr, IsrClear
  <2> QED
    BY <2>1, Zenon DEF MaskInv
<1>7. CASE CheckCANTimeout \/ TxDone \/ \E e \in Errors : BusError(e)
  BY <1>7, Zenon DEF CheckCANTimeout, Timeout, TxDone, BusError, pcVars, MaskInv
<1>8. CASE UNCHANGED vars
  BY <1>8, Zenon DEF vars, pcVars, hwVars, MaskInv
<1> QED
  BY <1>1, <1>2, <1>3, <1>4, <1>5, <1>6, <1>7, <1>8, <1>9, MainCases, Zenon DEF Next

\* While isr_low runs, canSend is not at work, on its last line, or opened.
LEMMA Outside ==
  ASSUME TypeInv, MaskInv, isrPc # "idle"
  PROVE  opened \/ mainPc \in {"idle", "full", "enableOk"}
  BY DEF TypeInv, DataOK, MaskInv, Window

LEMMA MaskAlways == Spec => [](TypeInv /\ MaskInv)
<1>1. Init => MaskInv
  BY Zenon DEF Init, MaskInv, Window
<1>2. TypeInv /\ MaskInv /\ [Next]_vars => MaskInv'
  BY MaskStep
<1> QED
  BY <1>1, <1>2, TypeCorrect, PTL DEF Spec

-----------------------------------------------------------------------------
(* The timeout of the frame in TXB0. *)

\* The timeout canSend has set is there when it raises TXREQ.  It is gone for a
\* moment when canTxError has ended a transmission within canSend and canTxFifo,
\* which starts another one or reports the lapse, is still to come.
TimerInv ==
  mainPc \in {"failed", "request"} =>
    \/ lapsed
    \/ canTransmitTimeout = 2
    \/ canTransmitTimeout = 1 /\ ticked
    \/ isrPc \in {"txFifo", "txReady"} /\ ~TXREQ

TimedInv == PendingIsTimed /\ TimerInv

LEMMA InitTimed == Init => TimedInv
  BY Zenon DEF Init, TimedInv, PendingIsTimed, TimerInv

\* What a step that leaves TXREQ and the timeout alone does to TimedInv.
LEMMA TimedSame ==
  ASSUME TimedInv, TXREQ' => TXREQ,
         canTransmitTimeout' = canTransmitTimeout, lapsed => lapsed',
         mainPc' \in {"failed", "request"} =>
           /\ mainPc \in {"failed", "request"} /\ (ticked => ticked')
           /\ isrPc \in {"txFifo", "txReady"} /\ ~TXREQ => isrPc' \in {"txFifo", "txReady"} /\ ~TXREQ'
  PROVE  TimedInv'
  BY Zenon DEF TimedInv, PendingIsTimed, TimerInv

\* A frame that is given to TXB0 gets a fresh timeout.
LEMMA TimedStart ==
  ASSUME TimedInv, canTransmitTimeout' = 2
  PROVE  TimedInv'
<1>1. canTransmitTimeout' # 0
  BY ONLY canTransmitTimeout' = 2
<1> QED
  BY <1>1, Zenon DEF TimedInv, PendingIsTimed, TimerInv

LEMMA MainTimed ==
  ASSUME TimedInv, Call \/ MainStep PROVE TimedInv'
<1>0. isrPc = "idle" /\ isrPc \notin {"txFifo", "txReady"}
  BY DEF Call, CallWith, MainStep, CanSend, Retry, GiveUp, TestFifo, TestReq, TestFull, Goto, Copy,
         SetRetries, SetTimeout, ClearFailed, ClearWith, SetTXREQ, Put, Inc, Wrap, TestEq, Count,
         Enable, Main
<1> USE DEF hwVars, errVars, history
<1>1. CASE Call \/ Retry \/ Decide \/ Leave
  <2>1. /\ UNCHANGED <<TXREQ, canTransmitTimeout, lapsed>>
        /\ mainPc' \notin {"failed", "request"}
    BY <1>1 DEF Call, CallWith, Retry, Decide, TestFifo, TestReq, TestFull, GiveUp, Goto, Leave,
                Count, Enable, SetTXBnIE, Main
  <2> QED
    BY <2>1, TimedSame, Zenon
<1>2. CASE Copy \/ Put \/ Inc \/ Wrap \/ TestEq
  <2>1. /\ UNCHANGED <<canTransmitTimeout, lapsed>> /\ (TXREQ' => TXREQ)
        /\ mainPc' \notin {"failed", "request"}
    BY <1>2 DEF Copy, Put, Inc, Wrap, TestEq, Main
  <2> QED
    BY <2>1, TimedSame, Zenon
<1>3. CASE SetRetries
  <2>1. UNCHANGED <<TXREQ, canTransmitTimeout, lapsed>> /\ mainPc' = "timeout"
    BY <1>3, Zenon DEF SetRetries, Main
  <2> QED
    BY <2>1, TimedSame
<1>4. CASE SetTimeout
  BY <1>4, TimedStart, Zenon DEF SetTimeout, StartTimeout
<1>5. CASE ClearFailed
  <2>1. /\ UNCHANGED <<TXREQ, canTransmitTimeout, lapsed>> /\ mainPc = "failed"
        /\ ticked' = (ticked /\ "request" \in Window)
    BY <1>5, Zenon DEF ClearFailed, ClearWith, Main
  <2>2. ticked' = ticked \/ ~ticked
    BY <2>1 DEF Window
  <2>3. ticked => ticked'
    BY <2>1 DEF Window
  <2> QED
    BY <1>0, <2>1, <2>3, TimedSame
<1>6. CASE SetTXREQ
  <2>1. /\ UNCHANGED <<canTransmitTimeout, lapsed>> /\ mainPc = "request" /\ mainPc' = "enable"
    BY <1>6, Zenon DEF SetTXREQ, Main
  <2>2. canTransmitTimeout # 0 \/ lapsed
    BY <1>0, <2>1 DEF TimedInv, TimerInv
  <2> QED
    BY <2>1, <2>2 DEF TimedInv, PendingIsTimed, TimerInv
<1> QED
  BY <1>1, <1>2, <1>3, <1>4, <1>5, <1>6, MainCases, Zenon DEF Prepare

LEMMA IsrTimed ==
  ASSUME TypeInv, MaskInv, TimedInv, EnterIsrLow \/ IsrLow PROVE TimedInv'
<1> USE DEF hwVars, errVars, history
<1>1. CASE EnterIsrLow \/ IsrTx \/ TxFifoEnter \/ IsrClear
  <2>1. /\ UNCHANGED <<TXREQ, canTransmitTimeout, lapsed, mainPc>>
        /\ isrPc \in {"txFifo", "txReady"} => isrPc' \in {"txFifo", "txReady"}
        /\ ticked' = ticked \/ ticked' = (ticked /\ mainPc \in Window)
    BY <1>1 DEF EnterIsrLow, IsrTx, TxFifoEnter, IsrClear
  <2>2. mainPc' \in {"failed", "request"} => mainPc \in Window /\ (ticked => ticked')
    BY <2>1 DEF Window
  <2> QED
    BY <2>1, <2>2, TimedSame, Zenon
<1>2. CASE TxFifoBusy
  <2>1. TXREQ /\ UNCHANGED <<TXREQ, canTransmitTimeout, lapsed, mainPc, ticked>>
    BY <1>2, Zenon DEF TxFifoBusy, Busy, SetTXBnIE
  <2> QED
    BY <2>1, TimedSame, Zenon
<1>3. CASE TxFifoLoad
  BY <1>3, TimedStart, Zenon DEF TxFifoLoad, Load, StartTimeout
<1>4. CASE TxFifoEmpty
  <2>1. /\ ~TXREQ' /\ UNCHANGED mainPc /\ isrPc = "txReady"
        /\ lapsed' = (lapsed \/ Starve)
    BY <1>4, Zenon DEF TxFifoEmpty
  <2>2. mainPc \in {"failed", "request"} => Starve
    BY <2>1, Outside DEF Starve
  <2> QED
    BY <2>1, <2>2, Zenon DEF TimedInv, PendingIsTimed, TimerInv
<1>5. CASE IsrErr
  <2>1. CASE ~ERRIF
    <3>1. UNCHANGED <<TXREQ, canTransmitTimeout, lapsed, mainPc, ticked>> /\ isrPc = "err"
      BY <1>5, <2>1, Zenon DEF IsrErr
    <3>2. isrPc \notin {"txFifo", "txReady"}
      BY <3>1
    <3> QED
      BY <3>1, <3>2, TimedSame, Zenon
  <2>2. CASE ERRIF
    <3> DEFINE busErr == TXERR /\ ~LarbBoost
    <3>1. /\ TXREQ' = ((TXREQ \/ LarbBoost) /\ ~LarbGiveUp)
          /\ canTransmitTimeout' = (IF LarbGiveUp \/ busErr THEN 0 ELSE canTransmitTimeout)
          /\ lapsed' = (lapsed \/ (busErr /\ TXREQ') \/ LateBoost)
          /\ LarbGiveUp \/ busErr => isrPc' = "txFifo"
          /\ isrPc = "err" /\ UNCHANGED <<mainPc, ticked>>
      BY <1>5, <2>2, Zenon DEF IsrErr
    <3>2. isrPc \notin {"txFifo", "txReady"}
      BY <3>1
    <3>3. CASE LarbGiveUp \/ busErr
      <4>1. ~TXREQ' \/ lapsed'
        BY <3>1, <3>3, Zenon
      <4>2. isrPc' \in {"txFifo", "txReady"}
        BY <3>1, <3>3
      <4> QED
        BY <4>1, <4>2, Zenon DEF TimedInv, PendingIsTimed, TimerInv
    <3>4. CASE ~(LarbGiveUp \/ busErr)
      <4>1. canTransmitTimeout' = canTransmitTimeout /\ (lapsed => lapsed')
        BY <3>1, <3>4, Zenon
      <4>2. TXREQ' => TXREQ \/ lapsed'
        BY <3>1, Zenon DEF LateBoost
      <4>3. PendingIsTimed'
        BY <4>1, <4>2, Zenon DEF TimedInv, PendingIsTimed
      <4>4. TimerInv'
        BY <3>1, <3>2, <4>1, Zenon DEF TimedInv, TimerInv
      <4> QED
        BY <4>3, <4>4 DEF TimedInv
    <3> QED
      BY <3>3, <3>4, Zenon
  <2> QED
    BY <2>1, <2>2, Zenon
<1> QED
  BY <1>1, <1>2, <1>3, <1>4, <1>5, Zenon DEF IsrLow

LEMMA EnvTimed ==
  ASSUME TypeInv, TimedInv,
         CheckCANTimeout \/ TxDone \/ \E e \in Errors : BusError(e)
  PROVE  TimedInv'
<1> USE DEF errVars, pcVars, history
<1>1. CASE CheckCANTimeout
  <2>1. /\ ~ticked /\ ticked' = (isrPc # "idle" \/ mainPc \in Window)
        /\ canTransmitTimeout # 0 /\ canTransmitTimeout' = canTransmitTimeout - 1
        /\ TXREQ' = (TXREQ /\ canTransmitTimeout # 1)
        /\ UNCHANGED <<mainPc, isrPc, lapsed>>
    BY <1>1, Zenon DEF CheckCANTimeout, Timeout
  <2>2. canTransmitTimeout \in 0..2
    BY Zenon DEF TypeInv, DataOK
  <2>3. canTransmitTimeout # 1 => canTransmitTimeout' # 0
    BY ONLY <2>1, <2>2
  <2>4. PendingIsTimed'
    BY <2>1, <2>3, Zenon DEF TimedInv, PendingIsTimed
  <2>5. TimerInv'
    <3> SUFFICES ASSUME mainPc \in {"failed", "request"}
                 PROVE  \/ lapsed
                        \/ canTransmitTimeout' = 1 /\ ticked'
                        \/ isrPc \in {"txFifo", "txReady"} /\ ~TXREQ'
      BY <2>1, Zenon DEF TimerInv
    <3>1. ticked'
      BY <2>1 DEF Window
    <3>2. canTransmitTimeout = 2 => canTransmitTimeout' = 1
      BY ONLY <2>1
    <3> QED
      BY <2>1, <3>1, <3>2, Zenon DEF TimedInv, TimerInv
  <2> QED
    BY <2>4, <2>5 DEF TimedInv
<1>2. CASE TxDone
  BY <1>2, TimedSame, Zenon DEF TxDone
<1>3. ASSUME NEW e \in Errors, BusError(e)
      PROVE  TimedInv'
  BY <1>3, TimedSame, Zenon DEF BusError
<1> QED
  BY <1>1, <1>2, <1>3, Zenon

LEMMA TimedAlways == Spec => [](TypeInv /\ MaskInv /\ TimedInv)
<1>1. TypeInv /\ MaskInv /\ TimedInv /\ [Next]_vars => TimedInv'
  <2> SUFFICES ASSUME TypeInv, MaskInv, TimedInv, [Next]_vars PROVE TimedInv'
    OBVIOUS
  <2>1. CASE UNCHANGED vars
    BY <2>1, TimedSame, Zenon DEF vars, hwVars, errVars, pcVars, history
  <2> QED
    BY <2>1, MainTimed, IsrTimed, EnvTimed, Zenon DEF Next
<1> QED
  BY <1>1, InitTimed, MaskAlways, PTL DEF Spec

\* A frame in TXB0 is under the timeout of checkCANTimeout, so that it cannot stay
\* for ever: for every fifo size, every error the bus may cause and every
\* interleaving of canSend, isr_low and isr_high, unless canTxError left a frame in
\* TXB0 or put one back, or a canTxFifo that was let into canSend cleared the timeout.
THEOREM PendingAlwaysTimed == Spec => []PendingIsTimed
<1>1. TimedInv => PendingIsTimed
  BY Zenon DEF TimedInv
<1> QED
  BY <1>1, TimedAlways, PTL

-----------------------------------------------------------------------------
(* Passing the queue. *)

\* The mark canTransmitFailed stands for a failure nobody has made use of, and
\* canSend goes to TXB0 past an empty queue, or because it has seen that mark.
PassInv ==
  /\ canTransmitFailed => unspent
  /\ mainPc \in {"testReq", "copy", "retries", "timeout", "failed"} =>
       FifoTxIdxR = FifoTxIdxW \/ unspent

LEMMA PassStep ==
  ASSUME PassInv, [Next]_vars PROVE PassInv'
<1> USE DEF PassInv, fifoVars, errVars, history
<1>1. CASE Call \/ Retry \/ Leave \/ Put \/ Inc \/ Wrap \/ TestEq \/ SetTXREQ
  <2>1. /\ mainPc' \notin {"testReq", "copy", "retries", "timeout", "failed"}
        /\ UNCHANGED <<canTransmitFailed, unspent>>
    BY <1>1 DEF Call, CallWith, Retry, Leave, Count, Enable, Put, Inc, Wrap, TestEq, SetTXREQ, Main
  <2> QED
    BY <2>1, Zenon
<1>2. CASE Decide
  <2>1. /\ UNCHANGED <<FifoTxIdxR, FifoTxIdxW, canTransmitFailed, unspent>>
        /\ mainPc' \in {"testReq", "copy", "retries", "timeout", "failed"} =>
             mainPc = "testReq" \/ FifoTxIdxR = FifoTxIdxW \/ canTransmitFailed
    BY <1>2 DEF Decide, TestFifo, TestReq, TestFull, GiveUp, Goto, Main
  <2> QED
    BY <2>1, Zenon
<1>3. CASE Copy \/ Prepare
  <2>1. CASE Copy \/ SetRetries \/ SetTimeout
    <3>1. /\ UNCHANGED <<FifoTxIdxR, FifoTxIdxW, unspent, canTransmitFailed>>
          /\ mainPc \in {"copy", "retries", "timeout"}
      BY <2>1, Zenon DEF Copy, SetRetries, SetTimeout, Main
    <3> QED
      BY <3>1, Zenon
  <2>2. CASE ClearFailed
    <3>1. mainPc' = "request" /\ ~canTransmitFailed'
      BY <2>2, Zenon DEF ClearFailed, ClearWith, Main
    <3> QED
      BY <3>1
  <2> QED
    BY <1>3, <2>1, <2>2, Zenon DEF Prepare
<1>4. CASE TxFifoLoad
  BY <1>4, Zenon DEF TxFifoLoad, Load
<1>5. CASE IsrErr
  <2>1. CASE ~ERRIF
    BY <1>5, <2>1, Zenon DEF IsrErr
  <2>2. CASE ERRIF
    BY <1>5, <2>2, Zenon DEF IsrErr
  <2> QED
    BY <2>1, <2>2
<1>6. CASE EnterIsrLow \/ IsrTx \/ TxFifoEnter \/ TxFifoBusy \/ TxFifoEmpty \/ IsrClear
  <2>1. /\ UNCHANGED <<FifoTxIdxR, FifoTxIdxW, unspent, mainPc>>
        /\ canTransmitFailed' => canTransmitFailed
    <3>1. CASE EnterIsrLow \/ IsrTx
      BY <3>1 DEF EnterIsrLow, IsrTx
    <3>2. CASE TxFifoEnter
      <4>1. /\ canTransmitFailed' = FALSE /\ UNCHANGED <<FifoTxIdxR, FifoTxIdxW, unspent, mainPc>>
        BY <3>2, Zenon DEF TxFifoEnter
      <4> QED
        BY <4>1
    <3>3. CASE TxFifoBusy
      BY <3>3, Zenon DEF TxFifoBusy, Busy
    <3>4. CASE TxFifoEmpty
      BY <3>4, Zenon DEF TxFifoEmpty
    <3>5. CASE IsrClear
      BY <3>5, Zenon DEF IsrClear
    <3> QED
      BY <1>6, <3>1, <3>2, <3>3, <3>4, <3>5, Zenon
  <2> QED
    BY <2>1, Zenon
<1>7. CASE CheckCANTimeout
  BY <1>7, Zenon DEF CheckCANTimeout, Timeout
<1>9. CASE TxDone \/ \E e \in Errors : BusError(e)
  <2>1. UNCHANGED <<FifoTxIdxR, FifoTxIdxW, unspent, mainPc, canTransmitFailed>>
    BY <1>9, Zenon DEF TxDone, BusError, pcVars
  <2> QED
    BY <2>1, Zenon
<1>8. CASE UNCHANGED vars
  BY <1>8, Zenon DEF vars, pcVars
<1> QED
  BY <1>1, <1>2, <1>3, <1>4, <1>5, <1>6, <1>7, <1>8, <1>9, MainCases, Zenon DEF Next, IsrLow

LEMMA EmptyQueue == TypeInv /\ FifoTxIdxR = FifoTxIdxW => ~(Queued > 0)
  BY DEF Queued, TypeInv, DataOK

\* canSend hands a frame to TXB0 past others that wait only after a failure that no
\* other frame has used to pass them, although the interrupts may raise and clear
\* canTransmitFailed between any two of its lines.
THEOREM OvertakesOnlyAfterFailure == Spec => OvertakeOnlyAfterFailure
<1> DEFINE Passes == mainPc = "failed" /\ mainPc' = "request" /\ Queued > 0
<1>1. TypeInv /\ PassInv => [Passes => unspent]_vars
  <2> SUFFICES ASSUME TypeInv, PassInv, Passes PROVE unspent
    OBVIOUS
  <2>1. FifoTxIdxR # FifoTxIdxW
    BY EmptyQueue
  <2> QED
    BY <2>1 DEF PassInv
<1>2. Init => PassInv
  BY DEF Init, PassInv
<1>3. PassInv /\ [Next]_vars => PassInv'
  BY PassStep
<1> QED
  BY <1>1, <1>2, <1>3, TypeCorrect, PTL DEF Spec, OvertakeOnlyAfterFailure

-----------------------------------------------------------------------------
(* The fifo and TXB0, until canTxFifo takes away what canSend relies on.      *)

\* A frame is not given to the bus before canSend has accepted it.
FreshInv ==
  /\ \A f \in Frames : f > issued => loads[f] = 0
  /\ mainPc \in Unsent => issued \notin accepted /\ loads[issued] = 0
\* TXB0 stays free once canSend has seen it free, and has the frame when it is armed.
FreeInv ==
  /\ mainPc \in Filling => ~TXREQ
  /\ mainPc \in Filling \ {"copy"} => TXB0 = issued

\* The write index without what canSend has done to it so far, and how many
\* frames wait behind the read index by that count.
Tip == IF mainPc \in {"wrap", "testEq"}
       THEN IF FifoTxIdxW = 0 THEN SW_FIFO - 1 ELSE FifoTxIdxW - 1
       ELSE FifoTxIdxW
Held == IF Tip = FULL THEN SW_FIFO
        ELSE IF Tip >= FifoTxIdxR THEN Tip - FifoTxIdxR ELSE Tip + SW_FIFO - FifoTxIdxR

Index == 0..SW_FIFO-1
HoldsWaiting(n) == \A i \in Index : i < n => TxFifo[SlotAt(i)] \in Waiting
InOrder(n) == \A i, j \in Index : i < j /\ j < n => TxFifo[SlotAt(i)] < TxFifo[SlotAt(j)]
HoldsAll(n) == \A f \in Waiting : \E i \in Index : i < n /\ TxFifo[SlotAt(i)] = f
QueueOf(n) == HoldsWaiting(n) /\ InOrder(n) /\ HoldsAll(n)
QueueInv == QueueOf(Held) /\ (Inserting => TxFifo[Tip] = issued)
Once == \A f \in Frames : loads[f] <= 1

Exact == FreshInv /\ FreeInv /\ QueueInv /\ Once
TxInv == TypeInv /\ MaskInv /\ (clashed \/ Exact)

LEMMA ClashStays == ASSUME [Next]_vars, clashed PROVE clashed'
<1>1. CASE Call \/ MainStep
  BY <1>1, Zenon DEF Call, CallWith, MainStep, CanSend, Retry, GiveUp, TestFifo, TestReq, TestFull,
     Goto, Copy, SetRetries, SetTimeout, ClearFailed, ClearWith, SetTXREQ, Put, Inc, Wrap, TestEq,
     Count, Enable, history
<1>2. CASE EnterIsrLow \/ IsrTx \/ TxFifoEnter \/ TxFifoBusy \/ TxFifoLoad \/ TxFifoEmpty \/ IsrClear
           \/ CheckCANTimeout \/ TxDone \/ \E e \in Errors : BusError(e)
  BY <1>2, Zenon DEF EnterIsrLow, IsrTx, TxFifoEnter, TxFifoBusy, Busy, TxFifoLoad, Load,
     TxFifoEmpty, IsrClear, CheckCANTimeout, Timeout, TxDone, BusError, history
<1>3. CASE IsrErr
  BY <1>3, Zenon DEF IsrErr
<1>4. CASE UNCHANGED vars
  BY <1>4, Zenon DEF vars, history
<1> QED
  BY <1>1, <1>2, <1>3, <1>4, Zenon DEF Next, IsrLow

\* A frame canTxFifo loads without a clash: canSend does not count on TXB0, nor is it
\* about to publish the frame as the only one in the fifo.
LEMMA NoClash ==
  ASSUME TypeInv, MaskInv, TxFifoLoad, ~clashed'
  PROVE  /\ mainPc \notin Filling
         /\ mainPc \in {"wrap", "testEq"} => TxFifo[FifoTxIdxR] # issued
<1>1. isrPc = "txReady" /\ ~Clash
  BY Zenon DEF TxFifoLoad, Load
<1>2. opened \/ mainPc \in {"idle", "full", "enableOk"}
  BY <1>1, Outside
<1> QED
  BY <1>1, <1>2 DEF Clash, Filling

LEMMA FreeStep ==
  ASSUME TypeInv, MaskInv, FreeInv, ~clashed', [Next]_vars PROVE FreeInv'
<1> USE DEF FreeInv
<1>1. CASE Call \/ Retry \/ Leave \/ Put \/ Inc \/ Wrap \/ TestEq \/ SetTXREQ
  <2>1. mainPc' \notin Filling
    BY <1>1 DEF Call, CallWith, Retry, Leave, Count, Enable, Put, Inc, Wrap, TestEq, SetTXREQ, Main,
                Filling
  <2> QED
    BY <2>1, Zenon
<1>2. CASE Decide
  <2>1. /\ UNCHANGED hwVars /\ (mainPc' \in Filling => mainPc' = "copy")
        /\ mainPc' = "copy" => ~TXREQ
    BY <1>2 DEF Decide, TestFifo, TestReq, TestFull, GiveUp, Goto, Main, Filling
  <2> QED
    BY <2>1, Zenon DEF hwVars
<1>3. CASE Copy
  BY <1>3, Zenon DEF Copy, Main, history
<1>4. CASE Prepare
  <2>1. UNCHANGED <<TXREQ, TXB0, issued>> /\ mainPc \in Filling \ {"copy"}
    BY <1>4 DEF Prepare, SetRetries, SetTimeout, ClearFailed, ClearWith, Main, hwVars, history, Filling
  <2> QED
    BY <2>1, Zenon
<1>5. CASE TxFifoLoad
  <2>1. mainPc' \notin Filling
    BY <1>5, NoClash, Zenon DEF TxFifoLoad, Load
  <2> QED
    BY <2>1, Zenon
<1>6. CASE IsrErr
  <2>1. UNCHANGED <<TXB0, mainPc, issued>>
    BY <1>6, OthersLeave, Zenon
  <2>2. mainPc \in Filling => opened
    BY <1>6, Outside DEF IsrErr, Filling
  <2>3. mainPc \in Filling /\ TXREQ' => TXREQ
    <3>1. CASE ~ERRIF
      BY <1>6, <3>1, Zenon DEF IsrErr
    <3>2. CASE ERRIF
      <4>1. clashed' = (clashed \/ (LateBoost /\ opened /\ mainPc \in Filling))
            /\ TXREQ' = ((TXREQ \/ LarbBoost) /\ ~LarbGiveUp)
        BY <1>6, <3>2, Zenon DEF IsrErr
      <4> QED
        BY <2>2, <4>1, Zenon DEF LateBoost
    <3> QED
      BY <3>1, <3>2
  <2> QED
    BY <2>1, <2>3, Zenon
<1>7. CASE EnterIsrLow \/ IsrTx \/ TxFifoEnter \/ TxFifoBusy \/ TxFifoEmpty \/ IsrClear
           \/ CheckCANTimeout \/ TxDone \/ \E e \in Errors : BusError(e)
  <2>1. (TXREQ' => TXREQ) /\ UNCHANGED <<TXB0, mainPc, issued>>
    BY <1>7 DEF EnterIsrLow, IsrTx, TxFifoEnter, TxFifoBusy, Busy, SetTXBnIE, TxFifoEmpty, IsrClear,
                CheckCANTimeout, Timeout, TxDone, BusError, pcVars, history, hwVars, TypeInv, FlagsOK
  <2> QED
    BY <2>1, Zenon
<1>8. CASE UNCHANGED vars
  BY <1>8, Zenon DEF vars, pcVars, hwVars, history
<1> QED
  BY <1>1, <1>2, <1>3, <1>4, <1>5, <1>6, <1>7, <1>8, MainCases, Zenon DEF Next, IsrLow

-----------------------------------------------------------------------------
(* The queue. *)

LEMMA HeldType ==
  ASSUME TypeInv
  PROVE  /\ FifoTxIdxR \in Index /\ Held \in 0..SW_FIFO /\ \A i \in Index : SlotAt(i) \in Index
         /\ mainPc # "wrap" => Tip \in Index \union {FULL}
         /\ Inserting => Tip \in Index /\ SlotAt(Held) = Tip /\ Held < SW_FIFO
  BY DEF TypeInv, DataOK, IndexInv, Held, Tip, Index, SlotAt, Inserting

\* The queue looks at no more than this.
LEMMA QueueSame ==
  ASSUME QueueInv, UNCHANGED <<TxFifo, FifoTxIdxR>>, Waiting' = Waiting, Tip' = Tip,
         Inserting' => Inserting /\ issued' = issued
  PROVE  QueueInv'
<1>1. Held' = Held /\ \A i \in Index : SlotAt(i)' = SlotAt(i)
  BY DEF Held, SlotAt
<1>2. QueueOf(Held)'
  BY <1>1 DEF QueueInv, QueueOf, HoldsWaiting, InOrder, HoldsAll, SlotAt
<1> QED
  BY <1>2 DEF QueueInv

\* A frame that is given to the bus has not been given to it before.
LEMMA FirstLoad ==
  ASSUME TypeInv, NEW f \in Frames, loads[f] = 0, ~TXREQ, Request(f)
  PROVE  loads' = [loads EXCEPT ![f] = 1]
  BY DEF TypeInv, DataOK, Request

\* What is at stake when a frame goes to TXB0: neither its slot nor its number is
\* one that went there before.
LEMMA LoadFirst ==
  ASSUME TypeInv, MaskInv, QueueInv, TxFifoLoad, ~clashed'
  PROVE  /\ TxFifo[FifoTxIdxR] \in Waiting /\ TxFifo[FifoTxIdxR] \in Frames
         /\ loads' = [loads EXCEPT ![TxFifo[FifoTxIdxR]] = 1]
         /\ Held > 0
         /\ UNCHANGED <<TxFifo, mainPc, issued, accepted>>
<1>1. UNCHANGED <<TxFifo, mainPc, issued, accepted>>
  BY Zenon DEF TxFifoLoad, Load
<1>2. FifoTxIdxR # FifoTxIdxW /\ ~TXREQ /\ Request(TxFifo[FifoTxIdxR])
  BY Zenon DEF TxFifoLoad, Load
<1>3. FifoTxIdxR # Tip
  <2>1. CASE mainPc \in {"wrap", "testEq"}
    <3>1. TxFifo[FifoTxIdxR] # issued /\ TxFifo[Tip] = issued
      BY <2>1, NoClash DEF QueueInv, Inserting
    <3> QED
      BY <3>1
  <2>2. CASE mainPc \notin {"wrap", "testEq"}
    BY <1>2, <2>2 DEF Tip
  <2> QED
    BY <2>1, <2>2
<1>4. Held > 0 /\ 0 \in Index /\ SlotAt(0) = FifoTxIdxR
  BY <1>3 DEF TypeInv, DataOK, IndexInv, Held, Index, SlotAt, Tip
<1>5. TxFifo[FifoTxIdxR] \in Waiting
  BY <1>4, Zenon DEF QueueInv, QueueOf, HoldsWaiting
<1>6. TxFifo[FifoTxIdxR] \in Frames /\ loads[TxFifo[FifoTxIdxR]] = 0
  BY <1>5 DEF Waiting, TypeInv, DataOK, Frames
<1> QED
  BY <1>1, <1>2, <1>4, <1>5, <1>6, FirstLoad

LEMMA SendFirst ==
  ASSUME TypeInv, FreshInv, FreeInv, SetTXREQ
  PROVE  /\ issued \in Frames /\ loads' = [loads EXCEPT ![issued] = 1]
         /\ accepted' = accepted \union {issued} /\ UNCHANGED issued /\ issued \notin accepted
         /\ mainPc = "request" /\ mainPc' = "enable"
<1>1. /\ mainPc = "request" /\ mainPc' = "enable" /\ Request(TXB0)
      /\ accepted' = accepted \union {issued} /\ UNCHANGED issued
  BY Zenon DEF SetTXREQ, Main
<1>2. issued \in Frames /\ ~TXREQ /\ TXB0 = issued /\ loads[issued] = 0 /\ issued \notin accepted
  BY <1>1 DEF TypeInv, IndexInv, FreeInv, FreshInv, Unsent, Filling
<1> QED
  BY <1>1, <1>2, FirstLoad

\* The steps that neither accept nor load a frame.
LEMMA SentKept ==
  ASSUME Next, ~Call, ~SetTXREQ, ~TestEq, ~TxFifoLoad PROVE UNCHANGED <<issued, accepted, loads>>
<1>1. CASE Retry \/ Decide \/ Copy \/ Put \/ Inc \/ Wrap \/ Leave
  BY <1>1, Zenon DEF Retry, Decide, TestFifo, TestReq, TestFull, GiveUp, Goto, Copy, Put, Inc, Wrap,
                     Leave, Count, Enable, history
<1>3. CASE Prepare
  BY <1>3, Zenon DEF Prepare, SetRetries, SetTimeout, ClearFailed, ClearWith, history
<1>2. CASE EnterIsrLow \/ IsrLow \/ CheckCANTimeout \/ TxDone \/ \E e \in Errors : BusError(e)
  BY <1>2, OthersLeave, Zenon DEF IsrLow
<1> QED
  BY <1>1, <1>2, <1>3, MainCases, Zenon DEF Next

LEMMA FreshStep ==
  ASSUME TypeInv, MaskInv, Exact, ~clashed', [Next]_vars
  PROVE  FreshInv' /\ Once'
<1> USE DEF FreshInv, Once, Exact
<1>1. CASE Call
  <2>1. issued' = issued + 1 /\ UNCHANGED <<accepted, loads>> /\ issued < MaxFrames
    BY <1>1, Zenon DEF Call, CallWith
  <2> QED
    BY <2>1 DEF TypeInv, DataOK, Frames
<1>2. CASE SetTXREQ
  <2>1. mainPc' \notin Unsent
    BY <1>2, SendFirst DEF Unsent, Filling
  <2>2. loads \in [Frames -> 0..2]
    BY Zenon DEF TypeInv, DataOK
  <2> QED
    BY <1>2, <2>1, <2>2, SendFirst DEF Frames
<1>3. CASE TestEq
  <2>1. mainPc' = "count" /\ UNCHANGED <<issued, loads>>
    BY <1>3, Zenon DEF TestEq, Main
  <2> QED
    BY <2>1 DEF Unsent, Filling
<1>4. CASE TxFifoLoad
  <2> DEFINE f == TxFifo[FifoTxIdxR]
  <2>1. f \in accepted /\ f \in Frames /\ loads' = [loads EXCEPT ![f] = 1]
        /\ UNCHANGED <<mainPc, issued, accepted>>
    BY <1>4, LoadFirst DEF Waiting
  <2>2. f <= issued /\ loads \in [Frames -> 0..2] /\ issued \in Nat
    BY <2>1 DEF TypeInv, DataOK
  <2> HIDE DEF f
  <2> QED
    BY <2>1, <2>2 DEF Frames
<1>5. CASE UNCHANGED <<issued, accepted, loads>> /\ (mainPc' \in Unsent => mainPc \in Unsent)
  BY <1>5
<1>6. CASE ~Call /\ ~SetTXREQ /\ ~TestEq /\ ~TxFifoLoad /\ Next
  <2>1. UNCHANGED <<issued, accepted, loads>>
    BY <1>6, SentKept, Zenon
  <2>2. CASE Retry \/ Decide \/ Copy \/ Put \/ Inc \/ Wrap \/ Leave
    BY <1>5, <2>1, <2>2 DEF Retry, Decide, TestFifo, TestReq, TestFull, GiveUp, Goto, Copy, Put, Inc,
                            Wrap, Leave, Count, Enable, Main, Unsent, Filling
  <2>4. CASE Prepare
    BY <1>5, <2>1, <2>4 DEF Prepare, SetRetries, SetTimeout, ClearFailed, ClearWith, Main, Unsent, Filling
  <2>3. CASE EnterIsrLow \/ IsrLow \/ CheckCANTimeout \/ TxDone \/ \E e \in Errors : BusError(e)
    BY <1>5, <1>6, <2>1, <2>3, OthersLeave, Zenon DEF IsrLow
  <2> QED
    BY <1>6, <2>2, <2>3, <2>4, MainCases, Zenon DEF Next
<1>7. CASE UNCHANGED vars
  BY <1>5, <1>7, Zenon DEF vars, pcVars, history
<1> QED
  BY <1>1, <1>2, <1>3, <1>4, <1>6, <1>7, Zenon

LEMMA SlotsDiffer ==
  ASSUME TypeInv, NEW i \in Index, NEW j \in Index, i # j PROVE SlotAt(i) # SlotAt(j)
  BY DEF TypeInv, DataOK, Index, SlotAt

LEMMA PutQueue ==
  ASSUME TypeInv, QueueInv, Put PROVE QueueInv'
<1>1. /\ mainPc = "put" /\ mainPc' = "inc" /\ UNCHANGED <<FifoTxIdxW, FifoTxIdxR, issued, accepted, loads>>
      /\ TxFifo' = [TxFifo EXCEPT ![FifoTxIdxW] = issued]
  BY Zenon DEF Put, Main, history
<1>2. FifoTxIdxW \in Index /\ Tip = FifoTxIdxW /\ SlotAt(Held) = Tip /\ Held \in Index
  BY <1>1 DEF TypeInv, DataOK, IndexInv, Tip, Held, SlotAt, Index
<1>3. Tip' = Tip /\ Held' = Held /\ Waiting' = Waiting /\ \A i \in Index : SlotAt(i)' = SlotAt(i)
  BY <1>1 DEF Tip, Held, Waiting, SlotAt
<1>4. \A i \in Index : i < Held => TxFifo'[SlotAt(i)] = TxFifo[SlotAt(i)]
  BY <1>1, <1>2, SlotsDiffer, HeldType, SMTT(40) DEF TypeInv, DataOK
<1>5. TxFifo'[Tip] = issued
  BY <1>1, <1>2 DEF TypeInv, DataOK, Index
<1>6. QueueOf(Held)'
  <2>1. \A i, j \in Index : i < j /\ j < Held => i < Held
    BY <1>2 DEF Index
  <2>2. QueueOf(Held)
    BY DEF QueueInv
  <2>3. HoldsWaiting(Held)'
    BY <1>3, <1>4, <2>2 DEF QueueOf, HoldsWaiting
  <2>4. InOrder(Held)'
    BY <1>3, <1>4, <2>1, <2>2 DEF QueueOf, InOrder
  <2>5. HoldsAll(Held)'
    BY <1>3, <1>4, <2>2 DEF QueueOf, HoldsAll
  <2> QED
    BY <2>3, <2>4, <2>5 DEF QueueOf
<1> QED
  BY <1>1, <1>3, <1>5, <1>6 DEF QueueInv

\* Publishing the index: the frame that was put is the last one of the queue.
LEMMA PublishQueue ==
  ASSUME TypeInv, FreshInv, QueueInv, TestEq PROVE QueueInv'
<1>1. /\ mainPc = "testEq" /\ mainPc' = "count" /\ UNCHANGED <<TxFifo, FifoTxIdxR, issued, loads>>
      /\ FifoTxIdxW' = (IF FifoTxIdxR = FifoTxIdxW THEN FULL ELSE FifoTxIdxW)
      /\ accepted' = accepted \union {issued}
  BY Zenon DEF TestEq, Main
<1>2. issued \in Frames /\ issued \notin accepted /\ loads[issued] = 0 /\ accepted \subseteq 1..issued
  BY <1>1 DEF TypeInv, IndexInv, DataOK, FreshInv, Unsent
<1>3. Tip \in Index /\ SlotAt(Held) = Tip /\ Held \in Index /\ TxFifo[Tip] = issued
  BY <1>1, HeldType DEF QueueInv, Inserting, Index
<1>4. Held' = Held + 1
  BY <1>1 DEF TypeInv, DataOK, IndexInv, Held, Tip
<1>5. Waiting' = Waiting \union {issued} /\ \A f \in Waiting : f \in Nat /\ f < issued
  BY <1>1, <1>2 DEF Waiting, Frames
<1>6. \A i \in Index : SlotAt(i)' = SlotAt(i)
  BY <1>1 DEF SlotAt
<1>7. \A i \in Index : i < Held + 1 => i < Held \/ i = Held
  BY <1>3 DEF Index
<1>8. QueueOf(Held) /\ Held \in Nat /\ Index \subseteq Nat
  BY <1>3 DEF QueueInv, Index
<1>9. HoldsWaiting(Held)'
  BY <1>1, <1>3, <1>4, <1>5, <1>6, <1>7, <1>8 DEF QueueOf, HoldsWaiting
<1>10. InOrder(Held)'
  <2> SUFFICES ASSUME NEW i \in Index, NEW j \in Index, i < j, j < Held + 1
               PROVE  TxFifo[SlotAt(i)] < TxFifo[SlotAt(j)]
    BY <1>1, <1>4, <1>6 DEF InOrder
  <2>1. i < Held
    BY <1>8
  <2>2. CASE j < Held
    BY <1>8, <2>2 DEF QueueOf, InOrder
  <2>3. CASE j = Held
    BY <1>3, <1>5, <1>8, <2>1, <2>3 DEF QueueOf, HoldsWaiting
  <2> QED
    BY <1>7, <2>2, <2>3
<1>11. HoldsAll(Held)'
  <2> SUFFICES ASSUME NEW f \in Waiting'
               PROVE  \E i \in Index : i < Held + 1 /\ TxFifo[SlotAt(i)] = f
    BY <1>1, <1>4, <1>6 DEF HoldsAll
  <2>1. CASE f \in Waiting
    <3>1. PICK i \in Index : i < Held /\ TxFifo[SlotAt(i)] = f
      BY <1>8, <2>1 DEF QueueOf, HoldsAll
    <3> QED
      BY <1>8, <3>1
  <2>2. CASE f = issued
    BY <1>3, <1>8, <2>2
  <2> QED
    BY <1>5, <2>1, <2>2
<1> QED
  BY <1>1, <1>9, <1>10, <1>11 DEF QueueInv, QueueOf, Inserting

\* canTxFifo takes the oldest frame, and every other one moves up.
LEMMA LoadQueue ==
  ASSUME TypeInv, MaskInv, QueueInv, TxFifoLoad, ~clashed' PROVE QueueInv'
<1> DEFINE f == TxFifo[FifoTxIdxR]
<1>1. /\ f \in Waiting /\ loads' = [loads EXCEPT ![f] = 1] /\ f \in Frames
      /\ Held > 0 /\ UNCHANGED <<TxFifo, mainPc, issued, accepted>>
  BY LoadFirst
<1>2. FifoTxIdxR' = NextR /\ FifoTxIdxW' = Unfull /\ FifoTxIdxR # FifoTxIdxW
  BY Zenon DEF TxFifoLoad, Load
<1>11. Inserting => FifoTxIdxW # FULL
  BY DEF TypeInv, IndexInv, Inserting
<1>12. Inserting => UNCHANGED FifoTxIdxW /\ Tip' = Tip
  BY <1>1, <1>2, <1>11 DEF Unfull, Tip
<1>3. Held' = Held - 1
  BY <1>1, <1>2 DEF TypeInv, DataOK, IndexInv, Held, Tip, NextR, Unfull
<1>4. \A i \in Index : i + 1 \in Index => SlotAt(i)' = SlotAt(i + 1)
  BY <1>2 DEF TypeInv, DataOK, SlotAt, NextR, Index
<1>5. SlotAt(0) = FifoTxIdxR /\ 0 \in Index
  BY DEF TypeInv, DataOK, SlotAt, Index
<1>6. Waiting' = Waiting \ {f}
  BY <1>1 DEF Waiting, TypeInv, DataOK, Frames
<1>7. QueueOf(Held) /\ Held \in 0..SW_FIFO
  BY HeldType DEF QueueInv
<1>8. \A i \in Index : i < Held - 1 => i + 1 \in Index /\ i + 1 < Held /\ 0 < i + 1
  BY <1>7 DEF Index
<1>9. HoldsWaiting(Held)' /\ InOrder(Held)'
  <2>1. \A i \in Index : i < Held - 1 =>
          /\ TxFifo'[SlotAt(i)'] = TxFifo[SlotAt(i + 1)] /\ TxFifo[SlotAt(i + 1)] \in Waiting
          /\ f < TxFifo[SlotAt(i + 1)]
    BY <1>1, <1>4, <1>5, <1>7, <1>8 DEF QueueOf, HoldsWaiting, InOrder
  <2>2. \A i, j \in Index : i < j /\ j < Held - 1 => i < Held - 1 /\ i + 1 < j + 1
    BY <1>7 DEF Index
  <2>3. \A i, j \in Index : i < j /\ j < Held - 1 => TxFifo[SlotAt(i + 1)] < TxFifo[SlotAt(j + 1)]
    BY <1>7, <1>8, <2>2 DEF QueueOf, InOrder
  <2>4. \A x \in Waiting : f < x => x \in Waiting'
    BY <1>1, <1>6 DEF Frames
  <2>5. HoldsWaiting(Held)'
    BY <1>3, <2>1, <2>4 DEF HoldsWaiting
  <2>6. InOrder(Held)'
    BY <1>3, <2>1, <2>2, <2>3 DEF InOrder
  <2> QED
    BY <2>5, <2>6
<1>10. HoldsAll(Held)'
  <2> SUFFICES ASSUME NEW g \in Waiting, g # f
               PROVE  \E i \in Index : i < Held - 1 /\ TxFifo[SlotAt(i)'] = g
    BY <1>1, <1>3, <1>6 DEF HoldsAll
  <2>1. PICK i \in Index : i < Held /\ TxFifo[SlotAt(i)] = g
    BY <1>7 DEF QueueOf, HoldsAll
  <2>2. i # 0
    BY <1>5, <2>1
  <2>3. i - 1 \in Index /\ i - 1 < Held - 1 /\ (i - 1) + 1 = i
    BY <1>7, <2>1, <2>2 DEF Index
  <2>4. SlotAt(i - 1)' = SlotAt(i)
    BY <1>4, <2>3
  <2> QED
    BY <2>1, <2>3, <2>4
<1> QED
  BY <1>1, <1>9, <1>10, <1>12 DEF QueueInv, QueueOf, Inserting

LEMMA QueueStep ==
  ASSUME TypeInv, MaskInv, Exact, ~clashed', [Next]_vars
  PROVE  QueueInv'
<1> USE DEF Exact
<1>1. CASE Call \/ Retry \/ Decide \/ Copy \/ Prepare \/ Leave
  <2>1. UNCHANGED <<fifoVars, accepted, loads>>
    BY <1>1, Zenon DEF Call, CallWith, Retry, Decide, TestFifo, TestReq, TestFull, GiveUp, Goto, Copy,
                       Prepare, SetRetries, SetTimeout, ClearFailed, ClearWith, Leave, Count, Enable,
                       history
  <2>2. {mainPc, mainPc'} \cap {"inc", "wrap", "testEq"} = {}
    BY <1>1 DEF Call, CallWith, Retry, Decide, TestFifo, TestReq, TestFull, GiveUp, Goto, Copy,
                Prepare, SetRetries, SetTimeout, ClearFailed, ClearWith, Leave, Count, Enable, Main
  <2>3. Tip' = Tip /\ ~Inserting'
    BY <2>1, <2>2 DEF Tip, Inserting, fifoVars
  <2> QED
    BY <2>1, <2>3, QueueSame DEF Waiting, fifoVars
<1>2. CASE SetTXREQ
  <2>1. UNCHANGED fifoVars
    BY <1>2, Zenon DEF SetTXREQ
  <2>2. Waiting' = Waiting
    <3>1. loads \in [Frames -> 0..2] /\ accepted \subseteq Frames
      BY DEF TypeInv, DataOK, Frames
    <3> QED
      BY <1>2, <3>1, SendFirst DEF Waiting
  <2>3. Tip' = Tip /\ ~Inserting'
    BY <1>2, <2>1, SendFirst DEF Tip, Inserting, fifoVars
  <2> QED
    BY <2>1, <2>2, <2>3, QueueSame DEF fifoVars
<1>3. CASE Inc \/ Wrap
  <2>1. UNCHANGED <<TxFifo, FifoTxIdxR, accepted, loads, issued>> /\ Inserting
    BY <1>3 DEF Inc, Wrap, Main, Inserting, history
  <2>2. Tip' = Tip
    <3>1. CASE Inc
      <4>1. mainPc = "inc" /\ mainPc' = "wrap" /\ FifoTxIdxW' = FifoTxIdxW + 1
        BY <3>1, Zenon DEF Inc, Main
      <4> QED
        BY <4>1 DEF Tip, TypeInv, IndexInv
    <3>2. CASE Wrap
      <4>1. /\ mainPc = "wrap" /\ mainPc' = "testEq"
            /\ FifoTxIdxW' = (IF FifoTxIdxW = SW_FIFO THEN 0 ELSE FifoTxIdxW)
        BY <3>2, Zenon DEF Wrap, Main
      <4> QED
        BY <4>1 DEF Tip, TypeInv, IndexInv
    <3> QED
      BY <1>3, <3>1, <3>2
  <2> QED
    BY <2>1, <2>2, QueueSame DEF Waiting
<1>4. CASE Put \/ TestEq \/ TxFifoLoad
  BY <1>4, PutQueue, PublishQueue, LoadQueue
<1>5. CASE UNCHANGED <<fifoVars, mainPc, issued, accepted, loads>>
  <2>1. UNCHANGED <<TxFifo, FifoTxIdxR, accepted, loads, issued>> /\ Tip' = Tip /\ Inserting' = Inserting
    BY <1>5, Zenon DEF fifoVars, Tip, Inserting
  <2> QED
    BY <2>1, QueueSame DEF Waiting
<1>6. CASE UNCHANGED vars
  BY <1>5, <1>6, Zenon DEF vars, pcVars, history
<1>7. CASE EnterIsrLow \/ IsrLow \/ CheckCANTimeout \/ TxDone \/ \E e \in Errors : BusError(e)
  BY <1>4, <1>5, <1>7, OthersLeave, Zenon DEF IsrLow
<1> QED
  BY <1>1, <1>2, <1>3, <1>4, <1>6, <1>7, MainCases, Zenon DEF Next

LEMMA InitTx == Init => TxInv
<1> SUFFICES ASSUME Init PROVE TxInv
  OBVIOUS
<1>1. mainPc = "idle" /\ FifoTxIdxW = 0 /\ FifoTxIdxR = 0 /\ accepted = {} /\ issued = 0
      /\ loads = [f \in Frames |-> 0]
  BY Zenon DEF Init
<1>2. MaskInv /\ FreshInv /\ FreeInv /\ Once
  BY <1>1 DEF MaskInv, FreshInv, FreeInv, Once, Window, Unsent, Filling, Frames
<1>3. Waiting = {} /\ Held = 0 /\ ~Inserting
  BY <1>1 DEF Waiting, Held, Tip, Inserting
<1>4. QueueInv
  BY <1>3 DEF QueueInv, QueueOf, HoldsWaiting, InOrder, HoldsAll, Index
<1> QED
  BY <1>2, <1>4, InitType DEF TxInv, Exact

LEMMA TxAlways == Spec => []TxInv
<1>1. TxInv /\ TypeInv' /\ [Next]_vars => TxInv'
  <2> SUFFICES ASSUME TypeInv, MaskInv, clashed \/ Exact, TypeInv', [Next]_vars
               PROVE  MaskInv' /\ (clashed' \/ Exact')
    BY Zenon DEF TxInv
  <2>1. MaskInv'
    BY MaskStep
  <2>2. ASSUME ~clashed' PROVE Exact'
    <3>1. Exact
      BY <2>2, ClashStays
    <3>2. FreshInv' /\ Once'
      BY <2>2, <3>1, FreshStep
    <3>3. FreeInv'
      BY <2>2, <3>1, FreeStep DEF Exact
    <3>4. QueueInv'
      BY <2>2, <3>1, QueueStep
    <3> QED
      BY <3>2, <3>3, <3>4 DEF Exact
  <2> QED
    BY <2>1, <2>2
<1> QED
  BY <1>1, InitTx, TypeCorrect, PTL DEF Spec

\* The fifo holds exactly the frames that were accepted and not yet given to the
\* bus, oldest first, for every fifo size, every bus error and wherever isr_low and
\* isr_high fall, until a canTxFifo that was let into canSend takes out a frame where
\* canSend relies on it (canSend, canTxFifo).
THEOREM QueueAlwaysExact == Spec => []QueueExact
<1>1. TxInv => QueueExact
  <2> SUFFICES ASSUME TxInv, ~Inserting, ~clashed PROVE QueueOf(Queued)
    BY DEF QueueExact, QueueOf, HoldsWaiting, InOrder, HoldsAll, Index
  <2>1. Tip = FifoTxIdxW \/ mainPc \in {"wrap", "testEq"}
    BY DEF Tip
  <2>2. Held = Queued
    BY <2>1 DEF Held, Queued, Inserting
  <2> QED
    BY <2>2 DEF TxInv, Exact, QueueInv
<1> QED
  BY <1>1, TxAlways, PTL

\* No frame is put into TXB0 twice, neither by the two branches of canSend nor by
\* canSend and canTxFifo, after whatever failures and timeouts, without a clash.
THEOREM LoadedAtMostOnce == Spec => []LoadedOnce
<1>1. TxInv => LoadedOnce
  BY Zenon DEF TxInv, Exact, Once, LoadedOnce
<1> QED
  BY <1>1, TxAlways, PTL

\* A frame leaves TXB0 by being sent or by being declared failed: canSend, which
\* clears TXREQ before it copies a frame, never takes away one that is pending,
\* unless canTxFifo or canTxError put it there while canSend was at these lines.
THEOREM PendingAlwaysKept == Spec => PendingKept
<1> DEFINE Kept == TXREQ /\ ~clashed => \/ TXREQ' /\ TXB0' = TXB0
                                        \/ ~TXREQ' /\ (canTransmitFailed' \/ TxDone)
<1>1. TxInv /\ [Next]_vars => [Kept]_vars
  <2> SUFFICES ASSUME TypeInv, FreeInv, Next, TXREQ
               PROVE  \/ TXREQ' /\ TXB0' = TXB0
                      \/ ~TXREQ' /\ (canTransmitFailed' \/ TxDone)
    BY Zenon DEF TxInv, Exact
  <2>1. CASE Call \/ Retry \/ Decide \/ Put \/ Inc \/ Wrap \/ TestEq \/ Leave
    BY <2>1, Zenon DEF Call, CallWith, Retry, Decide, TestFifo, TestReq, TestFull, GiveUp, Goto, Put,
                       Inc, Wrap, TestEq, Leave, Count, Enable, SetTXBnIE, hwVars
  <2>2. CASE Copy \/ SetTXREQ
    <3>1. mainPc \in Filling
      BY <2>2 DEF Copy, SetTXREQ, Main, Filling
    <3> QED
      BY <3>1, Zenon DEF FreeInv
  <2>6. CASE Prepare
    BY <2>6, Zenon DEF Prepare, SetRetries, SetTimeout, ClearFailed, ClearWith, hwVars
  <2>3. CASE EnterIsrLow \/ IsrTx \/ TxFifoEnter \/ TxFifoBusy \/ TxFifoLoad \/ TxFifoEmpty
             \/ IsrClear \/ TxDone \/ \E e \in Errors : BusError(e)
    BY <2>3, Zenon DEF EnterIsrLow, IsrTx, TxFifoEnter, TxFifoBusy, Busy, SetTXBnIE, TxFifoLoad, Load,
                       TxFifoEmpty, IsrClear, TxDone, BusError, hwVars
  <2>4. CASE IsrErr
    BY <2>4 DEF IsrErr, hwVars, errVars, TypeInv, FlagsOK
  <2>5. CASE CheckCANTimeout
    BY <2>5 DEF CheckCANTimeout, Timeout, TypeInv, FlagsOK
  <2> QED
    BY <2>1, <2>2, <2>3, <2>4, <2>5, <2>6, MainCases, Zenon DEF Next, IsrLow
<1> QED
  BY <1>1, TxAlways, PTL DEF Spec, PendingKept

-----------------------------------------------------------------------------
(* Something always moves a queue that waits.                                *)

\* The timeout runs or canSend may pass: either gets the fifo going again.
Alive == canTransmitTimeout # 0 \/ canTransmitFailed \/ lapsed \/ clashed
\* canSend queues behind a frame that waits or is in TXB0, or has just done so.
Queueing == Held > 0 \/ mainPc \in {"testFull", "put"} \/ Inserting
\* A queue has it, but for the moment in which canTxFifo has cleared the mark
\* and not yet looked at TXB0.
AliveInv == isrPc # "txReady" => (Queueing => Alive)

LEMMA HeldWaits == ASSUME TypeInv, mainPc \notin {"wrap", "testEq"} PROVE Held > 0 <=> FifoTxIdxR # FifoTxIdxW
  BY DEF TypeInv, DataOK, IndexInv, Held, Tip

\* Steps that leave the marks up and bring no new reason to need them.
LEMMA AliveSame ==
  ASSUME AliveInv, Alive => Alive', Queueing' => Queueing \/ Alive,
         isrPc = "txReady" => isrPc' = "txReady"
  PROVE  AliveInv'
  BY Zenon DEF AliveInv

LEMMA AliveOn == ASSUME Alive' PROVE AliveInv'
  BY Zenon DEF AliveInv

LEMMA QueueingSame ==
  ASSUME UNCHANGED <<fifoVars, mainPc>> PROVE Queueing' = Queueing /\ Held' = Held
<1>1. Held' = Held /\ Inserting' = Inserting
  BY Zenon DEF Held, Tip, Inserting, fifoVars
<1> QED
  BY <1>1, Zenon DEF Queueing

LEMMA MainAlive ==
  ASSUME TypeInv, MaskInv, TimedInv, AliveInv, Call \/ MainStep PROVE AliveInv'
<1>1. isrPc = "idle" /\ isrPc' = "idle"
  BY Zenon DEF Call, CallWith, MainStep, CanSend, Retry, GiveUp, TestFifo, TestReq, TestFull, Goto, Copy,
               SetRetries, SetTimeout, ClearFailed, ClearWith, SetTXREQ, Put, Inc, Wrap, TestEq, Count,
               Enable, Main
<1>2. isrPc # "txReady" /\ (Queueing => Alive)
  BY <1>1 DEF AliveInv
<1>3. CASE SetTimeout
  <2>1. canTransmitTimeout' = 2
    BY <1>3, Zenon DEF SetTimeout, StartTimeout
  <2> QED
    BY <2>1, AliveOn DEF Alive
<1>4. CASE ClearFailed
  <2>1. mainPc = "failed" /\ UNCHANGED <<canTransmitTimeout, lapsed>>
    BY <1>4, Zenon DEF ClearFailed, ClearWith, Main
  <2>2. canTransmitTimeout # 0 \/ lapsed
    BY <1>1, <2>1 DEF TimedInv, TimerInv
  <2> QED
    BY <2>1, <2>2, AliveOn, Zenon DEF Alive
<1>5. CASE Put \/ Inc \/ Wrap \/ TestEq
  <2>1. UNCHANGED <<errVars, lapsed, clashed>> /\ (mainPc = "put" \/ Inserting)
    BY <1>5, Zenon DEF Put, Inc, Wrap, TestEq, Main, Inserting, history
  <2>2. Alive
    BY <1>2, <2>1 DEF Queueing
  <2> QED
    BY <2>1, <2>2, AliveOn, Zenon DEF Alive, errVars
<1>6. CASE Call \/ Retry \/ Copy \/ SetRetries \/ SetTXREQ \/ Leave
  <2>1. /\ UNCHANGED <<fifoVars, canTransmitTimeout, canTransmitFailed, lapsed, clashed>>
        /\ {mainPc, mainPc'} \cap {"testFull", "put", "inc", "wrap", "testEq"} = {}
    BY <1>6 DEF Call, CallWith, Retry, Copy, SetRetries, SetTXREQ, Leave, Count, Enable, Main, errVars,
                history
  <2>2. Held' = Held /\ mainPc' \notin {"testFull", "put"} /\ ~Inserting'
    BY <2>1 DEF Held, Tip, Inserting, fifoVars
  <2>3. Queueing' => Queueing
    BY <2>2, Zenon DEF Queueing
  <2>4. Alive => Alive'
    BY <2>1, Zenon DEF Alive
  <2> QED
    BY <1>2, <2>3, <2>4, AliveSame, Zenon
<1>7. CASE Decide
  <2>1. /\ UNCHANGED <<fifoVars, canTransmitTimeout, canTransmitFailed, lapsed, clashed>>
        /\ {mainPc, mainPc'} \cap {"inc", "wrap", "testEq"} = {}
        /\ mainPc' \in {"testFull", "put"} =>
             mainPc = "testFull" \/ FifoTxIdxR # FifoTxIdxW \/ TXREQ
    BY <1>7 DEF Decide, TestFifo, TestReq, TestFull, GiveUp, Goto, Main, errVars, history
  <2>2. Held' = Held /\ ~Inserting' /\ mainPc \notin {"wrap", "testEq"}
    BY <2>1 DEF Held, Tip, Inserting, fifoVars
  <2>3. mainPc' \in {"testFull", "put"} => Alive
    <3>1. FifoTxIdxR # FifoTxIdxW => Alive
      BY <1>2, <2>2, HeldWaits DEF Queueing
    <3>2. TXREQ => Alive
      BY Zenon DEF TimedInv, PendingIsTimed, Alive
    <3>3. mainPc = "testFull" => Alive
      BY <1>2 DEF Queueing
    <3> QED
      BY <2>1, <3>1, <3>2, <3>3, Zenon
  <2>4. Queueing' => Queueing \/ Alive
    BY <2>2, <2>3, Zenon DEF Queueing
  <2>5. Alive => Alive'
    BY <2>1, Zenon DEF Alive
  <2> QED
    BY <1>2, <2>4, <2>5, AliveSame, Zenon
<1> QED
  BY <1>3, <1>4, <1>5, <1>6, <1>7, MainCases, Zenon DEF Prepare

LEMMA OthersAlive ==
  ASSUME TypeInv, MaskInv, TimedInv, AliveInv,
         EnterIsrLow \/ IsrLow \/ CheckCANTimeout \/ TxDone \/ \E e \in Errors : BusError(e)
  PROVE  AliveInv'
<1>1. CASE EnterIsrLow \/ IsrTx \/ IsrClear \/ TxDone \/ \E e \in Errors : BusError(e)
  <2>1. /\ UNCHANGED <<fifoVars, mainPc, canTransmitTimeout, canTransmitFailed, lapsed, clashed>>
        /\ isrPc = "txReady" => isrPc' = "txReady"
    BY <1>1 DEF EnterIsrLow, IsrTx, IsrClear, TxDone, BusError, pcVars, errVars, history
  <2>2. Queueing' = Queueing /\ Alive' = Alive
    BY <2>1, QueueingSame, Zenon DEF Alive
  <2> QED
    BY <2>1, <2>2, AliveSame, Zenon
<1>2. CASE TxFifoEnter
  BY <1>2, Zenon DEF TxFifoEnter, AliveInv
<1>3. CASE TxFifoBusy
  <2>1. TXREQ /\ UNCHANGED <<canTransmitTimeout, lapsed>>
    BY <1>3, Zenon DEF TxFifoBusy, Busy, history
  <2> QED
    BY <2>1, AliveOn, Zenon DEF TimedInv, PendingIsTimed, Alive
<1>4. CASE TxFifoLoad
  <2>1. canTransmitTimeout' = 2
    BY <1>4, Zenon DEF TxFifoLoad, Load, StartTimeout
  <2> QED
    BY <2>1, AliveOn DEF Alive
<1>5. CASE TxFifoEmpty
  <2>1. /\ isrPc # "idle" /\ UNCHANGED <<fifoVars, mainPc>> /\ FifoTxIdxR = FifoTxIdxW
        /\ lapsed' = (lapsed \/ Starve)
    BY <1>5 DEF TxFifoEmpty
  <2>2. CASE Starve
    BY <2>1, <2>2, AliveOn, Zenon DEF Alive
  <2>3. CASE ~Starve
    <3>1. mainPc \notin {"testFull", "put", "inc", "wrap", "testEq"}
      BY <2>1, <2>3, Outside DEF Starve
    <3>2. ~(Held > 0)
      BY <2>1, <3>1, HeldWaits
    <3>3. ~Queueing
      BY <3>1, <3>2 DEF Queueing, Inserting
    <3> QED
      BY <2>1, <3>3, QueueingSame, Zenon DEF AliveInv
  <2> QED
    BY <2>2, <2>3
<1>6. CASE IsrErr
  <2>1. UNCHANGED <<fifoVars, mainPc>>
    BY <1>6, Zenon DEF IsrErr
  <2>2. isrPc # "txReady"
    BY <1>6 DEF IsrErr
  <2>3. Alive => Alive'
    <3>1. CASE ~ERRIF
      BY <1>6, <3>1, Zenon DEF IsrErr, errVars, Alive
    <3>2. CASE ERRIF
      <4> DEFINE busErr == TXERR /\ ~LarbBoost
      <4>1. /\ canTransmitFailed' = (canTransmitFailed \/ LarbGiveUp \/ busErr)
            /\ canTransmitTimeout' = (IF LarbGiveUp \/ busErr THEN 0 ELSE canTransmitTimeout)
            /\ (lapsed => lapsed') /\ (clashed => clashed')
        BY <1>6, <3>2, Zenon DEF IsrErr
      <4> HIDE DEF busErr
      <4> QED
        BY <4>1, Zenon DEF Alive
    <3> QED
      BY <3>1, <3>2
  <2>4. Queueing' = Queueing
    BY <2>1, QueueingSame, Zenon
  <2> QED
    BY <2>2, <2>3, <2>4, AliveSame, Zenon
<1>7. CASE CheckCANTimeout
  <2>1. /\ canTransmitTimeout # 0 /\ canTransmitTimeout' = canTransmitTimeout - 1
        /\ canTransmitTimeout = 1 => canTransmitFailed'
    BY <1>7, Zenon DEF CheckCANTimeout, Timeout
  <2>2. canTransmitTimeout \in 0..2
    BY DEF TypeInv, DataOK
  <2>3. canTransmitTimeout = 1 \/ canTransmitTimeout' # 0
    BY ONLY <2>1, <2>2
  <2> QED
    BY <2>1, <2>3, AliveOn, Zenon DEF Alive
<1> QED
  BY <1>1, <1>2, <1>3, <1>4, <1>5, <1>6, <1>7, Zenon DEF IsrLow

\* As long as frames wait and TXB0 is free, the timeout runs or the failed mark lets
\* the next canSend past, for every fifo size, every bus error and wherever the
\* interrupts fall, unless canTxFifo or canTxError ran where canSend or TXB0 counted
\* on the timeout (lapsed) or on the fifo (clashed): no other order of sending,
\* timeouts and transmit interrupts, which isr_low may lose, stops the fifo for ever.
THEOREM NoQueueOrphaned == Spec => []NoOrphan
<1>1. Init => AliveInv
  <2> SUFFICES ASSUME Init PROVE ~Queueing
    BY Zenon DEF AliveInv
  <2>1. mainPc = "idle" /\ FifoTxIdxW = 0 /\ FifoTxIdxR = 0
    BY Zenon DEF Init
  <2> QED
    BY <2>1 DEF Queueing, Held, Tip, Inserting
<1>2. TypeInv /\ MaskInv /\ TimedInv /\ AliveInv /\ [Next]_vars => AliveInv'
  <2> SUFFICES ASSUME TypeInv, MaskInv, TimedInv, AliveInv, [Next]_vars PROVE AliveInv'
    OBVIOUS
  <2>1. CASE UNCHANGED vars
    <3>1. UNCHANGED <<canTransmitTimeout, canTransmitFailed, lapsed, clashed, isrPc, mainPc, fifoVars>>
      BY <2>1, Zenon DEF vars, errVars, pcVars, history
    <3> QED
      BY <3>1, QueueingSame, Zenon DEF AliveInv, Alive
  <2>2. CASE Next
    BY <2>2, MainAlive, OthersAlive, Zenon DEF Next
  <2> QED
    BY <2>1, <2>2
<1>3. TypeInv /\ AliveInv => NoOrphan
  <2> SUFFICES ASSUME TypeInv, AliveInv, isrPc = "idle", mainPc \in {"idle", "full"}, Queued > 0
               PROVE  Alive
    BY Zenon DEF NoOrphan, Alive
  <2>1. Held = Queued
    BY DEF Held, Tip, Queued
  <2> QED
    BY <2>1 DEF AliveInv, Queueing
<1> QED
  BY <1>1, <1>2, <1>3, TimedAlways, PTL DEF Spec

=============================================================================

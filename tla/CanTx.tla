------------------------------- MODULE CanTx -------------------------------
(***************************************************************************)
(* The CAN transmit path of canbus.c: canbusSend and canSend, run by the   *)
(* main loop; canTxFifo and canTxError, run by the low priority interrupt  *)
(* isr_low of isr.c; checkCANTimeout, run by the high priority interrupt   *)
(* every 500 ms; and transmit buffer TXB0 of the ECAN module.              *)
(*                                                                         *)
(* The main program moves only while no interrupt routine is active.       *)
(* isr_low is preempted by isr_high, which is short enough to be a single  *)
(* step.  The ECAN hardware moves at any time.                             *)
(*                                                                         *)
(* Frames are numbered in the order of the canbusSend calls.               *)
(***************************************************************************)
EXTENDS Integers

CONSTANTS
  SW_FIFO,        \* slots of TxFifo
  LARB_RETRIES,   \* lost arbitrations before the priority is raised
  MaxFrames,      \* bound: number of canbusSend calls
  Errors,         \* transmit error interrupts the bus may cause
  RxIdx           \* values FifoIdxR, the RECEIVE index, may have meanwhile

FULL == 255       \* FifoTxIdxW when the fifo is full (0xFF)

ASSUME TxAssumption ==
  /\ SW_FIFO \in 2..254
  /\ LARB_RETRIES \in 1..255
  /\ MaxFrames \in Nat \ {0}
  /\ Errors \subseteq {"larb", "buserr", "other"}
  /\ RxIdx \subseteq 0..31 /\ RxIdx # {}

VARIABLES
  \* ECAN module
  TXREQ,          \* TXB0 holds a frame to be sent
  TXB0,           \* the frame in TXB0, 0 when it was cleared
  TXLARB, TXERR,  \* status bits of TXB0CON, cleared when TXREQ is set
  TXBnIF, ERRIF,  \* interrupt flags
  TXBnIE,         \* transmit interrupt enable
  \* canbus.c
  TxFifo, FifoTxIdxW, FifoTxIdxR,
  larbRetryCount, canTransmitTimeout, canTransmitFailed, maxCanTxFifo,
  \* control: next line of the main program and of isr_low
  mainPc, isrPc, isrRet,
  ticked,         \* isr_high has run its 500 ms part during this canSend or isr_low
  \* history: what happened, read by properties only
  issued,         \* number of canbusSend calls: the frame being sent
  accepted,       \* the frames canSend has returned TRUE for
  loads,          \* how often each frame was put into TXB0 (2 stands for more)
  opened,         \* isr_low was entered while this canSend kept TXBnIE masked
  clashed,        \* canTxFifo, let in that way, moved a frame canSend relied on
  lapsed,         \* the timeout was taken from a frame that TXB0 or canSend has
  unspent         \* a transmission has failed since a frame last passed the queue

hwVars == <<TXREQ, TXB0, TXLARB, TXERR, TXBnIF, ERRIF, TXBnIE>>
fifoVars == <<TxFifo, FifoTxIdxW, FifoTxIdxR>>
errVars == <<larbRetryCount, canTransmitTimeout, canTransmitFailed>>
pcVars == <<mainPc, isrPc, isrRet, ticked, opened>>
history == <<issued, accepted, loads, clashed, lapsed, unspent>>
vars == <<hwVars, fifoVars, errVars, maxCanTxFifo, pcVars, history>>

Frames == 1..MaxFrames

\* The lines of canSend at which TXBnIE is masked.
Window == {"testFifo", "testReq", "copy", "retries", "timeout", "failed", "request",
           "enable", "testFull", "put", "inc", "wrap", "testEq", "count",
           "countFull", "enableOk", "enableFull"}
\* Those at which canSend has found TXB0 free and not yet raised TXREQ.
Filling == {"copy", "retries", "timeout", "failed", "request"}

Init ==
  /\ TXREQ = FALSE /\ TXB0 = 0 /\ TXLARB = FALSE /\ TXERR = FALSE
  /\ TXBnIF = FALSE /\ ERRIF = FALSE /\ TXBnIE = FALSE
  /\ TxFifo = [s \in 0..SW_FIFO-1 |-> 0]
  /\ FifoTxIdxW = 0 /\ FifoTxIdxR = 0
  /\ larbRetryCount = 0 /\ canTransmitTimeout = 0
  /\ canTransmitFailed = FALSE /\ maxCanTxFifo = 0
  /\ mainPc = "idle" /\ isrPc = "idle" /\ isrRet = "clear" /\ ticked = FALSE
  /\ issued = 0 /\ accepted = {} /\ loads = [f \in Frames |-> 0]
  /\ opened = FALSE /\ clashed = FALSE /\ lapsed = FALSE /\ unspent = FALSE

-----------------------------------------------------------------------------
(* What software does to TXB0. *)

\* TXREQ goes up for frame f: the module clears the status bits, and f has
\* been given to the bus once more.
Request(f) ==
  /\ TXREQ' = TRUE
  /\ TXLARB' = FALSE /\ TXERR' = FALSE
  /\ loads' = IF f \in Frames /\ ~TXREQ /\ loads[f] < 2
              THEN [loads EXCEPT ![f] = @ + 1] ELSE loads

\* The timeout of a fresh transmission, canSend and canTxFifo alike.
StartTimeout == canTransmitTimeout' = 2 /\ lapsed' = FALSE

-----------------------------------------------------------------------------
(* The main program: canbusSend calling canSend. *)

\* ticked and opened are dropped when canSend is left.
Main(from, to) == /\ isrPc = "idle"
                  /\ mainPc = from /\ mainPc' = to
                  /\ ticked' = (ticked /\ to \in Window)
                  /\ opened' = (opened /\ to \in Window)
                  /\ UNCHANGED <<isrPc, isrRet>>

\* A line that only decides where to go on.
Goto(from, to) == /\ Main(from, to)
                  /\ UNCHANGED <<hwVars, fifoVars, errVars, maxCanTxFifo, history>>

SetTXBnIE(b) == TXBnIE' = b /\ UNCHANGED <<TXREQ, TXB0, TXLARB, TXERR, TXBnIF, ERRIF>>

\* canSend is entered; the transmit interrupt is masked.  Slip: it is not.
CallWith(masked) ==
  /\ issued < MaxFrames
  /\ Main("idle", "testFifo")
  /\ issued' = issued + 1
  /\ SetTXBnIE(TXBnIE /\ ~masked)
  /\ UNCHANGED <<fifoVars, errVars, maxCanTxFifo, accepted, loads, clashed, lapsed, unspent>>
CallUnmasked == CallWith(FALSE)
Call == CallWith(TRUE)

\* canSend returned FALSE and TXWARN is clear: canSend is called again.
Retry ==
  /\ Main("full", "testFifo")
  /\ SetTXBnIE(FALSE)
  /\ UNCHANGED <<fifoVars, errVars, maxCanTxFifo, history>>

\* canSend returned FALSE and TXWARN is set: the frame is given up.
GiveUp == Goto("full", "idle")

\* The condition of canSend reads the indices, then TXREQ.  Slips: one of its
\* parts is forgotten.
TestFifoNotFailed == Goto("testFifo", IF FifoTxIdxR = FifoTxIdxW THEN "testReq"
                                                                 ELSE "testFull")
TestFifo == Goto("testFifo", IF FifoTxIdxR = FifoTxIdxW \/ canTransmitFailed
                             THEN "testReq" ELSE "testFull")

TestReqNever == Goto("testReq", "copy")
TestReq == Goto("testReq", IF TXREQ THEN "testFull" ELSE "copy")

\* memcpy to TXB0 starts with con = 0, which clears the whole of TXB0CON.
Copy ==
  /\ Main("copy", "retries")
  /\ TXB0' = issued
  /\ TXREQ' = FALSE /\ TXLARB' = FALSE /\ TXERR' = FALSE
  /\ UNCHANGED <<TXBnIF, ERRIF, TXBnIE, fifoVars, errVars, maxCanTxFifo, history>>

\* The lines after the memcpy, between which an interrupt may fall.
SetRetries ==
  /\ Main("retries", "timeout")
  /\ larbRetryCount' = LARB_RETRIES
  /\ UNCHANGED <<hwVars, fifoVars, canTransmitTimeout, canTransmitFailed, maxCanTxFifo, history>>

SetTimeout ==
  /\ Main("timeout", "failed")
  /\ StartTimeout
  /\ UNCHANGED <<hwVars, fifoVars, larbRetryCount, canTransmitFailed, maxCanTxFifo,
                 issued, accepted, loads, clashed, unspent>>

\* The failure that let the frame past the queue is used up.  Slip: it is not.
ClearWith(failed) ==
  /\ Main("failed", "request")
  /\ canTransmitFailed' = failed
  /\ unspent' = FALSE
  /\ UNCHANGED <<hwVars, fifoVars, larbRetryCount, canTransmitTimeout, maxCanTxFifo,
                 issued, accepted, loads, clashed, lapsed>>
ClearFailedNot == ClearWith(canTransmitFailed)
ClearFailed == ClearWith(FALSE)

SetTXREQ ==
  /\ Main("request", "enable")
  /\ Request(TXB0)
  /\ accepted' = accepted \union {issued}
  /\ UNCHANGED <<TXB0, TXBnIF, ERRIF, TXBnIE, fifoVars, errVars, maxCanTxFifo,
                 issued, clashed, lapsed, unspent>>

\* Slip: the mark 0xFF is not looked at.
TestFullNever == Goto("testFull", "put")
TestFull == Goto("testFull", IF FifoTxIdxW = FULL THEN "countFull" ELSE "put")

Put ==
  /\ Main("put", "inc")
  /\ TxFifo' = [TxFifo EXCEPT ![FifoTxIdxW] = issued]
  /\ UNCHANGED <<hwVars, FifoTxIdxW, FifoTxIdxR, errVars, maxCanTxFifo, history>>

\* ++FifoTxIdxW, the wrap to 0 and the mark 0xFF are separate instructions.
Inc ==
  /\ Main("inc", "wrap")
  /\ FifoTxIdxW' = FifoTxIdxW + 1
  /\ UNCHANGED <<hwVars, TxFifo, FifoTxIdxR, errVars, maxCanTxFifo, history>>

Wrap ==
  /\ Main("wrap", "testEq")
  /\ FifoTxIdxW' = IF FifoTxIdxW = SW_FIFO THEN 0 ELSE FifoTxIdxW
  /\ UNCHANGED <<hwVars, TxFifo, FifoTxIdxR, errVars, maxCanTxFifo, history>>

TestEq ==
  /\ Main("testEq", "count")
  /\ FifoTxIdxW' = IF FifoTxIdxR = FifoTxIdxW THEN FULL ELSE FifoTxIdxW
  /\ accepted' = accepted \union {issued}
  /\ UNCHANGED <<hwVars, TxFifo, FifoTxIdxR, errVars, maxCanTxFifo, issued, loads,
                 clashed, lapsed, unspent>>

\* The high water mark: compared with the receive index, stored with the
\* transmit index, in 8 bit arithmetic, and without regard to the mark 0xFF.
Count(from, to) ==
  /\ Main(from, to)
  /\ LET hiIndex == IF FifoTxIdxW < FifoTxIdxR THEN FifoTxIdxW + SW_FIFO
                                               ELSE FifoTxIdxW
     IN \E rx \in RxIdx :
          maxCanTxFifo' = IF (hiIndex - rx) % 256 > maxCanTxFifo
                          THEN (hiIndex - FifoTxIdxR) % 256 ELSE maxCanTxFifo
  /\ UNCHANGED <<hwVars, fifoVars, errVars, history>>

\* canSend unmasks the interrupt, twice on the way by TXB0, and returns.
Enable(from, to) ==
  /\ Main(from, to)
  /\ SetTXBnIE(TRUE)
  /\ UNCHANGED <<fifoVars, errVars, maxCanTxFifo, history>>

CanSend ==
  \/ TestFifo \/ TestReq \/ Copy
  \/ SetRetries \/ SetTimeout \/ ClearFailed \/ SetTXREQ \/ Enable("enable", "enableOk")
  \/ TestFull \/ Put \/ Inc \/ Wrap \/ TestEq
  \/ Count("count", "enableOk") \/ Count("countFull", "enableFull")
  \/ Enable("enableOk", "idle") \/ Enable("enableFull", "full")

-----------------------------------------------------------------------------
(* isr_low.  It is entered by an enabled transmit interrupt or at any time  *)
(* by another low priority source (timer tick, receive watermark, CAN       *)
(* error), and looks at the flags only, never at the enables.               *)

EnterIsrLow ==
  /\ isrPc = "idle"
  /\ isrPc' = "tx"
  /\ opened' = (opened \/ (mainPc \in Window /\ ~TXBnIE))
  /\ UNCHANGED <<hwVars, fifoVars, errVars, maxCanTxFifo, mainPc, isrRet, ticked, history>>

\* Transmit buffer interrupt?
IsrTx ==
  /\ isrPc = "tx"
  /\ IF TXBnIF
     THEN /\ TXBnIE' = FALSE /\ TXBnIF' = FALSE
          /\ isrPc' = "txFifo" /\ isrRet' = "err"
     ELSE isrPc' = "err" /\ UNCHANGED <<TXBnIE, TXBnIF, isrRet>>
  /\ UNCHANGED <<TXREQ, TXB0, TXLARB, TXERR, ERRIF, fifoVars, errVars,
                 maxCanTxFifo, mainPc, ticked, opened, history>>

\* canTxFifo
TxFifoEnter ==
  /\ isrPc = "txFifo"
  /\ canTransmitFailed' = FALSE
  /\ isrPc' = "txReady"
  /\ UNCHANGED <<hwVars, fifoVars, larbRetryCount, canTransmitTimeout,
                 maxCanTxFifo, mainPc, isrRet, ticked, opened, history>>

\* TXB0 is busy.  Slip: the timeout is cleared nevertheless.
Busy(timeout) ==
  /\ isrPc = "txReady" /\ TXREQ
  /\ SetTXBnIE(TRUE)
  /\ canTransmitTimeout' = timeout
  /\ isrPc' = isrRet
  /\ UNCHANGED <<fifoVars, larbRetryCount, canTransmitFailed, maxCanTxFifo, mainPc,
                 isrRet, ticked, opened, history>>
TxFifoBusyUntimed == Busy(0)
TxFifoBusy == Busy(canTransmitTimeout)

\* canSend is interrupted where a frame that leaves the fifo undoes what it has
\* found out: TXB0 was free, or the frame it is putting into the fifo is in it.
Clash == opened /\ \/ mainPc \in Filling
                   \/ mainPc \in {"wrap", "testEq"} /\ TxFifo[FifoTxIdxR] = issued

\* The oldest frame goes to TXB0; r and w are the indices from then on.
Load(r, w) ==
  /\ isrPc = "txReady" /\ ~TXREQ
  /\ FifoTxIdxR # FifoTxIdxW
  /\ TXB0' = TxFifo[FifoTxIdxR]
  /\ larbRetryCount' = LARB_RETRIES
  /\ StartTimeout
  /\ Request(TxFifo[FifoTxIdxR])
  /\ FifoTxIdxR' = r /\ FifoTxIdxW' = w
  /\ TXBnIE' = TRUE
  /\ isrPc' = isrRet
  /\ clashed' = (clashed \/ Clash)
  /\ UNCHANGED <<TXBnIF, ERRIF, TxFifo, canTransmitFailed, maxCanTxFifo,
                 mainPc, isrRet, ticked, opened, issued, accepted, unspent>>

NextR == IF FifoTxIdxR + 1 = SW_FIFO THEN 0 ELSE FifoTxIdxR + 1
Unfull == IF FifoTxIdxW = FULL THEN FifoTxIdxR ELSE FifoTxIdxW

\* Slip: the mark 0xFF is not taken back.
TxFifoLoadStaysFull == Load(NextR, FifoTxIdxW)
TxFifoLoad == Load(NextR, Unfull)

\* canSend is interrupted where it counts on the timeout: it is about to raise
\* TXREQ, or to queue behind a frame that was in TXB0.
Starve == opened /\ mainPc \in {"failed", "request", "testFull", "put", "inc", "wrap", "testEq"}

TxFifoEmpty ==
  /\ isrPc = "txReady" /\ ~TXREQ
  /\ FifoTxIdxR = FifoTxIdxW
  /\ canTransmitTimeout' = 0
  /\ TXLARB' = FALSE /\ TXERR' = FALSE      \* TXB0CON = 0
  /\ TXBnIE' = FALSE
  /\ isrPc' = isrRet
  /\ lapsed' = (lapsed \/ Starve)
  /\ UNCHANGED <<TXREQ, TXB0, TXBnIF, ERRIF, fifoVars, larbRetryCount,
                 canTransmitFailed, maxCanTxFifo, mainPc, isrRet, ticked, opened,
                 issued, accepted, loads, clashed, unspent>>

\* The last retry of a frame that keeps losing arbitration raises its priority:
\* TXREQ is cleared and set again, which also clears the status bits.
LarbGiveUp == TXLARB /\ larbRetryCount = 0
LarbBoost == TXLARB /\ larbRetryCount = 1
LateBoost == LarbBoost /\ ~TXREQ       \* the frame was sent or aborted meanwhile

\* canTxError, up to its call of canTxFifo.  A bus error clears the timeout but
\* TXREQ of TXB1, and a boost requests a frame anew that may be over.
IsrErr ==
  /\ isrPc = "err"
  /\ IF ~ERRIF
     THEN /\ isrPc' = "clear"
          /\ UNCHANGED <<ERRIF, TXREQ, TXLARB, TXERR, errVars, isrRet, clashed, lapsed, unspent>>
     ELSE LET busErr == TXERR /\ ~LarbBoost
              failed == canTransmitFailed \/ LarbGiveUp \/ busErr
          IN /\ ERRIF' = FALSE
             /\ larbRetryCount' = IF TXLARB /\ larbRetryCount > 0
                                  THEN larbRetryCount - 1 ELSE larbRetryCount
             /\ TXREQ' = ((TXREQ \/ LarbBoost) /\ ~LarbGiveUp)
             /\ TXLARB' = (TXLARB /\ ~LarbBoost)
             /\ TXERR'  = (TXERR /\ ~LarbBoost)
             /\ canTransmitFailed' = failed
             /\ canTransmitTimeout' = IF LarbGiveUp \/ busErr THEN 0
                                      ELSE canTransmitTimeout
             /\ isrPc' = IF failed THEN "txFifo" ELSE "clear"
             /\ isrRet' = "clear"
             /\ clashed' = (clashed \/ (LateBoost /\ opened /\ mainPc \in Filling))
             /\ lapsed' = (lapsed \/ (busErr /\ TXREQ') \/ LateBoost)
             /\ unspent' = (unspent \/ LarbGiveUp \/ busErr)
  /\ UNCHANGED <<TXB0, TXBnIF, TXBnIE, fifoVars, maxCanTxFifo, mainPc, ticked, opened,
                 issued, accepted, loads>>

\* isr_low ends with PIR3 = 0: every CAN flag, whether it was looked at or not.
IsrClear ==
  /\ isrPc = "clear"
  /\ TXBnIF' = FALSE /\ ERRIF' = FALSE
  /\ isrPc' = "idle"
  /\ ticked' = (ticked /\ mainPc \in Window)
  /\ UNCHANGED <<TXREQ, TXB0, TXLARB, TXERR, TXBnIE, fifoVars, errVars,
                 maxCanTxFifo, mainPc, isrRet, opened, history>>

IsrLow == \/ IsrTx \/ TxFifoEnter \/ TxFifoBusy \/ TxFifoLoad \/ TxFifoEmpty
          \/ IsrErr \/ IsrClear

-----------------------------------------------------------------------------
(* isr_high, every 500 ms: checkCANTimeout.  canSend and isr_low take some   *)
(* microseconds, so no two of these calls fall into one of them.            *)

\* Slip: the timeout aborts without raising canTransmitFailed.
Timeout(fails) ==
  /\ ~ticked
  /\ ticked' = (isrPc # "idle" \/ mainPc \in Window)
  /\ canTransmitTimeout # 0
  /\ canTransmitTimeout' = canTransmitTimeout - 1
  /\ canTransmitFailed' = (canTransmitFailed \/ (fails /\ canTransmitTimeout = 1))
  /\ TXREQ' = (TXREQ /\ canTransmitTimeout # 1)
  /\ unspent' = (unspent \/ canTransmitTimeout = 1)
  /\ UNCHANGED <<TXB0, TXLARB, TXERR, TXBnIF, ERRIF, TXBnIE, fifoVars, larbRetryCount,
                 maxCanTxFifo, mainPc, isrPc, isrRet, opened, issued, accepted, loads,
                 clashed, lapsed>>
TimeoutNotFailed == Timeout(FALSE)
CheckCANTimeout == Timeout(TRUE)

-----------------------------------------------------------------------------
(* The ECAN module and the bus. *)

TxDone ==
  /\ TXREQ
  /\ TXREQ' = FALSE
  /\ TXBnIF' = TRUE
  /\ UNCHANGED <<TXB0, TXLARB, TXERR, ERRIF, TXBnIE, fifoVars, errVars,
                 maxCanTxFifo, pcVars, history>>

BusError(e) ==
  /\ e \in {"larb", "buserr"} => TXREQ
  /\ TXLARB' = (TXLARB \/ e = "larb")
  /\ TXERR'  = (TXERR \/ e = "buserr")
  /\ ERRIF'  = TRUE
  /\ UNCHANGED <<TXREQ, TXB0, TXBnIF, TXBnIE, fifoVars, errVars, maxCanTxFifo,
                 pcVars, history>>

MainStep == Retry \/ GiveUp \/ CanSend

Next ==
  \/ Call \/ MainStep
  \/ EnterIsrLow \/ IsrLow
  \/ CheckCANTimeout
  \/ TxDone
  \/ \E e \in Errors : BusError(e)

Spec == Init /\ [][Next]_vars

\* The tick timer interrupts for ever, a routine that was entered runs on, and
\* the processor returns to the main program between interrupts.  Nothing is
\* promised of the bus.
Fairness ==
  /\ SF_vars(MainStep)
  /\ WF_vars(EnterIsrLow) /\ WF_vars(IsrLow)
  /\ SF_vars(CheckCANTimeout)

FairSpec == Spec /\ Fairness

-----------------------------------------------------------------------------
(* Properties *)

FlagsOK ==
  /\ TXREQ \in BOOLEAN /\ TXLARB \in BOOLEAN /\ TXERR \in BOOLEAN
  /\ TXBnIF \in BOOLEAN /\ ERRIF \in BOOLEAN /\ TXBnIE \in BOOLEAN
  /\ canTransmitFailed \in BOOLEAN
  /\ ticked \in BOOLEAN /\ opened \in BOOLEAN
  /\ clashed \in BOOLEAN /\ lapsed \in BOOLEAN /\ unspent \in BOOLEAN

DataOK ==
  /\ TXB0 \in 0..MaxFrames
  /\ TxFifo \in [0..SW_FIFO-1 -> 0..MaxFrames]
  /\ FifoTxIdxW \in 0..SW_FIFO \union {FULL}
  /\ FifoTxIdxR \in 0..SW_FIFO-1
  /\ larbRetryCount \in 0..255
  /\ canTransmitTimeout \in 0..2
  /\ maxCanTxFifo \in 0..255
  /\ mainPc \in {"idle", "full"} \union Window
  /\ isrPc \in {"idle", "tx", "txFifo", "txReady", "err", "clear"}
  /\ isrRet \in {"err", "clear"}
  /\ issued \in 0..MaxFrames
  /\ accepted \subseteq 1..issued
  /\ loads \in [Frames -> 0..2]

\* Every variable holds a value of its C type, narrowed to what the code uses;
\* the read index is always a slot, the write index a slot, the wrap value
\* reached by ++FifoTxIdxW for one instruction, or the mark 0xFF.
TypeOK == FlagsOK /\ DataOK

\* The slot i places after the read index, and the number of frames queued.
SlotAt(i) == IF FifoTxIdxR + i >= SW_FIFO THEN FifoTxIdxR + i - SW_FIFO
                                          ELSE FifoTxIdxR + i
Queued == IF FifoTxIdxW = FULL THEN SW_FIFO
          ELSE IF FifoTxIdxW >= FifoTxIdxR THEN FifoTxIdxW - FifoTxIdxR
          ELSE FifoTxIdxW + SW_FIFO - FifoTxIdxR

\* canSend is between putting a frame into its slot and publishing the index.
Inserting == mainPc \in {"inc", "wrap", "testEq"}

Waiting == {f \in accepted : loads[f] = 0}

\* The fifo holds exactly the frames that were accepted and have not been given
\* to the bus, oldest first, whatever canSend, canTxFifo, the timeouts and the
\* arbitration retries did before, and although isr_low may run between any two
\* lines of canSend; unless it took a frame out where canSend relied on it.
QueueExact ==
  ~Inserting /\ ~clashed =>
    /\ \A i \in 0..SW_FIFO-1 : i < Queued => TxFifo[SlotAt(i)] \in Waiting
    /\ \A i, j \in 0..SW_FIFO-1 :
         i < j /\ j < Queued => TxFifo[SlotAt(i)] < TxFifo[SlotAt(j)]
    /\ \A f \in Waiting : \E i \in 0..SW_FIFO-1 :
         i < Queued /\ TxFifo[SlotAt(i)] = f

\* No frame is put into TXB0 twice: not by both branches of canSend, and not by
\* canSend and canTxFifo, unless they clashed.
LoadedOnce == clashed \/ \A f \in Frames : loads[f] <= 1

\* canSend writes only to slots of TxFifo, so the memcpy stays in the array
\* even when isr_low runs between the test for 0xFF and the copy, clash or not.
PutInBounds == mainPc = "put" => FifoTxIdxW \in 0..SW_FIFO-1

\* As long as frames are queued and TXB0 is free, something is left that gets the
\* fifo going again: the timeout is still running, or the failed flag is up, which
\* lets the next canSend past the queue.  Without either the fifo would stand
\* still for ever, since canSend only queues behind a fifo that is not empty.
NoOrphan ==
  isrPc = "idle" /\ mainPc \in {"idle", "full"} /\ Queued > 0 /\ ~TXREQ
    => canTransmitTimeout # 0 \/ canTransmitFailed \/ lapsed \/ clashed

\* A frame in TXB0 is under the timeout of checkCANTimeout, wherever the interrupts
\* fall, unless canTxError or a canTxFifo within canSend took the timeout away.
PendingIsTimed == TXREQ => canTransmitTimeout # 0 \/ lapsed

\* A frame leaves TXB0 because it was sent, or because the transmission was
\* declared failed (timeout, or arbitration lost once too often): nothing
\* overwrites or withdraws a frame the bus could still send, short of a clash.
PendingKept ==
  [][TXREQ /\ ~clashed => \/ TXREQ' /\ TXB0' = TXB0
                          \/ ~TXREQ' /\ (canTransmitFailed' \/ TxDone)]_vars

\* Each failed transmission lets one frame at most pass those that wait: between
\* two frames canSend hands to TXB0 past the queue, another one has failed.
OvertakeOnlyAfterFailure ==
  [][mainPc = "failed" /\ mainPc' = "request" /\ Queued > 0 => unspent]_vars

\* canbusSend does not spin for ever in the main loop, even on a dead bus that
\* never raises TXWARN, unless isr_low was let into canSend or canTxError took the
\* timeout from a frame that stays in TXB0.
SendReturns == mainPc = "full" ~> mainPc = "idle" \/ lapsed \/ clashed

\* canbusSend returns, whatever interrupts come: what masking TXBnIE is for.
SendAlwaysReturns == mainPc = "full" ~> mainPc = "idle"

=============================================================================

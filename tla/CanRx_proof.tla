---------------------------- MODULE CanRx_proof ----------------------------
(***************************************************************************)
(* Theorems about the CAN receive path, for every size of both fifos and    *)
(* wherever isr_low interrupts canbusRecv.                                  *)
(***************************************************************************)
EXTENDS CanRx, TLAPS

LEMMA Sizes ==
  /\ SW_FIFO_MAX \in Nat /\ SW_FIFO_MAX >= 2 /\ HW_FIFO \in Nat /\ HW_FIFO > 0
  /\ MaxFrames \in Nat
  BY RxAssumption DEF RxAssumption, SW_FIFO_MAX

LEMMA NextBufferType == ASSUME NEW b \in Buffers PROVE NextBuffer(b) \in Buffers
  BY Sizes DEF Buffers, NextBuffer

LEMMA NextSlotType == ASSUME NEW s \in Slots PROVE NextSlot(s) \in Slots
  BY Sizes DEF Slots, NextSlot

-----------------------------------------------------------------------------
(* The type invariant in three parts: the ECAN module, the software fifo    *)
(* with the counters, and where the two routines are.                       *)

HwOK ==
  /\ hwBuf \in [Buffers -> 0..MaxFrames] /\ RXFUL \in [Buffers -> BOOLEAN]
  /\ hwW \in Buffers /\ hwR \in Buffers
  /\ FIFOWMIF \in BOOLEAN /\ FIFOWMIE \in BOOLEAN /\ RXBnOVFL \in BOOLEAN
  /\ arrived \in 0..MaxFrames
SwOK ==
  /\ Fifo \in [Slots -> 0..MaxFrames]
  /\ FifoIdxW \in Slots
  /\ FifoIdxR \in 0..SW_FIFO_MAX
  /\ maxcanq \in 0..255 /\ maxethq \in 0..255 /\ maxCANFifo \in 0..255
CodeOK ==
  /\ mainPc \in {"idle"} \union Window
  /\ isrPc \in {"idle", "rx", "drain", "clear"}
  /\ ptr \in Buffers /\ msg \in 0..MaxFrames /\ out \in 0..MaxFrames
  /\ opened \in BOOLEAN /\ clashed \in BOOLEAN
\* The read index leaves the array for one line, at which it is only looked at.
WrapOK == FifoIdxR = SW_FIFO_MAX => mainPc = "wrap"

LEMMA Parts == TypeOK <=> HwOK /\ SwOK /\ CodeOK /\ WrapOK
  BY DEF TypeOK, HwOK, SwOK, CodeOK, WrapOK

LEMMA TypeInit == Init => TypeOK
<1> SUFFICES ASSUME Init PROVE TypeOK
  OBVIOUS
<1>1. 0 \in Buffers /\ 0 \in Slots /\ 0 \in 0..MaxFrames /\ 0 \in 0..255 /\ 0 # SW_FIFO_MAX
      /\ 0 \in 0..SW_FIFO_MAX
  BY Sizes DEF Buffers, Slots
<1>2. HwOK
  BY <1>1 DEF Init, HwOK
<1>3. SwOK
  BY <1>1 DEF Init, SwOK
<1>4. CodeOK /\ WrapOK
  BY <1>1 DEF Init, CodeOK, WrapOK
<1> QED
  BY <1>2, <1>3, <1>4, Parts

LEMMA FreeType ==
  ASSUME HwOK, NEW b \in Buffers, Free(b)
  PROVE  /\ RXFUL' \in [Buffers -> BOOLEAN] /\ hwR' \in Buffers
         /\ UNCHANGED <<hwBuf, hwW>>
  BY NextBufferType DEF HwOK, Free

-----------------------------------------------------------------------------
LEMMA TypeStep == TypeOK /\ [Next]_vars => TypeOK'
<1> SUFFICES ASSUME HwOK, SwOK, CodeOK, WrapOK, [Next]_vars
             PROVE  HwOK' /\ SwOK' /\ CodeOK' /\ WrapOK'
  BY Parts, PTL
<1>1. CASE Arrive
  <2>1. UNCHANGED <<hwR, FIFOWMIE, swVars, FifoIdxR, statVars, mainVars, isrPc, clashed>>
        /\ arrived < MaxFrames /\ arrived' = arrived + 1
    BY <1>1 DEF Arrive
  <2>2. arrived' \in 0..MaxFrames
    BY <2>1, Sizes DEF HwOK
  <2>3. CASE RXFUL[hwW]
    <3>1. UNCHANGED <<hwBuf, RXFUL, hwW, FIFOWMIF>> /\ RXBnOVFL' = TRUE
      BY <1>1, <2>3 DEF Arrive
    <3>2. HwOK'
      BY <2>1, <2>2, <3>1 DEF HwOK
    <3> QED
      BY <2>1, <3>2 DEF SwOK, CodeOK, WrapOK, swVars, statVars, mainVars
  <2>4. CASE ~RXFUL[hwW]
    <3>1. /\ hwBuf' = [hwBuf EXCEPT ![hwW] = arrived'] /\ RXFUL' = [RXFUL EXCEPT ![hwW] = TRUE]
          /\ hwW' = NextBuffer(hwW) /\ UNCHANGED RXBnOVFL
          /\ FIFOWMIF' = TRUE \/ UNCHANGED FIFOWMIF
      BY <1>1, <2>1, <2>4 DEF Arrive
    <3>2. HwOK'
      BY <2>1, <2>2, <3>1, NextBufferType DEF HwOK
    <3> QED
      BY <2>1, <3>2 DEF SwOK, CodeOK, WrapOK, swVars, statVars, mainVars
  <2> QED
    BY <2>3, <2>4
<1>2. CASE Call
  <2>1. /\ UNCHANGED <<hwVars, swVars, FifoIdxR, statVars, ptr, out, isrPc, arrived, clashed>>
        /\ FIFOWMIE' = FALSE /\ msg' = 0 /\ mainPc = "idle" /\ mainPc' = "test"
        /\ opened' \in BOOLEAN
    BY <1>2 DEF Call, Main, CodeOK
  <2>2. HwOK' /\ SwOK'
    BY <2>1 DEF HwOK, SwOK, hwVars, swVars, statVars
  <2>3. CodeOK' /\ WrapOK'
    BY <2>1, Sizes DEF CodeOK, WrapOK, Window
  <2> QED
    BY <2>2, <2>3
<1>3. CASE Test \/ Poll
  BY <1>3, Sizes DEF Test, Poll, Goto, Main, HwOK, SwOK, CodeOK, WrapOK, hwVars, swVars,
                     statVars, Window
<1>4. CASE Take
  <2>1. FifoIdxR \in Slots
    BY <1>4, Sizes DEF Take, Main, SwOK, WrapOK, Slots
  <2>2. msg' \in 0..MaxFrames
    BY <1>4, <2>1 DEF Take, SwOK
  <2> QED
    BY <1>4, <2>2 DEF Take, Main, HwOK, SwOK, CodeOK, WrapOK, hwVars, swVars, statVars, Window
<1>5. CASE Inc
  <2>1. FifoIdxR' \in 0..SW_FIFO_MAX
    BY <1>5, Sizes DEF Inc, SetIdxR, Main, SwOK, WrapOK
  <2> QED
    BY <1>5, <2>1 DEF Inc, SetIdxR, Main, HwOK, SwOK, CodeOK, WrapOK, hwVars, swVars, statVars, Window
<1>6. CASE Wrap
  <2>1. FifoIdxR' \in 0..SW_FIFO_MAX /\ FifoIdxR' # SW_FIFO_MAX
    BY <1>6, Sizes DEF Wrap, SetIdxR, SwOK
  <2> QED
    BY <1>6, <2>1 DEF Wrap, SetIdxR, Main, HwOK, SwOK, CodeOK, WrapOK, hwVars, swVars, statVars, Window
<1>7. CASE Point
  BY <1>7 DEF Point, Main, HwOK, SwOK, CodeOK, WrapOK, hwVars, swVars, statVars, Window
<1>8. CASE Peek
  <2>1. msg' \in 0..MaxFrames
    BY <1>8, Sizes DEF Peek, HwOK, CodeOK
  <2> QED
    BY <1>8, <2>1 DEF Peek, Main, HwOK, SwOK, CodeOK, WrapOK, hwVars, swVars, statVars, Window
<1>9. CASE FreeBuffer
  <2>1. RXFUL' \in [Buffers -> BOOLEAN] /\ hwR' \in Buffers /\ UNCHANGED <<hwBuf, hwW>>
    BY <1>9, FreeType DEF FreeBuffer, CodeOK
  <2> QED
    BY <1>9, <2>1 DEF FreeBuffer, Main, HwOK, SwOK, CodeOK, WrapOK, swVars, statVars, Window
<1>10. CASE Return
  BY <1>10 DEF Return, Main, HwOK, SwOK, CodeOK, WrapOK, hwVars, swVars, statVars, Window
<1>11. CASE EnterIsrLow \/ DrainEnd
  <2>1. /\ UNCHANGED <<hwVars, swVars, FifoIdxR, statVars, mainPc, ptr, msg, out, arrived, clashed>>
        /\ FIFOWMIE' = TRUE \/ UNCHANGED FIFOWMIE
        /\ isrPc' \in {"rx", "clear"} /\ opened' \in BOOLEAN
    BY <1>11 DEF EnterIsrLow, DrainEnd, mainVars, CodeOK
  <2>2. HwOK' /\ SwOK'
    BY <2>1 DEF HwOK, SwOK, hwVars, swVars, statVars
  <2>3. CodeOK' /\ WrapOK'
    BY <2>1 DEF CodeOK, WrapOK
  <2> QED
    BY <2>2, <2>3
<1>12. CASE IsrRx \/ IsrClear
  <2>1. /\ UNCHANGED <<hwBuf, RXFUL, hwW, hwR, RXBnOVFL, swVars, FifoIdxR, statVars, mainVars,
                       arrived, clashed>>
        /\ FIFOWMIE' = FALSE \/ UNCHANGED FIFOWMIE
        /\ FIFOWMIF' = FALSE \/ UNCHANGED FIFOWMIF
        /\ isrPc' \in {"drain", "clear", "idle"}
    BY <1>12 DEF IsrRx, IsrClear
  <2>2. HwOK' /\ SwOK'
    BY <2>1 DEF HwOK, SwOK, swVars, statVars
  <2>3. CodeOK' /\ WrapOK'
    BY <2>1 DEF CodeOK, WrapOK, mainVars
  <2> QED
    BY <2>2, <2>3
<1>13. CASE Drain
  <2>1. RXFUL' \in [Buffers -> BOOLEAN] /\ hwR' \in Buffers /\ UNCHANGED <<hwBuf, hwW>>
    BY <1>13, FreeType DEF Drain, HwOK
  <2>2. UNCHANGED <<FIFOWMIF, FIFOWMIE, FifoIdxR, mainVars, isrPc, arrived>> /\ RXBnOVFL' = FALSE
        /\ clashed' \in BOOLEAN
    BY <1>13 DEF Drain, CodeOK, Clash
  <2>3. HwOK' /\ CodeOK' /\ WrapOK'
    BY <2>1, <2>2 DEF HwOK, CodeOK, WrapOK, mainVars
  <2>4. Fifo' \in [Slots -> 0..MaxFrames] /\ FifoIdxW' \in Slots
    <3>1. hwBuf[hwR] \in 0..MaxFrames
      BY DEF HwOK
    <3>2. Fifo' = Fifo \/ Fifo' = [Fifo EXCEPT ![FifoIdxW] = hwBuf[hwR]]
      BY <1>13 DEF Drain
    <3>3. FifoIdxW' = FifoIdxW \/ FifoIdxW' = NextSlot(FifoIdxW)
      BY <1>13 DEF Drain
    <3> QED
      BY <3>1, <3>2, <3>3, NextSlotType DEF SwOK
  <2>5. maxcanq' \in 0..255 /\ maxethq' \in 0..255
    BY <1>13 DEF Drain, SwOK
  <2>6. maxCANFifo' \in 0..255
    <3> DEFINE hi == IF FifoIdxW' < FifoIdxR THEN FifoIdxW' + SW_FIFO ELSE FifoIdxW'
               used == (hi - FifoIdxR) % 256
    <3>1. hi \in Int /\ FifoIdxR \in Int
      BY <2>4, Sizes, RxAssumption DEF SwOK, Slots, RxAssumption
    <3>2. used \in 0..255
      <4> HIDE DEF hi
      <4> QED
        BY <3>1
    <3>3. maxCANFifo' = maxCANFifo \/ maxCANFifo' = used
      BY <1>13 DEF Drain
    <3> QED
      BY <3>2, <3>3 DEF SwOK
  <2> QED
    BY <2>2, <2>3, <2>4, <2>5, <2>6 DEF SwOK
<1>14. CASE UNCHANGED vars
  BY <1>14 DEF vars, HwOK, SwOK, CodeOK, WrapOK, hwVars, swVars, statVars, mainVars
<1> QED
  BY <1>1, <1>2, <1>3, <1>4, <1>5, <1>6, <1>7, <1>8, <1>9, <1>10, <1>11, <1>12, <1>13, <1>14
     DEF Next, CanbusRecv, IsrLow

\* Every variable of the receive path has its type, and the read index is a slot but at the
\* line that wraps it: no routine reads or writes outside Fifo0 and Fifo1, wherever isr_low
\* runs (canbusRecv, canbusFifo).
THEOREM TypeCorrect == Spec => []TypeOK
<1>1. TypeOK /\ [Next]_vars => TypeOK'
  BY TypeStep
<1> QED
  BY <1>1, TypeInit, PTL DEF Spec

-----------------------------------------------------------------------------
(* Up to the first clash the two fifos and canbusRecv are one lossy fifo.   *)
(* The invariant this rests on has five parts.                              *)

\* While canbusRecv masks FIFOWMIE the interrupt routine is inside only if another
\* source has let it in.
MaskInv == mainPc \in Window => opened \/ (isrPc = "idle" /\ ~FIFOWMIE)

LEMMA MaskStep ==
  ASSUME TypeOK, MaskInv, [Next]_vars PROVE MaskInv'
<1>1. CASE CanbusRecv
  <2>1. /\ isrPc = "idle" /\ UNCHANGED isrPc /\ opened' = (opened /\ mainPc' \in Window)
        /\ \/ Call /\ FIFOWMIE' = FALSE
           \/ Return /\ mainPc' = "idle"
           \/ mainPc \in Window /\ UNCHANGED FIFOWMIE
    BY <1>1 DEF CanbusRecv, Call, Test, Take, Inc, Wrap, Poll, Point, Peek, FreeBuffer, Return, Goto,
                SetIdxR, Main, Window
  <2> QED
    BY <2>1 DEF MaskInv, Window
<1>2. CASE EnterIsrLow
  BY <1>2 DEF EnterIsrLow, MaskInv, Window, TypeOK
<1>3. CASE IsrLow
  <2>1. isrPc # "idle" /\ UNCHANGED <<mainPc, opened>>
    BY <1>3 DEF IsrLow, IsrRx, Drain, DrainEnd, IsrClear, mainVars
  <2> QED
    BY <2>1 DEF MaskInv
<1>4. CASE Arrive
  BY <1>4 DEF Arrive, mainVars, MaskInv
<1>5. CASE UNCHANGED vars
  BY <1>5 DEF vars, mainVars, MaskInv
<1> QED
  BY <1>1, <1>2, <1>3, <1>4, <1>5 DEF Next

\* The full buffers are those from the fifo pointer up to the next to fill, and the frames
\* in them are in the order of the bus.
HwPos(b) == IF b >= hwR THEN b - hwR ELSE b - hwR + HW_FIFO
HwInv ==
  /\ RXFUL[hwW] => hwW = hwR
  /\ \A b \in Buffers : RXFUL[b] <=> RXFUL[hwW] \/ HwPos(b) < HwPos(hwW)
  /\ \A b, c \in Buffers : RXFUL[b] /\ RXFUL[c] /\ HwPos(b) < HwPos(c) => hwBuf[b] < hwBuf[c]
  /\ \A b \in Buffers : RXFUL[b] => hwBuf[b] \in 1..arrived

\* The frames of the software fifo are in the order of the bus, and older than those of the
\* hardware fifo.
SwInv ==
  /\ \A s, t \in Slots : SwHolds(s) /\ SwHolds(t) /\ SwPos(s) < SwPos(t) => Fifo[s] < Fifo[t]
  /\ \A s \in Slots : SwHolds(s) => Wanted(Fifo[s]) /\ Fifo[s] <= arrived
  /\ \A s \in Slots, b \in Buffers : SwHolds(s) /\ RXFUL[b] => Fifo[s] < hwBuf[b]

\* What canbusRecv knows at each of its lines.
Waiting == InSw \union InHw
CodeInv ==
  /\ mainPc \in {"test", "take", "poll", "point", "peek"} => msg = 0
  /\ mainPc \in {"take", "inc"} => FifoIdxR # FifoIdxW
  /\ mainPc = "inc" => msg = Fifo[FifoIdxR]
  /\ mainPc \in {"wrap", "enable"} /\ msg # 0 =>
       Wanted(msg) /\ msg <= arrived /\ \A f \in Waiting : msg < f
  /\ mainPc = "wrap" => msg # 0
  /\ mainPc \in {"poll", "point", "peek", "free"} => FifoIdxR = FifoIdxW
  /\ mainPc \in {"point", "peek", "free"} => RXFUL[hwR]
  /\ mainPc \in {"peek", "free"} => ptr = hwR
  /\ mainPc = "free" => msg = IF Wanted(hwBuf[hwR]) THEN hwBuf[hwR] ELSE 0

\* What came out is older than everything that is still to come.
OutInv == out <= arrived /\ \A f \in InTransit : out < f

RxInv == HwInv /\ SwInv /\ CodeInv /\ OutInv

LEMMA RxInit == Init => MaskInv /\ RxInv
<1> SUFFICES ASSUME Init PROVE MaskInv /\ RxInv
  OBVIOUS
<1>1. \A b \in Buffers : RXFUL[b] = FALSE /\ HwPos(b) \in Nat
  BY Sizes DEF Init, Buffers, HwPos
<1>2. 0 \in Buffers /\ HwPos(0) = 0
  BY Sizes DEF Init, Buffers, HwPos
<1>3. HwInv
  BY <1>1, <1>2 DEF Init, HwInv
<1>4. \A s \in Slots : ~SwHolds(s)
  BY Sizes DEF Init, Slots, SwHolds, SwPos, SwFirst
<1>5. SwInv
  BY <1>4 DEF SwInv
<1>6. InTransit = {}
  BY <1>1, <1>4 DEF Init, InTransit, InCopy, Copied, InSw, InHw, FullBuffers
<1> QED
  BY <1>3, <1>5, <1>6 DEF Init, RxInv, MaskInv, CodeInv, OutInv, Window

LEMMA Members ==
  ASSUME NEW f
  PROVE  /\ f \in InSw <=> \E s \in Slots : SwHolds(s) /\ f = Fifo[s]
         /\ f \in InHw <=> Wanted(f) /\ \E b \in Buffers : RXFUL[b] /\ f = hwBuf[b]
  BY DEF InSw, InHw, FullBuffers

\* Every frame on its way has arrived, and is a number.
LEMMA Known ==
  ASSUME TypeOK, RxInv, NEW f \in InTransit
  PROVE  f \in 1..arrived /\ Wanted(f)
<1>1. f \in InSw \/ f \in InHw => f \in 1..arrived /\ Wanted(f)
  BY Members, Sizes DEF RxInv, SwInv, HwInv, TypeOK, Wanted, Frames
<1>2. ASSUME Copied PROVE msg \in 1..arrived /\ Wanted(msg)
  <2>1. CASE mainPc \in {"wrap", "enable"}
    BY <1>2, <2>1, Sizes DEF Copied, RxInv, CodeInv, TypeOK, Wanted, Frames
  <2>2. CASE mainPc = "inc"
    <3>1. FifoIdxR \in Slots /\ SwHolds(FifoIdxR)
      BY <2>2, Sizes DEF RxInv, CodeInv, TypeOK, SwHolds, SwPos, SwFirst, Slots
    <3> QED
      BY <2>2, <3>1, Sizes DEF RxInv, CodeInv, SwInv, TypeOK, Wanted, Frames
  <2>3. CASE mainPc = "free"
    BY <1>2, <2>3, Sizes DEF Copied, RxInv, CodeInv, HwInv, TypeOK
  <2> QED
    BY <1>2, <2>1, <2>2, <2>3 DEF Copied
<1> QED
  BY <1>1, <1>2 DEF InTransit, InCopy

-----------------------------------------------------------------------------
(* The hardware fifo as a queue *)

LEMMA HwPosFacts ==
  ASSUME HwOK
  PROVE  /\ \A b \in Buffers : HwPos(b) \in 0..HW_FIFO-1 /\ (HwPos(b) = 0 <=> b = hwR)
         /\ \A b, c \in Buffers : HwPos(b) = HwPos(c) => b = c
  BY Sizes DEF HwOK, Buffers, HwPos

\* The frame at the fifo pointer is the oldest of the hardware fifo.
LEMMA HwHead ==
  ASSUME HwOK, HwInv, RXFUL[hwR], NEW b \in Buffers, RXFUL[b], b # hwR
  PROVE  hwBuf[hwR] < hwBuf[b]
<1>1. HwPos(hwR) < HwPos(b)
  BY HwPosFacts, Sizes DEF HwOK
<1> QED
  BY <1>1 DEF HwInv, HwOK

LEMMA HwFree ==
  ASSUME HwOK, HwInv, RXFUL[hwR], Free(hwR), UNCHANGED arrived
  PROVE  /\ HwInv' /\ hwBuf' = hwBuf
         /\ \A b \in Buffers : RXFUL'[b] <=> RXFUL[b] /\ b # hwR
<1>1. /\ \A b \in Buffers : RXFUL'[b] <=> RXFUL[b] /\ b # hwR
      /\ hwR' = NextBuffer(hwR) /\ UNCHANGED <<hwBuf, hwW>>
  BY DEF Free, HwOK
<1>2. \A b \in Buffers : HwPos(b)' = IF b = hwR THEN HW_FIFO - 1 ELSE HwPos(b) - 1
  BY <1>1, Sizes DEF HwOK, HwPos, NextBuffer, Buffers
<1>3. hwW \in Buffers /\ ~RXFUL'[hwW]
  <2>1. CASE RXFUL[hwW]
    BY <2>1, <1>1 DEF HwInv, HwOK
  <2>2. CASE ~RXFUL[hwW]
    BY <2>2, <1>1 DEF HwOK
  <2> QED
    BY <2>1, <2>2
<1>4. ASSUME NEW b \in Buffers PROVE RXFUL'[b] <=> HwPos(b)' < HwPos(hwW)'
  <2>1. CASE RXFUL[hwW]
    BY <2>1, <1>1, <1>2, <1>3, HwPosFacts, Sizes DEF HwInv, HwOK
  <2>2. CASE ~RXFUL[hwW]
    BY <2>2, <1>1, <1>2, <1>3, HwPosFacts, Sizes DEF HwInv, HwOK
  <2> QED
    BY <2>1, <2>2
<1>5. ASSUME NEW b \in Buffers, NEW c \in Buffers, RXFUL'[b], RXFUL'[c], HwPos(b)' < HwPos(c)'
      PROVE  hwBuf[b] < hwBuf[c]
  BY <1>1, <1>2, <1>5, HwPosFacts, Sizes DEF HwInv, HwOK
<1> QED
  BY <1>1, <1>3, <1>4, <1>5 DEF HwInv

LEMMA HwPut ==
  ASSUME HwOK, HwInv, ~RXFUL[hwW], arrived' = arrived + 1,
         hwBuf' = [hwBuf EXCEPT ![hwW] = arrived + 1], RXFUL' = [RXFUL EXCEPT ![hwW] = TRUE],
         hwW' = NextBuffer(hwW), hwR' = hwR
  PROVE  HwInv'
<1>1. \A b \in Buffers : /\ RXFUL'[b] <=> RXFUL[b] \/ b = hwW
                         /\ hwBuf'[b] = IF b = hwW THEN arrived + 1 ELSE hwBuf[b]
                         /\ HwPos(b)' = HwPos(b)
  BY DEF HwOK, HwPos
<1>2. hwW \in Buffers /\ hwW' \in Buffers /\ arrived \in Nat
  BY NextBufferType DEF HwOK
<1>3. \/ hwW' = hwR /\ HwPos(hwW) = HW_FIFO - 1
      \/ hwW' # hwR /\ HwPos(hwW') = HwPos(hwW) + 1
  BY Sizes DEF HwOK, NextBuffer, Buffers, HwPos
<1>4. HwPos(hwW)' = IF hwW' = hwR THEN 0 ELSE HwPos(hwW) + 1
  <2>1. HwPos(hwW)' = HwPos(hwW')
    BY DEF HwPos
  <2> QED
    BY <2>1, <1>2, <1>3, HwPosFacts
<1>5. RXFUL'[hwW'] <=> hwW' = hwR
  <2>1. CASE hwW' = hwR
    BY <2>1, <1>1, <1>2, <1>3, HwPosFacts, Sizes DEF HwInv, HwOK
  <2>2. CASE hwW' # hwR
    BY <2>2, <1>1, <1>2, <1>3, HwPosFacts, Sizes DEF HwInv, HwOK
  <2> QED
    BY <2>1, <2>2
<1>6. ASSUME NEW b \in Buffers PROVE RXFUL'[b] <=> RXFUL'[hwW'] \/ HwPos(b) < HwPos(hwW)'
  <2>1. CASE hwW' = hwR
    BY <2>1, <1>1, <1>2, <1>3, <1>5, HwPosFacts, Sizes DEF HwInv, HwOK
  <2>2. CASE hwW' # hwR
    BY <2>2, <1>1, <1>2, <1>3, <1>4, <1>5, HwPosFacts, Sizes DEF HwInv, HwOK
  <2> QED
    BY <2>1, <2>2
<1>7. ASSUME NEW b \in Buffers, NEW c \in Buffers, RXFUL'[b], RXFUL'[c], HwPos(b) < HwPos(c)
      PROVE  hwBuf'[b] < hwBuf'[c]
  <2>1. \A d \in Buffers : RXFUL[d] => hwBuf[d] <= arrived /\ HwPos(d) < HwPos(hwW)
    BY <1>2 DEF HwInv, HwOK
  <2> QED
    BY <2>1, <1>1, <1>2, <1>7, HwPosFacts, Sizes DEF HwInv, HwOK
<1>8. \A b \in Buffers : RXFUL'[b] => hwBuf'[b] \in 1..arrived'
  BY <1>1, <1>2 DEF HwInv, HwOK
<1> QED
  BY <1>1, <1>5, <1>6, <1>7, <1>8 DEF HwInv

-----------------------------------------------------------------------------
(* The software fifo as a queue *)

LEMMA SwPosFacts ==
  ASSUME SwOK
  PROVE  /\ SwFirst \in Slots
         /\ \A s \in Slots : SwPos(s) \in 0..SW_FIFO_MAX-1 /\ (SwPos(s) = 0 <=> s = SwFirst)
         /\ \A s, t \in Slots : SwPos(s) = SwPos(t) => s = t
<1>1. SwFirst \in Slots
  BY Sizes DEF SwOK, SwFirst, Slots
<1> QED
  BY <1>1, Sizes DEF Slots, SwPos

LEMMA SwSame ==
  ASSUME UNCHANGED <<Fifo, FifoIdxW>>, SwFirst' = SwFirst
  PROVE  /\ \A s \in Slots : (SwHolds(s)' <=> SwHolds(s)) /\ SwPos(s)' = SwPos(s)
         /\ InSw' = InSw
<1>1. \A s \in Slots : (SwHolds(s)' <=> SwHolds(s)) /\ SwPos(s)' = SwPos(s)
  BY DEF SwHolds, SwPos
<1> QED
  BY <1>1 DEF InSw

LEMMA HwSame ==
  ASSUME UNCHANGED <<hwBuf, RXFUL, hwW, hwR, arrived>>, HwInv
  PROVE  HwInv' /\ InHw' = InHw
  BY DEF HwInv, HwPos, InHw, FullBuffers

\* The frame at the read index is the oldest of all.
LEMMA SwHead ==
  ASSUME TypeOK, SwInv, FifoIdxR \in Slots, FifoIdxR # FifoIdxW
  PROVE  /\ SwHolds(FifoIdxR) /\ Fifo[FifoIdxR] \in InSw
         /\ \A s \in Slots : SwHolds(s) /\ s # FifoIdxR => Fifo[FifoIdxR] < Fifo[s]
         /\ \A f \in InHw : Fifo[FifoIdxR] < f
<1>1. SwFirst = FifoIdxR
  BY Sizes DEF SwFirst, Slots
<1>2. SwOK /\ FifoIdxW \in Slots
  BY DEF TypeOK, SwOK
<1>3. SwHolds(FifoIdxR)
  BY <1>1, <1>2, SwPosFacts, Sizes DEF SwHolds
<1>4. ASSUME NEW s \in Slots, SwHolds(s), s # FifoIdxR PROVE Fifo[FifoIdxR] < Fifo[s]
  <2>1. SwPos(FifoIdxR) < SwPos(s)
    BY <1>1, <1>2, <1>4, SwPosFacts, Sizes
  <2> QED
    BY <1>3, <1>4, <2>1 DEF SwInv
<1>5. \A f \in InHw : Fifo[FifoIdxR] < f
  BY <1>3, Members DEF SwInv
<1> QED
  BY <1>3, <1>4, <1>5, Members

\* Moving the read index on takes the frame there out of the fifo.
LEMMA SwDrop ==
  ASSUME TypeOK, SwInv, FifoIdxR \in Slots, FifoIdxR # FifoIdxW,
         FifoIdxR' = FifoIdxR + 1, UNCHANGED <<Fifo, FifoIdxW, hwBuf, RXFUL, arrived>>
  PROVE  SwInv' /\ \A s \in Slots : SwHolds(s)' <=> SwHolds(s) /\ s # FifoIdxR
<1>1. SwFirst = FifoIdxR /\ SwFirst' = NextSlot(FifoIdxR)
  BY Sizes DEF SwFirst, NextSlot, Slots
<1>2. SwOK /\ FifoIdxW \in Slots
  BY DEF TypeOK, SwOK
<1>3. \A s \in Slots : SwPos(s)' = IF s = FifoIdxR THEN SW_FIFO_MAX - 1 ELSE SwPos(s) - 1
  BY <1>1, Sizes DEF SwPos, NextSlot, Slots
<1>4. SwPos(FifoIdxW)' = SwPos(FifoIdxW) - 1
  BY <1>1, <1>2, Sizes DEF SwPos, NextSlot, Slots
<1>5. \A s \in Slots : SwHolds(s)' <=> SwHolds(s) /\ s # FifoIdxR
  BY <1>1, <1>2, <1>3, <1>4, SwPosFacts, Sizes DEF SwHolds
<1>6. ASSUME NEW s \in Slots, NEW t \in Slots, SwHolds(s)', SwHolds(t)', SwPos(s)' < SwPos(t)'
      PROVE  Fifo[s] < Fifo[t]
  BY <1>2, <1>3, <1>5, <1>6, SwPosFacts, Sizes DEF SwInv
<1> QED
  BY <1>5, <1>6 DEF SwInv, Wanted

\* canbusFifo puts a frame at the end.
LEMMA SwPut ==
  ASSUME TypeOK, SwInv, NextSlot(FifoIdxW) # SwFirst, NEW f,
         Wanted(f), f \in 1..arrived, \A s \in Slots : SwHolds(s) => Fifo[s] < f,
         \A b \in Buffers : RXFUL'[b] => RXFUL[b] /\ f < hwBuf[b],
         Fifo' = [Fifo EXCEPT ![FifoIdxW] = f], FifoIdxW' = NextSlot(FifoIdxW),
         UNCHANGED <<FifoIdxR, hwBuf, arrived>>
  PROVE  SwInv' /\ InSw' = InSw \union {f}
<1>1. SwFirst' = SwFirst /\ SwFirst \in Slots
  BY SwPosFacts, Parts DEF SwFirst
<1>2. SwOK /\ FifoIdxW \in Slots
  BY DEF TypeOK, SwOK
<1>3. \A s \in Slots : SwPos(s)' = SwPos(s)
  BY <1>1 DEF SwPos
<1>4. SwPos(FifoIdxW)' = SwPos(FifoIdxW) + 1
  BY <1>1, <1>2, Sizes DEF SwPos, NextSlot, Slots
<1>5. \A s \in Slots : SwHolds(s)' <=> SwHolds(s) \/ s = FifoIdxW
  BY <1>2, <1>3, <1>4, SwPosFacts, Sizes DEF SwHolds
<1>6. \A s \in Slots : Fifo'[s] = IF s = FifoIdxW THEN f ELSE Fifo[s]
  BY DEF TypeOK
<1>7. ~SwHolds(FifoIdxW)
  BY <1>2, SwPosFacts, Sizes DEF SwHolds
<1>8. ASSUME NEW s \in Slots, NEW t \in Slots, SwHolds(s)', SwHolds(t)', SwPos(s)' < SwPos(t)'
      PROVE  Fifo'[s] < Fifo'[t]
  <2>1. CASE s = FifoIdxW
    BY <2>1, <1>2, <1>3, <1>5, <1>8, SwPosFacts, Sizes DEF SwHolds
  <2>2. CASE s # FifoIdxW
    BY <2>2, <1>3, <1>5, <1>6, <1>8 DEF SwInv
  <2> QED
    BY <2>1, <2>2
<1>9. \A s \in Slots : SwHolds(s)' => Wanted(Fifo'[s]) /\ Fifo'[s] <= arrived'
  BY <1>5, <1>6 DEF SwInv
<1>10. \A s \in Slots, b \in Buffers : SwHolds(s)' /\ RXFUL'[b] => Fifo'[s] < hwBuf'[b]
  BY <1>5, <1>6 DEF SwInv
<1>11. InSw' = InSw \union {f}
  <2>1. InSw' = {Fifo'[s] : s \in {t \in Slots : SwHolds(t)'}}
    BY DEF InSw
  <2> QED
    BY <2>1, <1>2, <1>5, <1>6, <1>7 DEF InSw
<1> QED
  BY <1>8, <1>9, <1>10, <1>11 DEF SwInv, Wanted

-----------------------------------------------------------------------------
(* The steps *)

\* The lines of canbusRecv that move no frame: nothing of the fifos changes.
Still == UNCHANGED <<hwBuf, RXFUL, hwW, hwR, Fifo, FifoIdxW, FifoIdxR, arrived, maxethq>>

LEMMA StillFacts ==
  ASSUME Still, RxInv
  PROVE  /\ HwInv' /\ SwInv' /\ InSw' = InSw /\ InHw' = InHw /\ Waiting' = Waiting
         /\ \A b \in Buffers : HwPos(b)' = HwPos(b)
<1>1. SwFirst' = SwFirst
  BY DEF Still, SwFirst
<1>2. /\ \A s \in Slots : (SwHolds(s)' <=> SwHolds(s)) /\ SwPos(s)' = SwPos(s)
      /\ InSw' = InSw
  BY <1>1, SwSame DEF Still
<1>3. HwInv' /\ InHw' = InHw
  BY HwSame DEF Still, RxInv
<1>4. SwInv'
  BY <1>2 DEF RxInv, SwInv, Wanted, Still
<1> QED
  BY <1>2, <1>3, <1>4 DEF Waiting, HwPos, Still

\* What a step does to the promise.
Kept == Promise!Next \/ UNCHANGED <<InTransit, out, maxethq>>

LEMMA StepGoto ==
  ASSUME TypeOK, RxInv, Call \/ Test \/ Take \/ Poll \/ Point \/ Peek \/ Wrap
  PROVE  RxInv' /\ Kept
<1>1. /\ UNCHANGED <<hwBuf, RXFUL, hwW, hwR, Fifo, FifoIdxW, arrived, maxethq, out, isrPc>>
      /\ isrPc = "idle"
  BY DEF Call, Test, Take, Poll, Point, Peek, Wrap, Goto, SetIdxR, Main, hwVars, swVars, statVars
<1>3. CASE ~Wrap
  <2>1. FifoIdxR' = FifoIdxR
    BY <1>3 DEF Call, Test, Take, Poll, Point, Peek, Goto, Main
  <2>2. /\ HwInv' /\ SwInv' /\ InSw' = InSw /\ InHw' = InHw /\ Waiting' = Waiting
    BY <1>1, <2>1, StillFacts DEF Still
  <2>3. CASE Call
    <3>1. InCopy = {} /\ InCopy' = {}
      BY <2>3 DEF Call, Main, InCopy, Copied
    <3>2. CodeInv' /\ OutInv'
      BY <2>3, <2>2, <1>1, <3>1 DEF Call, Main, RxInv, CodeInv, OutInv, InTransit
    <3> QED
      BY <1>1, <2>2, <3>1, <3>2 DEF RxInv, Kept, InTransit
  <2>4. CASE Test
    <3>1. InCopy = {} /\ InCopy' = {}
      BY <2>4 DEF Test, Goto, Main, InCopy, Copied
    <3>2. CodeInv' /\ OutInv'
      BY <2>4, <2>2, <1>1, <3>1 DEF Test, Goto, Main, RxInv, CodeInv, OutInv, InTransit
    <3> QED
      BY <1>1, <2>2, <3>1, <3>2 DEF RxInv, Kept, InTransit
  <2>5. CASE Take
    <3>1. FifoIdxR \in Slots /\ FifoIdxR # FifoIdxW /\ mainPc = "take" /\ mainPc' = "inc"
          /\ msg' = Fifo[FifoIdxR]
      BY <2>5, Sizes DEF Take, Main, TypeOK, Slots, RxInv, CodeInv
    <3>2. msg' \in InSw /\ InCopy = {}
      BY <3>1, SwHead DEF RxInv, InCopy, Copied
    <3>3. InTransit' = InTransit
      BY <2>2, <3>2 DEF InTransit, InCopy
    <3>4. CodeInv' /\ OutInv'
      BY <3>1, <3>3, <1>1, <2>1 DEF RxInv, CodeInv, OutInv
    <3> QED
      BY <1>1, <2>2, <3>3, <3>4 DEF RxInv, Kept
  <2>6. CASE Poll
    <3>1. InCopy = {} /\ InCopy' = {}
      BY <2>6 DEF Poll, Goto, Main, InCopy, Copied, RxInv, CodeInv
    <3>2. CodeInv' /\ OutInv'
      BY <2>6, <2>2, <1>1, <2>1, <3>1
         DEF Poll, Goto, Main, RxInv, CodeInv, OutInv, InTransit, FIFOEMPTY
    <3> QED
      BY <1>1, <2>2, <3>1, <3>2 DEF RxInv, Kept, InTransit
  <2>7. CASE Point
    <3>1. InCopy = {} /\ InCopy' = {}
      BY <2>7 DEF Point, Main, InCopy, Copied
    <3>2. CodeInv' /\ OutInv'
      BY <2>7, <2>2, <1>1, <2>1, <3>1 DEF Point, Main, RxInv, CodeInv, OutInv, InTransit
    <3> QED
      BY <1>1, <2>2, <3>1, <3>2 DEF RxInv, Kept, InTransit
  <2>8. CASE Peek
    <3>1. /\ RXFUL[hwR] /\ ptr = hwR /\ ptr' = ptr /\ mainPc = "peek" /\ mainPc' = "free"
          /\ FifoIdxR = FifoIdxW
          /\ msg' = IF Wanted(hwBuf[hwR]) THEN hwBuf[hwR] ELSE 0
      BY <2>8 DEF Peek, Main, RxInv, CodeInv
    <3>2. msg' # 0 => msg' \in InHw
      BY <3>1 DEF TypeOK, InHw, FullBuffers
    <3>3. InTransit' = InTransit
      BY <2>2, <3>1, <3>2 DEF InTransit, InCopy, Copied
    <3>4. CodeInv' /\ OutInv'
      BY <3>1, <3>3, <1>1, <2>1 DEF RxInv, CodeInv, OutInv
    <3> QED
      BY <1>1, <2>2, <3>3, <3>4 DEF RxInv, Kept
  <2> QED
    BY <1>3, <2>3, <2>4, <2>5, <2>6, <2>7, <2>8
<1>4. CASE Wrap
  <2>1. mainPc = "wrap" /\ mainPc' = "enable" /\ msg' = msg
        /\ FifoIdxR' = IF FifoIdxR >= SW_FIFO_MAX THEN 0 ELSE FifoIdxR
    BY <1>4 DEF Wrap, SetIdxR, Main
  <2>2. SwFirst' = SwFirst
    BY <2>1, Sizes DEF SwFirst, TypeOK
  <2>3. /\ \A s \in Slots : (SwHolds(s)' <=> SwHolds(s)) /\ SwPos(s)' = SwPos(s)
        /\ InSw' = InSw
    BY <1>1, <2>2, SwSame
  <2>4. HwInv' /\ InHw' = InHw
    BY <1>1, HwSame DEF RxInv
  <2>5. SwInv'
    BY <1>1, <2>3 DEF RxInv, SwInv, Wanted
  <2>6. InTransit' = InTransit /\ Waiting' = Waiting
    BY <2>1, <2>3, <2>4 DEF InTransit, InCopy, Copied, Waiting
  <2>7. CodeInv' /\ OutInv'
    BY <1>1, <2>1, <2>6 DEF RxInv, CodeInv, OutInv
  <2> QED
    BY <1>1, <2>4, <2>5, <2>6, <2>7 DEF RxInv, Kept
<1> QED
  BY <1>3, <1>4

\* canbusRecv steps over the frame it has copied from the software fifo.
LEMMA StepInc ==
  ASSUME TypeOK, RxInv, Inc
  PROVE  RxInv' /\ Kept
<1>1. /\ UNCHANGED <<hwBuf, RXFUL, hwW, hwR, Fifo, FifoIdxW, arrived, maxethq, out, isrPc, msg,
                     FIFOWMIE>>
      /\ mainPc = "inc" /\ mainPc' = "wrap" /\ isrPc = "idle"
      /\ FifoIdxR' = FifoIdxR + 1
  BY DEF Inc, SetIdxR, Main, hwVars, swVars, statVars
<1>2. FifoIdxR \in Slots /\ FifoIdxR # FifoIdxW /\ msg = Fifo[FifoIdxR]
  BY <1>1, Sizes DEF TypeOK, Slots, RxInv, CodeInv
<1>3. /\ SwHolds(FifoIdxR) /\ msg \in InSw
      /\ \A s \in Slots : SwHolds(s) /\ s # FifoIdxR => msg < Fifo[s]
      /\ \A f \in InHw : msg < f
  BY <1>2, SwHead DEF RxInv
<1>4. SwInv' /\ \A s \in Slots : SwHolds(s)' <=> SwHolds(s) /\ s # FifoIdxR
  BY <1>1, <1>2, SwDrop DEF RxInv
<1>5. HwInv' /\ InHw' = InHw
  BY <1>1, HwSame DEF RxInv
<1>6. Wanted(msg) /\ msg <= arrived /\ msg # 0
  BY <1>2, <1>3 DEF RxInv, SwInv, Wanted, Frames
<1>7. InSw' = {Fifo[s] : s \in {t \in Slots : SwHolds(t) /\ t # FifoIdxR}}
  BY <1>1, <1>4 DEF InSw
<1>8. InTransit' = InTransit
  <2>1. InCopy = {msg} /\ InCopy' = {msg}
    BY <1>1, <1>6 DEF InCopy, Copied
  <2>2. InSw \union {msg} = InSw' \union {msg}
    BY <1>2, <1>3, <1>7 DEF InSw
  <2> QED
    BY <2>1, <2>2, <1>5 DEF InTransit
<1>9. \A f \in Waiting' : msg < f
  BY <1>3, <1>5, <1>7 DEF Waiting
<1>10. CodeInv' /\ OutInv'
  BY <1>1, <1>6, <1>8, <1>9 DEF RxInv, CodeInv, OutInv, Wanted
<1> QED
  BY <1>1, <1>4, <1>5, <1>8, <1>10 DEF RxInv, Kept

\* The frame that leaves the hardware fifo is the oldest there.
LEMMA HwTaken ==
  ASSUME TypeOK, HwInv, RXFUL[hwR], Free(hwR), UNCHANGED arrived
  PROVE  /\ HwInv' /\ hwBuf' = hwBuf
         /\ \A b \in Buffers : RXFUL'[b] <=> RXFUL[b] /\ b # hwR
         /\ \A b \in Buffers : RXFUL'[b] => hwBuf[hwR] < hwBuf[b]
         /\ InHw' = InHw \ {hwBuf[hwR]}
         /\ Wanted(hwBuf[hwR]) => hwBuf[hwR] \in InHw
<1>1. HwOK /\ hwR \in Buffers
  BY Parts DEF HwOK
<1>2. /\ HwInv' /\ hwBuf' = hwBuf
      /\ \A b \in Buffers : RXFUL'[b] <=> RXFUL[b] /\ b # hwR
  BY <1>1, HwFree
<1>3. \A b \in Buffers : RXFUL'[b] => hwBuf[hwR] < hwBuf[b]
  BY <1>1, <1>2, HwHead
<1>4. \A b \in Buffers : hwBuf[b] \in Nat
  BY DEF TypeOK
<1>5. InHw' = InHw \ {hwBuf[hwR]}
  <2>1. InHw' = {f \in {hwBuf[b] : b \in {c \in Buffers : RXFUL'[c]}} : Wanted(f)}
    BY <1>2 DEF InHw, FullBuffers, Wanted
  <2>2. \A b \in Buffers : RXFUL'[b] => hwBuf[b] # hwBuf[hwR]
    BY <1>1, <1>3, <1>4
  <2> QED
    BY <2>1, <2>2, <1>1, <1>2 DEF InHw, FullBuffers
<1>6. Wanted(hwBuf[hwR]) => hwBuf[hwR] \in InHw
  BY <1>1, Members
<1> QED
  BY <1>2, <1>3, <1>5, <1>6

\* canbusRecv frees the buffer it has copied.
LEMMA StepFree ==
  ASSUME TypeOK, RxInv, FreeBuffer
  PROVE  RxInv' /\ Kept
<1> DEFINE f == hwBuf[hwR]
<1>1. /\ UNCHANGED <<Fifo, FifoIdxW, FifoIdxR, arrived, maxethq, out, isrPc, msg, FIFOWMIE>>
      /\ mainPc = "free" /\ mainPc' = (IF msg = 0 THEN "poll" ELSE "enable") /\ isrPc = "idle"
      /\ Free(ptr)
  BY DEF FreeBuffer, Main, swVars, statVars
<1>2. ptr = hwR /\ RXFUL[hwR] /\ FifoIdxR = FifoIdxW /\ msg = IF Wanted(f) THEN f ELSE 0
  BY <1>1 DEF RxInv, CodeInv
<1>3. /\ HwInv' /\ hwBuf' = hwBuf
      /\ \A b \in Buffers : RXFUL'[b] <=> RXFUL[b] /\ b # hwR
      /\ \A b \in Buffers : RXFUL'[b] => f < hwBuf[b]
      /\ InHw' = InHw \ {f}
      /\ Wanted(f) => f \in InHw
  BY <1>1, <1>2, HwTaken DEF RxInv
<1>4. SwFirst' = SwFirst
  BY <1>1 DEF SwFirst
<1>5. /\ \A s \in Slots : (SwHolds(s)' <=> SwHolds(s)) /\ SwPos(s)' = SwPos(s)
      /\ InSw' = InSw
  BY <1>1, <1>4, SwSame
<1>6. SwInv'
  BY <1>1, <1>3, <1>5 DEF RxInv, SwInv, Wanted
<1>7. InSw = {}
  <2>1. FifoIdxR \in Slots /\ SwOK
    BY <1>1, <1>2, Parts DEF TypeOK, SwOK
  <2>2. SwPos(FifoIdxW) = 0
    BY <2>1, <1>2, SwPosFacts, Sizes DEF SwFirst, Slots
  <2>3. \A s \in Slots : ~SwHolds(s)
    BY <2>1, <2>2, SwPosFacts, Sizes DEF SwHolds
  <2> QED
    BY <2>3 DEF InSw
<1>8. f \in 1..arrived
  BY <1>2 DEF RxInv, HwInv, TypeOK
<1>9. Wanted(f) => msg = f /\ msg # 0
  BY <1>2, <1>8
<1>10. InTransit' = InTransit
  <2>1. CASE Wanted(f)
    <3>1. InCopy = {f} /\ InCopy' = {f}
      BY <2>1, <1>1, <1>9 DEF InCopy, Copied
    <3> QED
      BY <2>1, <3>1, <1>3, <1>5 DEF InTransit
  <2>2. CASE ~Wanted(f)
    <3>1. InCopy = {} /\ InCopy' = {}
      BY <2>2, <1>1, <1>2 DEF InCopy, Copied
    <3>2. f \notin InHw
      BY <2>2 DEF InHw
    <3> QED
      BY <3>1, <3>2, <1>3, <1>5 DEF InTransit
  <2> QED
    BY <2>1, <2>2
<1>11. Wanted(f) => \A g \in Waiting' : msg < g
  <2>1. \A g \in InHw' : \E b \in Buffers : RXFUL'[b] /\ g = hwBuf[b]
    BY <1>3 DEF InHw, FullBuffers
  <2> QED
    BY <2>1, <1>3, <1>5, <1>7, <1>9 DEF Waiting
<1>12. CodeInv' /\ OutInv'
  BY <1>1, <1>2, <1>8, <1>9, <1>10, <1>11 DEF RxInv, CodeInv, OutInv, Wanted
<1> QED
  BY <1>1, <1>3, <1>6, <1>10, <1>12 DEF RxInv, Kept

\* canbusRecv hands its frame out.
LEMMA StepReturn ==
  ASSUME TypeOK, RxInv, Return
  PROVE  RxInv' /\ Kept
<1>1. /\ UNCHANGED <<hwBuf, RXFUL, hwW, hwR, Fifo, FifoIdxW, FifoIdxR, arrived, maxethq, isrPc>>
      /\ mainPc = "enable" /\ mainPc' = "idle" /\ isrPc = "idle"
      /\ out' = IF msg = 0 THEN out ELSE msg
  BY DEF Return, Main, hwVars, swVars, statVars
<1>2. HwInv' /\ SwInv' /\ InSw' = InSw /\ InHw' = InHw /\ Waiting' = Waiting
  BY <1>1, StillFacts DEF Still
<1>3. InTransit = InCopy \union Waiting /\ InTransit' = Waiting
  BY <1>1, <1>2 DEF InTransit, Waiting, InCopy, Copied
<1>4. InCopy = IF msg = 0 THEN {} ELSE {msg}
  BY <1>1 DEF InCopy, Copied
<1>5. msg # 0 => msg <= arrived /\ \A f \in Waiting : msg < f
  BY <1>1 DEF RxInv, CodeInv
<1>6. CodeInv' /\ OutInv'
  BY <1>1, <1>3, <1>4, <1>5 DEF RxInv, CodeInv, OutInv
<1>7. CASE msg = 0
  BY <1>1, <1>2, <1>3, <1>4, <1>6, <1>7 DEF RxInv, Kept
<1>8. CASE msg # 0
  <2>1. msg \in Nat /\ arrived \in Nat /\ \A f \in Waiting : f \in Nat /\ msg < f
    BY <1>5, <1>8, Known, <1>3 DEF TypeOK
  <2>2. msg \in InTransit /\ (\A f \in InTransit : msg <= f) /\ InTransit' = InTransit \ {msg}
    BY <2>1, <1>3, <1>4, <1>8
  <2>3. Promise!HandOut(msg)
    BY <2>2, <1>1, <1>8 DEF Promise!HandOut
  <2>4. Promise!Next
    BY <2>2, <2>3 DEF Promise!Next
  <2> QED
    BY <1>2, <1>6, <2>4 DEF RxInv, Kept
<1> QED
  BY <1>7, <1>8

\* A frame from the bus is stored behind all others, or lost before it was received.
LEMMA StepArrive ==
  ASSUME TypeOK, RxInv, Arrive
  PROVE  RxInv' /\ Kept
<1> DEFINE x == arrived + 1
<1>1. /\ UNCHANGED <<hwR, FIFOWMIE, Fifo, FifoIdxW, FifoIdxR, maxethq, mainPc, ptr, msg, out, isrPc>>
      /\ arrived < MaxFrames /\ arrived' = x /\ arrived \in Nat /\ x \in Frames
  BY Sizes DEF Arrive, swVars, statVars, mainVars, TypeOK, Frames
<1>2. SwFirst' = SwFirst
  BY <1>1 DEF SwFirst
<1>3. /\ \A s \in Slots : (SwHolds(s)' <=> SwHolds(s)) /\ SwPos(s)' = SwPos(s)
      /\ InSw' = InSw
  BY <1>1, <1>2, SwSame
<1>4. InCopy' = InCopy
  BY <1>1 DEF InCopy, Copied
<1>6. \A f \in InTransit : f \in Nat /\ f < x
  BY <1>1, Known
<1>7. CASE RXFUL[hwW]
  <2>1. UNCHANGED <<hwBuf, RXFUL, hwW>>
    BY <1>1, <1>7 DEF Arrive
  <2>2. HwInv' /\ InHw' = InHw
    BY <1>1, <2>1 DEF RxInv, HwInv, HwPos, InHw, FullBuffers
  <2>3. SwInv'
    BY <1>1, <1>3, <2>1 DEF RxInv, SwInv, Wanted, TypeOK
  <2>4. InTransit' = InTransit /\ Waiting' = Waiting
    BY <1>3, <1>4, <2>2 DEF InTransit, Waiting
  <2>5. CodeInv'
    BY <1>1, <2>1, <2>4 DEF RxInv, CodeInv, Wanted, TypeOK
  <2>6. OutInv'
    BY <1>1, <2>4 DEF RxInv, OutInv, TypeOK
  <2> QED
    BY <1>1, <2>2, <2>3, <2>4, <2>5, <2>6 DEF RxInv, Kept
<1>8. CASE ~RXFUL[hwW]
  <2>1. /\ hwBuf' = [hwBuf EXCEPT ![hwW] = x] /\ RXFUL' = [RXFUL EXCEPT ![hwW] = TRUE]
        /\ hwW' = NextBuffer(hwW) /\ hwW \in Buffers /\ hwR \in Buffers
    BY <1>8 DEF Arrive, TypeOK
  <2>2. HwInv'
    BY <1>1, <1>8, <2>1, HwPut, Parts DEF RxInv
  <2>3. \A b \in Buffers : /\ RXFUL'[b] <=> RXFUL[b] \/ b = hwW
                           /\ hwBuf'[b] = IF b = hwW THEN x ELSE hwBuf[b]
    BY <2>1 DEF TypeOK
  <2>4. SwInv'
    BY <1>1, <1>3, <2>3, Members, Sizes DEF RxInv, SwInv, Wanted, TypeOK
  <2>5. InHw' = IF Wanted(x) THEN InHw \union {x} ELSE InHw
    <3>1. ASSUME NEW f PROVE f \in InHw' <=> Wanted(f) /\ \E b \in Buffers : RXFUL'[b] /\ f = hwBuf'[b]
      BY DEF InHw, FullBuffers, Wanted
    <3>2. ASSUME NEW f PROVE f \in InHw' <=> f \in InHw \/ (Wanted(f) /\ f = x)
      BY <3>1, <2>1, <2>3, <1>8, Members
    <3> QED
      BY <3>2
  <2>6. InTransit' = IF Wanted(x) THEN InTransit \union {x} ELSE InTransit
    BY <1>3, <1>4, <2>5 DEF InTransit
  <2>7. Waiting' \subseteq Waiting \union {x}
    BY <1>3, <2>5 DEF Waiting
  <2>8. RXFUL[hwR] => RXFUL'[hwR] /\ hwBuf'[hwR] = hwBuf[hwR]
    BY <2>1, <2>3, <1>8
  <2>9. CodeInv'
    <3>1. msg <= arrived /\ (\A f \in Waiting : msg < f) => msg <= x /\ \A f \in Waiting' : msg < f
      BY <1>1, <2>7 DEF TypeOK
    <3> QED
      BY <1>1, <2>8, <3>1 DEF RxInv, CodeInv, Wanted
  <2>10. OutInv'
    BY <1>1, <2>6 DEF RxInv, OutInv, TypeOK
  <2>11. Kept
    <3>1. CASE Wanted(x)
      <4>1. x > out /\ \A y \in InTransit : x > y
        BY <1>1, <1>6 DEF RxInv, OutInv, TypeOK
      <4>2. Promise!Arrive(x)
        BY <3>1, <4>1, <1>1, <2>6 DEF Promise!Arrive
      <4> QED
        BY <1>1, <4>2 DEF Promise!Next, Kept
    <3>2. CASE ~Wanted(x)
      BY <3>2, <1>1, <2>6 DEF Kept
    <3> QED
      BY <3>1, <3>2
  <2> QED
    BY <2>2, <2>4, <2>9, <2>10, <2>11 DEF RxInv
<1> QED
  BY <1>7, <1>8

\* isr_low comes and goes.
LEMMA StepIsr ==
  ASSUME TypeOK, RxInv, EnterIsrLow \/ IsrRx \/ DrainEnd \/ IsrClear
  PROVE  RxInv' /\ Kept
<1>1. /\ UNCHANGED <<hwBuf, RXFUL, hwW, hwR, Fifo, FifoIdxW, FifoIdxR, arrived, maxethq, mainPc,
                     ptr, msg, out>>
  BY DEF EnterIsrLow, IsrRx, DrainEnd, IsrClear, hwVars, swVars, statVars, mainVars
<1>2. HwInv' /\ SwInv' /\ InSw' = InSw /\ InHw' = InHw /\ Waiting' = Waiting
  BY <1>1, StillFacts DEF Still
<1>3. InTransit' = InTransit
  BY <1>1, <1>2 DEF InTransit, InCopy, Copied
<1>4. CodeInv' /\ OutInv'
  BY <1>1, <1>2, <1>3 DEF RxInv, CodeInv, OutInv
<1> QED
  BY <1>1, <1>2, <1>3, <1>4 DEF RxInv, Kept

\* canbusFifo moves the oldest frame of the hardware fifo behind the software fifo, skips
\* it, or, with the software fifo full, loses and counts it.
LEMMA StepDrain ==
  ASSUME TypeOK, MaskInv, RxInv, Drain, ~clashed'
  PROVE  RxInv' /\ Kept
<1> DEFINE f == hwBuf[hwR]
<1>1. /\ UNCHANGED <<FIFOWMIE, FifoIdxR, mainPc, ptr, msg, out, isrPc, arrived>>
      /\ isrPc = "drain" /\ RXFUL[hwR] /\ Free(hwR) /\ ~Clash
      /\ Fifo' = (IF Wanted(f) THEN [Fifo EXCEPT ![FifoIdxW] = f] ELSE Fifo)
      /\ FifoIdxW' = (IF Wanted(f) /\ NextSlot(FifoIdxW) # FifoIdxR THEN NextSlot(FifoIdxW)
                      ELSE FifoIdxW)
      /\ maxethq' = (IF Wanted(f) /\ NextSlot(FifoIdxW) = FifoIdxR THEN (maxethq + 1) % 256
                     ELSE maxethq)
  BY DEF Drain, mainVars, FIFOEMPTY
<1>2. /\ mainPc \in {"idle", "test", "take", "inc", "wrap", "enable"}
      /\ mainPc \in {"take", "inc"} => FifoIdxR \in Slots
  BY <1>1, Sizes DEF MaskInv, TypeOK, Window, Clash, Slots
<1>3. /\ HwInv' /\ hwBuf' = hwBuf
      /\ \A b \in Buffers : RXFUL'[b] <=> RXFUL[b] /\ b # hwR
      /\ \A b \in Buffers : RXFUL'[b] => f < hwBuf[b]
      /\ InHw' = InHw \ {f}
      /\ Wanted(f) => f \in InHw
  BY <1>1, HwTaken DEF RxInv
<1>4. hwR \in Buffers /\ f \in 1..arrived
  BY <1>1 DEF RxInv, HwInv, TypeOK
<1>5. \A s \in Slots : SwHolds(s) => Fifo[s] < f
  BY <1>1, <1>4 DEF RxInv, SwInv
<1>6. InCopy' = InCopy /\ SwFirst' = SwFirst /\ FifoIdxW \in Slots
  BY <1>1 DEF InCopy, Copied, SwFirst, TypeOK
\* The read index that canbusFifo compares with is that of the first slot.
<1>7. NextSlot(FifoIdxW) = FifoIdxR <=> NextSlot(FifoIdxW) = SwFirst
  <2>1. FifoIdxR = SW_FIFO_MAX => NextSlot(FifoIdxW) # 0
    BY <1>1 DEF Clash, MaskInv, TypeOK, Window
  <2> QED
    BY <2>1, <1>6, NextSlotType, Sizes DEF SwFirst, Slots
\* The frame canbusRecv holds is older than this one.
<1>8. Wanted(f) => f \notin InCopy
  <2>1. CASE mainPc = "inc"
    <3>1. SwHolds(FifoIdxR) /\ msg = Fifo[FifoIdxR]
      BY <2>1, <1>2, SwHead DEF RxInv, CodeInv
    <3> QED
      BY <2>1, <3>1, <1>2, <1>4, <1>5 DEF InCopy, TypeOK
  <2>2. CASE mainPc \in {"wrap", "enable"}
    BY <2>2, <1>3, <1>4 DEF RxInv, CodeInv, Waiting, InCopy, Copied, TypeOK
  <2> QED
    BY <1>2, <2>1, <2>2 DEF InCopy, Copied
\* What canbusRecv knows stays true.
<1>9. ASSUME Waiting' \subseteq Waiting PROVE CodeInv'
  <2>1. mainPc \in {"take", "inc"} => FifoIdxR # FifoIdxW' /\ Fifo'[FifoIdxR] = Fifo[FifoIdxR]
    BY <1>1, <1>2 DEF RxInv, CodeInv, TypeOK
  <2>2. Wanted(msg)' = Wanted(msg)
    BY <1>1 DEF Wanted
  <2> QED
    BY <1>1, <1>2, <1>9, <2>1, <2>2 DEF RxInv, CodeInv
<1>10. InTransit' \subseteq InTransit => OutInv'
  BY <1>1 DEF RxInv, OutInv
<1>11. CASE Wanted(f) /\ NextSlot(FifoIdxW) # FifoIdxR
  <2>1. SwInv' /\ InSw' = InSw \union {f}
    BY <1>1, <1>3, <1>4, <1>5, <1>7, <1>11, SwPut DEF RxInv
  <2>2. InTransit' = InTransit /\ Waiting' = Waiting
    BY <2>1, <1>3, <1>6, <1>11 DEF InTransit, Waiting
  <2> QED
    BY <2>1, <2>2, <1>1, <1>3, <1>9, <1>10, <1>11 DEF RxInv, Kept
<1>12. CASE Wanted(f) /\ NextSlot(FifoIdxW) = FifoIdxR
  <2>2. \A s \in Slots : (SwHolds(s)' <=> SwHolds(s)) /\ SwPos(s)' = SwPos(s)
    BY <1>1, <1>6, <1>12 DEF SwHolds, SwPos
  <2>3. ~SwHolds(FifoIdxW)
    BY <1>6, SwPosFacts, Parts, Sizes DEF SwHolds
  <2>4. \A s \in Slots : SwHolds(s) => Fifo'[s] = Fifo[s]
    BY <1>1, <2>3 DEF TypeOK
  <2>5. InSw' = InSw
    BY <2>2, <2>4 DEF InSw
  <2>6. SwInv'
    BY <1>1, <1>3, <2>2, <2>4 DEF RxInv, SwInv, Wanted
  <2>7. f \notin InSw
    BY <1>4, <1>5, Members DEF TypeOK
  <2>8. InTransit' = InTransit \ {f} /\ f \in InTransit /\ Waiting' \subseteq Waiting
    BY <2>5, <2>7, <1>3, <1>6, <1>8, <1>12 DEF InTransit, Waiting
  <2>9. maxethq' # maxethq
    BY <1>1, <1>12 DEF TypeOK
  <2>10. Promise!Lose(f)
    BY <2>8, <2>9, <1>1 DEF Promise!Lose
  <2> QED
    BY <2>6, <2>8, <2>10, <1>3, <1>9, <1>10 DEF RxInv, Kept, Promise!Next
<1>13. CASE ~Wanted(f)
  <2>1. UNCHANGED <<Fifo, FifoIdxW, maxethq>>
    BY <1>1, <1>13
  <2>2. /\ \A s \in Slots : (SwHolds(s)' <=> SwHolds(s)) /\ SwPos(s)' = SwPos(s)
        /\ InSw' = InSw
    BY <2>1, <1>6, SwSame
  <2>3. SwInv'
    BY <1>1, <1>3, <2>1, <2>2 DEF RxInv, SwInv, Wanted
  <2>4. f \notin InHw
    BY <1>13 DEF InHw
  <2>5. InTransit' = InTransit /\ Waiting' = Waiting
    BY <2>2, <2>4, <1>3, <1>6 DEF InTransit, Waiting
  <2> QED
    BY <2>1, <2>3, <2>5, <1>1, <1>3, <1>9, <1>10 DEF RxInv, Kept
<1> QED
  BY <1>11, <1>12, <1>13

LEMMA RxStep ==
  ASSUME TypeOK, MaskInv, RxInv, ~clashed', [Next]_vars PROVE RxInv' /\ Kept
<1>1. CASE UNCHANGED vars
  <2>1. UNCHANGED <<InSw, InCopy, InHw, Waiting, mainPc, msg, ptr, out>>
        /\ Still /\ HwInv' /\ SwInv'
    BY <1>1, StillFacts DEF vars, hwVars, swVars, statVars, mainVars, Still, InCopy, Copied
  <2>2. InTransit' = InTransit
    BY <2>1 DEF InTransit
  <2> QED
    BY <2>1, <2>2 DEF RxInv, CodeInv, OutInv, Kept, Still
<1> QED
  BY <1>1, StepGoto, StepInc, StepFree, StepReturn, StepArrive, StepIsr, StepDrain
     DEF Next, CanbusRecv, IsrLow

LEMMA ClashStays == ASSUME [Next]_vars, clashed PROVE clashed'
  BY DEF Next, CanbusRecv, Call, Test, Take, Inc, Wrap, Poll, Point, Peek, FreeBuffer, Return, Goto,
         SetIdxR, Main, IsrLow, EnterIsrLow, IsrRx, Drain, DrainEnd, IsrClear, Arrive, vars

LEMMA KeptInit == Init => Promise!Init
<1> SUFFICES ASSUME Init PROVE InTransit = {} /\ out = 0 /\ maxethq = 0
  BY DEF Promise!Init
<1>1. FullBuffers = {} /\ InCopy = {}
  BY DEF Init, FullBuffers, InCopy, Copied
<1>2. \A s \in Slots : ~SwHolds(s)
  BY Sizes DEF Init, Slots, SwHolds, SwPos, SwFirst
<1> QED
  BY <1>1, <1>2 DEF Init, InTransit, InSw, InHw

\* The receive path implements the lossy fifo, for every size of the two fifos and every
\* watermark and wherever isr_low interrupts canbusRecv, up to the first canbusFifo that
\* another source lets into canbusRecv where it relies on the fifos: a frame comes out at
\* most once and after all older ones, whichever of the two ways it takes, and is lost after
\* its reception only when canbusFifo finds the software fifo full, and is counted then.
THEOREM FrameOrderKept == Spec => KeepsPromise
<1> DEFINE Safe == clashed \/ RxInv
<1>1. Init => Promise!Init
  BY KeptInit
<1>2. TypeOK /\ MaskInv /\ Safe /\ [Next]_vars
        => Safe' /\ [clashed' \/ Promise!Next]_<<InTransit, out, maxethq>>
  <2> SUFFICES ASSUME TypeOK, MaskInv, Safe, [Next]_vars, ~clashed'
               PROVE  RxInv' /\ Kept
    BY DEF Kept
  <2> QED
    BY ClashStays, RxStep
<1>3. TypeOK /\ MaskInv /\ [Next]_vars => MaskInv'
  BY MaskStep
<1>4. Init => MaskInv /\ Safe
  BY RxInit
<1> QED
  BY <1>1, <1>2, <1>3, <1>4, TypeCorrect, PTL DEF Spec, KeepsPromise
=============================================================================

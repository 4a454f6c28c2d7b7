------------------------------- MODULE CanRx -------------------------------
(***************************************************************************)
(* The CAN receive path of canbus.c: the ECAN module's hardware fifo, the   *)
(* software fifo (Fifo0 and Fifo1) that isr_low fills on the high watermark *)
(* interrupt (canbusFifo), and canbusRecv, which the main loop calls and    *)
(* which reads first the software, then the hardware fifo.                  *)
(*                                                                         *)
(* Fifo0 and Fifo1 are one array of SW_FIFO_MAX slots here.  Frames are     *)
(* numbered in the order the bus delivers them.                             *)
(***************************************************************************)
EXTENDS Integers, FiniteSets

CONSTANTS
  SW_FIFO,        \* slots of Fifo0, and of Fifo1
  HW_FIFO,        \* receive buffers of the ECAN module
  Watermark,      \* frames in the hardware fifo that raise FIFOWMIF
  MaxFrames,      \* bound: number of frames on the bus
  Ignored         \* the frames canbus.c skips: remote requests, empty frames

SW_FIFO_MAX == 2 * SW_FIFO

ASSUME RxAssumption ==
  /\ SW_FIFO \in 1..127
  /\ HW_FIFO \in Nat \ {0} /\ Watermark \in 1..HW_FIFO
  /\ MaxFrames \in Nat \ {0}
  /\ Ignored \subseteq 1..MaxFrames

VARIABLES
  \* ECAN module: the receive buffers, their RXFUL bits, the next buffer to
  \* fill, and the fifo pointer in CANCON
  hwBuf, RXFUL, hwW, hwR,
  FIFOWMIF, FIFOWMIE, RXBnOVFL,
  \* canbus.c
  Fifo, FifoIdxW, FifoIdxR, maxcanq, maxethq, maxCANFifo,
  \* control and local variables of canbusRecv: ptr, msg
  mainPc, isrPc, ptr, msg,
  \* history
  arrived,        \* number of frames the bus has sent
  out,            \* the frame canbusRecv returned last
  opened,         \* isr_low was entered while this canbusRecv kept FIFOWMIE masked
  clashed         \* canbusFifo, let in that way, moved a frame canbusRecv relied on

hwVars    == <<hwBuf, RXFUL, hwW, hwR, FIFOWMIF, RXBnOVFL>>
swVars    == <<Fifo, FifoIdxW>>
statVars  == <<maxcanq, maxethq, maxCANFifo>>
mainVars  == <<mainPc, ptr, msg, out, opened>>
vars == <<hwVars, FIFOWMIE, swVars, FifoIdxR, statVars, mainVars, isrPc, arrived, clashed>>

Frames  == 1..MaxFrames
Buffers == 0..HW_FIFO-1
Slots   == 0..SW_FIFO_MAX-1

\* The lines of canbusRecv at which FIFOWMIE is masked.
Window == {"test", "take", "inc", "wrap", "poll", "point", "peek", "free", "enable"}

Init ==
  /\ hwBuf = [b \in Buffers |-> 0] /\ RXFUL = [b \in Buffers |-> FALSE]
  /\ hwW = 0 /\ hwR = 0
  /\ FIFOWMIF = FALSE /\ FIFOWMIE = TRUE /\ RXBnOVFL = FALSE
  /\ Fifo = [s \in Slots |-> 0] /\ FifoIdxW = 0 /\ FifoIdxR = 0
  /\ maxcanq = 0 /\ maxethq = 0 /\ maxCANFifo = 0
  /\ mainPc = "idle" /\ isrPc = "idle" /\ ptr = 0 /\ msg = 0
  /\ arrived = 0 /\ out = 0 /\ opened = FALSE /\ clashed = FALSE

-----------------------------------------------------------------------------
(* The ECAN module *)

NextBuffer(b) == IF b + 1 = HW_FIFO THEN 0 ELSE b + 1

\* COMSTAT.FIFOEMPTY: a set bit says that the fifo is NOT empty.
FIFOEMPTY == RXFUL[hwR]

FullBuffers == {b \in Buffers : RXFUL[b]}

\* A frame arrives; with no buffer free it is lost and the overflow bit set.
\* The watermark flag goes up when the level is reached, and may go up again
\* above it.
Arrive ==
  /\ arrived < MaxFrames
  /\ arrived' = arrived + 1
  /\ IF RXFUL[hwW]
     THEN RXBnOVFL' = TRUE /\ UNCHANGED <<hwBuf, RXFUL, hwW, FIFOWMIF>>
     ELSE /\ hwBuf' = [hwBuf EXCEPT ![hwW] = arrived + 1]
          /\ RXFUL' = [RXFUL EXCEPT ![hwW] = TRUE]
          /\ hwW' = NextBuffer(hwW)
          /\ LET level == Cardinality(FullBuffers) + 1
             IN \/ level >= Watermark /\ FIFOWMIF' = TRUE
                \/ level # Watermark /\ UNCHANGED FIFOWMIF
          /\ UNCHANGED RXBnOVFL
  /\ UNCHANGED <<hwR, FIFOWMIE, swVars, FifoIdxR, statVars, mainVars, isrPc, clashed>>

\* Clearing RXFUL of buffer b; the fifo pointer moves on from a freed buffer.
Free(b) ==
  /\ RXFUL' = [RXFUL EXCEPT ![b] = FALSE]
  /\ hwR' = IF b = hwR /\ RXFUL[b] THEN NextBuffer(b) ELSE hwR
  /\ UNCHANGED <<hwBuf, hwW>>

\* Not RTR and not zero payload.
Wanted(f) == f \in Frames \ Ignored

-----------------------------------------------------------------------------
(* The main program: canbusRecv. *)

\* opened is dropped when canbusRecv is left.
Main(from, to) == isrPc = "idle" /\ mainPc = from /\ mainPc' = to
                  /\ opened' = (opened /\ to \in Window)
                  /\ UNCHANGED <<isrPc, arrived, clashed>>

\* canbusRecv is entered; the watermark interrupt is masked.
Call ==
  /\ Main("idle", "test")
  /\ FIFOWMIE' = FALSE
  /\ msg' = 0
  /\ UNCHANGED <<hwVars, swVars, FifoIdxR, statVars, ptr, out>>

\* A line that only decides where to go on.
Goto(from, to) ==
  Main(from, to) /\ UNCHANGED <<hwVars, FIFOWMIE, swVars, FifoIdxR, statVars, ptr, msg, out>>

\* Slip: the hardware fifo is asked first.
TestHwFirst == Goto("test", IF FIFOEMPTY THEN "poll"
                            ELSE IF FifoIdxR # FifoIdxW THEN "take" ELSE "enable")
Test == Goto("test", IF FifoIdxR # FifoIdxW THEN "take" ELSE "poll")

Take ==
  /\ Main("take", "inc")
  /\ msg' = Fifo[FifoIdxR]
  /\ UNCHANGED <<hwVars, FIFOWMIE, swVars, FifoIdxR, statVars, ptr, out>>

\* ++FifoIdxR and the wrap to 0 are separate instructions.
SetIdxR(from, to, r) ==
  /\ Main(from, to)
  /\ FifoIdxR' = r
  /\ UNCHANGED <<hwVars, FIFOWMIE, swVars, statVars, ptr, msg, out>>

Inc == SetIdxR("inc", "wrap", FifoIdxR + 1)

Wrap == SetIdxR("wrap", "enable", IF FifoIdxR >= SW_FIFO_MAX THEN 0 ELSE FifoIdxR)

\* Slip: canbusRecv leaves the hardware fifo to the interrupt.
PollNever == Goto("poll", "enable")
Poll == Goto("poll", IF FIFOEMPTY THEN "point" ELSE "enable")

Point ==
  /\ Main("point", "peek")
  /\ ptr' = hwR
  /\ UNCHANGED <<hwVars, FIFOWMIE, swVars, FifoIdxR, statVars, msg, out>>

Peek ==
  /\ Main("peek", "free")
  /\ msg' = IF Wanted(hwBuf[ptr]) THEN hwBuf[ptr] ELSE 0
  /\ UNCHANGED <<hwVars, FIFOWMIE, swVars, FifoIdxR, statVars, ptr, out>>

FreeBuffer ==
  /\ Main("free", IF msg = 0 THEN "poll" ELSE "enable")
  /\ Free(ptr)
  /\ UNCHANGED <<FIFOWMIF, FIFOWMIE, RXBnOVFL, swVars, FifoIdxR, statVars,
                 ptr, msg, out>>

\* canbusRecv unmasks the interrupt and returns, with a frame or without.
Return ==
  /\ Main("enable", "idle")
  /\ FIFOWMIE' = TRUE
  /\ out' = IF msg = 0 THEN out ELSE msg
  /\ UNCHANGED <<hwVars, swVars, FifoIdxR, statVars, ptr, msg>>

CanbusRecv == \/ Call \/ Test \/ Take \/ Inc \/ Wrap
              \/ Poll \/ Point \/ Peek \/ FreeBuffer \/ Return

-----------------------------------------------------------------------------
(* isr_low, as far as reception goes: it looks at FIFOWMIF, never at FIFOWMIE. *)

\* It is entered by the watermark, unless that is masked, or at any time by another
\* low priority source: timer tick, transmit buffer, CAN error.
EnterIsrLow ==
  /\ isrPc = "idle"
  /\ isrPc' = "rx"
  /\ opened' = (opened \/ (mainPc \in Window /\ ~FIFOWMIE))
  /\ UNCHANGED <<hwVars, FIFOWMIE, swVars, FifoIdxR, statVars, mainPc, ptr, msg, out,
                 arrived, clashed>>

IsrRx ==
  /\ isrPc = "rx"
  /\ IF FIFOWMIF
     THEN FIFOWMIE' = FALSE /\ FIFOWMIF' = FALSE /\ isrPc' = "drain"
     ELSE isrPc' = "clear" /\ UNCHANGED <<FIFOWMIE, FIFOWMIF>>
  /\ UNCHANGED <<hwBuf, RXFUL, hwW, hwR, RXBnOVFL, swVars, FifoIdxR, statVars,
                 mainVars, arrived, clashed>>

\* One turn of canbusFifo.  With the software fifo full the write index is
\* taken back, so that the next frame is written over this one.
NextSlot(s) == IF s + 1 >= SW_FIFO_MAX THEN 0 ELSE s + 1

\* canbusRecv is interrupted where a frame that changes fifos undoes what it has found
\* out: the software fifo was empty, and this frame the oldest of the hardware fifo.
\* Or where its read index stands behind the last slot, and does not look like slot 0.
Clash ==
  opened /\ \/ mainPc \in {"poll", "point", "peek", "free"}
            \/ FifoIdxR = SW_FIFO_MAX /\ NextSlot(FifoIdxW) = 0

Drain ==
  /\ isrPc = "drain" /\ FIFOEMPTY
  /\ LET f    == hwBuf[hwR]
         full == NextSlot(FifoIdxW) = FifoIdxR
         hiIndex == IF FifoIdxW' < FifoIdxR THEN FifoIdxW' + SW_FIFO ELSE FifoIdxW'
     IN /\ Fifo' = IF Wanted(f) THEN [Fifo EXCEPT ![FifoIdxW] = f] ELSE Fifo
        /\ FifoIdxW' = IF Wanted(f) /\ ~full THEN NextSlot(FifoIdxW) ELSE FifoIdxW
        /\ maxethq' = IF Wanted(f) /\ full THEN (maxethq + 1) % 256 ELSE maxethq
        /\ maxCANFifo' = IF (hiIndex - FifoIdxR) % 256 > maxCANFifo
                         THEN (hiIndex - FifoIdxR) % 256 ELSE maxCANFifo
  /\ maxcanq' = IF RXBnOVFL THEN (maxcanq + 1) % 256 ELSE maxcanq
  /\ RXBnOVFL' = FALSE
  /\ Free(hwR)
  /\ clashed' = (clashed \/ Clash)
  /\ UNCHANGED <<FIFOWMIF, FIFOWMIE, FifoIdxR, mainVars, isrPc, arrived>>

DrainEnd ==
  /\ isrPc = "drain" /\ ~FIFOEMPTY
  /\ FIFOWMIE' = TRUE
  /\ isrPc' = "clear"
  /\ UNCHANGED <<hwVars, swVars, FifoIdxR, statVars, mainVars, arrived, clashed>>

\* isr_low ends with PIR3 = 0.
IsrClear ==
  /\ isrPc = "clear"
  /\ FIFOWMIF' = FALSE
  /\ isrPc' = "idle"
  /\ UNCHANGED <<hwBuf, RXFUL, hwW, hwR, RXBnOVFL, FIFOWMIE, swVars, FifoIdxR,
                 statVars, mainVars, arrived, clashed>>

IsrLow == IsrRx \/ Drain \/ DrainEnd \/ IsrClear

Next == Arrive \/ CanbusRecv \/ EnterIsrLow \/ IsrLow

Spec == Init /\ [][Next]_vars

\* The main loop calls canbusRecv for ever, the tick timer interrupts for ever,
\* and an interrupt routine that was entered runs on.
FairSpec == Spec /\ SF_vars(CanbusRecv) /\ WF_vars(EnterIsrLow) /\ WF_vars(IsrLow)

-----------------------------------------------------------------------------
(* Properties *)

\* Every variable has its C type; the write index is always a slot, and the read
\* index is one except between ++FifoIdxR and the wrap, wherever isr_low runs.
TypeOK ==
  /\ hwBuf \in [Buffers -> 0..MaxFrames] /\ RXFUL \in [Buffers -> BOOLEAN]
  /\ hwW \in Buffers /\ hwR \in Buffers
  /\ FIFOWMIF \in BOOLEAN /\ FIFOWMIE \in BOOLEAN /\ RXBnOVFL \in BOOLEAN
  /\ Fifo \in [Slots -> 0..MaxFrames]
  /\ FifoIdxW \in Slots
  /\ FifoIdxR \in 0..SW_FIFO_MAX /\ (FifoIdxR = SW_FIFO_MAX => mainPc = "wrap")
  /\ maxcanq \in 0..255 /\ maxethq \in 0..255 /\ maxCANFifo \in 0..255
  /\ mainPc \in {"idle"} \union Window
  /\ isrPc \in {"idle", "rx", "drain", "clear"}
  /\ ptr \in Buffers /\ msg \in 0..MaxFrames
  /\ arrived \in 0..MaxFrames /\ out \in 0..MaxFrames
  /\ opened \in BOOLEAN /\ clashed \in BOOLEAN

\* The frames on their way: the one canbusRecv has copied, which may still be in its
\* slot or buffer, those of the software fifo, and those of the hardware fifo.
SwFirst == IF FifoIdxR = SW_FIFO_MAX THEN 0 ELSE FifoIdxR
SwPos(s) == IF s >= SwFirst THEN s - SwFirst ELSE s - SwFirst + SW_FIFO_MAX
SwHolds(s) == SwPos(s) < SwPos(FifoIdxW)

Copied == mainPc \in {"inc", "wrap", "free", "enable"} /\ msg # 0

InCopy == IF Copied THEN {msg} ELSE {}
InSw == {Fifo[s] : s \in {t \in Slots : SwHolds(t)}}
InHw == {f \in {hwBuf[b] : b \in FullBuffers} : Wanted(f)}
InTransit == InCopy \union InSw \union InHw

\* The two fifos and canbusRecv together are one lossy fifo: no frame comes out
\* twice or before an older one, although each frame takes one of two ways and isr_low
\* may run between any two lines of canbusRecv, and once received it is lost only when
\* the software fifo is full, and then counted (maxethq); until a canbusFifo that another
\* source let in moves a frame where canbusRecv relied on the two fifos.
Promise == INSTANCE LossyFifo WITH Item <- Frames, inTransit <- InTransit, out <- out,
                                   losses <- maxethq
KeepsPromise ==
  Promise!Init /\ [][clashed' \/ Promise!Next]_<<InTransit, out, maxethq>>

\* No frame stays in the module: it is handed to the main loop or lost, unless the
\* fifos clashed.
NoneStuck ==
  \A f \in Frames : f \in InTransit ~> f \notin InTransit \/ clashed

=============================================================================

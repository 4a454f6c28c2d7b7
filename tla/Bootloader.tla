---------------------------- MODULE Bootloader ----------------------------
(***************************************************************************)
(* The CAN boot loader (Boot4.asm): its start, control and data frames, the *)
(* write lock, automatic erase and increment, the read back of every write, *)
(* the 16 bit sum and the boot flag in the last byte of EEPROM.             *)
(*                                                                         *)
(* A row is what one data frame holds: eight bytes of program memory, or up *)
(* to eight of the configuration words or of EEPROM.  A row is a set of     *)
(* bits that are 1: erasing sets all, and writing program memory can only   *)
(* clear.  The tool at the other end is not part of this repository; it     *)
(* does what the comments of the file say of the protocol.                  *)
(***************************************************************************)
EXTENDS Integers, Sequences, FiniteSets, FiniteSetsExt

CONSTANTS
  Bits,          \* bits of a row
  Weight,        \* what each bit adds to the sum
  Byte, Modulus, \* 2^8 and 2^16 in the code
  ProgRows,      \* rows of program memory
  EraseRows,     \* rows that are erased together (64 bytes in the code)
  Download,      \* segments <<region, first row, rows>> in the order they are sent
  Old,           \* contents a download may find
  MaxLost, MaxShort, MaxFail, MaxPower   \* bounds: lost and short frames, failing
                                         \* writes, losses of power

FlagRow == <<"ee", 1>>        \* the last of EEPROM: the boot flag
Cells == ({"prog"} \X (0 .. ProgRows - 1)) \cup {<<"conf", 0>>, <<"ee", 0>>, FlagRow}
Nowhere == <<"none", 0>>      \* an address without memory
AUTO_ERASE == "autoErase"     \* MODE_AUTO_ERASE and so on
AUTO_INC == "autoInc"
WRT_UNLCK == "unlock"
BOOTCTL == {AUTO_ERASE, AUTO_INC}     \* 0x1C, without the bit that nobody reads

ASSUME BootAssumption ==
  /\ IsFiniteSet(Bits) /\ Weight \in [Bits -> Nat] /\ Byte \in Nat \ {0}
  /\ Modulus = Byte * Byte
  /\ ProgRows \in Nat \ {0} /\ EraseRows \in 1 .. ProgRows
  /\ Old \subseteq SUBSET Bits
  /\ {MaxLost, MaxShort, MaxFail, MaxPower} \subseteq Nat
  /\ Download # <<>> /\ Download \in Seq({"prog", "conf", "ee"} \X Nat \X Seq(SUBSET Bits))
  /\ \A s \in DOMAIN Download : Download[s][3] # <<>>

Rows(s) == [i \in 1 .. Len(Download[s][3]) |->
              [at |-> <<Download[s][1], Download[s][2] + i - 1>>, row |-> Download[s][3][i]]]
Sent == UNION {{Rows(s)[i] : i \in DOMAIN Rows(s)} : s \in DOMAIN Download}
RowSum(r) == MapThenSumSet(LAMBDA b : Weight[b], r)
SumOf(S) == MapThenSumSet(LAMBDA e : RowSum(e.row), S) % Modulus

\* The rows of a download go upwards in memory, as in a hex file, and the boot flag is not
\* among them: an erase, which comes with the first row of a block, wipes nothing that was
\* written before.
Below(c, d) == IF c[1] = d[1] THEN c[2] < d[2] ELSE c[1] = "prog" \/ d[1] = "ee"
ASSUME DownloadGoesUp ==
  /\ \A e \in Sent : e.at \in Cells \ {FlagRow}
  /\ \A s, t \in DOMAIN Download : s < t =>
       \A i \in DOMAIN Rows(s), j \in DOMAIN Rows(t) : Below(Rows(s)[i].at, Rows(t)[j].at)

VARIABLES
  mode, pc,        \* "app" or "loader", and where the loader is
  mem,             \* Cells -> contents
  addr, ctlBits, spcCmd, chk, chksm, errVerify,  \* the control registers
  ptr,             \* TBLPTR, EEADR
  rx, ans,         \* receive buffer; answer on its way
  tool, seg, pos,  \* the tool: what it does next, and the row it is at
  \* history
  intact,          \* the loader started this download and has not lost power since
  astray,          \* a frame with an address was lost in this download
  missed,          \* the rows of this download that the sum lacks: they were lost, or the
                   \* sum was cleared after them
  gamble,          \* OK was sent though the download was not assured
  unseen,          \* failed writes that the code does not look for
  lost, shorts, fails, powers

ctlRegs == <<addr, ctlBits, spcCmd, chk>>
toolVars == <<tool, seg, pos>>
history == <<intact, astray, missed, gamble, unseen, lost, shorts, fails, powers>>
vars == <<mode, pc, mem, ctlRegs, chksm, errVerify, ptr, rx, ans, toolVars, history>>

None == "none"
NoFrame == [kind |-> "none"]
Idle == mode = "loader" /\ pc = "wait" /\ rx = NoFrame

Init ==
  /\ mode = "loader" /\ pc = "wait"
  /\ \E old \in Old : mem = [c \in Cells |-> IF c = FlagRow THEN Bits ELSE old]
  /\ addr = Nowhere /\ ptr = Nowhere /\ chksm = 0 /\ errVerify = FALSE
  /\ ctlBits = BOOTCTL /\ spcCmd = "NOP" /\ chk = 0
  /\ rx = NoFrame /\ ans = None
  /\ tool = "test" /\ seg = 1 /\ pos = 1
  /\ intact = FALSE /\ astray = FALSE /\ missed = {} /\ gamble = FALSE /\ unseen = {}
  /\ lost = 0 /\ shorts = 0 /\ fails = 0 /\ powers = 0

----------------------------------------------------------------------------
(* _CANInit: a flag that is not 0xFF means that the application is started. *)
(* Otherwise the command and the control bits have their defaults, and the  *)
(* other registers what they had, which after a loss of power is anything.  *)

Boots(bits) ==
  /\ mode' = IF mem'[FlagRow] = Bits THEN "loader" ELSE "app"
  /\ pc' = "wait" /\ rx' = NoFrame
  /\ spcCmd' = "NOP" /\ ctlBits' = bits
CANInitUnlocked == Boots(BOOTCTL \cup {WRT_UNLCK})      \* slip: 0x1D
CANInit == Boots(BOOTCTL)

PowerLoss ==
  /\ mode = "loader" /\ powers < MaxPower
  /\ powers' = powers + 1
  /\ intact' = FALSE /\ ans' = None
  /\ addr' \in Cells \cup {Nowhere} /\ chksm' \in 0 .. Modulus - 1
  /\ errVerify' \in BOOLEAN /\ chk' = 0 /\ ptr' = Nowhere
  /\ UNCHANGED <<mem, toolVars, astray, missed, gamble, unseen, lost, shorts, fails>>
  /\ CANInit

----------------------------------------------------------------------------
(* _CANMain: the frame in the buffer is handled, and RXFUL cleared when     *)
(* that is done.                                                            *)

CANMain == pc' = "wait" /\ rx' = NoFrame

\* _ControlReg: the frame goes to the registers, or to the first of them if it is
\* short, and then the command they hold is carried out.
ControlReg(cmd) ==
  /\ mode = "loader" /\ pc = "wait" /\ rx.kind = "control"
  /\ cmd = IF rx.full THEN rx.cmd ELSE spcCmd
  /\ addr' = rx.addr
  /\ chk' = IF rx.full THEN rx.chk ELSE chk
  /\ UNCHANGED <<ptr, toolVars, astray, unseen, lost, shorts, fails, powers>>
Command(cmd) ==
  /\ ControlReg(cmd)
  /\ ctlBits' = (IF rx.full THEN rx.bits ELSE ctlBits) /\ spcCmd' = cmd
  /\ CANMain
  /\ UNCHANGED <<mode, mem>>
\* _CANSendOK and its like write the answer into the transmit buffer before
\* _CANSendMessage waits for the message before, which is so overwritten.
CANSend(m) == ans' = m

NOP == Command("NOP") /\ UNCHANGED <<chksm, errVerify, ans, intact, missed, gamble>>

\* The rows that the tool has sent so far (history).
Gone(s, i) == tool \in {"data", "segment"} => s < seg \/ (s = seg /\ i < pos)
Handed == {e \in Sent : \E s \in DOMAIN Download : \E i \in 1 .. Len(Download[s][3]) :
                          e = Rows(s)[i] /\ Gone(s, i)}

\* _SpecialCmdJp4.  Slip: the error flag is kept.
Cleared == chksm' = 0 /\ intact' = TRUE /\ missed' = Handed
RstChksmOnly == Command("RST_CHKSM") /\ Cleared /\ UNCHANGED <<errVerify, ans, gamble>>
RstChksm == Command("RST_CHKSM") /\ Cleared /\ errVerify' = FALSE /\ UNCHANGED <<ans, gamble>>

\* What the sum lacks adds up to nothing, so it does not show.
Blind == missed # {} /\ SumOf(missed) = 0
\* What the code can vouch for.
Assured == intact /\ ~astray /\ ~Blind

\* _SpecialCmdJp1 adds the tool's complement to the sum, which spoils it for a second
\* try, and answers.  The upper byte and the carry are added only if the lower byte is 0.
\* Slips: only one of sum and error flag counts.
Verdict(ok) ==
  /\ Command("CHK_RUN")
  /\ chksm' = IF (chksm + chk') % Byte = 0 THEN (chksm + chk') % Modulus
              ELSE (chksm \div Byte) * Byte + ((chksm + chk') % Byte)
  /\ CANSend(IF ok THEN "ok" ELSE "nok")
  /\ gamble' = (gamble \/ (ok /\ ~Assured))
  /\ UNCHANGED <<errVerify, intact, missed>>
SumFits == (chksm + (IF rx.full THEN rx.chk ELSE chk)) % Modulus = 0
ChkRunSum == rx # NoFrame /\ Verdict(SumFits)
ChkRunVerify == rx # NoFrame /\ Verdict(~errVerify)
ChkRun == rx # NoFrame /\ Verdict(SumFits /\ ~errVerify)

BootTest ==
  Command("BOOT_TEST") /\ CANSend("boot") /\ UNCHANGED <<chksm, errVerify, intact, missed, gamble>>

\* The reset command: the flag is cleared if writing is unlocked, then comes _CANInit.
ResetCmd ==
  /\ ControlReg("RESET")
  /\ mem' = IF WRT_UNLCK \in (IF rx.full THEN rx.bits ELSE ctlBits)
            THEN [mem EXCEPT ![FlagRow] = {}] ELSE mem
  /\ CANInit
  /\ UNCHANGED <<chksm, errVerify, ans, intact, missed, gamble>>

----------------------------------------------------------------------------
(* _DataReg: the pointer is set, the address goes on by the length of the   *)
(* frame, and the upper byte of the pointer says which memory is meant.     *)

Advance(a) == IF <<a[1], a[2] + 1>> \in Cells THEN <<a[1], a[2] + 1>> ELSE Nowhere

DataReg ==
  /\ mode = "loader" /\ pc = "wait" /\ rx.kind = "data"
  /\ ptr' = addr
  /\ addr' = IF AUTO_INC \in ctlBits THEN Advance(addr) ELSE addr
  /\ IF addr = Nowhere THEN CANMain
     ELSE pc' = (IF addr[1] # "prog" THEN addr[1]
                 ELSE IF AUTO_ERASE \in ctlBits /\ addr[2] % EraseRows = 0
                 THEN "erase" ELSE "write") /\ UNCHANGED rx
  /\ UNCHANGED <<mode, mem, ctlBits, spcCmd, chk, chksm, errVerify, ans, toolVars, history>>

\* _StartWrite: nothing is written while the lock is on.
StartWrite(m) == mem' = IF WRT_UNLCK \in ctlBits THEN m ELSE mem

\* The rows of program memory that go together.
Block(c) == {<<"prog", r>> : r \in {q \in 0 .. ProgRows - 1 : q \div EraseRows = c[2] \div EraseRows}}

PMErase ==
  /\ mode = "loader" /\ pc = "erase" /\ pc' = "write"
  /\ StartWrite([c \in Cells |-> IF c \in Block(ptr) THEN Bits ELSE mem[c]])
  /\ UNCHANGED <<mode, ctlRegs, chksm, errVerify, ptr, rx, ans, toolVars, history>>

\* A write sums the row, and leaves the memory as it should be or, if it fails, as it was.
Sum == chksm' = (chksm + RowSum(rx.row)) % Modulus
Stored(row) ==
  \/ StartWrite([mem EXCEPT ![ptr] = row]) /\ UNCHANGED fails
  \/ fails < MaxFail /\ fails' = fails + 1 /\ UNCHANGED mem
Writes(region) ==
  /\ mode = "loader" /\ pc = region /\ CANMain /\ Sum
  /\ UNCHANGED <<mode, ctlRegs, ptr, ans, toolVars, intact, astray, missed, gamble, lost, shorts, powers>>
Verify == errVerify' = (errVerify \/ mem'[ptr] # rx.row)

\* _PMWrite can only clear bits.
PMWrite == Writes("write") /\ Stored(mem[ptr] \cap rx.row) /\ Verify /\ UNCHANGED unseen
\* _CFGWrite compares and forgets the result.
CFGWrite ==
  /\ Writes("conf") /\ Stored(rx.row)
  /\ unseen' = IF mem'[ptr] = rx.row THEN unseen \ {ptr} ELSE unseen \cup {ptr}
  /\ UNCHANGED errVerify
EEWrite == Writes("ee") /\ Stored(rx.row) /\ Verify /\ UNCHANGED unseen

Loader ==
  \/ NOP \/ RstChksm \/ ChkRun \/ BootTest \/ ResetCmd
  \/ DataReg \/ PMErase \/ PMWrite \/ CFGWrite \/ EEWrite

----------------------------------------------------------------------------
(* The tool.  Data frames and what follows them come at the pace of the     *)
(* tool, and are lost while the loader is busy; what follows an answer, or  *)
(* a long silence, finds it waiting.                                        *)

Tools(now, next) ==
  /\ mode = "loader" /\ tool = now /\ tool' = next
  /\ UNCHANGED <<mode, pc, mem, ctlRegs, chksm, errVerify, ptr, intact, gamble, unseen, fails, powers>>
Send(f) ==
  \/ Idle /\ rx' = f /\ UNCHANGED lost
  \/ ~Idle /\ lost < MaxLost /\ lost' = lost + 1 /\ UNCHANGED rx
Calmly(f) == Idle /\ rx' = f /\ UNCHANGED <<ans, seg, pos, shorts, lost, astray, missed>>

SegmentAt(s) == <<Download[s][1], Download[s][2]>>
Control(s, cmd, sum) ==
  [kind |-> "control", full |-> TRUE, addr |-> SegmentAt(s), bits |-> BOOTCTL \cup {WRT_UNLCK},
   cmd |-> cmd, chk |-> sum]
Locked(cmd) == [Control(1, cmd, 0) EXCEPT !.bits = BOOTCTL]
Complement == (Modulus - SumOf(Sent)) % Modulus

ToolTest == Tools("test", "asked") /\ Calmly(Locked("BOOT_TEST"))
ToolBegin ==
  /\ Tools("start", "data") /\ Idle
  /\ rx' = Control(1, "RST_CHKSM", 0) /\ seg' = 1 /\ pos' = 1
  /\ astray' = FALSE /\ missed' = {} /\ UNCHANGED <<ans, shorts, lost>>
ToolData ==
  /\ IF pos < Len(Download[seg][3])
     THEN Tools("data", "data") /\ pos' = pos + 1 /\ UNCHANGED seg
     ELSE /\ Tools("data", IF seg < Len(Download) THEN "segment" ELSE "check")
          /\ pos' = 1 /\ seg' = IF seg < Len(Download) THEN seg + 1 ELSE seg
  /\ Send([kind |-> "data", row |-> Download[seg][3][pos]])
  /\ missed' = IF lost' = lost THEN missed ELSE missed \cup {Rows(seg)[pos]}
  /\ UNCHANGED <<ans, shorts, astray>>
\* The address of the next segment, by a full or by a short control frame.
ToolSegment ==
  /\ Tools("segment", "data")
  /\ \/ Send(Control(seg, "NOP", 0)) /\ UNCHANGED shorts
     \/ /\ shorts < MaxShort /\ shorts' = shorts + 1
        /\ Send([kind |-> "control", full |-> FALSE, addr |-> SegmentAt(seg)])
  /\ astray' = (astray \/ lost' # lost)
  /\ UNCHANGED <<ans, seg, pos, missed>>
ToolCheck ==
  /\ Tools("check", "await")
  /\ Send(Control(1, "CHK_RUN", Complement))
  /\ UNCHANGED <<ans, seg, pos, shorts, astray, missed>>
ToolReset == Tools("reset", "test") /\ Calmly(Control(1, "RESET", 0))

ToolAnswer ==
  /\ ans # None /\ ans' = None
  /\ \/ Tools("asked", "start") /\ ans = "boot"
     \/ Tools("await", IF ans = "ok" THEN "reset" ELSE "start")
  /\ UNCHANGED <<rx, seg, pos, shorts, lost, astray, missed>>
ToolTimeout ==
  /\ Idle /\ ans = None
  /\ (Tools("asked", "test") \/ Tools("await", "start"))
  /\ UNCHANGED <<rx, ans, seg, pos, shorts, lost, astray, missed>>

Tool == ToolTest \/ ToolBegin \/ ToolData \/ ToolSegment \/ ToolCheck \/ ToolReset
        \/ ToolAnswer \/ ToolTimeout

Done == mode = "app" /\ UNCHANGED vars

Next == Loader \/ Tool \/ PowerLoss \/ Done

Spec == Init /\ [][Next]_vars /\ WF_vars(Loader) /\ WF_vars(Tool)

----------------------------------------------------------------------------
\* Every variable has one of the values the code can give it.
TypeOK ==
  /\ mode \in {"app", "loader"} /\ pc \in {"wait", "erase", "write", "conf", "ee"}
  /\ mem \in [Cells -> SUBSET Bits]
  /\ {addr, ptr} \subseteq Cells \cup {Nowhere}
  /\ ctlBits \subseteq {AUTO_ERASE, AUTO_INC, WRT_UNLCK}
  /\ {chk, chksm} \subseteq 0 .. Modulus - 1
  /\ spcCmd \in {"NOP", "RESET", "RST_CHKSM", "CHK_RUN", "BOOT_TEST"}
  /\ rx.kind \in {"none", "control", "data"} /\ ans \in {None, "ok", "nok", "boot"}
  /\ {errVerify, intact, astray, gamble} \subseteq BOOLEAN /\ unseen \subseteq Cells /\ missed \subseteq Sent
  /\ seg \in DOMAIN Download /\ pos \in DOMAIN Download[seg][3]

Programmed == \A e \in Sent : mem[e.at] = e.row \/ e.at \in unseen

\* The loader answers OK only if all that was sent is in its place, whatever frames it
\* missed while it was writing and whichever writes failed: the sum has each row once and
\* the error flag each failure since they were cleared (_SpecialCmdJp1).  Short control
\* frames, which clear both again by repeating the last command, do not fool it.  A lost
\* address does, as the sum is over data only, and so do rows of zeros, or others that add
\* up to nothing, if they are lost or come before such a clearing.
OkMeansProgrammed == ans = "ok" /\ Assured => Programmed

\* The application is started only with a whole download: the flag is cleared by nothing
\* but the reset command, and an erased or half written memory survives a loss of
\* power in boot mode.  (A sum and an error flag of uninitialized memory may say OK.)
AppIsWhole == TypeOK /\ (mode = "app" /\ ~gamble => Programmed)

\* Nothing but what is downloaded, the blocks it shares and the boot flag is ever
\* written, although a loss of power leaves any address behind: the lock is on again.
Meant == (UNION {IF e.at[1] = "prog" THEN Block(e.at) ELSE {e.at} : e \in Sent}) \cup {FlagRow}
OthersKept == [][astray \/ \A c \in Cells \ Meant : mem'[c] = mem[c]]_vars

\* Whatever was lost, failed or cut short, a new start of the download repairs, and in
\* the end the application runs.
EventuallyRuns == <>(mode = "app")
=============================================================================

----------------------------- MODULE FlimNode -----------------------------
(***************************************************************************)
(* The gateway as a configurable CBUS node: what main and InitAppConfig do  *)
(* from a reset to the main loop, the push button, the commands that change *)
(* the node (parseCmdEth), the bytes they keep in EEPROM, and the start of  *)
(* the boot loader, with losses of power between any two EEPROM writes.     *)
(*                                                                         *)
(* A routine that writes to EEPROM is one step for everything it does in    *)
(* RAM, followed by one step for each write: nothing but a loss of power    *)
(* can tell, since the main loop waits for each write (eeWrite).            *)
(***************************************************************************)
EXTENDS Integers, Sequences

CONSTANTS
  Numbers,            \* node numbers a configuration tool assigns
  NV1Values,          \* values it writes to node variable 1
  CanIds,             \* values it writes to node variable 2
  NVCells,            \* the other cells it writes
  SW_DEBOUNCE_COUNT,  \* turns of the main loop the button must be held
  MaxLosses           \* bound: losses of power

UCHAR_MAX == 255
USHRT_MAX == 65535
Byte == 0..UCHAR_MAX
Short == 0..USHRT_MAX
DEFAULT_NN == 65533
CFG_DHCP_CLIENT == 8
CFG_REINIT_TCPIP == 128
VIRGIN == 255

ASSUME NodeAssumption ==
  /\ Numbers \subseteq Short
  /\ NV1Values \subseteq Byte /\ CanIds \subseteq Byte
  /\ NVCells \subseteq {"idletime", "mac", "macRest", "ip", "portnum", "remote"}
  /\ SW_DEBOUNCE_COUNT \in Byte \ {0} /\ MaxLosses \in Nat

\* EEPROM, as bytes where the code looks at single bytes, and as one value for
\* the bytes it only writes and reads together: macRest is the MAC address but
\* for its first byte, ip the address and the mask, remote everything after the port
\* number, which is written low byte first and is VIRGIN while both bytes are.
Cells == {"nv", "nnH", "nnL", "canid", "idletime", "mac", "macRest", "clean", "ip",
          "portnum", "remote", "bootflag"}
FACTORY == 1        \* the default of a group of bytes

VARIABLES
  pc, todo,           \* the next routine, and the writes that come before it
  restart,            \* InitAppConfig is called by main, not by NVSET
  SW,                 \* the button is held down
  EE,
  NV1, NN_temp, CANID, IdleTime, Wait4NN, bIsDHCPEnabled, debounce_count,
  \* history
  number,             \* the node number that was last stored as a whole
  torn,               \* power failed between the two bytes of a number
  cut,                \* power failed within a group of default values
  held,               \* the button has been down since the last reset
  taken,              \* numbers taken since the node last asked for one
  losses

nodeVars == <<NV1, NN_temp, CANID, IdleTime, Wait4NN, bIsDHCPEnabled, debounce_count>>
history == <<number, torn, cut, held, taken, losses>>
vars == <<pc, todo, restart, SW, EE, nodeVars, history>>

Bit(b, mask) == (b \div mask) % 2 = 1

Toggled(b, mask) == IF Bit(b, mask) THEN b - mask ELSE b + mask

High(nn) == nn \div 256
Low(nn) == nn % 256

Reserved == {0, USHRT_MAX, DEFAULT_NN}

\* A new chip: EEPROM is virgin but for the flag bootflag of the hex file.
Init ==
  /\ pc = "reset" /\ todo = <<>> /\ restart = TRUE /\ SW \in BOOLEAN
  /\ EE = [c \in Cells |-> IF c = "bootflag" THEN 0 ELSE VIRGIN]
  /\ NV1 = 0 /\ NN_temp = USHRT_MAX /\ CANID = 0 /\ IdleTime = 0
  /\ Wait4NN = FALSE /\ bIsDHCPEnabled = FALSE /\ debounce_count = 0
  /\ number = USHRT_MAX /\ torn = FALSE /\ cut = FALSE /\ held = SW
  /\ taken = 1 /\ losses = 0

-----------------------------------------------------------------------------
(* EEPROM, the button and the power supply *)

\* Is the last byte of a number about to be written?
Halfway == todo # <<>> /\ Len(todo) = 1 /\ todo[1][1] \in {"nnH", "nnL"}

\* eeWrite
Write ==
  /\ todo # <<>>
  /\ LET cell == todo[1][1]
     IN EE' = [EE EXCEPT ![cell] = todo[1][2]]
  /\ todo' = Tail(todo)
  /\ number' = IF Halfway THEN 256 * EE'["nnH"] + EE'["nnL"] ELSE number
  /\ torn' = (torn /\ ~Halfway)
  /\ UNCHANGED <<pc, restart, SW, nodeVars, cut, held, taken, losses>>

\* A routine runs when what came before it has been written.
At(label) == pc = label /\ todo = <<>>

Goto(from, to) == At(from) /\ pc' = to /\ UNCHANGED <<SW, losses, number, torn, cut>>

Press ==
  /\ SW' = ~SW
  /\ held' = FALSE
  /\ UNCHANGED <<pc, todo, restart, EE, nodeVars, number, torn, cut, taken, losses>>

PowerLoss ==
  /\ losses < MaxLosses
  /\ losses' = losses + 1
  /\ pc' = "reset" /\ todo' = <<>>
  /\ held' = SW
  /\ torn' = (torn \/ Halfway)
  /\ cut' = (cut \/ (todo # <<>> /\ todo[1][1] \in {"macRest", "ip", "remote"}))
  /\ UNCHANGED <<restart, SW, EE, nodeVars, number, taken>>

-----------------------------------------------------------------------------
(* From the reset to the main loop *)

\* _CANInit: the boot loader looks at the boot flag.  Slip: it is not looked at.
Boots(flag) ==
  /\ At("reset")
  /\ pc' = IF flag = 255 THEN "boot" ELSE "main"
  /\ held' = SW
  /\ UNCHANGED <<todo, restart, SW, EE, nodeVars, number, torn, cut, taken, losses>>
CANInitUnflagged == Boots(0)
CANInit == Boots(EE["bootflag"])

\* The reset command of the boot loader, with writing unlocked.
BootReset ==
  /\ Goto("boot", "reset")
  /\ todo' = << <<"bootflag", 0>> >>
  /\ UNCHANGED <<restart, EE, nodeVars, held, taken>>

\* main, up to setMacAddress.
Main ==
  /\ Goto("main", "mac")
  /\ Wait4NN' = FALSE /\ debounce_count' = 0 /\ IdleTime' = 120
  /\ NV1' = IF EE["nv"] = VIRGIN THEN 0 ELSE EE["nv"]
  /\ todo' = IF EE["nv"] = VIRGIN THEN << <<"nv", 0>>, <<"idletime", 120>> >> ELSE <<>>
  /\ restart' = TRUE /\ taken' = 1
  /\ UNCHANGED <<EE, NN_temp, CANID, bIsDHCPEnabled, held>>

\* A group of defaults is written when the button is down or the group's first
\* byte is virgin.
Defaults(from, to, wanted, writes) ==
  /\ Goto(from, to)
  /\ todo' = IF wanted THEN writes ELSE <<>>
  /\ UNCHANGED <<restart, EE, nodeVars, held, taken>>

SetMacAddress == Defaults("mac", "clean", SW \/ EE["mac"] = VIRGIN,
                          << <<"mac", FACTORY>>, <<"macRest", FACTORY>> >>)

\* InitAppConfig.  Slips: the button is not looked at for the first group; the
\* second goes without the remote addresses.
CleanVirginOnly == Defaults("clean", "portnum", EE["clean"] = VIRGIN,
                            << <<"clean", 0>>, <<"ip", FACTORY>> >>)
CleanDefaults == Defaults("clean", "portnum", SW \/ EE["clean"] = VIRGIN,
                          << <<"clean", 0>>, <<"ip", FACTORY>> >>)
PortDefaultsOnly == Defaults("portnum", "dhcp", SW \/ EE["portnum"] = VIRGIN,
                             << <<"portnum", FACTORY>> >>)
PortDefaults == Defaults("portnum", "dhcp", SW \/ EE["portnum"] = VIRGIN,
                         << <<"portnum", FACTORY>>, <<"remote", FACTORY>> >>)

\* The button toggles the DHCP flag; DHCP is used whenever NV1 is not 0.  Slip:
\* the flag is toggled but not kept.
DhcpFlag(keeps) ==
  /\ Goto("dhcp", IF restart THEN "number" ELSE "loop")
  /\ NV1' = IF SW THEN Toggled(NV1, CFG_DHCP_CLIENT) ELSE NV1
  /\ todo' = IF SW /\ keeps THEN << <<"nv", NV1'>> >> ELSE <<>>
  /\ bIsDHCPEnabled' = (NV1' # 0)
  /\ UNCHANGED <<restart, EE, NN_temp, CANID, IdleTime, Wait4NN, debounce_count,
                 held, taken>>
DhcpForgets == DhcpFlag(FALSE)
Dhcp == DhcpFlag(TRUE)

InitAppConfig == CleanDefaults \/ PortDefaults \/ Dhcp

\* main, from the node number to the main loop; eeWriteShort writes the low byte
\* first.
Number ==
  /\ Goto("number", "loop")
  /\ LET nn == 256 * EE["nnH"] + EE["nnL"]
     IN /\ NN_temp' = IF nn \in Reserved THEN DEFAULT_NN ELSE nn
        /\ todo' = IF nn \in Reserved
                   THEN << <<"nnL", Low(DEFAULT_NN)>>, <<"nnH", High(DEFAULT_NN)>> >> ELSE <<>>
  /\ CANID' = IF EE["canid"] \in {0, VIRGIN} THEN NN_temp' % 128 ELSE EE["canid"]
  /\ UNCHANGED <<restart, EE, NV1, IdleTime, Wait4NN, bIsDHCPEnabled, debounce_count,
                 held, taken>>

-----------------------------------------------------------------------------
(* The main loop: the button, and the commands that change the node.  A command *)
(* other than SNN carries the node's number.                                    *)

\* A button that was held long enough asks for a number, or takes the question
\* back, when it is let go.
Button ==
  /\ Goto("loop", "loop")
  /\ LET clicked == ~SW /\ debounce_count = SW_DEBOUNCE_COUNT
     IN /\ debounce_count' = IF ~SW THEN 0
                             ELSE IF debounce_count < SW_DEBOUNCE_COUNT
                             THEN debounce_count + 1 ELSE debounce_count
        /\ Wait4NN' = IF clicked THEN ~Wait4NN ELSE Wait4NN
        /\ taken' = IF clicked THEN (IF Wait4NN THEN 1 ELSE 0) ELSE taken
  /\ UNCHANGED <<todo, restart, EE, NV1, NN_temp, CANID, IdleTime, bIsDHCPEnabled, held>>

\* SNN.  Slips: the node keeps waiting; the bytes are swapped.
SetNumber(nn, waits, writes) ==
  /\ Goto("loop", "loop")
  /\ Wait4NN
  /\ NN_temp' = nn
  /\ todo' = writes
  /\ Wait4NN' = waits
  /\ taken' = IF taken < 2 THEN taken + 1 ELSE taken
  /\ UNCHANGED <<restart, EE, NV1, CANID, IdleTime, bIsDHCPEnabled, debounce_count, held>>
SNNWaits(nn) == SetNumber(nn, TRUE, << <<"nnH", High(nn)>>, <<"nnL", Low(nn)>> >>)
SNNSwapped(nn) == SetNumber(nn, FALSE, << <<"nnH", Low(nn)>>, <<"nnL", High(nn)>> >>)
SNN(nn) == SetNumber(nn, FALSE, << <<"nnH", High(nn)>>, <<"nnL", Low(nn)>> >>)

\* NVSET of node variable 1.  Slip: the value is not kept.
SetNV1(v, writes) ==
  /\ NV1' = v
  /\ IF Bit(v, CFG_REINIT_TCPIP)
     THEN /\ Goto("loop", "clean")
          /\ restart' = FALSE
          /\ UNCHANGED <<todo, bIsDHCPEnabled>>
     ELSE /\ Goto("loop", "loop")
          /\ todo' = writes
          /\ bIsDHCPEnabled' = Bit(v, CFG_DHCP_CLIENT)
          /\ UNCHANGED restart
  /\ UNCHANGED <<EE, NN_temp, CANID, IdleTime, Wait4NN, debounce_count, held, taken>>
NVSet1Forgets(v) == SetNV1(v, <<>>)
NVSet1(v) == SetNV1(v, << <<"nv", v>> >>)

\* NVSET of node variable 2.
NVSet2(v) ==
  /\ Goto("loop", "loop")
  /\ CANID' = v
  /\ todo' = << <<"canid", v>> >>
  /\ UNCHANGED <<restart, EE, NV1, NN_temp, IdleTime, Wait4NN, bIsDHCPEnabled,
                 debounce_count, held, taken>>

\* NVSET of the other node variables; only the idle time is used at once.
NVSetOther(cell, v) ==
  /\ Goto("loop", "loop")
  /\ todo' = << <<cell, v>> >>
  /\ IdleTime' = IF cell = "idletime" THEN v ELSE IdleTime
  /\ UNCHANGED <<restart, EE, NV1, NN_temp, CANID, Wait4NN, bIsDHCPEnabled,
                 debounce_count, held, taken>>

\* BOOT and NNRST
Restart(writes) ==
  /\ Goto("loop", "reset")
  /\ todo' = writes
  /\ UNCHANGED <<restart, EE, nodeVars, held, taken>>
BOOT == Restart(<< <<"bootflag", 255>> >>)
NNRST == Restart(<<>>)

Command ==
  \/ \E nn \in Numbers : SNN(nn)
  \/ \E v \in NV1Values : NVSet1(v)
  \/ \E v \in CanIds : NVSet2(v)
  \/ \E cell \in NVCells, v \in {2, VIRGIN} :
       (v = VIRGIN => cell \in {"mac", "portnum"}) /\ NVSetOther(cell, v)
  \/ BOOT \/ NNRST

-----------------------------------------------------------------------------
Start == CANInit \/ Main \/ SetMacAddress \/ InitAppConfig \/ Number

Next == Write \/ Start \/ BootReset \/ Button \/ Command \/ Press \/ PowerLoss

Spec == Init /\ [][Next]_vars

\* The processor runs on; nobody has to press the button or send a command.
FairSpec == Spec /\ WF_vars(Write \/ Start)

-----------------------------------------------------------------------------
(* Properties *)

FlagsOK ==
  /\ restart \in BOOLEAN /\ SW \in BOOLEAN /\ Wait4NN \in BOOLEAN
  /\ bIsDHCPEnabled \in BOOLEAN
  /\ torn \in BOOLEAN /\ cut \in BOOLEAN /\ held \in BOOLEAN

DataOK ==
  /\ pc \in {"reset", "boot", "main", "mac", "clean", "portnum", "dhcp", "number", "loop"}
  /\ todo \in Seq(Cells \X Byte) /\ Len(todo) <= 2
  /\ EE \in [Cells -> Byte]
  /\ NV1 \in Byte /\ CANID \in Byte /\ IdleTime \in Byte
  /\ NN_temp \in Short /\ number \in Short
  /\ debounce_count \in 0..SW_DEBOUNCE_COUNT
  /\ taken \in 0..2 /\ losses \in 0..MaxLosses

\* Every variable holds what its C counterpart can; bytes stay bytes when the
\* DHCP flag is toggled.
TypeOK == FlagsOK /\ DataOK

\* The number the node goes by is the one last stored as a whole, across any
\* restarts, unless power failed between the two bytes of a later one (SNN, main).
NumberSurvives == At("loop") /\ ~torn => NN_temp = number

\* One press of the button makes the node take one number at most (SNN, Button).
OneNumberPerOffer == taken <= 1

\* What the node uses is what it stored: NV1, but for a value that asked for the TCP/IP
\* parameters to be set up again, and the CAN identifier, but for one that comes from a
\* node number while none is stored (NVSET, InitAppConfig, main).
NV1IsStored == NV1 = EE["nv"] \/ Bit(NV1, CFG_REINIT_TCPIP)
CanIdIsStored ==
  \/ CANID = EE["canid"]
  \/ /\ EE["canid"] \in {0, VIRGIN}
     /\ CANID \in {nn % 128 : nn \in Numbers \union {DEFAULT_NN}}
InUseIsStored == TypeOK /\ (At("loop") => NV1IsStored /\ CanIdIsStored)

\* The node reaches its loop with all its network parameters set, unless power
\* failed while a group of defaults was being written (InitAppConfig,
\* setMacAddress): only the first byte of a group tells whether it was written.
DefaultsComplete ==
  At("loop") /\ ~cut => \A c \in {"macRest", "ip", "remote"} : EE[c] # VIRGIN

\* Powering up with the button held puts all of them back to the defaults,
\* whatever earlier losses of power left behind.
ButtonRestores ==
  pc = "number" /\ held =>
    \A c \in {"mac", "macRest", "ip", "portnum", "remote"} : EE[c] = FACTORY

\* A node that was told to boot gets to the boot loader, whatever happens to its
\* power in between.
BootIsReached == EE["bootflag"] = 255 /\ todo = <<>> ~> pc = "boot"

=============================================================================

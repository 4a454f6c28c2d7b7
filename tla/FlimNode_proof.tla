--------------------------- MODULE FlimNode_proof ---------------------------
(***************************************************************************)
(* Theorems about the FLiM node, for all node numbers, variables and any    *)
(* number of losses of power.                                               *)
(***************************************************************************)
EXTENDS FlimNode, TLAPS

\* What a cell holds when everything that is to be written has been written.
After(e, t, c) ==
  IF Len(t) = 2 /\ t[2][1] = c THEN t[2][2]
  ELSE IF Len(t) \in {1, 2} /\ t[1][1] = c THEN t[1][2] ELSE e[c]
Final(c) == After(EE, todo, c)

LEMMA AfterNone == ASSUME NEW e, NEW c PROVE After(e, <<>>, c) = e[c]
  BY DEF After

LEMMA AfterOne ==
  ASSUME NEW e, NEW c, NEW a, NEW v
  PROVE  After(e, << <<a, v>> >>, c) = IF c = a THEN v ELSE e[c]
  BY DEF After

LEMMA AfterTwo ==
  ASSUME NEW e, NEW c, NEW a, NEW v, NEW b, NEW w
  PROVE  After(e, << <<a, v>>, <<b, w>> >>, c) = IF c = b THEN w ELSE IF c = a THEN v ELSE e[c]
  BY DEF After

LEMMA Maxima == UCHAR_MAX = 255 /\ USHRT_MAX = 65535
  BY DEF UCHAR_MAX, USHRT_MAX

LEMMA Bytes ==
  /\ {0, 1, 2, 120, VIRGIN, FACTORY} \subseteq Byte /\ Byte \subseteq Nat
  /\ USHRT_MAX \in Short /\ DEFAULT_NN \in Short /\ Short \subseteq Nat
  BY Maxima DEF Byte, Short, VIRGIN, FACTORY, DEFAULT_NN

LEMMA Assumed ==
  /\ Numbers \subseteq Short /\ NV1Values \subseteq Byte /\ CanIds \subseteq Byte
  /\ NVCells \subseteq {"idletime", "mac", "macRest", "ip", "portnum", "remote"}
  /\ SW_DEBOUNCE_COUNT \in Byte \ {0} /\ MaxLosses \in Nat
  BY NodeAssumption DEF NodeAssumption

\* The node always writes one or two cells, and the second of two is never the one that
\* tells whether a group of defaults was written.
TodoOK ==
  \/ todo = <<>>
  \/ \E a \in Cells, v \in Byte : todo = << <<a, v>> >>
  \/ \E a \in Cells, b \in Cells, v \in Byte, w \in Byte :
       /\ todo = << <<a, v>>, <<b, w>> >> /\ a # b
       /\ b \notin {"mac", "clean", "portnum"}
       /\ a \in {"nnH", "nnL"} <=> b \in {"nnH", "nnL"}

LEMMA OneWrite ==
  ASSUME NEW S, NEW x \in S, NEW t, t = << x >>
  PROVE  t \in Seq(S) /\ Len(t) = 1 /\ t # <<>> /\ t[1] = x /\ Tail(t) = <<>>
  OBVIOUS

LEMMA TwoWrites ==
  ASSUME NEW S, NEW x \in S, NEW y \in S, NEW t, t = << x, y >>
  PROVE  /\ t \in Seq(S) /\ Len(t) = 2 /\ t # <<>> /\ t[1] = x /\ t[2] = y
         /\ Tail(t) = << y >>
  OBVIOUS

LEMMA AWrite ==
  ASSUME NEW c \in Cells, NEW v \in Byte, NEW x, x = <<c, v>>
  PROVE  x \in Cells \X Byte /\ x[1] = c /\ x[2] = v
  OBVIOUS

LEMMA TodoRest ==
  ASSUME TodoOK, todo # <<>>
  PROVE  /\ todo[1][1] \in Cells /\ todo[1][2] \in Byte
         /\ \/ todo = << todo[1] >> /\ Len(todo) = 1 /\ Tail(todo) = <<>>
            \/ /\ todo = << todo[1], todo[2] >> /\ Len(todo) = 2 /\ Tail(todo) = << todo[2] >>
               /\ todo[2][1] \in Cells /\ todo[2][2] \in Byte /\ todo[1][1] # todo[2][1]
               /\ todo[2][1] \notin {"mac", "clean", "portnum"}
               /\ todo[1][1] \in {"nnH", "nnL"} <=> todo[2][1] \in {"nnH", "nnL"}
<1>1. CASE \E a \in Cells, v \in Byte : todo = << <<a, v>> >>
  BY <1>1, AWrite, OneWrite
<1>2. CASE \E a \in Cells, b \in Cells, v \in Byte, w \in Byte :
             /\ todo = << <<a, v>>, <<b, w>> >> /\ a # b
             /\ b \notin {"mac", "clean", "portnum"}
             /\ a \in {"nnH", "nnL"} <=> b \in {"nnH", "nnL"}
  BY <1>2, AWrite, TwoWrites
<1> QED
  BY <1>1, <1>2 DEF TodoOK

LEMMA ByteToggled == ASSUME NEW b \in Byte PROVE Toggled(b, CFG_DHCP_CLIENT) \in Byte
  BY Maxima DEF Toggled, Bit, CFG_DHCP_CLIENT, Byte

LEMMA NumberBytes ==
  ASSUME NEW nn \in Short
  PROVE  High(nn) \in Byte /\ Low(nn) \in Byte /\ 256 * High(nn) + Low(nn) = nn
         /\ nn % 128 \in Byte
<1>1. nn \in Nat /\ nn <= 65535
  BY Maxima, SMTT(40) DEF Short
<1>2. High(nn) \in Byte /\ Low(nn) \in Byte /\ 256 * High(nn) + Low(nn) = nn
  BY <1>1, Maxima DEF High, Low, Byte
<1>3. nn % 128 \in Byte
  BY <1>1, Maxima DEF Byte
<1> QED
  BY <1>2, <1>3

-----------------------------------------------------------------------------
(* Types.                                                                   *)

Typed == FlagsOK /\ DataOK /\ TodoOK

LEMMA TodoPrimed == ASSUME TodoOK' PROVE todo' \in Seq(Cells \X Byte) /\ Len(todo') <= 2
<1>1. CASE todo' = <<>>
  BY <1>1
<1>2. CASE \E a \in Cells, v \in Byte : todo' = << <<a, v>> >>
  BY <1>2, AWrite, OneWrite
<1>3. CASE \E a \in Cells, b \in Cells, v \in Byte, w \in Byte : todo' = << <<a, v>>, <<b, w>> >>
  BY <1>3, AWrite, TwoWrites
<1> QED
  BY <1>1, <1>2, <1>3 DEF TodoOK

TodoTyped == TodoOK /\ todo \in Seq(Cells \X Byte) /\ Len(todo) <= 2

LEMMA NoneNext == ASSUME todo' = <<>> PROVE TodoTyped'
  BY TodoPrimed DEF TodoOK, TodoTyped

LEMMA OneNext == ASSUME NEW a \in Cells, NEW v \in Byte, todo' = << <<a, v>> >> PROVE TodoTyped'
<1>1. TodoOK'
  BY DEF TodoOK
<1> QED
  BY <1>1, TodoPrimed DEF TodoTyped

LEMMA TwoNext ==
  ASSUME NEW a \in Cells, NEW b \in Cells, NEW v \in Byte, NEW w \in Byte,
         todo' = << <<a, v>>, <<b, w>> >>, a # b, b \notin {"mac", "clean", "portnum"},
         a \in {"nnH", "nnL"} <=> b \in {"nnH", "nnL"}
  PROVE  TodoTyped'
<1>1. TodoOK'
  BY DEF TodoOK
<1> QED
  BY <1>1, TodoPrimed DEF TodoTyped

LEMMA TypedInit == Init => Typed
<1> SUFFICES ASSUME Init PROVE Typed
  OBVIOUS
<1>1. TodoTyped
  BY DEF Init, TodoOK, TodoTyped
<1>2. EE \in [Cells -> Byte]
  BY Bytes DEF Init
<1>3. 0 \in Byte /\ 0 \in 0..SW_DEBOUNCE_COUNT /\ 0 \in 0..MaxLosses
  BY Assumed, Bytes
<1>4. DataOK
  BY <1>1, <1>2, <1>3, Bytes DEF Init, DataOK, TodoTyped
<1>5. FlagsOK
  <2>1. restart \in BOOLEAN /\ SW \in BOOLEAN /\ Wait4NN \in BOOLEAN /\ bIsDHCPEnabled \in BOOLEAN
    BY DEF Init
  <2>2. torn \in BOOLEAN /\ cut \in BOOLEAN
    BY DEF Init
  <2>3. held \in BOOLEAN
    BY Zenon DEF Init
  <2> QED
    BY <2>1, <2>2, <2>3 DEF FlagsOK
<1> QED
  BY <1>1, <1>4, <1>5 DEF Typed, TodoTyped

LEMMA Assembled == ASSUME NEW h \in Byte, NEW l \in Byte PROVE 256 * h + l \in Short
<1>1. h \in Nat /\ l \in Nat /\ h <= 255 /\ l <= 255
  BY Maxima DEF Byte
<1>2. 256 * h + l \in Nat /\ 256 * h + l <= USHRT_MAX /\ USHRT_MAX \in Nat
  BY <1>1, Maxima
<1> QED
  BY <1>2 DEF Short

LEMMA TypedWrite == ASSUME Typed, Write PROVE Typed'
<1>1. todo # <<>> /\ EE' = [EE EXCEPT ![todo[1][1]] = todo[1][2]] /\ todo' = Tail(todo)
  BY DEF Write
<1>2. EE' \in [Cells -> Byte]
  BY <1>1, TodoRest DEF Typed, DataOK
<1>3. TodoTyped'
  <2>1. CASE todo' = <<>>
    BY <2>1, NoneNext
  <2>2. CASE Len(todo) = 2 /\ todo' = << todo[2] >>
    <3>1. PICK b \in Cells, w \in Byte : todo[2] = <<b, w>>
      BY <1>1, <2>2 DEF Typed, TodoOK
    <3> QED
      BY <2>2, <3>1, OneNext
  <2> QED
    BY <1>1, <2>1, <2>2, TodoRest DEF Typed
<1>4. number' \in Short
  <2>1. EE'["nnH"] \in Byte /\ EE'["nnL"] \in Byte
    BY <1>2 DEF Cells
  <2> QED
    BY <2>1, Assembled DEF Write, Typed, DataOK
<1>5. torn' \in BOOLEAN
  BY DEF Write, Typed, FlagsOK, Halfway
<1> QED
  BY <1>2, <1>3, <1>4, <1>5 DEF Write, Typed, FlagsOK, DataOK, TodoTyped, nodeVars

LEMMA TypedStart == ASSUME Typed, Start PROVE Typed'
<1>0. /\ EE \in [Cells -> Byte] /\ EE["nv"] \in Byte /\ EE["nnH"] \in Byte
      /\ EE["nnL"] \in Byte /\ EE["canid"] \in Byte
  BY DEF Typed, DataOK, Cells
<1>1. CASE CANInit
  BY <1>1 DEF CANInit, Boots, At, Typed, FlagsOK, DataOK, TodoOK, nodeVars
<1>2. CASE Main
  <2>1. \/ todo' = <<>>
        \/ todo' = << <<"nv", 0>>, <<"idletime", 120>> >>
    BY <1>2 DEF Main
  <2>a. "nv" \in Cells /\ "idletime" \in Cells /\ 0 \in Byte /\ 120 \in Byte
    BY Bytes DEF Cells
  <2>2. TodoTyped'
    BY <2>1, <2>a, NoneNext, TwoNext
  <2>3. NV1' \in Byte /\ IdleTime' \in Byte /\ debounce_count' \in 0..SW_DEBOUNCE_COUNT
    BY <1>0, <1>2, Bytes, Assumed DEF Main
  <2> QED
    <3>1. FlagsOK'
      BY <1>2 DEF Main, Goto, Typed, FlagsOK
    <3>2. DataOK'
      BY <1>2, <2>2, <2>3 DEF Main, Goto, Typed, DataOK, TodoTyped
    <3> QED
      BY <2>2, <3>1, <3>2 DEF Typed, TodoTyped
<1>3. ASSUME NEW from, NEW to, NEW wanted, NEW a \in Cells, NEW b \in Cells,
             NEW v \in Byte,
             Defaults(from, to, wanted, << <<a, v>>, <<b, FACTORY>> >>),
             a # b, b \notin {"mac", "clean", "portnum", "nnH", "nnL"}, a \notin {"nnH", "nnL"},
             to \in {"clean", "portnum", "dhcp"}
      PROVE  Typed'
  <2>1. todo' = <<>> \/ todo' = << <<a, v>>, <<b, FACTORY>> >>
    BY <1>3 DEF Defaults
  <2>2. TodoTyped'
    <3>1. FACTORY \in Byte
      BY Bytes
    <3> QED
      BY <1>3, <2>1, <3>1, NoneNext, TwoNext
  <2> QED
    BY <1>3, <2>2 DEF Defaults, Goto, At, Typed, FlagsOK, DataOK, TodoTyped, nodeVars
<1>4. CASE SetMacAddress \/ CleanDefaults \/ PortDefaults
  <2>1. {"mac", "macRest", "clean", "ip", "portnum", "remote"} \subseteq Cells
    BY DEF Cells
  <2>0. FACTORY \in Byte /\ 0 \in Byte
    BY Bytes
  <2>2. CASE SetMacAddress
    BY <1>3, <2>0, <2>1, <2>2 DEF SetMacAddress
  <2>3. CASE CleanDefaults
    BY <1>3, <2>0, <2>1, <2>3 DEF CleanDefaults
  <2>4. CASE PortDefaults
    BY <1>3, <2>0, <2>1, <2>4 DEF PortDefaults
  <2> QED
    BY <1>4, <2>2, <2>3, <2>4
<1>5. CASE Dhcp
  <2>1. NV1' \in Byte /\ bIsDHCPEnabled' \in BOOLEAN
    BY <1>5, ByteToggled DEF Dhcp, DhcpFlag, Typed, DataOK
  <2>2. TodoTyped'
    BY <1>5, <2>1, NoneNext, OneNext DEF Dhcp, DhcpFlag, Cells
  <2>3. pc' \in {"number", "loop"}
    BY <1>5 DEF Dhcp, DhcpFlag, Goto
  <2> QED
    BY <1>5, <2>1, <2>2, <2>3 DEF Dhcp, DhcpFlag, Goto, At, Typed, FlagsOK, DataOK, TodoTyped
<1>6. CASE Number
  <2>1. NN_temp' \in Short
    <3>1. DEFAULT_NN \in Short
      BY Bytes
    <3>2. 256 * EE["nnH"] + EE["nnL"] \in Short
      BY <1>0, Assembled
    <3> QED
      BY <1>6, <3>1, <3>2 DEF Number
  <2>2. CANID' \in Byte
    BY <1>0, <1>6, <2>1, NumberBytes DEF Number
  <2>3. Low(DEFAULT_NN) \in Byte /\ High(DEFAULT_NN) \in Byte
    BY Bytes, NumberBytes
  <2>4. TodoTyped'
    <3>1. \/ todo' = <<>>
          \/ todo' = << <<"nnL", Low(DEFAULT_NN)>>, <<"nnH", High(DEFAULT_NN)>> >>
      BY <1>6 DEF Number
    <3> QED
      BY <2>3, <3>1, NoneNext, TwoNext DEF Cells
  <2> QED
    BY <1>6, <2>1, <2>2, <2>4 DEF Number, Goto, At, Typed, FlagsOK, DataOK, TodoTyped
<1> QED
  BY <1>1, <1>2, <1>4, <1>5, <1>6 DEF Start, InitAppConfig

LEMMA TypedLoop == ASSUME Typed, Button \/ Command \/ BootReset PROVE Typed'
<1>0. FlagsOK /\ DataOK /\ TodoOK
  BY DEF Typed
<1>1. CASE Button
  <2>1. debounce_count' \in 0..SW_DEBOUNCE_COUNT
    BY <1>0, <1>1, Assumed, Bytes DEF Button, DataOK
  <2>2. taken' \in 0..2
    BY <1>0, <1>1 DEF Button, DataOK
  <2>3. Wait4NN' \in BOOLEAN
    BY <1>0, <1>1, Zenon DEF Button, FlagsOK
  <2>4. /\ pc' = "loop"
        /\ UNCHANGED <<todo, restart, EE, NV1, NN_temp, CANID, IdleTime, bIsDHCPEnabled, held,
                       SW, losses, number, torn, cut>>
    BY <1>1 DEF Button, Goto
  <2>5. FlagsOK'
    BY <1>0, <2>3, <2>4 DEF FlagsOK
  <2>6. DataOK' /\ TodoOK'
    BY <1>0, <2>1, <2>2, <2>4 DEF DataOK, TodoOK
  <2> QED
    BY <2>5, <2>6 DEF Typed
<1>2. ASSUME NEW nn \in Numbers, SNN(nn) PROVE Typed'
  <2>1. nn \in Short /\ High(nn) \in Byte /\ Low(nn) \in Byte
    BY Assumed, NumberBytes
  <2>2. todo' = << <<"nnH", High(nn)>>, <<"nnL", Low(nn)>> >>
    BY <1>2 DEF SNN, SetNumber
  <2>3. "nnH" \in Cells /\ "nnL" \in Cells
    BY DEF Cells
  <2>4. TodoTyped'
    BY <2>1, <2>2, <2>3, TwoNext
  <2>5. taken' \in 0..2
    BY <1>0, <1>2 DEF SNN, SetNumber, DataOK
  <2> QED
    BY <1>0, <1>2, <2>1, <2>4, <2>5 DEF SNN, SetNumber, Goto, Typed, FlagsOK, DataOK, TodoTyped
<1>3. ASSUME NEW v \in NV1Values, NVSet1(v) PROVE Typed'
  <2>1. v \in Byte /\ "nv" \in Cells
    BY Assumed DEF Cells
  <2>2. bIsDHCPEnabled' \in BOOLEAN /\ restart' \in BOOLEAN
    BY <1>0, <1>3 DEF NVSet1, SetNV1, FlagsOK, Bit
  <2>3. TodoTyped'
    <3>1. todo' = << <<"nv", v>> >> \/ (todo' = todo /\ todo = <<>>)
      BY <1>3 DEF NVSet1, SetNV1, Goto, At
    <3> QED
      BY <2>1, <3>1, OneNext, NoneNext
  <2>4. pc' \in {"clean", "loop"}
    BY <1>3 DEF NVSet1, SetNV1, Goto
  <2>5. /\ NV1' = v
        /\ UNCHANGED <<EE, NN_temp, CANID, IdleTime, Wait4NN, debounce_count, held, taken,
                       SW, losses, number, torn, cut>>
    BY <1>3 DEF NVSet1, SetNV1, Goto
  <2> QED
    BY <1>0, <2>1, <2>2, <2>3, <2>4, <2>5 DEF Typed, FlagsOK, DataOK, TodoTyped
<1>4. ASSUME NEW v \in CanIds, NVSet2(v) PROVE Typed'
  <2>1. v \in Byte /\ "canid" \in Cells
    BY Assumed DEF Cells
  <2>2. TodoTyped'
    BY <1>4, <2>1, OneNext DEF NVSet2
  <2> QED
    BY <1>0, <1>4, <2>1, <2>2 DEF NVSet2, Goto, Typed, FlagsOK, DataOK, TodoTyped
<1>5. ASSUME NEW cell \in NVCells, NEW v \in {2, VIRGIN}, NVSetOther(cell, v) PROVE Typed'
  <2>1. v \in Byte /\ cell \in Cells
    BY Assumed, Bytes DEF Cells
  <2>2. TodoTyped'
    BY <1>5, <2>1, OneNext DEF NVSetOther
  <2>3. IdleTime' \in Byte
    BY <1>0, <1>5, <2>1 DEF NVSetOther, DataOK
  <2> QED
    BY <1>0, <1>5, <2>2, <2>3 DEF NVSetOther, Goto, Typed, FlagsOK, DataOK, TodoTyped
<1>6. CASE BOOT \/ NNRST \/ BootReset
  <2>1. todo' = << <<"bootflag", 255>> >> \/ todo' = <<>> \/ todo' = << <<"bootflag", 0>> >>
    BY <1>6 DEF BOOT, NNRST, BootReset, Restart
  <2>2. "bootflag" \in Cells /\ 255 \in Byte /\ 0 \in Byte
    BY Bytes DEF Cells, VIRGIN
  <2>3. TodoTyped'
    BY <2>1, <2>2, OneNext, NoneNext
  <2>4. /\ pc' = "reset"
        /\ UNCHANGED <<restart, EE, nodeVars, held, taken, SW, losses, number, torn, cut>>
    BY <1>6 DEF BOOT, NNRST, BootReset, Restart, Goto
  <2> QED
    BY <1>0, <2>3, <2>4 DEF Typed, FlagsOK, DataOK, TodoTyped, nodeVars
<1> QED
  BY <1>1, <1>2, <1>3, <1>4, <1>5, <1>6 DEF Command

LEMMA TypedOutside == ASSUME Typed, Press \/ PowerLoss \/ UNCHANGED vars PROVE Typed'
<1>0. FlagsOK /\ DataOK /\ TodoOK
  BY DEF Typed
<1>1. CASE Press
  <2>1. SW' \in BOOLEAN /\ held' \in BOOLEAN
    BY <1>0, <1>1, Zenon DEF Press, FlagsOK
  <2>2. UNCHANGED <<pc, todo, restart, EE, nodeVars, number, torn, cut, taken, losses>>
    BY <1>1 DEF Press
  <2>3. FlagsOK'
    BY <1>0, <2>1, <2>2 DEF FlagsOK, nodeVars
  <2>4. DataOK' /\ TodoOK'
    BY <1>0, <2>2 DEF DataOK, TodoOK, nodeVars
  <2> QED
    BY <2>3, <2>4 DEF Typed
<1>2. CASE PowerLoss
  <2>1. TodoTyped'
    BY <1>2, NoneNext DEF PowerLoss
  <2>2. losses' \in 0..MaxLosses
    BY <1>0, <1>2, Assumed DEF PowerLoss, DataOK
  <2>3. torn' \in BOOLEAN /\ cut' \in BOOLEAN
    BY <1>0, <1>2, Zenon DEF PowerLoss, FlagsOK
  <2> QED
    BY <1>0, <1>2, <2>1, <2>2, <2>3 DEF PowerLoss, Typed, FlagsOK, DataOK, TodoTyped, nodeVars
<1>3. CASE UNCHANGED vars
  BY <1>0, <1>3 DEF vars, nodeVars, history, Typed, FlagsOK, DataOK, TodoOK
<1> QED
  BY <1>1, <1>2, <1>3

LEMMA TypedStep == ASSUME Typed, [Next]_vars PROVE Typed'
  BY TypedWrite, TypedStart, TypedLoop, TypedOutside DEF Next

-----------------------------------------------------------------------------
(* One number for one offer.                                                *)

OfferInv == taken \in {0, 1} /\ (Wait4NN => taken = 0)

LEMMA OfferStep == ASSUME Typed, OfferInv, [Next]_vars PROVE OfferInv'
<1>1. CASE Button
  <2>1. UNCHANGED <<Wait4NN, taken>>
        \/ (Wait4NN /\ taken' = 1 /\ ~Wait4NN') \/ (~Wait4NN /\ taken' = 0)
    BY <1>1 DEF Button, Typed, FlagsOK
  <2> QED
    BY <2>1 DEF OfferInv
<1>2. ASSUME NEW nn \in Numbers, SNN(nn) PROVE OfferInv'
  BY <1>2 DEF SNN, SetNumber, OfferInv
<1>3. CASE Main
  BY <1>3 DEF Main, OfferInv
<1>4. CASE UNCHANGED <<Wait4NN, taken>>
  BY <1>4 DEF OfferInv
<1> QED
  BY <1>1, <1>2, <1>3, <1>4
     DEF Next, Start, InitAppConfig, Command, Write, CANInit, Boots, SetMacAddress, CleanDefaults,
         PortDefaults, Defaults, Dhcp, DhcpFlag, Number, BootReset, NVSet1, SetNV1, NVSet2,
         NVSetOther, BOOT, NNRST, Restart, Press, PowerLoss, nodeVars, history, vars

-----------------------------------------------------------------------------
(* What is to be written.                                                   *)

LEMMA FinalNone ==
  ASSUME todo' = <<>>, EE' = EE, NEW c PROVE Final(c)' = EE[c]
  BY AfterNone DEF Final

LEMMA FinalOne ==
  ASSUME NEW a, NEW v, todo' = << <<a, v>> >>, EE' = EE, NEW c
  PROVE  Final(c)' = IF c = a THEN v ELSE EE[c]
  BY AfterOne DEF Final

LEMMA FinalTwo ==
  ASSUME NEW a, NEW v, NEW b, NEW w, todo' = << <<a, v>>, <<b, w>> >>, EE' = EE, NEW c
  PROVE  Final(c)' = IF c = b THEN w ELSE IF c = a THEN v ELSE EE[c]
  BY AfterTwo DEF Final

LEMMA FinalNow == ASSUME todo = <<>>, NEW c PROVE Final(c) = EE[c]
  BY AfterNone DEF Final

\* A write does not change what the cells will hold.
LEMMA FinalWrite == ASSUME Typed, Write, NEW c \in Cells PROVE Final(c)' = Final(c)
<1>1. todo # <<>> /\ EE' = [EE EXCEPT ![todo[1][1]] = todo[1][2]] /\ todo' = Tail(todo)
  BY DEF Write
<1>2. EE \in [Cells -> Byte]
  BY DEF Typed, DataOK
<1>3. CASE Len(todo) = 1 /\ todo' = <<>>
  <2>1. Final(c)' = EE'[c]
    BY <1>3, AfterNone DEF Final
  <2>2. Final(c) = IF c = todo[1][1] THEN todo[1][2] ELSE EE[c]
    BY <1>3 DEF Final, After
  <2> QED
    BY <1>1, <1>2, <2>1, <2>2
<1>4. CASE Len(todo) = 2 /\ todo' = << todo[2] >>
  <2>1. Final(c)' = IF c = todo[2][1] THEN todo[2][2] ELSE EE'[c]
    <3>1. Len(todo') = 1 /\ todo'[1] = todo[2]
      BY <1>4
    <3> QED
      BY <3>1 DEF Final, After
  <2>2. Final(c) = IF c = todo[2][1] THEN todo[2][2] ELSE IF c = todo[1][1] THEN todo[1][2] ELSE EE[c]
    BY <1>4 DEF Final, After
  <2> QED
    BY <1>1, <1>2, <2>1, <2>2
<1> QED
  BY <1>1, <1>3, <1>4, TodoRest DEF Typed

-----------------------------------------------------------------------------
(* What the button restores.                                                *)

ButtonInv ==
  /\ held => SW
  /\ pc = "number" => /\ restart
                      /\ todo = <<>> \/ (Len(todo) = 1 /\ todo[1][1] = "nv")
  /\ held /\ restart =>
       /\ pc \in {"clean", "portnum", "dhcp", "number"} =>
            Final("mac") = FACTORY /\ Final("macRest") = FACTORY
       /\ pc \in {"portnum", "dhcp", "number"} => Final("ip") = FACTORY
       /\ pc \in {"dhcp", "number"} => Final("portnum") = FACTORY /\ Final("remote") = FACTORY

LEMMA ButtonStep == ASSUME Typed, ButtonInv, [Next]_vars PROVE ButtonInv'
<1>1. CASE Write
  <2>1. \A c \in {"mac", "macRest", "ip", "portnum", "remote"} : Final(c)' = Final(c)
    BY <1>1, FinalWrite DEF Cells
  <2>2. UNCHANGED <<pc, restart, held, SW>>
    BY <1>1 DEF Write
  <2>3. pc = "number" => todo' = <<>>
    BY <1>1, SMTT(40) DEF Write, ButtonInv
  <2> QED
    BY <2>1, <2>2, <2>3 DEF ButtonInv
<1>2. CASE Press
  BY <1>2 DEF Press, ButtonInv
<1>3. CASE pc' \notin {"clean", "portnum", "dhcp", "number"} /\ (held' => SW')
  BY <1>3 DEF ButtonInv
<1>4. CASE SetMacAddress
  <2>1. pc' = "clean" /\ EE' = EE /\ UNCHANGED <<SW, held>>
    BY <1>4 DEF SetMacAddress, Defaults, Goto
  <2>2. SW => todo' = << <<"mac", FACTORY>>, <<"macRest", FACTORY>> >>
    BY <1>4 DEF SetMacAddress, Defaults
  <2>3. SW => Final("mac")' = FACTORY /\ Final("macRest")' = FACTORY
    BY <2>1, <2>2, FinalTwo
  <2> QED
    BY <2>1, <2>3 DEF ButtonInv
<1>5. CASE CleanDefaults
  <2>1. pc = "clean" /\ todo = <<>> /\ pc' = "portnum" /\ EE' = EE /\ UNCHANGED <<SW, held, restart>>
    BY <1>5 DEF CleanDefaults, Defaults, Goto, At
  <2>2. SW => todo' = << <<"clean", 0>>, <<"ip", FACTORY>> >>
    BY <1>5 DEF CleanDefaults, Defaults
  <2>3. SW => /\ Final("ip")' = FACTORY
              /\ Final("mac")' = EE["mac"] /\ Final("macRest")' = EE["macRest"]
    BY <2>1, <2>2, FinalTwo
  <2> QED
    BY <2>1, <2>3, FinalNow DEF ButtonInv
<1>6. CASE PortDefaults
  <2>1. pc = "portnum" /\ todo = <<>> /\ pc' = "dhcp" /\ EE' = EE /\ UNCHANGED <<SW, held, restart>>
    BY <1>6 DEF PortDefaults, Defaults, Goto, At
  <2>2. SW => todo' = << <<"portnum", FACTORY>>, <<"remote", FACTORY>> >>
    BY <1>6 DEF PortDefaults, Defaults
  <2>3. SW => /\ Final("portnum")' = FACTORY /\ Final("remote")' = FACTORY
              /\ Final("mac")' = EE["mac"] /\ Final("macRest")' = EE["macRest"]
              /\ Final("ip")' = EE["ip"]
    BY <2>1, <2>2, FinalTwo
  <2> QED
    BY <2>1, <2>3, FinalNow DEF ButtonInv
<1>7. CASE Dhcp
  <2>1. pc = "dhcp" /\ todo = <<>> /\ EE' = EE /\ UNCHANGED <<SW, held, restart>>
        /\ pc' = IF restart THEN "number" ELSE "loop"
    BY <1>7 DEF Dhcp, DhcpFlag, Goto, At
  <2>2. todo' = <<>> \/ todo' = << <<"nv", NV1'>> >>
    BY <1>7 DEF Dhcp, DhcpFlag
  <2>3. \A c \in {"mac", "macRest", "ip", "portnum", "remote"} : Final(c)' = EE[c]
    BY <2>1, <2>2, FinalNone, FinalOne
  <2>4. todo' = <<>> \/ (Len(todo') = 1 /\ todo'[1][1] = "nv")
    BY <2>2
  <2>5. restart \in BOOLEAN
    BY DEF Typed, FlagsOK
  <2> QED
    BY <2>1, <2>3, <2>4, <2>5, FinalNow DEF ButtonInv
<1>8. ASSUME NEW v \in NV1Values, NVSet1(v) PROVE ButtonInv'
  <2>1. UNCHANGED <<SW, held>> /\ (pc' = "loop" \/ (pc' = "clean" /\ ~restart'))
    BY <1>8 DEF NVSet1, SetNV1, Goto
  <2> QED
    BY <2>1 DEF ButtonInv
<1>9. CASE UNCHANGED vars
  BY <1>9 DEF vars, ButtonInv, Final, history
<1> QED
  <2>1. CASE CANInit \/ Main \/ Number \/ BootReset \/ Button \/ PowerLoss
    BY <2>1, <1>3 DEF CANInit, Boots, Main, Number, BootReset, Button, PowerLoss, Goto, ButtonInv
  <2>2. CASE (\E nn \in Numbers : SNN(nn)) \/ BOOT \/ NNRST \/ (\E v \in CanIds : NVSet2(v))
             \/ (\E cell \in NVCells, v \in {2, VIRGIN} : NVSetOther(cell, v))
    BY <2>2, <1>3 DEF SNN, SetNumber, NVSet2, NVSetOther, BOOT, NNRST, Restart, Goto, ButtonInv
  <2> QED
    BY <1>1, <1>2, <1>4, <1>5, <1>6, <1>7, <1>8, <1>9, <2>1, <2>2
       DEF Next, Start, InitAppConfig, Command

-----------------------------------------------------------------------------
(* The number survives.                                                     *)

\* The main loop and what NVSET runs of the start-up code.
InMain == pc = "loop" \/ (pc \in {"clean", "portnum", "dhcp"} /\ ~restart)
Numbering == todo # <<>> /\ todo[1][1] \in {"nnH", "nnL"}
FinalNumber == 256 * Final("nnH") + Final("nnL")

NumberInv ==
  /\ pc = "mac" => restart
  /\ Numbering => pc = "loop"
  /\ InMain /\ (~torn \/ Numbering) => NN_temp = FinalNumber
  /\ ~torn /\ (~Numbering \/ Len(todo) = 2) => number = 256 * EE["nnH"] + EE["nnL"]

\* A step from an empty list that writes nothing of the number and does not get into the
\* main loop from outside.
Plain ==
  /\ todo = <<>> /\ EE' = EE /\ UNCHANGED <<number, torn>>
  /\ \/ todo' = <<>>
     \/ \E a \in Cells \ {"nnH", "nnL"}, v \in Byte : todo' = << <<a, v>> >>
     \/ \E a, b \in Cells \ {"nnH", "nnL"}, v, w \in Byte : todo' = << <<a, v>>, <<b, w>> >>
  /\ InMain' => InMain /\ UNCHANGED NN_temp
  /\ pc' = "mac" => restart'

LEMMA PlainStep ==
  ASSUME Typed, [Next]_vars, pc = "mac" => restart
  PROVE  \/ Write \/ PowerLoss \/ Press \/ UNCHANGED vars \/ Number
         \/ (\E nn \in Numbers : SNN(nn))
         \/ Plain
<1>1. CASE CANInit \/ Main \/ SetMacAddress
  <2>1. todo = <<>> /\ EE' = EE /\ UNCHANGED <<number, torn>>
    BY <1>1 DEF CANInit, Boots, Main, SetMacAddress, Defaults, Goto, At
  <2>2. ~InMain' /\ (pc' = "mac" => restart')
    BY <1>1 DEF CANInit, Boots, Main, SetMacAddress, Defaults, Goto, At, InMain
  <2>3. \/ todo' = <<>>
        \/ todo' = << <<"nv", 0>>, <<"idletime", 120>> >>
        \/ todo' = << <<"mac", FACTORY>>, <<"macRest", FACTORY>> >>
    BY <1>1 DEF CANInit, Boots, Main, SetMacAddress, Defaults, At
  <2> QED
    BY <2>1, <2>2, <2>3, Bytes DEF Cells, Plain
<1>2. CASE InitAppConfig
  <2>1. todo = <<>> /\ EE' = EE /\ UNCHANGED <<number, torn, NN_temp, restart>>
    BY <1>2 DEF InitAppConfig, CleanDefaults, PortDefaults, Dhcp, DhcpFlag, Defaults, Goto, At, nodeVars
  <2>2. (InMain' => InMain) /\ pc' # "mac"
    BY <1>2 DEF InitAppConfig, CleanDefaults, PortDefaults, Dhcp, DhcpFlag, Defaults, Goto, At,
                InMain, Typed, FlagsOK
  <2>3. NV1' \in Byte
    BY <1>2, TypedStep DEF Typed, DataOK
  <2>4. \/ todo' = <<>>
        \/ todo' = << <<"clean", 0>>, <<"ip", FACTORY>> >>
        \/ todo' = << <<"portnum", FACTORY>>, <<"remote", FACTORY>> >>
        \/ todo' = << <<"nv", NV1'>> >>
    BY <1>2 DEF InitAppConfig, CleanDefaults, PortDefaults, Dhcp, DhcpFlag, Defaults
  <2> QED
    BY <2>1, <2>2, <2>3, <2>4, Bytes DEF Cells, Plain
<1>3. CASE Button \/ BootReset \/ BOOT \/ NNRST
  <2>1. todo = <<>> /\ EE' = EE /\ UNCHANGED <<number, torn, NN_temp>>
    BY <1>3 DEF Button, BootReset, BOOT, NNRST, Restart, Goto, At, nodeVars
  <2>2. (InMain' => InMain) /\ pc' # "mac"
    BY <1>3 DEF Button, BootReset, BOOT, NNRST, Restart, Goto, At, InMain
  <2>3. \/ todo' = <<>>
        \/ todo' = << <<"bootflag", 0>> >>
        \/ todo' = << <<"bootflag", 255>> >>
    BY <1>3 DEF Button, BootReset, BOOT, NNRST, Restart, Goto, At
  <2>4. 0 \in Byte /\ 255 \in Byte
    BY Bytes DEF VIRGIN
  <2> QED
    BY <2>1, <2>2, <2>3, <2>4 DEF Cells, Plain
<1>4. ASSUME NEW v \in NV1Values, NVSet1(v) PROVE Plain
  <2>1. todo = <<>> /\ EE' = EE /\ UNCHANGED <<number, torn, NN_temp>> /\ InMain /\ pc' # "mac"
    BY <1>4 DEF NVSet1, SetNV1, Goto, At, InMain
  <2>2. (todo' = <<>> \/ todo' = << <<"nv", v>> >>) /\ v \in Byte
    BY <1>4, Assumed DEF NVSet1, SetNV1, Goto, At
  <2> QED
    BY <2>1, <2>2 DEF Cells, Plain
<1>5. ASSUME NEW cell \in NVCells \cup {"canid"}, NEW v \in Byte,
              todo' = << <<cell, v>> >>,
              NVSet2(v) \/ NVSetOther(cell, v)
       PROVE  Plain
  <2>1. todo = <<>> /\ EE' = EE /\ UNCHANGED <<number, torn, NN_temp>> /\ InMain /\ pc' # "mac"
    BY <1>5 DEF NVSet2, NVSetOther, Goto, At, InMain
  <2>2. cell \in Cells \ {"nnH", "nnL"}
    BY Assumed DEF Cells
  <2> QED
    BY <1>5, <2>1, <2>2 DEF Plain
<1>6. CASE (\E v \in CanIds : NVSet2(v))
            \/ (\E cell \in NVCells, v \in {2, VIRGIN} : NVSetOther(cell, v))
  BY <1>5, <1>6, Assumed, Bytes DEF NVSet2, NVSetOther
<1> QED
  BY <1>1, <1>2, <1>3, <1>4, <1>6 DEF Next, Start, Command

LEMMA NumberStep == ASSUME Typed, NumberInv, [Next]_vars PROVE NumberInv'
<1>1. CASE Write
  <2>0. todo # <<>> /\ EE' = [EE EXCEPT ![todo[1][1]] = todo[1][2]] /\ todo' = Tail(todo)
        /\ UNCHANGED <<pc, restart, NN_temp>>
    BY <1>1 DEF Write, nodeVars
  <2>1. FinalNumber' = FinalNumber
    BY <1>1, FinalWrite DEF FinalNumber, Cells
  <2>2. CASE Numbering /\ Len(todo) = 1
    <3>1. todo' = <<>> /\ Halfway
      BY <2>0, <2>2, TodoRest DEF Numbering, Halfway, Typed
    <3>2. ~torn' /\ number' = 256 * EE'["nnH"] + EE'["nnL"]
      BY <1>1, <3>1 DEF Write
    <3>3. NN_temp' = FinalNumber' /\ ~Numbering' /\ pc' = "loop"
      BY <2>0, <2>1, <2>2, <3>1 DEF NumberInv, Numbering, InMain
    <3> QED
      BY <3>2, <3>3 DEF NumberInv
  <2>3. CASE Numbering /\ Len(todo) = 2
    <3>1. todo' = << todo[2] >> /\ todo[2][1] \in {"nnH", "nnL"}
      BY <2>0, <2>3, TodoRest DEF Numbering, Typed
    <3>2. Len(todo') = 1 /\ Numbering'
      BY <3>1 DEF Numbering
    <3>3. NN_temp = FinalNumber /\ pc = "loop"
      BY <2>3 DEF NumberInv, InMain
    <3> QED
      BY <2>0, <2>1, <3>2, <3>3 DEF NumberInv
  <2>4. CASE ~Numbering
    <3>1. ~Halfway /\ todo[1][1] \notin {"nnH", "nnL"}
      BY <2>0, <2>4 DEF Halfway, Numbering
    <3>2. UNCHANGED <<number, torn>>
      BY <1>1, <3>1 DEF Write, Typed, FlagsOK
    <3>3. EE'["nnH"] = EE["nnH"] /\ EE'["nnL"] = EE["nnL"]
      BY <2>0, <3>1 DEF Typed, DataOK
    <3>4. ~Numbering'
      <4>1. \/ todo' = <<>>
            \/ todo' = << todo[2] >> /\ todo[2][1] \notin {"nnH", "nnL"}
        BY <2>0, <3>1, TodoRest DEF Typed
      <4> QED
        BY <4>1 DEF Numbering
    <3> QED
      BY <2>0, <2>1, <2>4, <3>2, <3>3, <3>4 DEF NumberInv, InMain
  <2> QED
    BY <2>0, <2>2, <2>3, <2>4, TodoRest DEF Typed
<1>2. CASE PowerLoss
  <2>1. pc' = "reset" /\ todo' = <<>> /\ torn' = (torn \/ Halfway) /\ UNCHANGED <<EE, number>>
    BY <1>2 DEF PowerLoss
  <2>2. ~Numbering' /\ ~InMain'
    BY <2>1 DEF Numbering, InMain
  <2>3. ~torn' => ~torn /\ (~Numbering \/ Len(todo) = 2)
    BY <2>1, TodoRest DEF Halfway, Numbering, Typed
  <2> QED
    BY <2>1, <2>2, <2>3 DEF NumberInv
<1>3. CASE Press \/ UNCHANGED vars
  BY <1>3 DEF Press, vars, nodeVars, history, NumberInv, InMain, Numbering, FinalNumber, Final
<1>4. CASE Number
  <2> DEFINE nn == 256 * EE["nnH"] + EE["nnL"]
  <2>0. todo = <<>> /\ EE' = EE /\ pc' = "loop" /\ UNCHANGED <<number, torn>> /\ ~Numbering
    BY <1>4 DEF Number, Goto, At, Numbering
  <2>1. CASE nn \in Reserved
    <3>1. todo' = << <<"nnL", Low(DEFAULT_NN)>>, <<"nnH", High(DEFAULT_NN)>> >>
          /\ NN_temp' = DEFAULT_NN
      BY <1>4, <2>1 DEF Number
    <3>2. Final("nnL")' = Low(DEFAULT_NN) /\ Final("nnH")' = High(DEFAULT_NN)
      BY <2>0, <3>1, FinalTwo
    <3>3. NN_temp' = FinalNumber'
      BY <3>1, <3>2, NumberBytes, Bytes DEF FinalNumber
    <3> QED
      BY <2>0, <3>3 DEF NumberInv
  <2>2. CASE nn \notin Reserved
    <3>1. todo' = <<>> /\ NN_temp' = nn
      BY <1>4, <2>2 DEF Number
    <3>2. NN_temp' = FinalNumber' /\ ~Numbering'
      BY <2>0, <3>1, FinalNone DEF FinalNumber, Numbering
    <3> QED
      BY <2>0, <3>2 DEF NumberInv
  <2> QED
    BY <2>1, <2>2
<1>5. ASSUME NEW nn \in Numbers, SNN(nn) PROVE NumberInv'
  <2>1. todo = <<>> /\ EE' = EE /\ pc' = "loop" /\ UNCHANGED <<number, torn>> /\ NN_temp' = nn
        /\ todo' = << <<"nnH", High(nn)>>, <<"nnL", Low(nn)>> >> /\ ~Numbering
    BY <1>5 DEF SNN, SetNumber, Goto, At, Numbering
  <2>2. Final("nnL")' = Low(nn) /\ Final("nnH")' = High(nn)
    BY <2>1, FinalTwo
  <2>3. NN_temp' = FinalNumber'
    BY <2>1, <2>2, Assumed, NumberBytes DEF FinalNumber
  <2> QED
    BY <2>1, <2>3 DEF NumberInv
<1>6. CASE Plain
  <2>1. ~Numbering /\ ~Numbering'
    BY <1>6 DEF Plain, Numbering
  <2>2. \A c \in {"nnH", "nnL"} : Final(c)' = EE[c] /\ Final(c) = EE[c]
    BY <1>6, FinalNone, FinalOne, FinalTwo, FinalNow DEF Plain
  <2> QED
    BY <1>6, <2>1, <2>2 DEF Plain, NumberInv, FinalNumber
<1> QED
  BY <1>1, <1>2, <1>3, <1>4, <1>5, <1>6, PlainStep DEF NumberInv

-----------------------------------------------------------------------------
(* What the node uses is stored.                                            *)

FromNumbers == {nn % 128 : nn \in Numbers \cup {DEFAULT_NN}}
LowBytes == {Low(nn) : nn \in Numbers \cup {DEFAULT_NN}}

\* Either byte of a number may be new when power fails, but the low one is one of a number
\* that was assigned.
LowInv ==
  /\ EE["nnL"] \in LowBytes \/ (EE["nnL"] = VIRGIN /\ EE["nnH"] = VIRGIN)
  /\ InMain => Final("nnL") \in LowBytes
  /\ todo # <<>> /\ todo[1][1] = "nnL" => todo[1][2] \in LowBytes
  /\ todo # <<>> /\ todo[1][1] = "nnH" => EE["nnL"] \in LowBytes
  /\ Len(todo) = 2 /\ todo[2][1] = "nnL" => todo[2][2] \in LowBytes
  /\ pc = "mac" => restart

LEMMA LowStep == ASSUME Typed, LowInv, [Next]_vars PROVE LowInv'
<1>1. CASE Write
  <2>0. todo # <<>> /\ EE' = [EE EXCEPT ![todo[1][1]] = todo[1][2]] /\ todo' = Tail(todo)
        /\ UNCHANGED <<pc, restart>>
    BY <1>1 DEF Write
  <2>1. Final("nnL")' = Final("nnL")
    BY <1>1, FinalWrite DEF Cells
  <2>2. EE'["nnL"] = (IF todo[1][1] = "nnL" THEN todo[1][2] ELSE EE["nnL"])
        /\ EE'["nnH"] = (IF todo[1][1] = "nnH" THEN todo[1][2] ELSE EE["nnH"])
    BY <2>0 DEF Typed, DataOK, Cells
  <2>3. EE'["nnL"] \in LowBytes \/ (EE'["nnL"] = VIRGIN /\ EE'["nnH"] = VIRGIN)
    BY <2>0, <2>2 DEF LowInv
  <2>4. \/ todo' = <<>>
        \/ /\ Len(todo) = 2 /\ todo' = << todo[2] >> /\ todo[1][1] # todo[2][1]
           /\ todo[1][1] \in {"nnH", "nnL"} <=> todo[2][1] \in {"nnH", "nnL"}
    BY <2>0, TodoRest DEF Typed
  <2>5. /\ todo' # <<>> /\ todo'[1][1] = "nnL" => todo'[1][2] \in LowBytes
        /\ todo' # <<>> /\ todo'[1][1] = "nnH" => EE'["nnL"] \in LowBytes
        /\ Len(todo') # 2
    <3>1. CASE todo' = <<>>
      BY <3>1
    <3>2. CASE todo' # <<>>
      <4>1. Len(todo) = 2 /\ Len(todo') = 1 /\ todo' # <<>> /\ todo'[1] = todo[2]
        BY <2>4, <3>2
      <4>2. todo'[1][1] = "nnL" => todo'[1][2] \in LowBytes
        BY <4>1 DEF LowInv
      <4>3. todo'[1][1] = "nnH" => todo[1][1] = "nnL" /\ todo[1][2] \in LowBytes
        BY <2>0, <2>4, <3>2, <4>1 DEF LowInv
      <4> QED
        BY <2>2, <4>1, <4>2, <4>3
    <3> QED
      BY <3>1, <3>2
  <2> QED
    BY <2>0, <2>1, <2>3, <2>5 DEF LowInv, InMain
<1>2. CASE PowerLoss
  BY <1>2 DEF PowerLoss, LowInv, InMain
<1>3. CASE Press \/ UNCHANGED vars
  BY <1>3 DEF Press, vars, LowInv, InMain, Final
<1>4. CASE Number
  <2>0. todo = <<>> /\ EE' = EE /\ pc' = "loop"
    BY <1>4 DEF Number, Goto, At
  <2>1. CASE todo' = << <<"nnL", Low(DEFAULT_NN)>>, <<"nnH", High(DEFAULT_NN)>> >>
    <3>1. Low(DEFAULT_NN) \in LowBytes
      BY DEF LowBytes
    <3>2. Final("nnL")' = Low(DEFAULT_NN)
      BY <2>0, <2>1, FinalTwo
    <3>3. Len(todo') = 2 /\ todo'[1][1] = "nnL" /\ todo'[1][2] = Low(DEFAULT_NN) /\ todo'[2][1] = "nnH"
      BY <2>1
    <3> QED
      BY <2>0, <3>1, <3>2, <3>3 DEF LowInv
  <2>2. CASE 256 * EE["nnH"] + EE["nnL"] \notin Reserved /\ todo' = <<>>
    <3>1. EE["nnL"] \in LowBytes
      BY <2>2, Maxima DEF LowInv, Reserved, VIRGIN
    <3>2. Final("nnL")' = EE["nnL"]
      BY <2>0, <2>2, FinalNone
    <3> QED
      BY <2>0, <2>2, <3>1, <3>2 DEF LowInv
  <2> QED
    BY <1>4, <2>1, <2>2 DEF Number
<1>5. ASSUME NEW nn \in Numbers, SNN(nn) PROVE LowInv'
  <2>0. todo = <<>> /\ EE' = EE /\ pc = "loop" /\ pc' = "loop"
        /\ todo' = << <<"nnH", High(nn)>>, <<"nnL", Low(nn)>> >>
    BY <1>5 DEF SNN, SetNumber, Goto, At
  <2>1. EE["nnL"] \in LowBytes /\ Low(nn) \in LowBytes
    BY <2>0, FinalNow DEF LowInv, InMain, LowBytes
  <2>2. Final("nnL")' = Low(nn)
    BY <2>0, FinalTwo
  <2>3. Len(todo') = 2 /\ todo'[1][1] = "nnH" /\ todo'[2][1] = "nnL" /\ todo'[2][2] = Low(nn)
    BY <2>0
  <2> QED
    BY <2>0, <2>1, <2>2, <2>3 DEF LowInv
<1>6. CASE Plain
  <2>1. Final("nnL")' = EE["nnL"] /\ Final("nnL") = EE["nnL"]
    BY <1>6, FinalNone, FinalOne, FinalTwo, FinalNow DEF Plain
  <2>2. /\ todo' # <<>> => todo'[1][1] \notin {"nnH", "nnL"}
        /\ Len(todo') = 2 => todo'[2][1] \notin {"nnH", "nnL"}
    BY <1>6 DEF Plain
  <2> QED
    BY <1>6, <2>1, <2>2 DEF Plain, LowInv
<1> QED
  BY <1>1, <1>2, <1>3, <1>4, <1>5, <1>6, PlainStep DEF LowInv

\* Node variable 1: where it is in use, it is or will be stored.
NV1Used == pc \in {"mac", "clean", "portnum", "dhcp", "number", "loop"}
NV1Inv == NV1Used => NV1 = Final("nv") \/ Bit(NV1, CFG_REINIT_TCPIP)

LEMMA NV1Step == ASSUME Typed, NV1Inv, [Next]_vars PROVE NV1Inv'
<1>1. CASE Write
  BY <1>1, FinalWrite DEF Write, NV1Inv, NV1Used, Cells, nodeVars
<1>2. CASE PowerLoss \/ CANInit \/ BootReset \/ BOOT \/ NNRST
  BY <1>2 DEF PowerLoss, CANInit, Boots, BootReset, BOOT, NNRST, Restart, Goto, NV1Inv, NV1Used
<1>3. CASE Press \/ UNCHANGED vars
  BY <1>3 DEF Press, vars, nodeVars, NV1Inv, NV1Used, Final
<1>4. CASE Main
  <2>1. EE' = EE /\ NV1' = IF EE["nv"] = VIRGIN THEN 0 ELSE EE["nv"]
    BY <1>4 DEF Main
  <2>2. todo' = IF EE["nv"] = VIRGIN THEN << <<"nv", 0>>, <<"idletime", 120>> >> ELSE <<>>
    BY <1>4 DEF Main
  <2>3. NV1' = Final("nv")'
    BY <2>1, <2>2, FinalNone, FinalTwo
  <2> QED
    BY <2>3 DEF NV1Inv
<1>5. CASE Dhcp
  <2>1. todo = <<>> /\ EE' = EE /\ pc = "dhcp" /\ NV1' = IF SW THEN Toggled(NV1, CFG_DHCP_CLIENT) ELSE NV1
    BY <1>5 DEF Dhcp, DhcpFlag, Goto, At
  <2>2. todo' = IF SW THEN << <<"nv", NV1'>> >> ELSE <<>>
    BY <1>5 DEF Dhcp, DhcpFlag
  <2>3. IF SW THEN NV1' = Final("nv")' ELSE NV1' = NV1 /\ Final("nv")' = Final("nv")
    BY <2>1, <2>2, FinalNone, FinalOne, FinalNow
  <2> QED
    BY <2>1, <2>3 DEF NV1Inv, NV1Used
<1>6. ASSUME NEW v \in NV1Values, NVSet1(v) PROVE NV1Inv'
  <2>1. EE' = EE /\ NV1' = v /\ (Bit(v, CFG_REINIT_TCPIP) \/ todo' = << <<"nv", v>> >>)
    BY <1>6 DEF NVSet1, SetNV1
  <2>2. Bit(v, CFG_REINIT_TCPIP) \/ Final("nv")' = v
    BY <2>1, FinalOne
  <2> QED
    BY <2>1, <2>2 DEF NV1Inv
<1>7. ASSUME todo = <<>>, EE' = EE, NV1' = NV1, NV1Used,
             \/ todo' = <<>>
             \/ \E a \in Cells \ {"nv"}, v \in Byte : todo' = << <<a, v>> >>
             \/ \E a, b \in Cells \ {"nv"}, v, w \in Byte : todo' = << <<a, v>>, <<b, w>> >>
      PROVE  NV1Inv'
  <2>1. Final("nv")' = EE["nv"] /\ Final("nv") = EE["nv"]
    BY <1>7, FinalNone, FinalOne, FinalTwo, FinalNow
  <2> QED
    BY <1>7, <2>1 DEF NV1Inv
<1>8. CASE SetMacAddress \/ CleanDefaults \/ PortDefaults
  <2>1. todo = <<>> /\ EE' = EE /\ NV1' = NV1 /\ NV1Used
    BY <1>8 DEF SetMacAddress, CleanDefaults, PortDefaults, Defaults, Goto, At, NV1Used, nodeVars
  <2>2. \/ todo' = <<>>
        \/ todo' = << <<"mac", FACTORY>>, <<"macRest", FACTORY>> >>
        \/ todo' = << <<"clean", 0>>, <<"ip", FACTORY>> >>
        \/ todo' = << <<"portnum", FACTORY>>, <<"remote", FACTORY>> >>
    BY <1>8 DEF SetMacAddress, CleanDefaults, PortDefaults, Defaults
  <2> QED
    BY <1>7, <2>1, <2>2, Bytes DEF Cells
<1>9. CASE Number \/ Button
  <2>1. todo = <<>> /\ EE' = EE /\ NV1' = NV1 /\ NV1Used
    BY <1>9 DEF Number, Button, Goto, At, NV1Used
  <2>2. \/ todo' = <<>>
        \/ todo' = << <<"nnL", Low(DEFAULT_NN)>>, <<"nnH", High(DEFAULT_NN)>> >>
    BY <1>9 DEF Number, Button, Goto, At
  <2>3. Low(DEFAULT_NN) \in Byte /\ High(DEFAULT_NN) \in Byte
    BY Bytes, NumberBytes
  <2> QED
    BY <1>7, <2>1, <2>2, <2>3 DEF Cells
<1>10. ASSUME NEW nn \in Numbers, SNN(nn) PROVE NV1Inv'
  <2>1. todo = <<>> /\ EE' = EE /\ NV1' = NV1 /\ NV1Used
        /\ todo' = << <<"nnH", High(nn)>>, <<"nnL", Low(nn)>> >>
    BY <1>10 DEF SNN, SetNumber, Goto, At, NV1Used
  <2>2. Low(nn) \in Byte /\ High(nn) \in Byte
    BY Assumed, NumberBytes
  <2> QED
    BY <1>7, <2>1, <2>2 DEF Cells
<1>11. CASE (\E v \in CanIds : NVSet2(v))
            \/ (\E cell \in NVCells, v \in {2, VIRGIN} : NVSetOther(cell, v))
  <2>1. todo = <<>> /\ EE' = EE /\ NV1' = NV1 /\ NV1Used
    BY <1>11 DEF NVSet2, NVSetOther, Goto, At, NV1Used
  <2>2. \E a \in NVCells \cup {"canid"}, v \in Byte : todo' = << <<a, v>> >>
    BY <1>11, Assumed, Bytes DEF NVSet2, NVSetOther
  <2>3. NVCells \cup {"canid"} \subseteq Cells \ {"nv"}
    BY Assumed DEF Cells
  <2> QED
    BY <1>7, <2>1, <2>2, <2>3
<1> QED
  BY <1>1, <1>2, <1>3, <1>4, <1>5, <1>6, <1>8, <1>9, <1>10, <1>11
     DEF Next, Start, InitAppConfig, Command

\* The CAN identifier: the one that is or will be stored, or else that of a number.
CanIdInv ==
  InMain => \/ CANID = Final("canid")
            \/ Final("canid") \in {0, VIRGIN} /\ CANID \in FromNumbers

LEMMA SameRemainder ==
  ASSUME NEW h \in Byte, NEW l \in Byte, l \in LowBytes
  PROVE  (256 * h + l) % 128 \in FromNumbers
<1>1. PICK nn \in Numbers \cup {DEFAULT_NN} : l = Low(nn)
  BY DEF LowBytes
<1>2. nn \in Nat /\ h \in Nat /\ l \in Nat
  BY Assumed, Bytes
<1>3. nn % 128 = (nn % 256) % 128
  BY <1>2
<1>4. (256 * h + l) % 128 = l % 128
  BY <1>2
<1>5. (256 * h + l) % 128 = nn % 128
  BY <1>1, <1>3, <1>4 DEF Low
<1> QED
  BY <1>5 DEF FromNumbers

LEMMA CanIdStep == ASSUME Typed, CanIdInv, LowInv, [Next]_vars PROVE CanIdInv'
<1>1. CASE Write
  BY <1>1, FinalWrite DEF Write, CanIdInv, InMain, Cells, nodeVars
<1>2. CASE Press \/ UNCHANGED vars
  BY <1>2 DEF Press, vars, nodeVars, CanIdInv, InMain, Final
<1>3. CASE ~InMain'
  BY <1>3 DEF CanIdInv
<1>4. CASE Number
  <2> DEFINE nn == 256 * EE["nnH"] + EE["nnL"]
  <2>1. EE' = EE /\ EE["nnH"] \in Byte /\ EE["nnL"] \in Byte
    BY <1>4 DEF Number, Typed, DataOK, Cells
  <2>2. Final("canid")' = EE["canid"]
    BY <1>4, <2>1, FinalNone, FinalTwo DEF Number
  <2>3. CASE EE["canid"] \notin {0, VIRGIN}
    BY <1>4, <2>2, <2>3 DEF Number, CanIdInv
  <2>4. CASE EE["canid"] \in {0, VIRGIN}
    <3>1. CANID' = NN_temp' % 128 /\ NN_temp' = IF nn \in Reserved THEN DEFAULT_NN ELSE nn
      BY <1>4, <2>4 DEF Number
    <3>2. DEFAULT_NN % 128 \in FromNumbers
      BY DEF FromNumbers
    <3>3. nn \notin Reserved => EE["nnL"] \in LowBytes
      BY Maxima DEF LowInv, Reserved, VIRGIN
    <3>4. nn \notin Reserved => nn % 128 \in FromNumbers
      BY <2>1, <3>3, SameRemainder
    <3> QED
      BY <2>2, <2>4, <3>1, <3>2, <3>4 DEF CanIdInv
  <2> QED
    BY <2>3, <2>4
<1>5. ASSUME NEW v \in CanIds, NVSet2(v) PROVE CanIdInv'
  <2>1. EE' = EE /\ CANID' = v /\ todo' = << <<"canid", v>> >>
    BY <1>5 DEF NVSet2
  <2> QED
    BY <2>1, FinalOne DEF CanIdInv
<1>6. ASSUME todo = <<>>, EE' = EE, CANID' = CANID, InMain,
             \/ todo' = <<>>
             \/ \E a \in Cells \ {"canid"}, v \in Byte : todo' = << <<a, v>> >>
             \/ \E a, b \in Cells \ {"canid"}, v, w \in Byte : todo' = << <<a, v>>, <<b, w>> >>
      PROVE  CanIdInv'
  <2>1. Final("canid")' = EE["canid"] /\ Final("canid") = EE["canid"]
    BY <1>6, FinalNone, FinalOne, FinalTwo, FinalNow
  <2> QED
    BY <1>6, <2>1 DEF CanIdInv
<1>7. CASE InitAppConfig /\ InMain'
  <2>1. todo = <<>> /\ EE' = EE /\ CANID' = CANID /\ InMain
    BY <1>7 DEF InitAppConfig, CleanDefaults, PortDefaults, Dhcp, DhcpFlag, Defaults, Goto, At, InMain,
                nodeVars, Typed, FlagsOK
  <2>2. \/ todo' = <<>>
        \/ todo' = << <<"clean", 0>>, <<"ip", FACTORY>> >>
        \/ todo' = << <<"portnum", FACTORY>>, <<"remote", FACTORY>> >>
        \/ todo' = << <<"nv", NV1'>> >>
    BY <1>7 DEF InitAppConfig, CleanDefaults, PortDefaults, Dhcp, DhcpFlag, Defaults
  <2>3. NV1' \in Byte
    BY <1>7, TypedStep DEF Typed, DataOK
  <2> QED
    BY <1>6, <2>1, <2>2, <2>3, Bytes DEF Cells
<1>8. CASE Button
  BY <1>6, <1>8 DEF Button, Goto, At, InMain
<1>9. ASSUME NEW nn \in Numbers, SNN(nn) PROVE CanIdInv'
  <2>1. todo = <<>> /\ EE' = EE /\ CANID' = CANID /\ InMain
        /\ todo' = << <<"nnH", High(nn)>>, <<"nnL", Low(nn)>> >>
    BY <1>9 DEF SNN, SetNumber, Goto, At, InMain
  <2>2. Low(nn) \in Byte /\ High(nn) \in Byte
    BY Assumed, NumberBytes
  <2> QED
    BY <1>6, <2>1, <2>2 DEF Cells
<1>10. ASSUME NEW v \in NV1Values, NVSet1(v) PROVE CanIdInv'
  <2>1. todo = <<>> /\ EE' = EE /\ CANID' = CANID /\ InMain
        /\ (todo' = <<>> \/ todo' = << <<"nv", v>> >>)
    BY <1>10 DEF NVSet1, SetNV1, Goto, At, InMain
  <2> QED
    BY <1>6, <2>1, Assumed DEF Cells
<1>11. ASSUME NEW cell \in NVCells, NEW v \in {2, VIRGIN}, NVSetOther(cell, v) PROVE CanIdInv'
  <2>1. todo = <<>> /\ EE' = EE /\ CANID' = CANID /\ InMain /\ todo' = << <<cell, v>> >>
    BY <1>11 DEF NVSetOther, Goto, At, InMain
  <2>2. cell \in Cells \ {"canid"} /\ v \in Byte
    BY Assumed, Bytes DEF Cells
  <2> QED
    BY <1>6, <2>1, <2>2
<1>12. CANInit \/ Main \/ SetMacAddress \/ BootReset \/ BOOT \/ NNRST \/ PowerLoss => ~InMain'
  BY DEF CANInit, Boots, Main, SetMacAddress, Defaults, BootReset, BOOT, NNRST, Restart, PowerLoss,
         Goto, At, InMain, LowInv
<1> QED
  BY <1>1, <1>2, <1>3, <1>4, <1>5, <1>7, <1>8, <1>9, <1>10, <1>11, <1>12
     DEF Next, Start, Command

-----------------------------------------------------------------------------
(* The defaults are complete.                                               *)

\* From where on the group that cell f tells of has been looked at.
Done(f) ==
  \/ InMain \/ pc = "number"
  \/ pc \in CASE f = "mac" -> {"clean", "portnum", "dhcp"}
              [] f = "clean" -> {"portnum", "dhcp"}
              [] f = "portnum" -> {"dhcp"}

\* Cell f of a group is not written without the others, which are r: unless power failed
\* after the one and before the other.
Group(f, r) ==
  /\ ~cut => EE[f] = VIRGIN \/ EE[r] # VIRGIN \/ (todo # <<>> /\ todo[1][1] = r)
  /\ todo # <<>> /\ todo[1][1] = f /\ ~cut => Final(r) # VIRGIN
  /\ todo # <<>> /\ todo[1][1] = r => todo[1][2] # VIRGIN
  /\ Len(todo) = 2 /\ todo[2][1] = r => todo[2][2] # VIRGIN
  /\ Done(f) /\ ~cut => Final(r) # VIRGIN

Groups == { <<"mac", "macRest">>, <<"clean", "ip">>, <<"portnum", "remote">> }

LEMMA GroupWrite ==
  ASSUME Typed, Write, NEW f, NEW r, <<f, r>> \in Groups, Group(f, r)
  PROVE  Group(f, r)'
<1>0. /\ todo # <<>> /\ EE' = [EE EXCEPT ![todo[1][1]] = todo[1][2]] /\ todo' = Tail(todo)
      /\ UNCHANGED <<pc, restart, cut>>
  BY DEF Write
<1>1. /\ f \in {"mac", "clean", "portnum"} /\ r \in {"macRest", "ip", "remote"}
      /\ f \in Cells /\ r \in Cells /\ f # r
  BY DEF Groups, Cells
<1>2. Final(r)' = Final(r)
  BY <1>1, FinalWrite
<1>3. /\ EE'[f] = (IF todo[1][1] = f THEN todo[1][2] ELSE EE[f])
      /\ EE'[r] = (IF todo[1][1] = r THEN todo[1][2] ELSE EE[r])
  BY <1>0, <1>1 DEF Typed, DataOK
<1>4. CASE todo' = <<>> /\ Len(todo) = 1
  <2>1. Final(r) = EE'[r]
    BY <1>2, <1>4, AfterNone DEF Final
  <2>2. ~cut => EE'[f] = VIRGIN \/ EE'[r] # VIRGIN
    <3>1. CASE todo[1][1] = f
      BY <1>0, <2>1, <3>1 DEF Group
    <3>2. CASE todo[1][1] = r
      BY <1>0, <1>3, <3>2 DEF Group
    <3>3. CASE todo[1][1] \notin {f, r}
      BY <1>3, <3>3 DEF Group
    <3> QED
      BY <3>1, <3>2, <3>3
  <2>3. Done(f)' = Done(f)
    BY <1>0 DEF Done, InMain
  <2> QED
    BY <1>0, <1>2, <1>4, <2>2, <2>3 DEF Group
<1>5. CASE /\ todo' = << todo[2] >> /\ Len(todo) = 2
           /\ todo[2][1] \notin {"mac", "clean", "portnum"}
  <2>1. todo' # <<>> /\ Len(todo') = 1 /\ todo'[1] = todo[2] /\ todo'[1][1] # f
    BY <1>1, <1>5
  <2>2. Final(r) = IF todo[2][1] = r THEN todo[2][2] ELSE EE'[r]
    BY <1>2, <2>1 DEF Final, After
  <2>3. ~cut => EE'[f] = VIRGIN \/ EE'[r] # VIRGIN \/ todo'[1][1] = r
    <3>1. CASE todo[1][1] = f
      BY <1>0, <2>1, <2>2, <3>1 DEF Group
    <3>2. CASE todo[1][1] = r
      BY <1>0, <1>3, <3>2 DEF Group
    <3>3. CASE todo[1][1] \notin {f, r}
      BY <1>3, <3>3 DEF Group
    <3> QED
      BY <3>1, <3>2, <3>3
  <2> QED
    BY <1>0, <1>2, <1>5, <2>1, <2>3 DEF Group, Done, InMain
<1> QED
  BY <1>0, <1>4, <1>5, TodoRest DEF Typed

LEMMA GroupLoss ==
  ASSUME Typed, PowerLoss, NEW f, NEW r, <<f, r>> \in Groups, Group(f, r)
  PROVE  Group(f, r)'
<1>1. /\ todo' = <<>> /\ EE' = EE /\ pc' = "reset" /\ cut \in BOOLEAN
      /\ cut' = (cut \/ (todo # <<>> /\ todo[1][1] \in {"macRest", "ip", "remote"}))
  BY DEF PowerLoss, Typed, FlagsOK
<1>2. ~cut' => ~cut /\ ~(todo # <<>> /\ todo[1][1] = r)
  BY <1>1 DEF Groups
<1>3. ~Done(f)'
  BY <1>1 DEF Done, InMain, Groups
<1> QED
  BY <1>1, <1>2, <1>3 DEF Group

\* Steps from an empty list.
LEMMA GroupOther ==
  ASSUME NEW f, NEW r, <<f, r>> \in Groups, Group(f, r),
         todo = <<>>, EE' = EE, cut' = cut,
         \/ todo' = <<>>
         \/ \E a \in Cells \ {f, r}, v \in Byte : todo' = << <<a, v>> >>
         \/ \E a, b \in Cells \ {f, r}, v, w \in Byte : todo' = << <<a, v>>, <<b, w>> >>,
         Done(f)' => Done(f) \/ EE[f] # VIRGIN
  PROVE  Group(f, r)'
<1>1. Final(r)' = EE[r] /\ Final(r) = EE[r]
  BY FinalNone, FinalOne, FinalTwo, FinalNow
<1>2. /\ todo' # <<>> => todo'[1][1] \notin {f, r}
      /\ Len(todo') = 2 => todo'[2][1] # r
  OBVIOUS
<1> QED
  BY <1>1, <1>2 DEF Group

LEMMA GroupWritten ==
  ASSUME NEW f, NEW r, <<f, r>> \in Groups, Group(f, r), NEW v,
         todo = <<>>, EE' = EE, cut' = cut, todo' = << <<f, v>>, <<r, FACTORY>> >>
  PROVE  Group(f, r)'
<1>1. Final(r)' = FACTORY /\ FACTORY # VIRGIN
  BY FinalTwo DEF FACTORY, VIRGIN
<1>2. Len(todo') = 2 /\ todo' # <<>> /\ todo'[1][1] = f /\ todo'[2] = <<r, FACTORY>>
  OBVIOUS
<1>3. f # r
  BY DEF Groups
<1> QED
  BY <1>1, <1>2, <1>3 DEF Group

LEMMA GroupSet ==
  ASSUME NEW f, NEW r, <<f, r>> \in Groups, Group(f, r), NEW c, NEW v,
         todo = <<>>, EE' = EE, cut' = cut, todo' = << <<c, v>> >>, pc = "loop",
         c = r => v # VIRGIN
  PROVE  Group(f, r)'
<1>1. ~cut => EE[r] # VIRGIN
  BY FinalNow DEF Group, Done, InMain
<1>2. Final(r)' = IF r = c THEN v ELSE EE[r]
  BY FinalOne
<1>3. Len(todo') = 1 /\ todo' # <<>> /\ todo'[1] = <<c, v>>
  OBVIOUS
<1> QED
  BY <1>1, <1>2, <1>3 DEF Group

LEMMA GroupStep ==
  ASSUME Typed, LowInv, [Next]_vars, NEW f, NEW r, <<f, r>> \in Groups, Group(f, r)
  PROVE  Group(f, r)'
<1>0. f \in {"mac", "clean", "portnum"} /\ r \in {"macRest", "ip", "remote"}
  BY DEF Groups
<1>1. CASE Write
  BY <1>1, GroupWrite
<1>2. CASE PowerLoss
  BY <1>2, GroupLoss
<1>3. CASE Press \/ UNCHANGED vars
  BY <1>3 DEF Press, vars, history, Group, Done, InMain, Final
<1>4. ASSUME NEW g, NEW q, <<g, q>> \in Groups, NEW v \in Byte,
             todo = <<>>, EE' = EE, cut' = cut,
             \/ todo' = <<>> /\ EE[g] # VIRGIN
             \/ todo' = << <<g, v>>, <<q, FACTORY>> >>,
             f # g => (Done(f)' => Done(f))
      PROVE  Group(f, r)'
  <2>1. CASE f = g /\ todo' # <<>>
    <3>1. r = q
      BY <1>4, <2>1 DEF Groups
    <3> QED
      BY <1>4, <2>1, <3>1, GroupWritten
  <2>2. CASE f = g /\ todo' = <<>>
    BY <1>4, <2>2, GroupOther
  <2>3. CASE f # g
    <3>1. {g, q} \subseteq Cells \ {f, r}
      BY <1>4, <2>3 DEF Groups, Cells
    <3> QED
      BY <1>4, <2>3, <3>1, GroupOther, Bytes
  <2> QED
    BY <2>1, <2>2, <2>3
<1>5. CASE SetMacAddress
  <2>1. f # "mac" => (Done(f)' => Done(f))
    BY <1>0, <1>5 DEF SetMacAddress, Defaults, Goto, At, Done, InMain, LowInv
  <2>2. /\ todo = <<>> /\ EE' = EE /\ cut' = cut
        /\ \/ todo' = <<>> /\ EE["mac"] # VIRGIN
           \/ todo' = << <<"mac", FACTORY>>, <<"macRest", FACTORY>> >>
    BY <1>5 DEF SetMacAddress, Defaults, Goto, At
  <2>3. <<"mac", "macRest">> \in Groups /\ FACTORY \in Byte
    BY Bytes DEF Groups
  <2> QED
    BY <1>4, <2>1, <2>2, <2>3
<1>6. CASE CleanDefaults
  <2>1. f # "clean" => (Done(f)' => Done(f))
    BY <1>0, <1>6 DEF CleanDefaults, Defaults, Goto, At, Done, InMain
  <2>2. /\ todo = <<>> /\ EE' = EE /\ cut' = cut
        /\ \/ todo' = <<>> /\ EE["clean"] # VIRGIN
           \/ todo' = << <<"clean", 0>>, <<"ip", FACTORY>> >>
    BY <1>6 DEF CleanDefaults, Defaults, Goto, At
  <2>3. <<"clean", "ip">> \in Groups /\ 0 \in Byte
    BY Bytes DEF Groups
  <2> QED
    BY <1>4, <2>1, <2>2, <2>3
<1>7. CASE PortDefaults
  <2>1. f # "portnum" => (Done(f)' => Done(f))
    BY <1>0, <1>7 DEF PortDefaults, Defaults, Goto, At, Done, InMain
  <2>2. /\ todo = <<>> /\ EE' = EE /\ cut' = cut
        /\ \/ todo' = <<>> /\ EE["portnum"] # VIRGIN
           \/ todo' = << <<"portnum", FACTORY>>, <<"remote", FACTORY>> >>
    BY <1>7 DEF PortDefaults, Defaults, Goto, At
  <2>3. <<"portnum", "remote">> \in Groups /\ FACTORY \in Byte
    BY Bytes DEF Groups
  <2> QED
    BY <1>4, <2>1, <2>2, <2>3
<1>8. ASSUME NEW cell \in NVCells, NEW v \in {2, VIRGIN}, NVSetOther(cell, v),
             v = VIRGIN => cell \in {"mac", "portnum"}
      PROVE  Group(f, r)'
  <2>1. todo = <<>> /\ EE' = EE /\ cut' = cut /\ pc = "loop" /\ todo' = << <<cell, v>> >>
    BY <1>8 DEF NVSetOther, Goto, At
  <2> QED
    BY <1>0, <1>8, <2>1, GroupSet
<1>9. ASSUME todo = <<>>, EE' = EE, cut' = cut, Done(f)' => Done(f),
             \/ todo' = <<>>
             \/ \E a \in Cells \ {f, r}, v \in Byte : todo' = << <<a, v>> >>
             \/ \E a, b \in Cells \ {f, r}, v, w \in Byte : todo' = << <<a, v>>, <<b, w>> >>
      PROVE  Group(f, r)'
  BY <1>9, GroupOther
<1>10. CASE CANInit \/ Main \/ BootReset \/ BOOT \/ NNRST
  <2>1. todo = <<>> /\ EE' = EE /\ cut' = cut
    BY <1>10 DEF CANInit, Boots, Main, BootReset, BOOT, NNRST, Restart, Goto, At
  <2>2. Done(f)' => Done(f)
    BY <1>0, <1>10 DEF CANInit, Boots, Main, BootReset, BOOT, NNRST, Restart, Goto, At, Done, InMain
  <2>3. \/ todo' = <<>>
        \/ todo' = << <<"nv", 0>>, <<"idletime", 120>> >>
        \/ todo' = << <<"bootflag", 0>> >>
        \/ todo' = << <<"bootflag", VIRGIN>> >>
    BY <1>10 DEF CANInit, Boots, Main, BootReset, BOOT, NNRST, Restart, Goto, At, VIRGIN
  <2>4. {"nv", "idletime", "bootflag"} \subseteq Cells \ {f, r}
    BY <1>0 DEF Cells
  <2> QED
    BY <1>9, <2>1, <2>2, <2>3, <2>4, Bytes
<1>11. CASE Dhcp \/ Number \/ Button
  <2>1. todo = <<>> /\ EE' = EE /\ cut' = cut
    BY <1>11 DEF Dhcp, DhcpFlag, Number, Button, Goto, At
  <2>2. Done(f)' => Done(f)
    BY <1>0, <1>11 DEF Dhcp, DhcpFlag, Number, Button, Goto, At, Done, InMain
  <2>3. \/ todo' = <<>>
        \/ todo' = << <<"nv", NV1'>> >>
        \/ todo' = << <<"nnL", Low(DEFAULT_NN)>>, <<"nnH", High(DEFAULT_NN)>> >>
    BY <1>11 DEF Dhcp, DhcpFlag, Number, Button, Goto, At
  <2>4. {"nv", "nnL", "nnH"} \subseteq Cells \ {f, r}
    BY <1>0 DEF Cells
  <2>5. NV1' \in Byte /\ Low(DEFAULT_NN) \in Byte /\ High(DEFAULT_NN) \in Byte
    BY TypedStep, Bytes, NumberBytes DEF Typed, DataOK
  <2> QED
    BY <1>9, <2>1, <2>2, <2>3, <2>4, <2>5
<1>12. ASSUME NEW nn \in Numbers, SNN(nn) PROVE Group(f, r)'
  <2>1. todo = <<>> /\ EE' = EE /\ cut' = cut /\ Done(f)
        /\ todo' = << <<"nnH", High(nn)>>, <<"nnL", Low(nn)>> >>
    BY <1>12 DEF SNN, SetNumber, Goto, At, Done, InMain
  <2>2. {"nnL", "nnH"} \subseteq Cells \ {f, r} /\ Low(nn) \in Byte /\ High(nn) \in Byte
    BY <1>0, Assumed, NumberBytes DEF Cells
  <2> QED
    BY <1>9, <2>1, <2>2
<1>13. ASSUME NEW v \in Byte,
              \/ v \in NV1Values /\ NVSet1(v)
              \/ v \in CanIds /\ NVSet2(v)
       PROVE  Group(f, r)'
  <2>1. todo = <<>> /\ EE' = EE /\ cut' = cut /\ Done(f)
        /\ (todo' = <<>> \/ todo' = << <<"nv", v>> >> \/ todo' = << <<"canid", v>> >>)
    BY <1>13 DEF NVSet1, SetNV1, NVSet2, Goto, At, Done, InMain
  <2>2. {"nv", "canid"} \subseteq Cells \ {f, r}
    BY <1>0 DEF Cells
  <2> QED
    BY <1>9, <2>1, <2>2
<1> QED
  BY <1>1, <1>2, <1>3, <1>5, <1>6, <1>7, <1>8, <1>10, <1>11, <1>12, <1>13, Assumed
     DEF Next, Start, InitAppConfig, Command

-----------------------------------------------------------------------------
(* The theorems.                                                            *)

NodeInv ==
  /\ Typed /\ OfferInv /\ ButtonInv /\ NumberInv /\ LowInv /\ NV1Inv /\ CanIdInv
  /\ Group("mac", "macRest") /\ Group("clean", "ip") /\ Group("portnum", "remote")

LEMMA Initially == Init => NodeInv
<1> SUFFICES ASSUME Init PROVE NodeInv
  OBVIOUS
<1>1. Typed
  BY TypedInit
<1>2. /\ pc = "reset" /\ todo = <<>> /\ held = SW /\ taken = 1 /\ Wait4NN = FALSE
      /\ number = USHRT_MAX /\ EE["nnH"] = VIRGIN /\ EE["nnL"] = VIRGIN
      /\ \A c \in {"mac", "clean", "portnum"} : EE[c] = VIRGIN
  BY DEF Init, Cells
<1>3. OfferInv /\ ButtonInv
  BY <1>2 DEF OfferInv, ButtonInv
<1>4. NumberInv /\ LowInv /\ NV1Inv /\ CanIdInv
  <2>1. USHRT_MAX = 256 * VIRGIN + VIRGIN
    BY Maxima DEF VIRGIN
  <2> QED
    BY <1>2, <2>1 DEF NumberInv, LowInv, NV1Inv, NV1Used, CanIdInv, InMain, Numbering
<1>5. Group("mac", "macRest") /\ Group("clean", "ip") /\ Group("portnum", "remote")
  BY <1>2 DEF Group, Done, InMain
<1> QED
  BY <1>1, <1>3, <1>4, <1>5 DEF NodeInv

LEMMA NodeStep == ASSUME NodeInv, [Next]_vars PROVE NodeInv'
<1>1. <<"mac", "macRest">> \in Groups /\ <<"clean", "ip">> \in Groups /\ <<"portnum", "remote">> \in Groups
  BY DEF Groups
<1> QED
  BY <1>1, TypedStep, OfferStep, ButtonStep, NumberStep, LowStep, NV1Step, CanIdStep, GroupStep
     DEF NodeInv

LEMMA NodeAlways == Spec => []NodeInv
  BY Initially, NodeStep, PTL DEF Spec

\* Every variable of the node keeps its type, for all values that commands can bring.
THEOREM TypeCorrect == Spec => []TypeOK
<1>1. NodeInv => TypeOK
  BY DEF NodeInv, Typed, TypeOK
<1> QED
  BY <1>1, NodeAlways, PTL

\* The number the node goes by is the one that was last stored as a whole, across any number
\* of restarts and losses of power, for all numbers a tool assigns (SNN, main).
THEOREM NumberAlwaysSurvives == Spec => []NumberSurvives
<1>1. NodeInv => NumberSurvives
  <2> SUFFICES ASSUME NodeInv, At("loop"), ~torn PROVE NN_temp = number
    BY DEF NumberSurvives
  <2>1. NumberInv /\ pc = "loop" /\ todo = <<>>
    BY DEF NodeInv, At
  <2>2. FinalNumber = 256 * EE["nnH"] + EE["nnL"]
    BY <2>1, FinalNow DEF FinalNumber
  <2> QED
    BY <2>1, <2>2 DEF NumberInv, InMain, Numbering
<1> QED
  BY <1>1, NodeAlways, PTL

\* One press of the button makes the node take one number at most, whatever happens to its
\* power in between (Button, SNN).
THEOREM OfferTakenOnce == Spec => []OneNumberPerOffer
<1>1. NodeInv => OneNumberPerOffer
  BY DEF NodeInv, OfferInv, OneNumberPerOffer
<1> QED
  BY <1>1, NodeAlways, PTL

\* What the node uses is what it stored: even when power failed between the two bytes of a
\* number (NVSET, InitAppConfig, main).
THEOREM InUseAlwaysStored == Spec => []InUseIsStored
<1>1. NodeInv => InUseIsStored
  <2> SUFFICES ASSUME NodeInv PROVE TypeOK /\ (At("loop") => NV1IsStored /\ CanIdIsStored)
    BY DEF InUseIsStored
  <2>1. TypeOK
    BY DEF NodeInv, Typed, TypeOK
  <2>2. ASSUME At("loop") PROVE NV1IsStored /\ CanIdIsStored
    <3>1. todo = <<>> /\ pc = "loop" /\ NV1Inv /\ CanIdInv
      BY <2>2 DEF At, NodeInv
    <3>2. NV1IsStored
      BY <3>1, FinalNow DEF NV1Inv, NV1Used, NV1IsStored
    <3>3. CanIdIsStored
      BY <3>1, FinalNow DEF CanIdInv, InMain, CanIdIsStored, FromNumbers
    <3> QED
      BY <3>2, <3>3
  <2> QED
    BY <2>1, <2>2
<1> QED
  BY <1>1, NodeAlways, PTL

\* The node reaches its loop with all its network parameters set, unless power failed while
\* a group of defaults was being written (InitAppConfig, setMacAddress).
THEOREM DefaultsAlwaysComplete == Spec => []DefaultsComplete
<1>1. NodeInv => DefaultsComplete
  <2> SUFFICES ASSUME NodeInv, At("loop"), ~cut, NEW c \in {"macRest", "ip", "remote"}
               PROVE  EE[c] # VIRGIN
    BY DEF DefaultsComplete
  <2>1. todo = <<>> /\ Done("mac") /\ Done("clean") /\ Done("portnum")
    BY DEF At, Done, InMain
  <2> QED
    BY <2>1, FinalNow DEF NodeInv, Group
<1> QED
  BY <1>1, NodeAlways, PTL

\* Powering up with the button held puts the network parameters back to the defaults,
\* whatever earlier losses of power left behind (InitAppConfig, setMacAddress).
THEOREM ButtonAlwaysRestores == Spec => []ButtonRestores
<1>1. NodeInv => ButtonRestores
  <2> SUFFICES ASSUME NodeInv, pc = "number", held,
                      NEW c \in {"mac", "macRest", "ip", "portnum", "remote"}
               PROVE  EE[c] = FACTORY
    BY DEF ButtonRestores
  <2>1. ButtonInv /\ restart /\ Final(c) = FACTORY
    BY DEF NodeInv, ButtonInv
  <2>2. Final(c) = EE[c]
    BY <2>1, FinalNow DEF ButtonInv, Final, After
  <2> QED
    BY <2>1, <2>2
<1> QED
  BY <1>1, NodeAlways, PTL
=============================================================================

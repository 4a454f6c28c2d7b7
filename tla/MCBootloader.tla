--------------------------- MODULE MCBootloader ---------------------------
(***************************************************************************)
(* A download of three rows of program memory in two blocks, one of which *)
(* adds nothing to the sum, the configuration words and one row of EEPROM.  *)
(***************************************************************************)
EXTENDS Bootloader

MCBits == 0 .. 1
MCWeight == [b \in MCBits |-> b + 1]
MCDownload == << <<"prog", 2, << {0}, {}, {1} >> >>, <<"conf", 0, << {1} >> >>,
                 <<"ee", 0, << {0} >> >> >>
MCOld == {{}}
=============================================================================

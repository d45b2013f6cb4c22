------------------------------- MODULE MCConsole -------------------------------
(***************************************************************************)
(* Console with one key and one shift: the key types a letter, and with    *)
(* shift ends the line.  A ring of three slots, a line buffer of two, a    *)
(* screen of two rows of four.                                             *)
(***************************************************************************)
EXTENDS Console

CONSTANTS k, lshift

MCKeys      == {k}
MCShifts    == {lshift}
MCChar      == {"nul", "nl", "bs", "tab", "cr", " ", "a", "e", "h", "$"}
MCKeyChar   == [x \in Ascii |-> CASE x = NUL -> "nul" [] x = <<k, 0>> -> "a" [] OTHER -> "nl"]
MCPrompt    == <<"$">>
MCHelp      == <<"h">>
MCClear     == <<"e">>
MCEcho      == <<"e", " ">>
MCUnknown   == <<"nl">>
=============================================================================

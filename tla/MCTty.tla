-------------------------------- MODULE MCTty --------------------------------
(***************************************************************************)
(* Tty on a screen of two rows of five columns, a buffer of four, and the  *)
(* shortest texts that keep the commands distinct: "h" for help, "e" for   *)
(* clear, "e " for echo.  Prompt and a full line fill more than one row.   *)
(***************************************************************************)
EXTENDS Tty

MCChar        == {"nul", "nl", "bs", "tab", "cr", " ", "h", "e", "$", "?"}
MCKeyChars    == {"nul", "nl", "bs", "tab", " ", "h", "e"}
MCPrompt      == <<"$", " ">>
MCHelpName    == <<"h">>
MCClearName   == <<"e">>
MCEchoPrefix  == <<"e", " ">>
MCHelpText    == <<"h", "nl", "tab", "e", "nl">>
MCUnknownHead == <<"?">>
MCUnknownTail == <<"nl">>
=============================================================================

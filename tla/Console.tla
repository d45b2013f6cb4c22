-------------------------------- MODULE Console --------------------------------
(***************************************************************************)
(* The running kernel: the key path of module Input composed with the      *)
(* terminal of module Tty.  The loop of kmain passes each event it pops to *)
(* tty_handle_keypress, which looks at its character only; a screen is     *)
(* written by the loop alone, so that the whole call is one step of it,    *)
(* while the interrupt may strike before and after.                        *)
(***************************************************************************)
EXTENDS Input, SequencesExt

CONSTANTS
  TTY_BUFFER_SIZE, Width, Height, TabStop, PageHeight,  \* as in Tty
  Char, NulChar, NewLine, BackSpace, Tab, Return, Space,
  Prompt, HelpName, ClearName, EchoPrefix, HelpText, UnknownHead, UnknownTail,
  KeyChar  \* keymap.c: the character of each key with and without shift

ASSUME ConsoleAssumption == KeyChar \in [Ascii -> Char] /\ KeyChar[NUL] = NulChar

VARIABLES
  lineBuffer, buf_pos, display,       \* tty_t
  chars, executed, output, slipped    \* history, as in Tty

terminal    == <<lineBuffer, buf_pos, display, chars, executed, output, slipped>>
consoleVars == <<vars, terminal>>

T == INSTANCE Tty WITH
       buffer <- lineBuffer, typed <- chars, NUL <- NulChar,
       KeyChars <- {KeyChar[a] : a \in Ascii}

ASSUME TerminalAssumption == T!TtyAssumption

ConsoleInit == Init /\ T!Init

PassedMutant(e) == KeyChar[IF e.scancode \in ShiftKeys THEN NUL ELSE <<e.scancode, 0>>]
Passed(e) == KeyChar[e.ascii]
HandleKey == Handle /\ T!tty_handle_keypress(Passed(event))

Loop == \/ HandleKey
        \/ (Poll \/ MainLock \/ PopTake \/ PopAdvance \/ MainUnlock) /\ UNCHANGED terminal
Handler  == IrqStep /\ UNCHANGED terminal
Keyboard == (\E b \in Byte : KeyArrives(b)) /\ UNCHANGED terminal

\* The terminal can always take a key, so the fairness of Input is enough.
ConsoleNext == Loop \/ Handler \/ Keyboard
ConsoleSpec == ConsoleInit /\ [][ConsoleNext]_consoleVars /\ Fairness

-----------------------------------------------------------------------------
\* A line editor: the line and the commands run, after character c.
Edited(s, c) ==
  CASE c = NulChar   -> s
    [] c = NewLine   -> [line |-> <<>>,
                         run  |-> IF Len(s.line) \in 1 .. TTY_BUFFER_SIZE - 1
                                    THEN Append(s.run, s.line) ELSE s.run]
    [] c = BackSpace -> [s EXCEPT !.line = IF @ = <<>> THEN @ ELSE Front(@)]
    [] OTHER         -> [s EXCEPT !.line = IF Len(@) < TTY_BUFFER_SIZE THEN Append(@, c) ELSE @]
Lines(cs) ==
  LET after[i \in 0 .. Len(cs)] ==
        IF i = 0 THEN [line |-> <<>>, run |-> <<>>] ELSE Edited(after[i - 1], cs[i])
  IN  after[Len(cs)]

\* The characters of the first n keys the ring took, as they were typed.
TypedChars(n) == [i \in 1 .. n |-> KeyChar[EventOf(accepted[i]).ascii]]

\* tty.c, input.c, ps2kbd.c: whatever the interrupts did, the commands that
\* have run are the lines of the keys as they were typed, each once, in order
\* and with the characters of the shift state at the press; only a key the
\* ring refused, or a line as long as the buffer, is missing.
CommandsAsTyped == executed = Lines(TypedChars(Len(handled))).run
=============================================================================

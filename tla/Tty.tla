--------------------------------- MODULE Tty ---------------------------------
(***************************************************************************)
(* The terminal of kernel/tty/tty.c over the text screen of                *)
(* drivers/video/vga.c: the line buffer and its overflow, echo, the cursor *)
(* with wrapping and scrolling, the four commands and the prompt.          *)
(*                                                                         *)
(* tty_handle_keypress is called by the one thread of the kernel, for one  *)
(* event after the other, so a key is one step.  Colours are left out.     *)
(***************************************************************************)
EXTENDS Integers, Sequences, SequencesExt

CONSTANTS
  TTY_BUFFER_SIZE,      \* 128
  Width, Height,        \* 80 by 25
  TabStop,              \* 4
  Char,                 \* characters, with the special ones:
  NUL, NewLine, BackSpace, Tab, Return, Space,
  KeyChars,             \* those keymap.c gives to keys
  Prompt,               \* "$ "
  HelpName, ClearName,  \* "help", "clear"
  EchoPrefix,           \* "echo "
  HelpText,             \* what cmd_help writes
  UnknownHead,          \* "unknown command: '"
  UnknownTail,          \* "'\n"
  MaxKeys,              \* bound: keys handled in a run
  PageHeight            \* rows of the reference page, never reached in a run

Special == {NUL, NewLine, BackSpace, Tab, Return}
Text    == Seq(Char \ {NUL})

ASSUME TtyAssumption ==
  \* one byte past the buffer is the low byte of buf_pos, hence the 255
  /\ TTY_BUFFER_SIZE \in 1 .. 255
  /\ Width \in Nat \ {0} /\ Height \in Nat \ {0} /\ TabStop \in Nat \ {0}
  /\ Special \cup {Space} \cup KeyChars \subseteq Char
  /\ NUL \notin {NewLine, BackSpace, Tab, Return, Space}
  /\ NewLine \notin {BackSpace, Tab, Return, Space}
  /\ BackSpace \notin {Tab, Return, Space} /\ Tab \notin {Return, Space} /\ Return # Space
  /\ {Prompt, HelpName, ClearName, EchoPrefix, HelpText, UnknownHead, UnknownTail} \subseteq Text
  \* no key of keymap.c returns the carriage, and the prompt is printable
  /\ Return \notin KeyChars /\ Prompt \in Seq(Char \ Special)
  /\ PageHeight \in Nat /\ PageHeight >= Height
  /\ MaxKeys \in Nat

VARIABLES
  buffer, buf_pos,  \* the line typed so far
  display,          \* xpos, ypos and the cells of the screen
  typed,            \* history: the keys handled
  executed,         \* history: the commands run
  output,           \* history: what was written since the screen was last cleared
  slipped           \* history: since the prompt, a tab or an erase in column 0

vars == <<buffer, buf_pos, display, typed, executed, output, slipped>>

Index   == 0 .. TTY_BUFFER_SIZE - 1
Cols    == 0 .. Width - 1
Display(h)  == [xpos : Cols, ypos : 0 .. h - 1, screen : [0 .. h - 1 -> [Cols -> Char]]]
At(x, y, cells) == [xpos |-> x, ypos |-> y, screen |-> cells]
BlankRow    == [x \in Cols |-> Space]
\* vga_clear, and the cursor at the top left.
Cleared(h)  == At(0, 0, [y \in 0 .. h - 1 |-> BlankRow])

-----------------------------------------------------------------------------
(* Writing, on a screen of h rows. *)

ScrollMutant(d, h) ==
  At(d.xpos, h - 1, [y \in 0 .. h - 1 |-> IF y < h - 1 THEN d.screen[y + 1] ELSE d.screen[y]])

\* vga_scroll: every row moves up, the last becomes blank.
Scroll(d, h) ==
  At(d.xpos, h - 1, [y \in 0 .. h - 1 |-> IF y < h - 1 THEN d.screen[y + 1] ELSE BlankRow])

NewRow(d)     == At(0, d.ypos + 1, d.screen)
Draw(d, x, c) == [d.screen EXCEPT ![d.ypos][x] = c]

\* A back space in column 0 does nothing, even when the text before the cursor
\* continues from the row above.
Place(d, c) ==
  CASE c = NewLine   -> NewRow(d)
    [] c = BackSpace -> IF d.xpos > 0
                          THEN At(d.xpos - 1, d.ypos, Draw(d, d.xpos - 1, Space))
                          ELSE d
    [] c = Tab       -> At((d.xpos \div TabStop + 1) * TabStop, d.ypos, d.screen)
    [] c = Return    -> At(0, d.ypos, d.screen)
    [] OTHER         -> At(d.xpos + 1, d.ypos, Draw(d, d.xpos, c))

Wrap(d) == IF d.xpos >= Width THEN NewRow(d) ELSE d

ScrollIf(d, h) == IF d.ypos >= h THEN Scroll(d, h) ELSE d

PutChar(d, c, h) == IF c = NUL THEN d ELSE ScrollIf(Wrap(Place(d, c)), h)

\* The characters one after the other; at[i] is the screen after the i-th.
Write(d, text, h) ==
  LET at[i \in 0 .. Len(text)] == IF i = 0 THEN d ELSE PutChar(at[i - 1], text[i], h)
  IN  at[Len(text)]
tty_write(d, text) == Write(d, text, Height)

-----------------------------------------------------------------------------
(* The line buffer. *)

strlen(s) == CHOOSE n \in 0 .. TTY_BUFFER_SIZE :
               /\ \A i \in 0 .. n - 1 : s[i] # NUL
               /\ n < TTY_BUFFER_SIZE => s[n] = NUL
CString(s) == [i \in 1 .. strlen(s) |-> s[i - 1]]
EmptyBuffer == [i \in Index |-> NUL]

IsFull == buf_pos = TTY_BUFFER_SIZE

TerminatedMutant == buffer
\* The buffer and buf_pos after the terminator is stored at buffer[buf_pos].
\* In a full buffer that is the low byte of buf_pos itself.
Terminated == IF IsFull THEN buffer ELSE [buffer EXCEPT ![buf_pos] = NUL]
PosAfter   == IF IsFull THEN 0 ELSE buf_pos

-----------------------------------------------------------------------------
(* tty_execute_command: what it writes; "clear" writes nothing. *)

IsEcho(cmd) == IsPrefix(EchoPrefix, cmd)
Reply(cmd) ==
  CASE cmd = HelpName  -> HelpText
    [] cmd = ClearName -> <<>>
    [] IsEcho(cmd) /\ cmd \notin {HelpName, ClearName} ->
         SubSeq(cmd, Len(EchoPrefix) + 1, Len(cmd)) \o <<NewLine>>
    [] OTHER -> UnknownHead \o cmd \o UnknownTail

Clears(cmd) == cmd = ClearName

-----------------------------------------------------------------------------
Init ==
  /\ buffer = EmptyBuffer /\ buf_pos = 0
  /\ display = tty_write(Cleared(Height), Prompt)
  /\ typed = <<>> /\ executed = <<>> /\ output = Prompt /\ slipped = FALSE

\* The end of a line: echo it, run what was typed, start over with a prompt.
Enter ==
  LET cmd     == CString(Terminated)
      ends    == PosAfter > 0
      clears  == ends /\ Clears(cmd)
      written == <<NewLine>> \o (IF ends THEN Reply(cmd) ELSE <<>>) \o Prompt
  IN  /\ executed' = IF ends THEN Append(executed, cmd) ELSE executed
      /\ display' = IF clears THEN tty_write(Cleared(Height), Prompt)
                              ELSE tty_write(display, written)
      /\ output' = IF clears THEN Prompt ELSE output \o written
      /\ buf_pos' = 0 /\ buffer' = EmptyBuffer
      /\ slipped' = FALSE

\* The characters of the prompt are not in the buffer and are never erased.
Erase ==
  /\ IF buf_pos > 0
       THEN /\ buf_pos' = buf_pos - 1
            /\ display' = tty_write(display, <<BackSpace>>)
            /\ output' = output \o <<BackSpace>>
            /\ slipped' = (slipped \/ display.xpos = 0)
       ELSE UNCHANGED <<buf_pos, display, output, slipped>>
  /\ UNCHANGED <<buffer, executed>>

InsertMutant(c) ==
  /\ IF buf_pos < TTY_BUFFER_SIZE
       THEN buffer' = [buffer EXCEPT ![buf_pos] = c] /\ buf_pos' = buf_pos + 1
       ELSE UNCHANGED <<buffer, buf_pos>>
  /\ display' = tty_write(display, <<c>>)
  /\ output' = output \o <<c>>
  /\ slipped' = (slipped \/ c = Tab)
  /\ UNCHANGED executed
\* Any other character is stored and echoed, or dropped by a full buffer.
Insert(c) ==
  /\ IF buf_pos < TTY_BUFFER_SIZE
       THEN /\ buffer' = [buffer EXCEPT ![buf_pos] = c]
            /\ buf_pos' = buf_pos + 1
            /\ display' = tty_write(display, <<c>>)
            /\ output' = output \o <<c>>
            /\ slipped' = (slipped \/ c = Tab)
       ELSE UNCHANGED <<buffer, buf_pos, display, output, slipped>>
  /\ UNCHANGED executed

\* A key event without a character (a release, a shift) is ignored.
tty_handle_keypress(c) ==
  \/ c = NUL /\ UNCHANGED vars
  \/ /\ c # NUL /\ Len(typed) < MaxKeys
     /\ typed' = Append(typed, c)
     /\ \/ c = NewLine /\ Enter
        \/ c = BackSpace /\ Erase
        \/ c \notin {NewLine, BackSpace} /\ Insert(c)

Next == \E c \in KeyChars : tty_handle_keypress(c)
Spec == Init /\ [][Next]_vars

-----------------------------------------------------------------------------
(* Properties. *)

line == [i \in 1 .. buf_pos |-> buffer[i - 1]]

\* tty.c: the terminal implements the line editor: each command it runs is
\* exactly what was typed and not erased since the last one, within the size
\* of the buffer, even after the terminator has overwritten buf_pos.
Editor == INSTANCE LineDiscipline WITH
            MaxLen <- TTY_BUFFER_SIZE, keys <- typed, run <- executed
ImplementsLine == Editor!Spec

\* tty.c, vga.c: the cursor stays on the screen, and scrolling loses the rows
\* that leave at the top and nothing else: the screen is the end of a page long
\* enough never to scroll.
ScreenIsTail ==
  LET page == Write(Cleared(PageHeight), output, PageHeight)
      gone == page.ypos - display.ypos
  IN  /\ display \in Display(Height)
      /\ gone >= 0 /\ page.xpos = display.xpos
      /\ \A y \in 0 .. Height - 1 : display.screen[y] = page.screen[y + gone]

\* The cells before the cursor, in reading order, end with text.
Shows(d, text) ==
  LET n == Width * d.ypos + d.xpos
  IN  \A j \in 1 .. Len(text) :
        j <= n => d.screen[(n - j) \div Width][(n - j) % Width] = text[Len(text) + 1 - j]

\* tty.c: what stands before the cursor is the prompt and the line that Enter
\* will run, wrapped or not, as long as no tab was typed and nothing was erased
\* across the edge of the screen.
SeenIsLine == ~slipped => Shows(display, Prompt \o line)

\* tty.c: nothing is erased from the screen while the line is empty, so the
\* prompt survives any number of back spaces.
PromptStays ==
  [][buf_pos = 0 /\ typed' = Append(typed, BackSpace) => display' = display]_vars
=============================================================================

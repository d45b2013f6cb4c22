------------------------------ MODULE TtyProofs ------------------------------
(* Proofs about module Tty, for every buffer size, screen size and text.    *)
EXTENDS Tty, NatFacts, SequenceTheorems

\* The part of the state the line editor is made of: the characters before
\* buf_pos are real characters, so the terminator ends the line at buf_pos.
LineInv ==
  /\ buffer \in [Index -> Char]
  /\ buf_pos \in 0 .. TTY_BUFFER_SIZE
  /\ \A i \in 0 .. buf_pos - 1 : buffer[i] # NUL

\* The character a key adds is one of the text.
LEMMA InsertedChar ==
  ASSUME NEW c \in KeyChars, c # NUL
  PROVE  c \in Char \ {NUL}
BY TtyAssumption

LEMMA InitLine == Init => LineInv
BY TtyAssumption DEF Init, LineInv, EmptyBuffer, Index, Special

LEMMA StepLine == LineInv /\ [Next]_vars => LineInv'
<1> SUFFICES ASSUME LineInv, [Next]_vars PROVE LineInv'
  OBVIOUS
<1> USE DEF LineInv, Index
<1>1. ASSUME Enter PROVE LineInv'
  BY <1>1, TtyAssumption DEF Enter, EmptyBuffer, Special
<1>2. ASSUME Erase PROVE LineInv'
  <2>1. buffer' = buffer /\ (buf_pos' = buf_pos \/ (buf_pos > 0 /\ buf_pos' = buf_pos - 1))
    BY <1>2 DEF Erase
  <2>2. buf_pos' \in 0 .. TTY_BUFFER_SIZE /\ 0 .. buf_pos' - 1 \subseteq 0 .. buf_pos - 1
    BY <2>1, TtyAssumption
  <2> QED BY <2>1, <2>2
<1>3. ASSUME NEW c \in KeyChars, c # NUL, Insert(c) PROVE LineInv'
  <2>1. CASE buf_pos < TTY_BUFFER_SIZE
    <3>1. c \in Char \ {NUL}
      BY <1>3, InsertedChar
    <3>2. buffer' = [buffer EXCEPT ![buf_pos] = c] /\ buf_pos' = buf_pos + 1
      BY <1>3, <2>1 DEF Insert
    <3>3. buf_pos \in Index /\ buf_pos' \in 0 .. TTY_BUFFER_SIZE
      BY <2>1, <3>2, TtyAssumption
    <3>4. buffer' \in [Index -> Char]
      BY <3>1, <3>2
    <3>5. \A i \in 0 .. buf_pos' - 1 : i \in Index /\ (i = buf_pos \/ i \in 0 .. buf_pos - 1)
      BY <3>2, <3>3, TtyAssumption
    <3>6. \A i \in 0 .. buf_pos' - 1 : buffer'[i] # NUL
      BY <3>1, <3>2, <3>5
    <3> QED BY <3>3, <3>4, <3>6
  <2>2. CASE ~(buf_pos < TTY_BUFFER_SIZE)
    BY <1>3, <2>2 DEF Insert
  <2> QED BY <2>1, <2>2
<1>4. CASE UNCHANGED vars
  BY <1>4 DEF vars
<1> QED
  BY <1>1, <1>2, <1>3, <1>4 DEF Next, tty_handle_keypress

LEMMA LineAlways == Spec => []LineInv
BY InitLine, StepLine, PTL DEF Spec

-----------------------------------------------------------------------------
LEMMA LineLength ==
  ASSUME LineInv
  PROVE  line \in Seq(Char) /\ Len(line) = buf_pos /\ (line = <<>> <=> buf_pos = 0)
<1>1. buf_pos \in Nat /\ \A i \in 1 .. buf_pos : buffer[i - 1] \in Char
  BY TtyAssumption DEF LineInv, Index
<1>2. line \in [1 .. buf_pos -> Char]
  BY <1>1 DEF line
<1>3. line \in Seq(Char)
  BY <1>1, <1>2
<1>4. Len(line) = buf_pos
  BY <1>1, <1>2, <1>3
<1>5. line = <<>> <=> buf_pos = 0
  BY <1>1, <1>3, <1>4
<1> QED BY <1>3, <1>4, <1>5

\* The string that starts at buffer, once terminated at buf_pos, is the line.
LEMMA TerminatedLine ==
  ASSUME LineInv, ~IsFull
  PROVE  CString(Terminated) = line
<1> DEFINE s == Terminated
           P(n) == /\ \A i \in 0 .. n - 1 : s[i] # NUL
                   /\ n < TTY_BUFFER_SIZE => s[n] = NUL
<1>1. buf_pos \in 0 .. TTY_BUFFER_SIZE - 1
  BY TtyAssumption DEF LineInv, IsFull
<1>2. s = [buffer EXCEPT ![buf_pos] = NUL]
  BY DEF Terminated
<1>3. P(buf_pos)
  BY <1>1, <1>2 DEF LineInv, Index
<1>4. ASSUME NEW n \in 0 .. TTY_BUFFER_SIZE, P(n) PROVE n = buf_pos
  BY <1>1, <1>3, <1>4, TtyAssumption
<1>5. strlen(s) = buf_pos
  <2> HIDE DEF s
  <2>1. buf_pos \in 0 .. TTY_BUFFER_SIZE
    BY <1>1, TtyAssumption
  <2> QED BY <1>3, <1>4, <2>1 DEF strlen
<1>6. \A i \in 1 .. buf_pos : s[i - 1] = buffer[i - 1]
  BY <1>1, <1>2 DEF LineInv, Index
<1> QED
  BY <1>5, <1>6 DEF CString, line

-----------------------------------------------------------------------------
(* The refinement. *)

LEMMA InitEditor == Init => Editor!Init
BY DEF Init, Editor!Init, line

LEMMA EnterEditor ==
  ASSUME LineInv, Enter, typed' = Append(typed, NewLine)
  PROVE  Editor!Enter
<1>1. line' = <<>>
  BY DEF Enter, line
<1>2. CASE IsFull
  BY <1>1, <1>2, LineLength DEF Enter, PosAfter, IsFull, Editor!Enter
<1>3. CASE ~IsFull
  <2>1. executed' = IF buf_pos > 0 THEN Append(executed, line) ELSE executed
    BY <1>3, TerminatedLine DEF Enter, PosAfter
  <2> QED BY <1>1, <2>1, LineLength DEF Editor!Enter, LineInv
<1> QED BY <1>2, <1>3

LEMMA EraseEditor ==
  ASSUME LineInv, Erase, typed' = Append(typed, BackSpace)
  PROVE  Editor!Erase
<1>1. CASE buf_pos > 0
  <2>1. buf_pos' = buf_pos - 1 /\ buffer' = buffer /\ executed' = executed
    BY <1>1 DEF Erase
  <2>2. line' = SubSeq(line, 1, Len(line) - 1)
    BY <2>1, <1>1, LineLength DEF line, LineInv
  <2> QED BY <1>1, <2>1, <2>2, LineLength DEF Editor!Erase
<1>2. CASE ~(buf_pos > 0)
  <2>1. buf_pos = 0 /\ line' = line /\ executed' = executed
    BY <1>2 DEF Erase, line, LineInv
  <2> QED BY <2>1, LineLength DEF Editor!Erase
<1> QED BY <1>1, <1>2

LEMMA InsertedLine ==
  ASSUME LineInv, NEW c \in KeyChars, Insert(c), buf_pos < TTY_BUFFER_SIZE
  PROVE  line' = Append(line, c)
<1>1. /\ buf_pos' = buf_pos + 1
      /\ buffer' = [buffer EXCEPT ![buf_pos] = c]
  BY DEF Insert
<1>2. line' = [i \in 1 .. buf_pos + 1 |-> buffer'[i - 1]]
  BY <1>1 DEF line
<1>3. \A i \in 1 .. buf_pos + 1 : buffer'[i - 1] = IF i = buf_pos + 1 THEN c ELSE buffer[i - 1]
  <2>1. \A i \in 1 .. buf_pos + 1 : i - 1 \in Index /\ (i - 1 = buf_pos <=> i = buf_pos + 1)
    BY TtyAssumption DEF LineInv, Index
  <2> QED BY <1>1, <2>1 DEF LineInv
<1>4. Append(line, c) = [i \in 1 .. buf_pos + 1 |-> IF i = buf_pos + 1 THEN c ELSE buffer[i - 1]]
  BY LineLength DEF line, LineInv
<1> QED BY <1>2, <1>3, <1>4

LEMMA InsertEditor ==
  ASSUME LineInv, NEW c \in KeyChars, c \notin {NUL, NewLine, BackSpace},
         Insert(c), typed' = Append(typed, c)
  PROVE  Editor!Key(c)
<1>1. CASE buf_pos < TTY_BUFFER_SIZE
  <2>1. /\ buf_pos' = buf_pos + 1 /\ executed' = executed
        /\ buffer' = [buffer EXCEPT ![buf_pos] = c]
    BY <1>1 DEF Insert
  <2>2. line' = Append(line, c)
    BY <1>1, InsertedLine
  <2> QED BY <1>1, <2>1, <2>2, LineLength DEF Editor!Key
<1>2. CASE ~(buf_pos < TTY_BUFFER_SIZE)
  <2>1. line' = line /\ executed' = executed
    BY <1>2 DEF Insert, line
  <2> QED BY <1>2, <2>1, LineLength DEF Editor!Key, LineInv
<1> QED BY <1>1, <1>2

\* What a key does to the line and to the commands run, without a choice: a
\* line as long as the buffer is always lost.
EnterLine(l, new, run, newRun) ==
  /\ new = <<>>
  /\ newRun = IF Len(l) \in 1 .. TTY_BUFFER_SIZE - 1 THEN Append(run, l) ELSE run
EraseLine(l, new) == new = IF l = <<>> THEN <<>> ELSE SubSeq(l, 1, Len(l) - 1)
InsertLine(l, new, c) == new = IF Len(l) < TTY_BUFFER_SIZE THEN Append(l, c) ELSE l

LEMMA KeyOnLine ==
  ASSUME LineInv, NEW c \in KeyChars, tty_handle_keypress(c)
  PROVE  /\ LineInv'
         /\ c = NUL => line' = line /\ executed' = executed
         /\ c = NewLine => EnterLine(line, line', executed, executed')
         /\ c = BackSpace => EraseLine(line, line') /\ executed' = executed
         /\ c \notin {NUL, NewLine, BackSpace} =>
              InsertLine(line, line', c) /\ executed' = executed
<1>1. LineInv'
  BY StepLine DEF Next
<1>2. CASE c = NUL
  BY <1>1, <1>2, TtyAssumption DEF tty_handle_keypress, vars, line
<1>3. CASE c = NewLine
  <2>1. Enter /\ typed' = Append(typed, NewLine)
    BY <1>3, TtyAssumption DEF tty_handle_keypress
  <2>2. line' = <<>>
    BY <2>1 DEF Enter, line
  <2>3. Len(line) = buf_pos
    BY LineLength
  <2>4. executed' = IF buf_pos \in 1 .. TTY_BUFFER_SIZE - 1 THEN Append(executed, line) ELSE executed
    <3>1. CASE IsFull
      BY <2>1, <3>1, TtyAssumption DEF Enter, PosAfter, IsFull
    <3>2. CASE ~IsFull
      <4>1. executed' = IF buf_pos > 0 THEN Append(executed, line) ELSE executed
        BY <2>1, <3>2, TerminatedLine DEF Enter, PosAfter
      <4>2. buf_pos > 0 <=> buf_pos \in 1 .. TTY_BUFFER_SIZE - 1
        BY <3>2, TtyAssumption DEF LineInv, IsFull
      <4> QED BY <4>1, <4>2
    <3> QED BY <3>1, <3>2
  <2>5. EnterLine(line, line', executed, executed')
    BY <2>2, <2>3, <2>4 DEF EnterLine
  <2> QED BY <1>1, <1>3, <2>5, TtyAssumption
<1>4. CASE c = BackSpace
  <2>1. Erase /\ typed' = Append(typed, BackSpace)
    BY <1>4, TtyAssumption DEF tty_handle_keypress
  <2>2. EraseLine(line, line') /\ executed' = executed
    BY <2>1, EraseEditor DEF Editor!Erase, EraseLine
  <2> QED BY <1>1, <1>4, <2>2, TtyAssumption
<1>5. CASE c \notin {NUL, NewLine, BackSpace}
  <2>1. Insert(c) /\ typed' = Append(typed, c)
    BY <1>5 DEF tty_handle_keypress
  <2>2. InsertLine(line, line', c) /\ executed' = executed
    BY <1>5, <2>1, InsertEditor DEF Editor!Key, InsertLine
  <2> QED BY <1>1, <1>5, <2>2
<1> QED BY <1>2, <1>3, <1>4, <1>5

\* tty.c: for every buffer size the terminal implements the line editor: what it
\* runs is what was typed and not erased, and only a full line can be lost.
THEOREM TtyImplementsLine == Spec => ImplementsLine
<1>1. LineInv /\ [Next]_vars => [Editor!Next]_<<typed, line, executed>>
  <2> SUFFICES ASSUME LineInv, [Next]_vars
               PROVE  [Editor!Next]_<<typed, line, executed>>
    OBVIOUS
  <2>1. CASE UNCHANGED vars
    BY <2>1 DEF vars, line
  <2>2. ASSUME NEW c \in KeyChars, tty_handle_keypress(c)
        PROVE  Editor!Next \/ UNCHANGED <<typed, line, executed>>
    <3>1. CASE c = NUL
      BY <2>2, <3>1 DEF tty_handle_keypress, vars, line
    <3>2. CASE c = NewLine /\ c # NUL
      BY <2>2, <3>2, EnterEditor, TtyAssumption DEF tty_handle_keypress, Editor!Next
    <3>3. CASE c = BackSpace /\ c # NUL
      BY <2>2, <3>3, EraseEditor, TtyAssumption DEF tty_handle_keypress, Editor!Next
    <3>4. CASE c \notin {NUL, NewLine, BackSpace}
      <4>1. c \in Char \ {NUL, NewLine, BackSpace}
        BY <3>4, TtyAssumption
      <4> QED
        BY <2>2, <3>4, <4>1, InsertEditor DEF tty_handle_keypress, Editor!Next
    <3> QED BY <3>1, <3>2, <3>3, <3>4
  <2> QED BY <2>1, <2>2 DEF Next
<1> QED
  BY <1>1, InitEditor, LineAlways, PTL DEF Spec, ImplementsLine, Editor!Spec

-----------------------------------------------------------------------------
(* The cursor. *)

LEMMA BlankRowType == BlankRow \in [Cols -> Char]
BY TtyAssumption DEF BlankRow

\* A display whose cursor may stand past the end of its row, or below the last
\* row at the start of a row.
Unwrapped(d, h) ==
  /\ d = At(d.xpos, d.ypos, d.screen)
  /\ d.xpos \in Nat /\ d.ypos \in 0 .. h
  /\ d.ypos = h => d.xpos = 0
  /\ d.screen \in [0 .. h - 1 -> [Cols -> Char]]

LEMMA DrawType ==
  ASSUME NEW h \in Nat \ {0}, NEW d \in Display(h), NEW x \in Cols, NEW c \in Char
  PROVE  Draw(d, x, c) \in [0 .. h - 1 -> [Cols -> Char]]
BY DEF Draw, Display

LEMMA TabType ==
  ASSUME NEW x \in Nat
  PROVE  (x \div TabStop + 1) * TabStop \in Nat
<1>1. x \div TabStop \in Nat
  BY TtyAssumption
<1> DEFINE q == x \div TabStop
<1> HIDE DEF q
<1>2. (q + 1) * TabStop \in Nat
  BY <1>1, TtyAssumption DEF q
<1> QED BY <1>2 DEF q

LEMMA PlaceType ==
  ASSUME NEW h \in Nat \ {0}, NEW d \in Display(h), NEW c \in Char
  PROVE  Unwrapped(Place(d, c), h)
<1>1. /\ d.xpos \in Cols /\ d.ypos \in 0 .. h - 1
      /\ d.screen \in [0 .. h - 1 -> [Cols -> Char]]
      /\ d = At(d.xpos, d.ypos, d.screen)
  BY DEF Display, At
<1>2. ASSUME NEW x \in Nat, NEW y \in 0 .. h, y = h => x = 0,
             NEW cells \in [0 .. h - 1 -> [Cols -> Char]]
      PROVE  Unwrapped(At(x, y, cells), h)
  BY <1>2 DEF Unwrapped, At
<1>3. d.xpos \in Nat /\ d.xpos < Width /\ d.ypos \in 0 .. h /\ d.ypos # h /\ d.ypos + 1 \in 0 .. h
  BY <1>1, TtyAssumption DEF Cols
<1>4. CASE c = NewLine
  <2>1. Place(d, c) = At(0, d.ypos + 1, d.screen)
    BY <1>4, TtyAssumption DEF Place, NewRow
  <2> QED BY <1>1, <1>2, <1>3, <2>1
<1>5. CASE c = BackSpace
  <2>1. Place(d, c) = IF d.xpos > 0 THEN At(d.xpos - 1, d.ypos, Draw(d, d.xpos - 1, Space)) ELSE d
    BY <1>5, TtyAssumption DEF Place
  <2>2. CASE d.xpos > 0
    <3>1. d.xpos - 1 \in Cols /\ d.xpos - 1 \in Nat
      BY <1>3, <2>2, TtyAssumption DEF Cols
    <3>2. Draw(d, d.xpos - 1, Space) \in [0 .. h - 1 -> [Cols -> Char]]
      BY <3>1, DrawType, TtyAssumption
    <3> QED BY <1>2, <1>3, <2>1, <2>2, <3>1, <3>2
  <2>3. CASE ~(d.xpos > 0)
    BY <1>1, <1>2, <1>3, <2>1, <2>3
  <2> QED BY <2>2, <2>3
<1>6. CASE c = Tab
  <2>1. Place(d, c) = At((d.xpos \div TabStop + 1) * TabStop, d.ypos, d.screen)
    BY <1>6, TtyAssumption DEF Place
  <2> QED BY <1>1, <1>2, <1>3, <2>1, TabType
<1>7. CASE c = Return
  <2>1. Place(d, c) = At(0, d.ypos, d.screen)
    BY <1>7, TtyAssumption DEF Place
  <2> QED BY <1>1, <1>2, <1>3, <2>1
<1>8. CASE c \notin {NewLine, BackSpace, Tab, Return}
  <2>1. Place(d, c) = At(d.xpos + 1, d.ypos, Draw(d, d.xpos, c))
    BY <1>8 DEF Place
  <2>2. Draw(d, d.xpos, c) \in [0 .. h - 1 -> [Cols -> Char]]
    BY <1>1, DrawType
  <2> QED BY <1>2, <1>3, <2>1, <2>2
<1> QED BY <1>4, <1>5, <1>6, <1>7, <1>8

LEMMA WrapType ==
  ASSUME NEW h \in Nat \ {0}, NEW p, Unwrapped(p, h)
  PROVE  Unwrapped(Wrap(p), h) /\ Wrap(p).xpos \in Cols
<1> DEFINE w == Wrap(p)
<1>1. CASE p.xpos >= Width
  <2>1. w = At(0, p.ypos + 1, p.screen)
    BY <1>1 DEF Wrap, NewRow
  <2>2. p.ypos + 1 \in 0 .. h
    BY <1>1, TtyAssumption DEF Unwrapped
  <2> QED BY <2>1, <2>2, TtyAssumption DEF Unwrapped, At, Cols
<1>2. CASE ~(p.xpos >= Width)
  <2>1. w = p
    BY <1>2 DEF Wrap
  <2> HIDE DEF w
  <2>2. p.xpos \in Cols
    BY <1>2, TtyAssumption DEF Unwrapped, Cols
  <2> QED BY <2>1, <2>2 DEF w
<1> QED BY <1>1, <1>2

\* tty.c, vga.c: whatever the size of the screen and whatever is written, the
\* cursor stays on the screen: a character never lands outside the frame buffer.
THEOREM CursorOnScreen ==
  ASSUME NEW h \in Nat \ {0}, NEW d \in Display(h), NEW c \in Char
  PROVE  PutChar(d, c, h) \in Display(h)
<1> DEFINE p == Place(d, c)
           w == Wrap(p)
<1>1. Unwrapped(p, h)
  BY PlaceType
<1> HIDE DEF p
<1>2. Unwrapped(w, h) /\ w.xpos \in Cols
  BY <1>1, WrapType
<1>3. ScrollIf(w, h) \in Display(h)
  <2> HIDE DEF w
  <2>1. CASE w.ypos >= h
    <3> DEFINE rows == [y \in 0 .. h - 1 |-> IF y < h - 1 THEN w.screen[y + 1] ELSE BlankRow]
    <3>1. ScrollIf(w, h) = At(w.xpos, h - 1, rows)
      BY <2>1 DEF ScrollIf, Scroll
    <3>2. rows \in [0 .. h - 1 -> [Cols -> Char]]
      BY <1>2, BlankRowType DEF Unwrapped
    <3> HIDE DEF rows
    <3>3. h - 1 \in 0 .. h - 1
      OBVIOUS
    <3> QED BY <1>2, <3>1, <3>2, <3>3 DEF At, Display
  <2>2. CASE ~(w.ypos >= h)
    <3>1. ScrollIf(w, h) = w /\ w.ypos \in 0 .. h - 1
      BY <1>2, <2>2 DEF ScrollIf, Unwrapped
    <3> QED BY <1>2, <3>1 DEF Unwrapped, At, Display
  <2> QED BY <2>1, <2>2
<1> QED BY <1>3 DEF PutChar, w, p

-----------------------------------------------------------------------------
(* Writing a text. *)

\* at[i] is the screen after the first i characters of text.
Course(at, d, text, h) ==
  /\ at \in [0 .. Len(text) -> Display(h)]
  /\ at[0] = d
  /\ \A i \in 1 .. Len(text) : at[i] = PutChar(at[i - 1], text[i], h)

LEMMA WriteIs ==
  ASSUME NEW h \in Nat \ {0}, NEW d \in Display(h), NEW text \in Seq(Char)
  PROVE  \E at : Course(at, d, text, h) /\ Write(d, text, h) = at[Len(text)]
<1> DEFINE n == Len(text)
           P(at) == at = [i \in 0 .. n |-> IF i = 0 THEN d ELSE PutChar(at[i - 1], text[i], h)]
           g == CHOOSE at : P(at)
           step == [x \in (1 .. n) \X Display(h) |-> PutChar(x[2], text[x[1]], h)]
           D == {i \in Nat : i <= n => g[i] \in Display(h)}
<1>1. n \in Nat /\ \A i \in 1 .. n : text[i] \in Char
  OBVIOUS
<1>2. ASSUME NEW i \in 1 .. n, NEW e \in Display(h)
      PROVE  PutChar(e, text[i], h) \in Display(h)
  BY <1>1, CursorOnScreen
<1>3. step \in [(1 .. n) \X Display(h) -> Display(h)]
  BY <1>2
<1>4. \E at : P(at)
  <2>1. PICK at \in [0 .. n -> Display(h)] : Recursion(at, n, d, step)
    <3>1. n \in Nat
      OBVIOUS
    <3>2. d \in Display(h)
      OBVIOUS
    <3> HIDE DEF step, n, g, D, P
    <3> DEFINE S == Display(h)
    <3>3. step \in [(1 .. n) \X S -> S] /\ d \in S
      BY <1>3
    <3> HIDE DEF S
    <3>4. \E at \in [0 .. n -> S] : Recursion(at, n, d, step)
      BY <3>1, <3>3, RecExists
    <3> QED BY <3>4 DEF S
  <2>2. ASSUME NEW i \in 0 .. n
        PROVE  at[i] = IF i = 0 THEN d ELSE PutChar(at[i - 1], text[i], h)
    <3>1. CASE i = 0
      BY <2>1, <3>1 DEF Recursion
    <3>2. CASE i # 0
      <4>1. <<i, at[i - 1]>> \in (1 .. n) \X Display(h)
        BY <2>1, <3>2
      <4> QED BY <2>1, <3>2, <4>1 DEF Recursion
    <3> QED BY <3>1, <3>2
  <2>3. P(at)
    <3> HIDE DEF step, n
    <3> QED BY <2>1, <2>2
  <2> QED BY <2>3
<1>5. P(g)
  <2> HIDE DEF P
  <2> QED BY <1>4
<1> HIDE DEF g, n, step
<1>6. 0 \in D
  BY <1>1, <1>5
<1>7. ASSUME NEW i \in Nat, i \in D PROVE i + 1 \in D
  <2> SUFFICES ASSUME i + 1 <= n PROVE g[i + 1] \in Display(h)
    OBVIOUS
  <2>1. g[i] \in Display(h) /\ i + 1 \in 1 .. n /\ i + 1 \in 0 .. n
    BY <1>1, <1>7
  <2>2. g[i + 1] = PutChar(g[i], text[i + 1], h)
    BY <1>1, <1>5, <2>1
  <2> QED BY <1>2, <2>1, <2>2
<1>8. \A i \in Nat : i \in D
  <2> HIDE DEF D
  <2> QED BY <1>6, <1>7, NatInd
<1>9. \A i \in 0 .. n : g[i] \in Display(h)
  BY <1>8
<1>10. Course(g, d, text, h)
  <2>1. g \in [0 .. n -> Display(h)] /\ g[0] = d
    BY <1>1, <1>5, <1>9
  <2>2. \A i \in 1 .. n : g[i] = PutChar(g[i - 1], text[i], h)
    BY <1>1, <1>5
  <2> QED BY <2>1, <2>2 DEF Course, n
<1>11. Write(d, text, h) = g[n]
  BY DEF Write, g, n
<1> QED BY <1>10, <1>11 DEF n

\* From place m on, the function a is b, the sequence s is t.
Shifted(a, m, b, n) == \A i \in 0 .. n : a[m + i] = b[i]
Ends(s, m, t) == Len(t) <= Len(s) - m /\ \A i \in 1 .. Len(t) : s[m + i] = t[i]

\* A course is determined by where it starts, so that a text in two parts is
\* written one after the other.
LEMMA CourseUnique ==
  ASSUME NEW h \in Nat \ {0}, NEW d, NEW e, NEW s \in Seq(Char), NEW t \in Seq(Char),
         NEW a, NEW b, Course(a, d, s, h), Course(b, e, t, h),
         NEW m \in 0 .. Len(s), a[m] = e, Ends(s, m, t)
  PROVE  Shifted(a, m, b, Len(t))
<1> USE DEF Shifted, Ends
<1> DEFINE D == {i \in Nat : i <= Len(t) => a[m + i] = b[i]}
<1>1. 0 \in D
  BY DEF Course
<1>2. ASSUME NEW i \in Nat, i \in D PROVE i + 1 \in D
  <2> SUFFICES ASSUME i + 1 <= Len(t) PROVE a[m + (i + 1)] = b[i + 1]
    OBVIOUS
  <2>1. /\ Len(s) \in Nat /\ Len(t) \in Nat /\ i + 1 \in 1 .. Len(t)
        /\ m + (i + 1) \in 1 .. Len(s) /\ m + (i + 1) - 1 = m + i /\ (i + 1) - 1 = i
    OBVIOUS
  <2>2. a[m + i] = b[i] /\ s[m + (i + 1)] = t[i + 1]
    BY <1>2, <2>1
  <2>3. a[m + (i + 1)] = PutChar(a[m + i], s[m + (i + 1)], h)
    BY <2>1 DEF Course
  <2>4. b[i + 1] = PutChar(b[i], t[i + 1], h)
    BY <2>1 DEF Course
  <2> QED BY <2>2, <2>3, <2>4
<1>3. \A i \in Nat : i \in D
  <2> HIDE DEF D
  <2> QED BY <1>1, <1>2, NatInd
<1> QED BY <1>3

LEMMA WriteType ==
  ASSUME NEW h \in Nat \ {0}, NEW d \in Display(h), NEW text \in Seq(Char)
  PROVE  Write(d, text, h) \in Display(h)
<1>1. PICK at : Course(at, d, text, h) /\ Write(d, text, h) = at[Len(text)]
  BY WriteIs
<1> QED BY <1>1 DEF Course

LEMMA WriteConcat ==
  ASSUME NEW h \in Nat \ {0}, NEW d \in Display(h), NEW s \in Seq(Char), NEW t \in Seq(Char)
  PROVE  Write(d, s \o t, h) = Write(Write(d, s, h), t, h)
<1>1. s \o t \in Seq(Char) /\ Len(s \o t) = Len(s) + Len(t)
  OBVIOUS
<1>2. PICK a : Course(a, d, s \o t, h) /\ Write(d, s \o t, h) = a[Len(s \o t)]
  BY <1>1, WriteIs
<1>3. PICK b : Course(b, d, s, h) /\ Write(d, s, h) = b[Len(s)]
  BY WriteIs
<1>4. PICK c : Course(c, b[Len(s)], t, h) /\ Write(b[Len(s)], t, h) = c[Len(t)]
  BY <1>3, WriteType, WriteIs
<1>5. a[Len(s)] = b[Len(s)]
  <2>1. \A i \in 0 .. Len(s) : a[0 + i] = b[i]
    <3> DEFINE st == s \o t
    <3>1. 0 \in 0 .. Len(st) /\ st \in Seq(Char)
      BY <1>1
    <3>2. Ends(st, 0, s)
      BY <1>1 DEF Ends
    <3>3. Course(a, d, st, h) /\ a[0] = d
      BY <1>2 DEF Course
    <3>4. Course(b, d, s, h)
      BY <1>3
    <3>5. Shifted(a, 0, b, Len(s))
      <4> HIDE DEF st
      <4> QED BY <3>1, <3>2, <3>3, <3>4, CourseUnique
    <3> QED BY <3>5 DEF Shifted
  <2> QED BY <2>1
<1>6. \A i \in 0 .. Len(t) : a[Len(s) + i] = c[i]
  <2> DEFINE st == s \o t
             m  == Len(s)
             e  == b[Len(s)]
  <2>1. m \in 0 .. Len(st) /\ st \in Seq(Char)
    BY <1>1
  <2>2. Ends(st, m, t)
    BY <1>1 DEF Ends
  <2>3. Course(a, d, st, h)
    BY <1>2
  <2>4. Course(c, e, t, h) /\ a[m] = e
    BY <1>4, <1>5
  <2>5. Shifted(a, m, c, Len(t))
    <3> HIDE DEF st, m, e
    <3> QED BY <2>1, <2>2, <2>3, <2>4, CourseUnique
  <2> QED BY <2>5 DEF Shifted
<1> QED BY <1>1, <1>2, <1>3, <1>4, <1>6

LEMMA WriteOne ==
  ASSUME NEW h \in Nat \ {0}, NEW d \in Display(h), NEW c \in Char
  PROVE  Write(d, <<c>>, h) = PutChar(d, c, h)
<1>1. <<c>> \in Seq(Char) /\ Len(<<c>>) = 1 /\ <<c>>[1] = c
  OBVIOUS
<1>2. PICK at : Course(at, d, <<c>>, h) /\ Write(d, <<c>>, h) = at[1]
  BY <1>1, WriteIs
<1> QED BY <1>1, <1>2 DEF Course

-----------------------------------------------------------------------------
(* The screen is the end of a page. *)

\* The rows of the screen d are those of the page p from row `gone` on, before
\* or after the cursor has been brought back to the screen; below its cursor
\* the page is blank.
Beside(d, p, gone) ==
  /\ gone \in 0 .. PageHeight - Height
  /\ p.ypos = d.ypos + gone /\ p.xpos = d.xpos
  /\ gone > 0 => d.ypos >= Height - 1
  /\ \A y \in 0 .. Height - 1 : d.screen[y] = p.screen[y + gone]
  /\ \A y \in 0 .. PageHeight - 1 :
       y > p.ypos \/ (y = p.ypos /\ d.ypos = Height) => p.screen[y] = BlankRow

EndOf(d, p) ==
  /\ d \in Display(Height) /\ p \in Display(PageHeight)
  /\ Beside(d, p, p.ypos - d.ypos)

LEMMA Heights ==
  /\ Height \in Nat \ {0} /\ PageHeight \in Nat \ {0} /\ PageHeight >= Height
  /\ Width \in Nat \ {0}
BY TtyAssumption

\* Moving the cursor by as many rows on both, or drawing in its row.
LEMMA MoveBeside ==
  ASSUME NEW d \in Display(Height), NEW p \in Display(PageHeight), NEW gone,
         Beside(d, p, gone), NEW x \in Nat, NEW k \in {0, 1}
  PROVE  Beside(At(x, d.ypos + k, d.screen), At(x, p.ypos + k, p.screen), gone)
<1>1. /\ d.ypos \in 0 .. Height - 1 /\ p.ypos \in 0 .. PageHeight - 1
  BY DEF Display
<1> QED BY <1>1, Heights DEF Beside, At

LEMMA DrawBeside ==
  ASSUME NEW d \in Display(Height), NEW p \in Display(PageHeight), NEW gone,
         Beside(d, p, gone), NEW x \in Nat, NEW z \in Cols, NEW c \in Char
  PROVE  Beside(At(x, d.ypos, Draw(d, z, c)), At(x, p.ypos, Draw(p, z, c)), gone)
<1> DEFINE ds == Draw(d, z, c)
           ps == Draw(p, z, c)
<1>1. /\ d.ypos \in 0 .. Height - 1 /\ p.ypos \in 0 .. PageHeight - 1
      /\ d.screen \in [0 .. Height - 1 -> [Cols -> Char]]
      /\ p.screen \in [0 .. PageHeight - 1 -> [Cols -> Char]]
  BY DEF Display
<1>2. p.ypos = d.ypos + gone /\ gone \in 0 .. PageHeight - Height
  BY DEF Beside
<1>3. ASSUME NEW y \in 0 .. Height - 1 PROVE ds[y] = ps[y + gone]
  <2>1. y + gone \in 0 .. PageHeight - 1 /\ d.screen[y] = p.screen[y + gone]
    BY <1>2, Heights DEF Beside
  <2>2. ds[y] = IF y = d.ypos THEN [d.screen[y] EXCEPT ![z] = c] ELSE d.screen[y]
    BY <1>1 DEF Draw
  <2>3. ps[y + gone] = IF y + gone = p.ypos THEN [p.screen[y + gone] EXCEPT ![z] = c]
                                            ELSE p.screen[y + gone]
    BY <1>1, <2>1 DEF Draw
  <2>4. y = d.ypos <=> y + gone = p.ypos
    BY <1>1, <1>2
  <2> QED BY <2>1, <2>2, <2>3, <2>4
<1>4. ASSUME NEW y \in 0 .. PageHeight - 1, y > p.ypos PROVE ps[y] = BlankRow
  <2>1. y # p.ypos /\ p.screen[y] = BlankRow
    BY <1>1, <1>4 DEF Beside
  <2> QED BY <1>1, <2>1 DEF Draw
<1> HIDE DEF ds, ps
<1>5. d.ypos # Height
  BY <1>1, Heights
<1> QED BY <1>3, <1>4, <1>5 DEF Beside, At, ds, ps

LEMMA PlaceBeside ==
  ASSUME NEW d \in Display(Height), NEW p \in Display(PageHeight), NEW gone,
         Beside(d, p, gone), NEW c \in Char
  PROVE  Beside(Place(d, c), Place(p, c), gone)
<1>1. /\ d.xpos \in Cols /\ d.xpos \in Nat /\ d.ypos \in Nat /\ d = At(d.xpos, d.ypos, d.screen)
      /\ p.xpos = d.xpos /\ p.ypos \in Nat
  BY Heights DEF Display, At, Cols, Beside
<1>2. CASE c = NewLine
  <2>1. /\ Place(d, c) = At(0, d.ypos + 1, d.screen)
        /\ Place(p, c) = At(0, p.ypos + 1, p.screen)
    BY <1>2, TtyAssumption DEF Place, NewRow
  <2> QED BY <2>1, MoveBeside
<1>3. CASE c = BackSpace
  <2>1. CASE d.xpos > 0
    <3>1. /\ Place(d, c) = At(d.xpos - 1, d.ypos, Draw(d, d.xpos - 1, Space))
          /\ Place(p, c) = At(d.xpos - 1, p.ypos, Draw(p, d.xpos - 1, Space))
      BY <1>1, <1>3, <2>1, TtyAssumption DEF Place
    <3>2. d.xpos - 1 \in Nat /\ d.xpos - 1 \in Cols /\ Space \in Char
      BY <1>1, <2>1, TtyAssumption DEF Cols
    <3> DEFINE x == d.xpos - 1
    <3>3. Beside(At(x, d.ypos, Draw(d, x, Space)), At(x, p.ypos, Draw(p, x, Space)), gone)
      <4>1. x \in Nat /\ x \in Cols
        BY <3>2
      <4> HIDE DEF x
      <4> QED BY <3>2, <4>1, DrawBeside
    <3> QED BY <3>1, <3>3
  <2>2. CASE ~(d.xpos > 0)
    BY <1>1, <1>3, <2>2, TtyAssumption DEF Place
  <2> QED BY <2>1, <2>2
<1>4. CASE c = Tab
  <2> DEFINE x == (d.xpos \div TabStop + 1) * TabStop
  <2>1. /\ Place(d, c) = At(x, d.ypos, d.screen)
        /\ Place(p, c) = At(x, p.ypos, p.screen)
    BY <1>1, <1>4, TtyAssumption DEF Place
  <2>2. x \in Nat
    BY <1>1, TabType
  <2> HIDE DEF x
  <2>3. Beside(At(x, d.ypos + 0, d.screen), At(x, p.ypos + 0, p.screen), gone)
    BY <2>2, MoveBeside
  <2> QED BY <1>1, <2>1, <2>3
<1>5. CASE c = Return
  <2>1. /\ Place(d, c) = At(0, d.ypos, d.screen)
        /\ Place(p, c) = At(0, p.ypos, p.screen)
    BY <1>5, TtyAssumption DEF Place
  <2>2. Beside(At(0, d.ypos + 0, d.screen), At(0, p.ypos + 0, p.screen), gone)
    BY MoveBeside
  <2> QED BY <1>1, <2>1, <2>2
<1>6. CASE c \notin {NewLine, BackSpace, Tab, Return}
  <2> DEFINE x == d.xpos
             z == d.xpos + 1
  <2>1. /\ Place(d, c) = At(z, d.ypos, Draw(d, x, c))
        /\ Place(p, c) = At(z, p.ypos, Draw(p, x, c))
    BY <1>1, <1>6 DEF Place
  <2>2. x \in Cols /\ z \in Nat
    BY <1>1
  <2> HIDE DEF x, z
  <2> QED BY <2>1, <2>2, DrawBeside
<1> QED BY <1>2, <1>3, <1>4, <1>5, <1>6

LEMMA WrapBeside ==
  ASSUME NEW d, NEW p, NEW gone, Unwrapped(d, Height), Unwrapped(p, PageHeight),
         Beside(d, p, gone)
  PROVE  Beside(Wrap(d), Wrap(p), gone)
<1>1. CASE d.xpos >= Width
  <2>1. /\ Wrap(d) = At(0, d.ypos + 1, d.screen)
        /\ Wrap(p) = At(0, p.ypos + 1, p.screen)
    BY <1>1 DEF Beside, Wrap, NewRow
  <2>2. d.ypos # Height
    BY <1>1, Heights DEF Unwrapped
  <2>3. /\ d.ypos \in 0 .. Height /\ p.ypos \in 0 .. PageHeight
        /\ p.ypos = d.ypos + gone /\ gone \in 0 .. PageHeight - Height
    BY DEF Unwrapped, Beside
  <2>4. \A y \in 0 .. PageHeight - 1 : y > p.ypos => p.screen[y] = BlankRow
    BY DEF Beside
  <2>5. \A y \in 0 .. Height - 1 : d.screen[y] = p.screen[y + gone]
    BY DEF Beside
  <2>6. gone > 0 => d.ypos + 1 >= Height - 1
    BY <2>3, Heights DEF Beside
  <2> QED BY <2>1, <2>2, <2>3, <2>4, <2>5, <2>6, Heights DEF Beside, At
<1>2. CASE ~(d.xpos >= Width)
  BY <1>2 DEF Beside, Wrap
<1> QED BY <1>1, <1>2

\* Scrolling either or both.
LEMMA ScrollBeside ==
  ASSUME NEW d, NEW p, NEW gone, Unwrapped(d, Height), Unwrapped(p, PageHeight),
         Beside(d, p, gone)
  PROVE  \E g : Beside(ScrollIf(d, Height), ScrollIf(p, PageHeight), g)
<1>1. /\ d.ypos \in 0 .. Height /\ p.ypos \in 0 .. PageHeight
      /\ p.ypos = d.ypos + gone /\ gone \in 0 .. PageHeight - Height
  BY DEF Unwrapped, Beside
<1> DEFINE up(q, h) == [y \in 0 .. h - 1 |-> IF y < h - 1 THEN q.screen[y + 1] ELSE BlankRow]
<1>2. CASE d.ypos < Height
  <2>1. CASE p.ypos < PageHeight
    <3>1. ScrollIf(d, Height) = d /\ ScrollIf(p, PageHeight) = p
      BY <1>1, <1>2, <2>1, Heights DEF ScrollIf
    <3> QED BY <3>1
  <2>2. CASE ~(p.ypos < PageHeight)
    BY <1>1, <1>2, <2>2, Heights
  <2> QED BY <2>1, <2>2
<1>3. CASE d.ypos = Height /\ p.ypos < PageHeight
  <2>1. ScrollIf(d, Height) = At(d.xpos, Height - 1, up(d, Height)) /\ ScrollIf(p, PageHeight) = p
    BY <1>1, <1>3, Heights DEF ScrollIf, Scroll
  <2>2. gone + 1 \in 0 .. PageHeight - Height
    BY <1>1, <1>3, Heights
  <2>3. ASSUME NEW y \in 0 .. Height - 1
        PROVE  up(d, Height)[y] = p.screen[y + (gone + 1)]
    <3>1. CASE y < Height - 1
      <4>1. y + 1 \in 0 .. Height - 1 /\ (y + 1) + gone = y + (gone + 1)
        BY <1>1, <3>1, Heights
      <4>2. d.screen[y + 1] = p.screen[(y + 1) + gone]
        BY <4>1 DEF Beside
      <4> QED BY <3>1, <4>1, <4>2
    <3>2. CASE ~(y < Height - 1)
      <4>1. y + (gone + 1) = p.ypos /\ p.ypos \in 0 .. PageHeight - 1
        BY <1>1, <1>3, <3>2, Heights
      <4>2. p.screen[p.ypos] = BlankRow
        BY <1>3, <4>1 DEF Beside
      <4> QED BY <3>2, <4>1, <4>2
    <3> QED BY <3>1, <3>2
  <2> HIDE DEF up
  <2>4. p.ypos = (Height - 1) + (gone + 1) /\ p.xpos = d.xpos
    BY <1>1, <1>3, Heights DEF Beside
  <2>5. \A y \in 0 .. PageHeight - 1 : y > p.ypos => p.screen[y] = BlankRow
    BY DEF Beside
  <2>6. Height - 1 # Height /\ Height - 1 >= Height - 1
    BY Heights
  <2>7. Beside(At(d.xpos, Height - 1, up(d, Height)), p, gone + 1)
    BY <2>2, <2>3, <2>4, <2>5, <2>6 DEF Beside, At
  <2> QED BY <2>1, <2>7
<1>4. CASE d.ypos = Height /\ p.ypos = PageHeight
  <2>1. /\ ScrollIf(d, Height) = At(d.xpos, Height - 1, up(d, Height))
        /\ ScrollIf(p, PageHeight) = At(p.xpos, PageHeight - 1, up(p, PageHeight))
    BY <1>4, Heights DEF ScrollIf, Scroll
  <2>2. ASSUME NEW y \in 0 .. Height - 1
        PROVE  up(d, Height)[y] = up(p, PageHeight)[y + gone]
    <3>1. y + gone \in 0 .. PageHeight - 1 /\ (y < Height - 1 <=> y + gone < PageHeight - 1)
      BY <1>1, <1>4, Heights
    <3>2. CASE y < Height - 1
      <4>1. y + 1 \in 0 .. Height - 1 /\ (y + 1) + gone = (y + gone) + 1
        BY <1>1, <3>2, Heights
      <4>2. d.screen[y + 1] = p.screen[(y + 1) + gone]
        BY <4>1 DEF Beside
      <4> QED BY <3>1, <3>2, <4>1, <4>2
    <3>3. CASE ~(y < Height - 1)
      BY <3>1, <3>3
    <3> QED BY <3>2, <3>3
  <2> HIDE DEF up
  <2>3. PageHeight - 1 = (Height - 1) + gone /\ p.xpos = d.xpos
    BY <1>1, <1>4, Heights DEF Beside
  <2>4. \A y \in 0 .. PageHeight - 1 : ~(y > PageHeight - 1)
    BY Heights
  <2>5. Height - 1 # Height /\ Height - 1 >= Height - 1
    BY Heights
  <2>6. Beside(At(d.xpos, Height - 1, up(d, Height)),
               At(p.xpos, PageHeight - 1, up(p, PageHeight)), gone)
    BY <1>1, <2>2, <2>3, <2>4, <2>5 DEF Beside, At
  <2> QED BY <2>1, <2>6
<1> QED BY <1>1, <1>2, <1>3, <1>4, Heights

LEMMA PutEndOf ==
  ASSUME NEW d, NEW p, EndOf(d, p), NEW c \in Char
  PROVE  EndOf(PutChar(d, c, Height), PutChar(p, c, PageHeight))
<1>1. d \in Display(Height) /\ p \in Display(PageHeight)
  BY DEF EndOf
<1> DEFINE gone == p.ypos - d.ypos
           a == Place(d, c)
           b == Place(p, c)
<1>2. Beside(a, b, gone)
  <2>1. Beside(d, p, gone)
    BY DEF EndOf
  <2> HIDE DEF gone
  <2> QED BY <1>1, <2>1, PlaceBeside
<1>3. Unwrapped(a, Height) /\ Unwrapped(b, PageHeight)
  BY <1>1, Heights, PlaceType
<1> HIDE DEF a, b, gone
<1>4. Beside(Wrap(a), Wrap(b), gone)
  BY <1>2, <1>3, WrapBeside
<1>5. Unwrapped(Wrap(a), Height) /\ Unwrapped(Wrap(b), PageHeight)
  BY <1>3, Heights, WrapType
<1> DEFINE x == ScrollIf(Wrap(a), Height)
           y == ScrollIf(Wrap(b), PageHeight)
<1>6. PICK g : Beside(x, y, g)
  BY <1>4, <1>5, ScrollBeside
<1>7. CASE c = NUL
  BY <1>7 DEF PutChar
<1>8. CASE c # NUL
  <2>1. PutChar(d, c, Height) = x /\ PutChar(p, c, PageHeight) = y
    BY <1>8 DEF PutChar, a, b
  <2>2. x \in Display(Height) /\ y \in Display(PageHeight)
    <3> HIDE DEF x, y
    <3>1. /\ PutChar(d, c, Height) \in Display(Height)
          /\ PutChar(p, c, PageHeight) \in Display(PageHeight)
      BY <1>1, Heights, CursorOnScreen
    <3> QED BY <2>1, <3>1
  <2> HIDE DEF x, y
  <2>3. g = y.ypos - x.ypos
    <3>1. x.ypos \in Int /\ y.ypos = x.ypos + g /\ g \in Int
      BY <1>6, <2>2 DEF Beside, Display
    <3> QED BY <3>1
  <2> QED BY <1>6, <2>1, <2>2, <2>3 DEF EndOf
<1> QED BY <1>7, <1>8

LEMMA WriteEndOf ==
  ASSUME NEW d, NEW p, EndOf(d, p), NEW text \in Seq(Char)
  PROVE  EndOf(Write(d, text, Height), Write(p, text, PageHeight))
<1> DEFINE n == Len(text)
<1>1. d \in Display(Height) /\ p \in Display(PageHeight)
  BY DEF EndOf
<1>2. PICK a : Course(a, d, text, Height) /\ Write(d, text, Height) = a[n]
  BY <1>1, Heights, WriteIs
<1>3. PICK b : Course(b, p, text, PageHeight) /\ Write(p, text, PageHeight) = b[n]
  BY <1>1, Heights, WriteIs
<1> DEFINE D == {i \in Nat : i <= n => EndOf(a[i], b[i])}
<1>4. 0 \in D
  BY <1>2, <1>3 DEF Course
<1>5. ASSUME NEW i \in Nat, i \in D PROVE i + 1 \in D
  <2> SUFFICES ASSUME i + 1 <= n PROVE EndOf(a[i + 1], b[i + 1])
    OBVIOUS
  <2>1. n \in Nat /\ i + 1 \in 1 .. n /\ (i + 1) - 1 = i
    OBVIOUS
  <2>2. EndOf(a[i], b[i]) /\ text[i + 1] \in Char
    BY <1>5, <2>1
  <2>3. /\ a[i + 1] = PutChar(a[i], text[i + 1], Height)
        /\ b[i + 1] = PutChar(b[i], text[i + 1], PageHeight)
    BY <1>2, <1>3, <2>1 DEF Course
  <2> QED BY <2>2, <2>3, PutEndOf
<1>6. \A i \in Nat : i \in D
  <2> HIDE DEF D
  <2> QED BY <1>4, <1>5, NatInd
<1>7. n \in Nat
  OBVIOUS
<1> QED BY <1>2, <1>3, <1>6, <1>7

LEMMA ClearedEndOf == EndOf(Cleared(Height), Cleared(PageHeight))
<1>1. ASSUME NEW h \in Nat \ {0} PROVE Cleared(h) \in Display(h)
  <2>1. [y \in 0 .. h - 1 |-> BlankRow] \in [0 .. h - 1 -> [Cols -> Char]]
    BY BlankRowType
  <2>2. 0 \in Cols /\ 0 \in 0 .. h - 1
    BY Heights DEF Cols
  <2> QED BY <2>1, <2>2 DEF Cleared, At, Display
<1>2. Cleared(Height) \in Display(Height) /\ Cleared(PageHeight) \in Display(PageHeight)
  BY <1>1, Heights
<1>3. Beside(Cleared(Height), Cleared(PageHeight), 0)
  BY Heights DEF Beside, Cleared, At
<1> QED BY <1>2, <1>3 DEF EndOf, Cleared, At

\* What tty_execute_command writes for the line is text.
LEMMA ReplyType ==
  ASSUME NEW cmd \in Seq(Char)
  PROVE  Reply(cmd) \in Seq(Char)
<1>1. /\ HelpText \in Seq(Char) /\ UnknownHead \in Seq(Char) /\ UnknownTail \in Seq(Char)
      /\ <<NewLine>> \in Seq(Char) /\ <<>> \in Seq(Char) /\ EchoPrefix \in Seq(Char)
  <2>1. Text \subseteq Seq(Char)
    BY DEF Text
  <2>2. NewLine \in Char
    BY TtyAssumption DEF Special
  <2> QED BY <2>1, <2>2, TtyAssumption
<1>2. SubSeq(cmd, Len(EchoPrefix) + 1, Len(cmd)) \in Seq(Char)
  BY <1>1
<1>3. SubSeq(cmd, Len(EchoPrefix) + 1, Len(cmd)) \o <<NewLine>> \in Seq(Char)
  BY <1>1, <1>2
<1>4. UnknownHead \o cmd \o UnknownTail \in Seq(Char)
  BY <1>1
<1> DEFINE rest    == SubSeq(cmd, Len(EchoPrefix) + 1, Len(cmd)) \o <<NewLine>>
           unknown == UnknownHead \o cmd \o UnknownTail
<1>5. Reply(cmd) = CASE cmd = HelpName  -> HelpText
                     [] cmd = ClearName -> <<>>
                     [] IsEcho(cmd) /\ cmd \notin {HelpName, ClearName} -> rest
                     [] OTHER -> unknown
  BY DEF Reply
<1>6. rest \in Seq(Char) /\ unknown \in Seq(Char)
  BY <1>3, <1>4
<1> HIDE DEF rest, unknown
<1> QED BY <1>1, <1>5, <1>6

\* The screen and the output of a step: cleared and a prompt, or more text.
Written(text) ==
  display' = tty_write(display, text) /\ output' = output \o text

LEMMA EnterWrites ==
  ASSUME LineInv, Enter
  PROVE  \/ display' = tty_write(Cleared(Height), Prompt) /\ output' = Prompt
         \/ \E head \in Seq(Char) : Written(head \o Prompt)
<1> DEFINE cmd  == CString(Terminated)
           ends == PosAfter > 0
           head == <<NewLine>> \o (IF ends THEN Reply(cmd) ELSE <<>>)
<1>1. CASE ends /\ Clears(cmd)
  BY <1>1 DEF Enter
<1>2. CASE ~(ends /\ Clears(cmd))
  <2>1. Written(head \o Prompt)
    BY <1>2 DEF Enter, Written
  <2>2. head \in Seq(Char)
    <3>1. <<NewLine>> \in Seq(Char) /\ <<>> \in Seq(Char)
      <4>1. NewLine \in Char
        BY TtyAssumption DEF Special
      <4> QED BY <4>1
    <3>2. ASSUME ends PROVE Reply(cmd) \in Seq(Char)
      <4>1. ~IsFull
        BY <3>2, Heights DEF PosAfter
      <4>2. cmd \in Seq(Char)
        BY <4>1, TerminatedLine, LineLength
      <4> HIDE DEF cmd
      <4> QED BY <4>2, ReplyType
    <3> HIDE DEF cmd, ends
    <3> DEFINE answer == IF ends THEN Reply(cmd) ELSE <<>>
    <3>3. answer \in Seq(Char)
      BY <3>1, <3>2
    <3> HIDE DEF answer
    <3>4. <<NewLine>> \o answer \in Seq(Char)
      BY <3>1, <3>3
    <3> QED BY <3>4 DEF answer
  <2> HIDE DEF head
  <2> QED BY <2>1, <2>2
<1> QED BY <1>1, <1>2

LEMMA PromptType == Prompt \in Seq(Char)
BY TtyAssumption

\* What a step does to the screen.
LEMMA StepWrites ==
  ASSUME LineInv, [Next]_vars
  PROVE  \/ UNCHANGED <<display, output>>
         \/ display' = tty_write(Cleared(Height), Prompt) /\ output' = Prompt
         \/ \E text \in Seq(Char) : Written(text)
<1>1. CASE UNCHANGED vars
  BY <1>1 DEF vars
<1>2. ASSUME NEW c \in KeyChars, tty_handle_keypress(c)
      PROVE  \/ UNCHANGED <<display, output>>
             \/ display' = tty_write(Cleared(Height), Prompt) /\ output' = Prompt
             \/ \E text \in Seq(Char) : Written(text)
  <2>1. CASE UNCHANGED vars
    BY <2>1 DEF vars
  <2>2. CASE Enter
    <3>1. ASSUME NEW head \in Seq(Char) PROVE head \o Prompt \in Seq(Char)
      BY PromptType
    <3> QED BY <2>2, <3>1, EnterWrites
  <2>3. CASE Erase
    <3>1. <<BackSpace>> \in Seq(Char)
      BY TtyAssumption DEF Special
    <3> QED BY <2>3, <3>1 DEF Erase, Written
  <2>4. CASE Insert(c)
    <3>1. <<c>> \in Seq(Char)
      BY TtyAssumption
    <3> QED BY <2>4, <3>1 DEF Insert, Written
  <2> QED BY <1>2, <2>1, <2>2, <2>3, <2>4 DEF tty_handle_keypress
<1> QED BY <1>1, <1>2 DEF Next

Page == Write(Cleared(PageHeight), output, PageHeight)
PageInv == output \in Seq(Char) /\ EndOf(display, Page)

\* tty.c, vga.c: for every size of the screen and every text, the screen is
\* the end of what was written since it was cleared: scrolling loses the rows
\* that leave at the top and nothing else.
THEOREM ScreenTail == Spec => []ScreenIsTail
<1>1. Init => PageInv
  BY PromptType, ClearedEndOf, WriteEndOf DEF Init, PageInv, Page, tty_write
<1>2. LineInv /\ PageInv /\ [Next]_vars => PageInv'
  <2> SUFFICES ASSUME LineInv, PageInv, [Next]_vars PROVE PageInv'
    OBVIOUS
  <2>1. CASE UNCHANGED <<display, output>>
    BY <2>1 DEF PageInv, Page
  <2>2. CASE display' = tty_write(Cleared(Height), Prompt) /\ output' = Prompt
    BY <2>2, PromptType, ClearedEndOf, WriteEndOf DEF PageInv, Page, tty_write
  <2>3. ASSUME NEW text \in Seq(Char), Written(text) PROVE PageInv'
    <3>1. output' = output \o text /\ output' \in Seq(Char)
      BY <2>3 DEF Written, PageInv
    <3>2. Page' = Write(Page, text, PageHeight)
      <4>1. Cleared(PageHeight) \in Display(PageHeight)
        BY ClearedEndOf DEF EndOf
      <4>2. Write(Cleared(PageHeight), output \o text, PageHeight)
              = Write(Write(Cleared(PageHeight), output, PageHeight), text, PageHeight)
        BY <4>1, Heights, WriteConcat DEF PageInv
      <4> QED BY <3>1, <4>2 DEF Page
    <3>3. EndOf(Write(display, text, Height), Write(Page, text, PageHeight))
      BY WriteEndOf DEF PageInv
    <3> QED BY <2>3, <3>1, <3>2, <3>3 DEF PageInv, Written, tty_write
  <2> QED BY <2>1, <2>2, <2>3, StepWrites
<1>3. PageInv => ScreenIsTail
  <2> SUFFICES ASSUME PageInv PROVE ScreenIsTail
    OBVIOUS
  <2>1. EndOf(display, Page)
    BY DEF PageInv
  <2> QED BY <2>1 DEF EndOf, Beside, ScreenIsTail, Page
<1> QED BY <1>1, <1>2, <1>3, LineAlways, PTL DEF Spec

-----------------------------------------------------------------------------
(* What stands before the cursor. *)

Pos(d)     == Width * d.ypos + d.xpos
Cell(d, m) == d.screen[m \div Width][m % Width]

\* e is d with the characters before the cursor moved up by k cells, and c
\* in the place where the cursor was.
Printed(e, d, c, k) ==
  /\ Pos(e) = Pos(d) + 1 - k
  /\ \A m \in Nat : m < Pos(e) => Cell(e, m) = IF m + k = Pos(d) THEN c ELSE Cell(d, m + k)

LEMMA RowOf ==
  ASSUME NEW m \in Nat
  PROVE  /\ m \div Width \in Nat /\ m % Width \in Cols
         /\ m = Width * (m \div Width) + (m % Width)
         /\ (m + Width) \div Width = m \div Width + 1 /\ (m + Width) % Width = m % Width
<1> DEFINE q == m \div Width
           r == m % Width
<1>1. q \in Nat /\ r \in 0 .. Width - 1 /\ m = Width * q + r
  BY Heights, DivType, ModType
<1> HIDE DEF q, r
<1>2. q + 1 \in Nat
  BY <1>1
<1>3. (Width * (q + 1) + r) \div Width = q + 1 /\ (Width * (q + 1) + r) % Width = r
  BY <1>1, <1>2, Heights, RowCol
<1>4. Width * (q + 1) + r = m + Width
  BY <1>1, Heights
<1> QED BY <1>1, <1>3, <1>4 DEF q, r, Cols

LEMMA CellOf ==
  ASSUME NEW d, NEW y \in Nat, NEW x \in Cols
  PROVE  Cell(d, Width * y + x) = d.screen[y][x]
BY Heights, RowCol DEF Cell, Cols

LEMMA PosType ==
  ASSUME NEW d \in Display(Height)
  PROVE  Pos(d) \in Nat
<1>1. d.xpos \in Nat /\ d.ypos \in Nat /\ Width \in Nat
  BY Heights DEF Display, Cols
<1> QED BY <1>1 DEF Pos

\* The cells above and to the left of the cursor.
LEMMA Before ==
  ASSUME NEW y \in Nat, NEW x \in Nat, x <= Width, NEW m \in Nat, m < Width * y + x
  PROVE  m \div Width <= y /\ (m \div Width = y => m % Width < x)
<1> DEFINE q == m \div Width
           r == m % Width
<1>1. q \in Nat /\ r \in 0 .. Width - 1 /\ m = Width * q + r
  BY RowOf DEF Cols
<1> HIDE DEF q, r
<1>2. ASSUME y + 1 <= q PROVE FALSE
  <2>1. Width * (y + 1) <= Width * q
    BY <1>1, <1>2, Heights
  <2>2. Width * (y + 1) = Width * y + Width
    BY Heights
  <2> QED BY <1>1, <1>2, <2>1, <2>2, Heights
<1>3. q <= y
  BY <1>1, <1>2
<1> QED BY <1>1, <1>3, Heights DEF q, r

LEMMA PutPrints ==
  ASSUME NEW d \in Display(Height), NEW c \in Char \ Special
  PROVE  \E k \in Nat : Printed(PutChar(d, c, Height), d, c, k)
<1>1. /\ d.xpos \in Cols /\ d.xpos \in Nat /\ d.xpos + 1 <= Width
      /\ d.ypos \in 0 .. Height - 1 /\ d.ypos \in Nat
      /\ d.screen \in [0 .. Height - 1 -> [Cols -> Char]]
  BY Heights DEF Display, Cols
<1> DEFINE x  == d.xpos
           y  == d.ypos
           ds == Draw(d, x, c)
           a  == At(x + 1, y, ds)
           w  == Wrap(a)
<1>2. PutChar(d, c, Height) = ScrollIf(w, Height)
  BY TtyAssumption DEF PutChar, Place, Special
<1>3. /\ w.screen = ds
      /\ \/ w.xpos = x + 1 /\ w.ypos = y
         \/ x + 1 = Width /\ w.xpos = 0 /\ w.ypos = y + 1
  BY <1>1, Heights DEF Wrap, NewRow, At
<1>4. Pos(w) = Pos(d) + 1 /\ Pos(d) \in Nat
  <2>1. /\ x \in Nat /\ y \in Nat /\ Pos(d) = Width * y + x
    BY <1>1 DEF Pos
  <2> HIDE DEF w, x, y
  <2>2. Width * (y + 1) = Width * y + Width
    BY <2>1, Heights
  <2>3. CASE w.xpos = x + 1 /\ w.ypos = y
    BY <2>1, <2>3, Heights DEF Pos
  <2>4. CASE x + 1 = Width /\ w.xpos = 0 /\ w.ypos = y + 1
    <3>1. Pos(w) = Width * (y + 1) + 0
      BY <2>4 DEF Pos
    <3> QED BY <2>1, <2>2, <2>4, <3>1, Heights
  <2>5. Pos(d) \in Nat
    BY PosType
  <2> QED BY <1>3, <2>3, <2>4, <2>5
<1>5. ASSUME NEW m \in Nat, m < Pos(w)
      PROVE  /\ m \div Width \in 0 .. Height - 1
             /\ Cell(w, m) = IF m = Pos(d) THEN c ELSE Cell(d, m)
  <2>1. m < Width * y + (x + 1)
    BY <1>1, <1>4, <1>5, Heights DEF Pos
  <2>2. m \div Width <= y /\ m \div Width \in Nat /\ m % Width \in Cols
    <3> DEFINE z == x + 1
    <3>1. y \in Nat /\ z \in Nat /\ z <= Width /\ m < Width * y + z
      BY <1>1, <2>1
    <3>2. m \div Width <= y
      <4> HIDE DEF y, z
      <4> QED BY <3>1, Before
    <3> QED BY <3>2, RowOf
  <2>3. m \div Width \in 0 .. Height - 1
    BY <1>1, <2>2, Heights
  <2>4. m = Pos(d) <=> m \div Width = y /\ m % Width = x
    <3>1. Pos(d) = Width * y + x /\ y \in Nat /\ x \in 0 .. Width - 1
      BY <1>1 DEF Pos, Cols
    <3>2. (Width * y + x) \div Width = y /\ (Width * y + x) % Width = x
      <4> HIDE DEF x, y
      <4> QED BY <3>1, Heights, RowCol
    <3>3. m = Width * (m \div Width) + (m % Width)
      BY RowOf
    <3> HIDE DEF x, y
    <3> QED BY <3>1, <3>2, <3>3
  <2>5. ds = [d.screen EXCEPT ![y][x] = c]
    BY DEF Draw
  <2> DEFINE q == m \div Width
             r == m % Width
  <2>6. ds[q][r] = IF q = y /\ r = x THEN c ELSE d.screen[q][r]
    <3> HIDE DEF q, r, ds
    <3>1. q \in 0 .. Height - 1 /\ r \in Cols
      BY <2>2, <2>3 DEF q, r
    <3> QED BY <1>1, <2>5, <3>1
  <2> HIDE DEF ds, w
  <2> QED BY <1>3, <2>3, <2>4, <2>6 DEF Cell
<1>6. CASE w.ypos >= Height
  <2> DEFINE s == Scroll(w, Height)
  <2>1. PutChar(d, c, Height) = s
    BY <1>2, <1>6 DEF ScrollIf
  <2>2. /\ w.ypos = Height /\ s.ypos = Height - 1 /\ s.xpos = w.xpos
        /\ w.xpos = 0
    BY <1>1, <1>3, <1>6, Heights DEF Scroll, At
  <2>3. Pos(s) = Pos(d) + 1 - Width
    <3>1. Width * (Height - 1) = Width * Height - Width
      BY Heights
    <3> QED BY <1>4, <2>2, <3>1, PosType, Heights DEF Pos
  <2>4. ASSUME NEW m \in Nat, m < Pos(s)
        PROVE  Cell(s, m) = IF m + Width = Pos(d) THEN c ELSE Cell(d, m + Width)
    <3>1. m + Width \in Nat /\ m + Width < Pos(w)
      BY <1>4, <2>3, <2>4, Heights
    <3>2. /\ m \div Width \in Nat /\ m % Width \in Cols
          /\ (m + Width) \div Width = m \div Width + 1 /\ (m + Width) % Width = m % Width
      BY RowOf
    <3>3. (m + Width) \div Width \in 0 .. Height - 1
      BY <1>5, <3>1
    <3>4. Cell(s, m) = w.screen[m \div Width + 1][m % Width]
      <4> DEFINE q == m \div Width
      <4>1. q \in 0 .. Height - 1 /\ q < Height - 1
        BY <3>2, <3>3, Heights
      <4>2. s.screen = [z \in 0 .. Height - 1 |-> IF z < Height - 1 THEN w.screen[z + 1] ELSE BlankRow]
        BY DEF Scroll, At
      <4>3. s.screen[q] = w.screen[q + 1]
        <5> HIDE DEF q, s
        <5> QED BY <4>1, <4>2
      <4> QED BY <4>3 DEF Cell
    <3>5. Cell(w, m + Width) = w.screen[m \div Width + 1][m % Width]
      BY <3>2 DEF Cell
    <3>6. Cell(w, m + Width) = IF m + Width = Pos(d) THEN c ELSE Cell(d, m + Width)
      BY <1>5, <3>1
    <3> QED BY <3>4, <3>5, <3>6
  <2>5. Printed(s, d, c, Width)
    <3> HIDE DEF s
    <3> QED BY <2>3, <2>4 DEF Printed
  <2> QED BY <2>1, <2>5, Heights
<1>7. CASE ~(w.ypos >= Height)
  <2>1. PutChar(d, c, Height) = w
    BY <1>2, <1>7 DEF ScrollIf
  <2>2. Printed(w, d, c, 0)
    <3> HIDE DEF w
    <3>1. \A m \in Nat : m + 0 = m
      OBVIOUS
    <3> QED BY <1>4, <1>5, <3>1 DEF Printed
  <2> QED BY <2>1, <2>2
<1> QED BY <1>6, <1>7

LEMMA ShowsIs ==
  ASSUME NEW d, NEW text
  PROVE  Shows(d, text) <=> \A j \in 1 .. Len(text) :
           j <= Pos(d) => Cell(d, Pos(d) - j) = text[Len(text) + 1 - j]
BY DEF Shows, Pos, Cell

LEMMA ShowsPrinted ==
  ASSUME NEW d \in Display(Height), NEW text \in Seq(Char), Shows(d, text),
         NEW c \in Char \ Special
  PROVE  Shows(PutChar(d, c, Height), Append(text, c))
<1> DEFINE e == PutChar(d, c, Height)
           t == Append(text, c)
<1>1. PICK k \in Nat : Printed(e, d, c, k)
  BY PutPrints
<1>2. e \in Display(Height) /\ Pos(e) \in Nat /\ Pos(d) \in Nat
  BY Heights, CursorOnScreen, PosType
<1>3. /\ Len(text) \in Nat /\ Len(t) = Len(text) + 1 /\ t[Len(text) + 1] = c
      /\ \A i \in 1 .. Len(text) : t[i] = text[i]
  OBVIOUS
<1> HIDE DEF e, t
<1>4. ASSUME NEW j \in 1 .. Len(t), j <= Pos(e)
      PROVE  Cell(e, Pos(e) - j) = t[Len(t) + 1 - j]
  <2> DEFINE m == Pos(e) - j
  <2>1. m \in Nat /\ m < Pos(e) /\ m + k = Pos(d) + 1 - j
    BY <1>1, <1>2, <1>4 DEF Printed
  <2>2. Cell(e, m) = IF m + k = Pos(d) THEN c ELSE Cell(d, m + k)
    <3> HIDE DEF m
    <3> QED BY <1>1, <2>1 DEF Printed
  <2>3. CASE j = 1
    <3>1. m + k = Pos(d) /\ Len(t) + 1 - j = Len(text) + 1
      BY <1>2, <1>3, <2>1, <2>3
    <3> QED BY <1>3, <2>2, <3>1
  <2>4. CASE j # 1
    <3> DEFINE i == j - 1
    <3>1. /\ i \in 1 .. Len(text) /\ i <= Pos(d) /\ m + k = Pos(d) - i /\ m + k # Pos(d)
          /\ Len(t) + 1 - j = Len(text) + 1 - i /\ Len(text) + 1 - i \in 1 .. Len(text)
      BY <1>1, <1>2, <1>3, <1>4, <2>1, <2>4
    <3>2. Cell(d, Pos(d) - i) = text[Len(text) + 1 - i]
      <4> HIDE DEF i
      <4> QED BY <3>1, ShowsIs
    <3> HIDE DEF i, m
    <3>3. Cell(e, m) = text[Len(text) + 1 - i]
      BY <2>2, <3>1, <3>2
    <3>4. t[Len(text) + 1 - i] = text[Len(text) + 1 - i]
      BY <1>3, <3>1
    <3> QED BY <3>1, <3>3, <3>4 DEF m
  <2> QED BY <2>3, <2>4
<1>5. Shows(e, t)
  BY <1>4, ShowsIs
<1> QED BY <1>5 DEF e, t

\* A back space takes the last character off, on the screen as in the line.
LEMMA ShowsErased ==
  ASSUME NEW d \in Display(Height), d.xpos > 0, NEW text \in Seq(Char), NEW s \in Seq(Char),
         Shows(d, text), Len(text) = Len(s) + 1, \A i \in 1 .. Len(s) : s[i] = text[i]
  PROVE  Shows(PutChar(d, BackSpace, Height), s)
<1>1. /\ d.xpos \in Cols /\ d.xpos \in Nat /\ d.xpos - 1 \in Cols /\ d.xpos - 1 < Width
      /\ d.xpos - 1 \in Nat /\ d.xpos - 1 <= Width
      /\ d.ypos \in 0 .. Height - 1 /\ d.ypos \in Nat
      /\ d.screen \in [0 .. Height - 1 -> [Cols -> Char]]
  BY Heights DEF Display, Cols
<1> DEFINE x  == d.xpos - 1
           y  == d.ypos
           ds == Draw(d, x, Space)
           e  == At(x, y, ds)
<1>2. PutChar(d, BackSpace, Height) = e
  <2>1. Place(d, BackSpace) = e /\ BackSpace # NUL
    BY TtyAssumption DEF Place
  <2>2. Wrap(e) = e /\ ~(e.ypos >= Height)
    BY <1>1, Heights DEF Wrap, At
  <2> HIDE DEF e
  <2> QED BY <2>1, <2>2 DEF PutChar, ScrollIf
<1>3. Pos(e) = Pos(d) - 1 /\ Pos(e) = Width * y + x /\ Pos(d) \in Nat /\ Pos(e) \in Nat
  <2>1. Width * y \in Nat /\ Pos(d) = Width * y + d.xpos /\ Pos(e) = Width * y + x
    BY <1>1, Heights DEF Pos, At
  <2> HIDE DEF x, y
  <2> QED BY <1>1, <2>1 DEF x
<1>4. ASSUME NEW m \in Nat, m < Pos(e) PROVE Cell(e, m) = Cell(d, m)
  <2> DEFINE q == m \div Width
             r == m % Width
  <2>1. q <= y /\ (q = y => r < x) /\ q \in Nat /\ r \in Cols
    <3>1. x \in Nat /\ x <= Width /\ y \in Nat
      <4> HIDE DEF Cols
      <4> QED BY <1>1
    <3>2. m < Width * y + x
      <4> HIDE DEF e, x, y
      <4> QED BY <1>3, <1>4
    <3> HIDE DEF x, y
    <3> QED BY <3>1, <3>2, Before, RowOf
  <2>2. q \in 0 .. Height - 1 /\ x \in Cols /\ x \in Nat
    BY <1>1, <2>1, Heights DEF Cols
  <2>3. ds[q][r] = d.screen[q][r]
    <3>1. ds = [d.screen EXCEPT ![y][x] = Space]
      BY DEF Draw
    <3> HIDE DEF ds, q, r
    <3>2. ~(q = y /\ r = x)
      BY <2>1, <2>2 DEF Cols
    <3> HIDE DEF x
    <3> QED BY <1>1, <2>1, <2>2, <3>1, <3>2
  <2> QED BY <2>3 DEF Cell, At
<1> HIDE DEF e
<1>5. ASSUME NEW j \in 1 .. Len(s), j <= Pos(e)
      PROVE  Cell(e, Pos(e) - j) = s[Len(s) + 1 - j]
  <2> DEFINE i == j + 1
  <2>1. /\ Len(s) \in Nat /\ i \in 1 .. Len(text) /\ i <= Pos(d)
        /\ Pos(d) - i = Pos(e) - j /\ Pos(e) - j \in Nat /\ Pos(e) - j < Pos(e)
        /\ Len(text) + 1 - i = Len(s) + 1 - j /\ Len(s) + 1 - j \in 1 .. Len(s)
    BY <1>3, <1>5
  <2>2. Cell(d, Pos(d) - i) = text[Len(text) + 1 - i]
    <3> HIDE DEF i
    <3> QED BY <2>1, ShowsIs
  <2> HIDE DEF i
  <2> QED BY <1>4, <2>1, <2>2
<1>6. Shows(e, s)
  BY <1>5, ShowsIs
<1> QED BY <1>2, <1>6

\* Whatever was on the screen, the prompt stands before the cursor once written.
LEMMA ShowsPrompt ==
  ASSUME NEW d \in Display(Height)
  PROVE  Shows(Write(d, Prompt, Height), Prompt)
<1> DEFINE n == Len(Prompt)
           part(i) == SubSeq(Prompt, 1, i)
<1>1. /\ Prompt \in Seq(Char) /\ n \in Nat
      /\ \A i \in 1 .. n : Prompt[i] \in Char \ Special
  BY TtyAssumption
<1>2. PICK at : Course(at, d, Prompt, Height) /\ Write(d, Prompt, Height) = at[n]
  BY <1>1, Heights, WriteIs
<1>3. \A i \in 0 .. n : part(i) \in Seq(Char) /\ Len(part(i)) = i
  BY <1>1
<1>4. part(n) = Prompt
  BY <1>1, <1>3, SeqEqual
<1>5. ASSUME NEW i \in Nat, i + 1 <= n PROVE part(i + 1) = Append(part(i), Prompt[i + 1])
  <2>1. i \in 0 .. n /\ i + 1 \in 0 .. n /\ i + 1 \in 1 .. n
    BY <1>1, <1>5
  <2>2. Len(Append(part(i), Prompt[i + 1])) = i + 1 /\ Append(part(i), Prompt[i + 1]) \in Seq(Char)
    BY <1>1, <1>3, <2>1
  <2>3. \A j \in 1 .. i + 1 : part(i + 1)[j] = Append(part(i), Prompt[i + 1])[j]
    BY <1>1, <1>3, <2>1
  <2> QED BY <1>3, <2>1, <2>2, <2>3, SeqEqual
<1> DEFINE D == {i \in Nat : i <= n => Shows(at[i], part(i))}
<1>6. 0 \in D
  <2>1. Len(part(0)) = 0
    BY <1>1, <1>3
  <2> HIDE DEF part
  <2>2. Shows(at[0], part(0))
    BY <2>1, ShowsIs
  <2> QED BY <2>2
<1>7. ASSUME NEW i \in Nat, i \in D PROVE i + 1 \in D
  <2> SUFFICES ASSUME i + 1 <= n PROVE Shows(at[i + 1], part(i + 1))
    OBVIOUS
  <2>1. i + 1 \in 1 .. n /\ i \in 0 .. n /\ (i + 1) - 1 = i
    BY <1>1
  <2>2. /\ at[i] \in Display(Height) /\ Prompt[i + 1] \in Char \ Special
        /\ at[i + 1] = PutChar(at[i], Prompt[i + 1], Height)
    BY <1>1, <1>2, <2>1 DEF Course
  <2>3. Shows(at[i], part(i)) /\ part(i) \in Seq(Char)
    BY <1>3, <1>7, <2>1
  <2>4. part(i + 1) = Append(part(i), Prompt[i + 1])
    BY <1>5
  <2> HIDE DEF part
  <2> QED BY <2>2, <2>3, <2>4, ShowsPrinted
<1>8. \A i \in Nat : i \in D
  <2> HIDE DEF D
  <2> QED BY <1>6, <1>7, NatInd
<1>9. Shows(at[n], part(n))
  BY <1>1, <1>8
<1> QED BY <1>2, <1>4, <1>9

\* The characters before the cursor are the prompt and the line.
SeenInv == display \in Display(Height) /\ SeenIsLine

LEMMA PromptLine ==
  ASSUME LineInv
  PROVE  /\ Prompt \o line \in Seq(Char) /\ Len(Prompt \o line) = Len(Prompt) + buf_pos
         /\ Len(Prompt) \in Nat
BY PromptType, LineLength

LEMMA SeenKept ==
  ASSUME LineInv, SeenInv, [Next]_vars
  PROVE  SeenInv'
<1>1. display' \in Display(Height)
  <2>1. Cleared(Height) \in Display(Height) /\ display \in Display(Height)
    BY ClearedEndOf DEF EndOf, SeenInv
  <2>2. CASE UNCHANGED <<display, output>>
    BY <2>1, <2>2
  <2>3. CASE display' = tty_write(Cleared(Height), Prompt)
    BY <2>1, <2>3, PromptType, Heights, WriteType DEF tty_write
  <2>4. ASSUME NEW text \in Seq(Char), Written(text) PROVE display' \in Display(Height)
    BY <2>1, <2>4, Heights, WriteType DEF tty_write, Written
  <2> QED BY <2>2, <2>3, <2>4, StepWrites
<1>2. display \in Display(Height) /\ (~slipped => Shows(display, Prompt \o line))
  BY DEF SeenInv, SeenIsLine
<1>3. CASE UNCHANGED vars
  BY <1>2, <1>3 DEF vars, SeenInv, SeenIsLine, line
<1>4. ASSUME Enter PROVE Shows(display', Prompt \o line')
  <2>1. line' = <<>>
    BY <1>4 DEF Enter, line
  <2>2. Prompt \o <<>> = Prompt
    BY PromptType
  <2>3. PICK d \in Display(Height) : display' = Write(d, Prompt, Height)
    <3>1. CASE display' = tty_write(Cleared(Height), Prompt)
      BY <3>1, ClearedEndOf DEF EndOf, tty_write
    <3>2. ASSUME NEW head \in Seq(Char), Written(head \o Prompt)
          PROVE  \E d \in Display(Height) : display' = Write(d, Prompt, Height)
      <4>1. display' = Write(Write(display, head, Height), Prompt, Height)
        BY <1>2, <3>2, PromptType, Heights, WriteConcat DEF Written, tty_write
      <4>2. Write(display, head, Height) \in Display(Height)
        BY <1>2, Heights, WriteType
      <4> QED BY <4>1, <4>2
    <3> QED BY <1>4, <3>1, <3>2, EnterWrites
  <2> QED BY <2>1, <2>2, <2>3, ShowsPrompt
<1>5. ASSUME Erase, ~slipped' PROVE Shows(display', Prompt \o line')
  <2>1. CASE buf_pos > 0
    <3>1. /\ buf_pos' = buf_pos - 1 /\ buffer' = buffer
          /\ display' = tty_write(display, <<BackSpace>>)
          /\ ~slipped /\ display.xpos # 0
      BY <1>5, <2>1 DEF Erase
    <3>2. display.xpos > 0
      BY <1>2, <3>1 DEF Display, Cols
    <3>3. /\ Shows(display, Prompt \o line)
          /\ display' = PutChar(display, BackSpace, Height)
      <4>1. BackSpace \in Char
        BY TtyAssumption DEF Special
      <4> QED BY <1>2, <3>1, <4>1, Heights, WriteOne DEF tty_write
    <3>4. LineInv'
      BY StepLine
    <3>5. /\ line' \in Seq(Char) /\ Len(line') = buf_pos - 1
          /\ line \in Seq(Char) /\ Len(line) = buf_pos /\ buf_pos \in Nat
          /\ \A i \in 1 .. buf_pos - 1 : line'[i] = line[i]
      <4>1. buf_pos \in Nat
        BY DEF LineInv
      <4>2. line' = [i \in 1 .. buf_pos - 1 |-> buffer[i - 1]]
        BY <3>1 DEF line
      <4>3. line' \in Seq(Char) /\ Len(line') = buf_pos - 1
        <5>1. \A i \in 1 .. buf_pos - 1 : buffer[i - 1] \in Char
          BY <4>1, TtyAssumption DEF LineInv, Index
        <5>2. line' \in [1 .. buf_pos - 1 -> Char]
          BY <4>2, <5>1
        <5>3. buf_pos - 1 \in Nat
          BY <2>1, <4>1
        <5> QED BY <5>2, <5>3
      <4>4. \A i \in 1 .. buf_pos - 1 : line'[i] = line[i]
        <5>1. \A i \in 1 .. buf_pos - 1 : i \in 1 .. buf_pos
          BY <4>1
        <5> DEFINE old == line
        <5>2. \A i \in 1 .. buf_pos : old[i] = buffer[i - 1]
          BY DEF line
        <5> HIDE DEF old
        <5>3. \A i \in 1 .. buf_pos - 1 : line'[i] = buffer[i - 1]
          BY <4>2
        <5> QED BY <5>1, <5>2, <5>3 DEF old
      <4> QED BY <4>1, <4>3, <4>4, LineLength
    <3> DEFINE t == Prompt \o line
               u == Prompt \o line'
    <3>6. /\ t \in Seq(Char) /\ u \in Seq(Char) /\ Len(t) = Len(u) + 1
          /\ \A i \in 1 .. Len(u) : u[i] = t[i]
      BY <2>1, <3>5, PromptType
    <3> HIDE DEF t
    <3>7. Shows(display, t)
      BY <3>3 DEF t
    <3> DEFINE w == u
    <3>8. Shows(PutChar(display, BackSpace, Height), w)
      <4>1. /\ w \in Seq(Char) /\ Len(t) = Len(w) + 1 /\ t \in Seq(Char)
            /\ \A i \in 1 .. Len(w) : w[i] = t[i]
        BY <3>6
      <4> HIDE DEF u
      <4> HIDE DEF w
      <4> QED BY <1>2, <3>2, <3>7, <4>1, ShowsErased
    <3> QED BY <3>3, <3>8
  <2>2. CASE ~(buf_pos > 0)
    BY <1>2, <1>5, <2>2 DEF Erase, line
  <2> QED BY <2>1, <2>2
<1>6. ASSUME NEW c \in KeyChars, c \notin {NUL, NewLine, BackSpace}, Insert(c), ~slipped'
      PROVE  Shows(display', Prompt \o line')
  <2>1. CASE buf_pos < TTY_BUFFER_SIZE
    <3>1. /\ display' = tty_write(display, <<c>>) /\ ~slipped /\ c # Tab
      BY <1>6, <2>1 DEF Insert
    <3>2. c \in Char \ Special /\ c \in Char
      BY <1>6, <3>1, TtyAssumption DEF Special
    <3>3. display' = PutChar(display, c, Height)
      BY <1>2, <3>1, <3>2, Heights, WriteOne DEF tty_write
    <3>4. line' = Append(line, c)
      BY <1>6, <2>1, InsertedLine
    <3> DEFINE t == Prompt \o line
    <3>5. Prompt \o line' = Append(t, c)
      <4>1. line \in Seq(Char)
        BY LineLength
      <4> HIDE DEF t
      <4>2. Prompt \o Append(line, c) = Append(Prompt \o line, c)
        <5> DEFINE m == line
        <5>1. m \in Seq(Char)
          BY <4>1
        <5> HIDE DEF m
        <5>2. Prompt \o Append(m, c) = Append(Prompt \o m, c)
          BY <3>2, <5>1, PromptType
        <5> QED BY <5>2 DEF m
      <4> QED BY <3>4, <4>2 DEF t
    <3>6. t \in Seq(Char) /\ Shows(display, t)
      BY <1>2, <3>1, PromptLine
    <3> HIDE DEF t
    <3>7. Shows(PutChar(display, c, Height), Append(t, c))
      BY <1>2, <3>2, <3>6, ShowsPrinted
    <3> QED BY <3>3, <3>5, <3>7
  <2>2. CASE ~(buf_pos < TTY_BUFFER_SIZE)
    BY <1>2, <1>6, <2>2 DEF Insert, line
  <2> QED BY <2>1, <2>2
<1>7. ASSUME NEW c \in KeyChars, tty_handle_keypress(c), ~slipped'
      PROVE  Shows(display', Prompt \o line') \/ UNCHANGED vars
  BY <1>4, <1>5, <1>6, <1>7, TtyAssumption DEF tty_handle_keypress
<1>8. ~slipped' => Shows(display', Prompt \o line')
  BY <1>2, <1>3, <1>7 DEF Next, vars, line
<1> QED BY <1>1, <1>8 DEF SeenInv, SeenIsLine

\* tty.c: for every size of screen and buffer, what stands before the cursor is
\* the prompt and the line that Enter will run, until a tab is typed or a back
\* space meets the edge of the screen.
THEOREM SeenIsTyped == Spec => []SeenIsLine
<1>1. Init => SeenInv
  <2> SUFFICES ASSUME Init PROVE SeenInv
    OBVIOUS
  <2>1. display = Write(Cleared(Height), Prompt, Height) /\ line = <<>>
    BY DEF Init, tty_write, line
  <2>2. Cleared(Height) \in Display(Height)
    BY ClearedEndOf DEF EndOf
  <2>3. Prompt \o <<>> = Prompt
    BY PromptType
  <2> QED BY <2>1, <2>2, <2>3, ShowsPrompt, PromptType, Heights, WriteType DEF SeenInv, SeenIsLine
<1>2. LineInv /\ SeenInv /\ [Next]_vars => SeenInv'
  BY SeenKept
<1>3. SeenInv => SeenIsLine
  BY DEF SeenInv
<1> QED BY <1>1, <1>2, <1>3, LineAlways, PTL DEF Spec

-----------------------------------------------------------------------------
(* The prompt. *)

LEMMA TypedSeq == Spec => [](typed \in Seq(Char))
<1>1. Init => typed \in Seq(Char)
  BY DEF Init
<1>2. typed \in Seq(Char) /\ [Next]_vars => (typed \in Seq(Char))'
  <2> SUFFICES ASSUME typed \in Seq(Char), [Next]_vars PROVE (typed \in Seq(Char))'
    OBVIOUS
  <2>1. ASSUME NEW c \in KeyChars PROVE Append(typed, c) \in Seq(Char)
    BY TtyAssumption
  <2> QED BY <2>1 DEF Next, tty_handle_keypress, vars
<1> QED BY <1>1, <1>2, PTL DEF Spec

\* tty.c:67: back spaces on an empty line leave the screen alone.
THEOREM PromptKept == Spec => PromptStays
<1>1. typed \in Seq(Char) /\ [Next]_vars
        => [buf_pos = 0 /\ typed' = Append(typed, BackSpace) => display' = display]_vars
  <2> SUFFICES ASSUME typed \in Seq(Char), Next, buf_pos = 0, typed' = Append(typed, BackSpace)
               PROVE  display' = display
    BY DEF vars
  <2>1. PICK c \in KeyChars : tty_handle_keypress(c)
    BY DEF Next
  <2>2. CASE c = NUL
    BY <2>1, <2>2 DEF tty_handle_keypress, vars
  <2>3. CASE c # NUL
    <3>1. Append(typed, c) = Append(typed, BackSpace)
      BY <2>1, <2>3 DEF tty_handle_keypress, vars
    <3>2. /\ Append(typed, c)[Len(typed) + 1] = c
          /\ Append(typed, BackSpace)[Len(typed) + 1] = BackSpace
      OBVIOUS
    <3>3. c = BackSpace
      BY <3>1, <3>2
    <3>4. Erase
      BY <2>1, <2>3, <3>3, TtyAssumption DEF tty_handle_keypress, vars
    <3> QED BY <3>4 DEF Erase
  <2> QED BY <2>2, <2>3
<1> QED BY <1>1, TypedSeq, PTL DEF Spec, PromptStays
=============================================================================

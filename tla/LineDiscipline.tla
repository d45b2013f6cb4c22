---------------------------- MODULE LineDiscipline ----------------------------
(***************************************************************************)
(* What a line editor promises: a key typed is added to the line, or       *)
(* dropped when the line is full; an erase takes the last character off;   *)
(* the end-of-line key hands the line, if it is not empty, to the command  *)
(* interpreter and starts a new one.  The terminal of this kernel promises *)
(* one thing less: it may lose a line that is full.                        *)
(***************************************************************************)
EXTENDS Naturals, Sequences

CONSTANTS Char, NUL, NewLine, BackSpace, MaxLen

VARIABLES keys,  \* the keys handled so far
          line,  \* the characters typed and not erased since the last command
          run    \* the commands run so far

Init == keys = <<>> /\ line = <<>> /\ run = <<>>

Key(c) ==
  /\ keys' = Append(keys, c)
  /\ line' = IF Len(line) < MaxLen THEN Append(line, c) ELSE line
  /\ UNCHANGED run

Erase ==
  /\ keys' = Append(keys, BackSpace)
  /\ line' = IF line = <<>> THEN <<>> ELSE SubSeq(line, 1, Len(line) - 1)
  /\ UNCHANGED run

Enter ==
  /\ keys' = Append(keys, NewLine)
  /\ line' = <<>>
  /\ \/ run' = IF line = <<>> THEN run ELSE Append(run, line)
     \/ Len(line) = MaxLen /\ UNCHANGED run

Next == Enter \/ Erase \/ \E c \in Char \ {NUL, NewLine, BackSpace} : Key(c)
Spec == Init /\ [][Next]_<<keys, line, run>>
=============================================================================

-------------------------------- MODULE Kprintf --------------------------------
(***************************************************************************)
(* A log line from its format to the wire: vsnprintf of lib/sprintf.c with *)
(* itoa and itoh of lib/string.c, kprintf, and the polled output of        *)
(* drivers/serial/serial.c.                                                *)
(*                                                                         *)
(* A format is a sequence of items: a character of text or a directive     *)
(* with its argument.  A character is its code.  One step is one turn of   *)
(* vsnprintf's loop.                                                       *)
(***************************************************************************)
EXTENDS Integers, Sequences, SequencesExt

CONSTANTS HexDigits,  \* hexadecimal digits of an int (8)
          SIZE_MAX,
          Items,    \* what formats are made of
          Formats,  \* the formats, with their arguments
          Sizes,    \* the buffer sizes given to vsnprintf; SIZE_MAX is sprintf's
          Beyond    \* what lies in memory after the format's terminator

Power(b, k) == LET p[i \in Nat] == IF i = 0 THEN 1 ELSE b * p[i - 1] IN p[k]
MIN == -(Power(16, HexDigits) \div 2)

\* A directive has an argument of its type; a % before the terminator, "lone",
\* ends its format, and the memory beyond holds no second one.
ASSUME KprintfAssumption ==
  /\ HexDigits \in Nat \ {0}
  /\ SIZE_MAX \in Nat /\ Sizes \subseteq 0 .. SIZE_MAX
  /\ Formats \subseteq Seq(Items) /\ Beyond \in Seq(Items)
  /\ \A item \in Items :
       \/ item.kind \in {"d", "x"} /\ item.arg \in MIN .. -MIN - 1
       \/ item.kind \in {"text", "c", "other"} /\ item.arg \in Int
       \/ item.kind = "s" /\ item.arg \in Seq(Int)
       \/ item.kind \in {"null", "%", "lone"}
  /\ \A f \in Formats : \A i \in DOMAIN f : f[i].kind = "lone" => i = Len(f)
  /\ \A i \in DOMAIN Beyond : Beyond[i].kind # "lone"

VARIABLES
  line,       \* the format, never written
  size,       \* the size of the buffer
  uart,       \* good, deaf (absent, or it fails its test) or stuck (never ready)
  connected,  \* serial8086_init has left loopback mode
  pc,
  fmt,        \* the items vsnprintf has not looked at
  buf,        \* the characters it has stored
  sent,       \* how many of them kprintf has written to the port
  thr,        \* the transmitter's register, or Empty
  wire        \* what has left the machine

kprintfVars == <<line, size, uart, connected, pc, fmt, buf, sent, thr, wire>>
Empty == -1

-----------------------------------------------------------------------------
(* lib/string.c *)

Wrapped(n) == IF n = -MIN THEN MIN ELSE n

\* The digits of the loop of itoa, least significant first.
Digits[n \in Nat] ==
  <<48 + (n % 10)>> \o IF n \div 10 > 0 THEN Digits[n \div 10] ELSE <<>>

\* The negation of the smallest int is itself: its remainder is negative and
\* the loop ends after one turn.
itoa(n) ==
  LET m     == IF n < 0 THEN Wrapped(-n) ELSE n
      loop  == IF m < 0 THEN <<48 - ((-m) % 10)>> ELSE Digits[m]
  IN  Reverse(loop \o IF n < 0 THEN <<45>> ELSE <<>>)

HexChar(d) == IF d < 10 THEN 48 + d ELSE 55 + d

\* Where the first loop of itoh leaves d for the number u.
Start(u, d) ==
  LET s[e \in Nat] == IF u \div e = 0 /\ e >= 16 THEN s[e \div 16] ELSE e IN s[d]
\* What the second stores, and the statement after it.
Rest[d \in Nat] ==
  [i \in Nat |-> IF d >= 15 THEN <<HexChar(i \div d)>> \o Rest[d \div 16][i % d]
                 ELSE <<HexChar(i)>>]
itoh(n) ==
  LET u == n % Power(16, HexDigits)
  IN  Rest[Start(u, Power(16, HexDigits - 1))][u]

-----------------------------------------------------------------------------
(* lib/sprintf.c *)

Null == <<40, 110, 117, 108, 108, 41>>
\* What an item stands for; a % before the terminator stores the terminator.
Stored(item) ==
  CASE item.kind \in {"text", "c"} -> <<item.arg>>
    [] item.kind = "d"     -> itoa(item.arg)
    [] item.kind = "x"     -> itoh(item.arg)
    [] item.kind = "s"     -> item.arg
    [] item.kind = "null"  -> Null
    [] item.kind = "%"     -> <<37>>
    [] item.kind = "other" -> <<37, item.arg>>
    [] item.kind = "lone"  -> <<37, 0>>

\* buf + size - 1 is below buf when size is 0, or SIZE_MAX, which wraps.
EndMutant == IF size = SIZE_MAX THEN -2 ELSE size
End == IF size = SIZE_MAX THEN -2 ELSE size - 1
Cut(s, n) == SubSeq(s, 1, IF Len(s) < n THEN Len(s) ELSE n)

KprintfInit ==
  /\ line \in Formats /\ size \in Sizes
  /\ uart \in {"good", "deaf", "stuck"} /\ connected = FALSE
  /\ pc = "serial" /\ fmt = line /\ buf = <<>>
  /\ sent = 0 /\ thr = Empty /\ wire = <<>>

\* The port's test, whose failure kmain does not look at.
serial8086_init ==
  /\ pc = "serial"
  /\ connected' = (uart = "good")
  /\ pc' = "format"
  /\ UNCHANGED <<line, size, uart, fmt, buf, sent, thr, wire>>

vsnprintf ==
  /\ pc = "format"
  /\ IF fmt # <<>> /\ Len(buf) < End
       THEN /\ buf' = Cut(buf \o Stored(Head(fmt)), End)
            /\ fmt' = IF Head(fmt).kind = "lone" THEN Beyond ELSE Tail(fmt)
            /\ UNCHANGED pc
       ELSE pc' = "send" /\ UNCHANGED <<fmt, buf>>
  /\ UNCHANGED <<line, size, uart, connected, sent, thr, wire>>

-----------------------------------------------------------------------------
(* kprintf and drivers/serial/serial.c *)

TransmitEmptyMutant == uart # "stuck"
is_transmit_empty == uart # "stuck" /\ thr = Empty

serial_write ==
  /\ pc = "send" /\ sent < Len(buf) /\ is_transmit_empty
  /\ thr' = buf[sent + 1] /\ sent' = sent + 1
  /\ UNCHANGED <<line, size, uart, connected, pc, fmt, buf, wire>>

Finish ==
  /\ pc = "send" /\ sent = Len(buf)
  /\ pc' = "done"
  /\ UNCHANGED <<line, size, uart, connected, fmt, buf, sent, thr, wire>>

Shift ==
  /\ thr # Empty
  /\ thr' = Empty
  /\ wire' = IF connected THEN Append(wire, thr) ELSE wire
  /\ UNCHANGED <<line, size, uart, connected, pc, fmt, buf, sent>>

Cpu  == serial8086_init \/ vsnprintf \/ serial_write \/ Finish
KprintfNext == Cpu \/ Shift
\* The CPU runs and the port shifts its register out.
KprintfSpec ==
  KprintfInit /\ [][KprintfNext]_kprintfVars /\ WF_kprintfVars(Cpu) /\ WF_kprintfVars(Shift)

-----------------------------------------------------------------------------
(* What a line should be, by place value and without loops. *)

Places(n, base) ==
  CHOOSE k \in 1 .. n + 1 : n < Power(base, k) /\ (k = 1 \/ n >= Power(base, k - 1))
Numeral(n, base) ==
  LET k == Places(n, base)
  IN  [i \in 1 .. k |-> HexChar((n \div Power(base, k - i)) % base)]
Meaning(item) ==
  CASE item.kind = "d" -> IF item.arg < 0 THEN <<45>> \o Numeral(-item.arg, 10) ELSE Numeral(item.arg, 10)
    [] item.kind = "x" -> Numeral(IF item.arg < 0 THEN item.arg + Power(16, HexDigits) ELSE item.arg, 16)
    [] OTHER -> Stored(item)
Text(items) == FlattenSeq([i \in DOMAIN items |-> Meaning(items[i])])
\* The items vsnprintf comes to if the buffer is large enough.
Whole == IF \E i \in DOMAIN line : line[i].kind = "lone" THEN line \o Beyond ELSE line

-----------------------------------------------------------------------------
(* Properties. *)

\* sprintf.c, string.c: a line is its format's text, cut where the buffer
\* ends, with room for the terminator.  Three lines are not: the smallest int
\* is printed wrong, a % at the end of the format runs on into what follows
\* it in memory, and sprintf, whose end wraps, stores nothing.
LineIsFormatted ==
  pc \in {"send", "done"} =>
    /\ Len(buf) < size \/ size = 0
    /\ size \in {0, SIZE_MAX} => buf = <<>>
    /\ LET sure == \A i \in DOMAIN Whole : ~(Whole[i].kind = "d" /\ Whole[i].arg = MIN)
       IN  sure /\ size \notin {0, SIZE_MAX} => buf = Cut(Text(Whole), size - 1)

\* kprintf.c, serial.c: the line leaves the machine whole and in order; a
\* port that fails its test swallows it, and only one that is never ready
\* stops kprintf.
LineSent ==
  /\ uart = "good" => <>[](pc = "done" /\ wire = buf)
  /\ uart = "deaf" => <>(pc = "done" /\ wire = <<>>)
=============================================================================

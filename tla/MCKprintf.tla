------------------------------- MODULE MCKprintf -------------------------------
(***************************************************************************)
(* Kprintf with an int of eight bits: every number in both bases, and      *)
(* every line of up to two items of nine kinds, in buffers that cut it at  *)
(* each place.                                                             *)
(***************************************************************************)
EXTENDS Kprintf

Directive(k, a) == [kind |-> k, arg |-> a]
Numbers == {Directive(k, n) : k \in {"d", "x"}, n \in -128 .. 127}
Kinds ==
  {Directive("text", 97), Directive("c", 98), Directive("s", <<99, 100>>), Directive("s", <<>>),
   Directive("null", 0), Directive("%", 0), Directive("other", 113), Directive("d", -12), Directive("x", -1)}
Lone == Directive("lone", 0)

MCFormats ==
  {<<n>> : n \in Numbers}
  \cup UNION {[1 .. k -> Kinds] : k \in 0 .. 2}
  \cup {<<i, Lone>> : i \in Kinds} \cup {<<Lone>>}
MCItems  == Numbers \cup Kinds \cup {Lone, Directive("text", 122)}
MCSizes  == {0, 1, 2, 3, 5, 16, 255}
MCBeyond == <<Directive("text", 122), Directive("%", 0)>>
=============================================================================

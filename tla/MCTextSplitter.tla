---------------------------- MODULE MCTextSplitter ----------------------------
(* Instances of TextSplitter for TLC. *)
EXTENDS TextSplitter

\* What a character is, and where it is in the document (0: put in by the splitter).
Kinds == {"letter", "stop", "newline", "tab"}
MCChars == [kind : Kinds, at : 0..40]
MCBlanks == {c \in MCChars : c.kind \in {"newline", "tab"}}
MCBreaks == {c \in MCChars : c.kind \in {"newline", "stop"}}
MCNewline == [kind |-> "newline", at |-> 0]

\* A segment of these kinds, its first character at a place.
SegmentAt(kinds, at) == [i \in DOMAIN kinds |-> [kind |-> kinds[i], at |-> at + i]]

\* A long segment, of any text.
LongDocuments ==
  {<<SegmentAt(k, 0)>> :
     k \in {f \in [1..8 -> Kinds \ {"tab"}] : f[1] # "newline" /\ f[8] # "newline"}}

\* Up to three segments of any length, with a tab where the overlap may begin.
Word(n) == [i \in 1..n |-> IF i = n - 1 /\ n > 2 THEN "tab" ELSE "letter"]
MCDocuments ==
  {<<>>} \cup LongDocuments
    \cup {<<SegmentAt(Word(n), 0), SegmentAt(Word(m), 10), SegmentAt(Word(l), 20)>> :
            n, m, l \in 1..7}

MCSizes == {4, 6}
MCOverlaps == {-1, 2, 9}
=============================================================================

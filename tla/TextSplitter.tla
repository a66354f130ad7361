----------------------------- MODULE TextSplitter -----------------------------
(***************************************************************************)
(* How a document becomes the chunks a knowledge base searches (kb.py):    *)
(* _split_text packs the segments of the text into chunks of a limited     *)
(* size, each beginning with the end of the one before it, and             *)
(* _split_long_text cuts a segment that fits into none, preferably after   *)
(* the end of a line, a sentence or a word.                                *)
(*                                                                         *)
(* A character is a member of Chars; a model of a document that gives each *)
(* of its characters an identity of its own can tell where each went.      *)
(***************************************************************************)
EXTENDS Integers, Sequences, FiniteSetsExt, Functions

CONSTANTS
  Chars,
  Blanks,        \* the characters strip() removes
  Breaks,        \* newlines, blanks and the signs that end a sentence
  Newline,
  Documents,     \* what _build_base_segments makes of a text
  Sizes,         \* the size of a chunk that users ask for,
  Overlaps,      \* and how many characters two chunks shall share
  MinSize,       \* 100: no chunk is limited to less
  BreakPercent   \* 45: no piece is cut in the first 45 % of its size

ASSUME CharsAssumption ==
  /\ Blanks \subseteq Chars /\ Breaks \subseteq Chars /\ Newline \in Blanks
ASSUME LimitsAssumption ==
  /\ Sizes \subseteq Int /\ Overlaps \subseteq Int
  /\ MinSize \in Nat \ {0} /\ BreakPercent \in Nat

\* Neither empty nor blank at either end.
Stripped(s) == s # <<>> /\ s[1] \notin Blanks /\ s[Len(s)] \notin Blanks

ASSUME DocumentsAssumption ==
  \A d \in Documents : d \in Seq(Seq(Chars)) /\ \A i \in DOMAIN d : Stripped(d[i])

VARIABLES
  chunk_size, chunk_overlap,   \* as limited by _split_text
  base_segments,
  taken,         \* how many of them the loop has taken
  current,       \* the chunk that is being packed
  chunks,        \* those that are done
  cleaned,       \* the segment being cut, or <<>>
  start          \* how much of it is behind the cut

vars == <<chunk_size, chunk_overlap, base_segments, taken, current, chunks, cleaned, start>>

Strip(s) ==
  LET solid == {i \in DOMAIN s : s[i] \notin Blanks}
  IN  IF solid = {} THEN <<>> ELSE SubSeq(s, Min(solid), Max(solid))

Init ==
  \E requested \in Sizes, shared \in Overlaps :
    /\ chunk_size = Max({MinSize, requested})
    /\ chunk_overlap = Max({0, Min({shared, chunk_size \div 2})})
    /\ base_segments \in Documents
    /\ taken = 0 /\ current = <<>> /\ chunks = <<>> /\ cleaned = <<>> /\ start = 0

----------------------------------------------------------------------------
(* _split_long_text, an iteration of its loop at a time.                   *)

\* No piece ends within so many characters.
MinBreak == (chunk_size * BreakPercent) \div 100

\* Mutant: a break right at the limit is taken, too.
EarliestBreak_AtLimit == start + MinBreak + 1

\* Where the first break is that cuts a piece.
EarliestBreak == start + MinBreak + 2

\* Where the piece that begins at start ends.
PieceEnd ==
  LET limit  == start + chunk_size
      breaks == {i \in EarliestBreak..limit : cleaned[i] \in Breaks}
  IN  CASE limit >= Len(cleaned) -> Len(cleaned)
        [] limit < Len(cleaned) /\ breaks = {} -> limit
        [] limit < Len(cleaned) /\ breaks # {} -> Max(breaks)

Piece == Strip(SubSeq(cleaned, start + 1, PieceEnd))

\* Mutant: the piece is cut, and the loop goes on as if it were not.
Resume_Uncut == Max({start + 1, start + chunk_size - chunk_overlap})
\* Mutant: the overlap may take back all that the piece has gained.
Resume_Stuck == PieceEnd - chunk_overlap

\* Where the next piece begins.
Resume == Max({start + 1, PieceEnd - chunk_overlap})

CutPiece ==
  /\ cleaned # <<>>
  /\ chunks' = IF Piece = <<>> THEN chunks ELSE Append(chunks, Piece)
  /\ \/ /\ PieceEnd < Len(cleaned)
        /\ start' = Resume
        /\ UNCHANGED cleaned
     \/ /\ PieceEnd = Len(cleaned)
        /\ cleaned' = <<>> /\ start' = 0
  /\ UNCHANGED <<chunk_size, chunk_overlap, base_segments, taken, current>>

----------------------------------------------------------------------------
(* _split_text, a segment at a time.                                       *)

Segment == base_segments[taken + 1]

Joined == IF current = <<>> THEN Segment ELSE current \o <<Newline, Newline>> \o Segment

\* The chunks, with the one that was being packed.
Closed == IF current = <<>> THEN chunks ELSE Append(chunks, current)

\* The end of a chunk the next one begins with.
OverlapText(chunk) ==
  Strip(SubSeq(chunk, Max({1, Len(chunk) - chunk_overlap + 1}), Len(chunk)))

\* The segment after the end of the chunk before it.
Overlapped ==
  LET overlap_text == OverlapText(current)
  IN  IF overlap_text = <<>> THEN Segment ELSE overlap_text \o <<Newline>> \o Segment

\* Mutant: nobody looks whether the overlap still fits.
StartChunk_AnySize(text) == current' = text /\ UNCHANGED <<cleaned, start>>

\* A text begins a chunk, or is cut because it is too long for one.
StartChunk(text) ==
  IF Len(text) > chunk_size
  THEN current' = <<>> /\ cleaned' = text /\ start' = 0
  ELSE current' = text /\ UNCHANGED <<cleaned, start>>

\* The segment is longer than a chunk, joins the current one, or begins the next.
TakeSegment ==
  /\ cleaned = <<>> /\ taken < Len(base_segments)
  /\ taken' = taken + 1
  /\ \/ /\ Len(Segment) > chunk_size
        /\ chunks' = Closed /\ StartChunk(Segment)
     \/ /\ Len(Joined) <= chunk_size
        /\ current' = Joined /\ UNCHANGED <<chunks, cleaned, start>>
     \/ /\ Len(Segment) <= chunk_size /\ Len(Joined) > chunk_size
        /\ chunks' = Closed /\ StartChunk(Overlapped)
  /\ UNCHANGED <<chunk_size, chunk_overlap, base_segments>>

\* The chunk that is left at the end.
CloseLast ==
  /\ cleaned = <<>> /\ taken = Len(base_segments) /\ current # <<>>
  /\ chunks' = Closed /\ current' = <<>>
  /\ UNCHANGED <<chunk_size, chunk_overlap, base_segments, taken, cleaned, start>>

Next == CutPiece \/ TakeSegment \/ CloseLast

\* A function that nothing interrupts.
Spec == Init /\ [][Next]_vars /\ WF_vars(Next)

----------------------------------------------------------------------------
(* Properties.                                                             *)

\* Types; start is a position in the segment that is being cut, if one is, and nothing
\* is being packed meanwhile; the limits are those of the code.
SplitTypeOK ==
  /\ chunk_size \in Nat /\ chunk_size >= MinSize
  /\ chunk_overlap \in Nat /\ 2 * chunk_overlap <= chunk_size
  /\ base_segments \in Seq(Seq(Chars)) /\ taken \in 0..Len(base_segments)
  /\ current \in Seq(Chars) /\ chunks \in Seq(Seq(Chars)) /\ cleaned \in Seq(Chars)
  /\ start \in Nat
  /\ IF cleaned = <<>> THEN start = 0 ELSE start < Len(cleaned) /\ current = <<>>

Solid(s) == Range(s) \ Blanks
InChunks == UNION {Range(chunks[i]) : i \in DOMAIN chunks}
IsDone == cleaned = <<>> /\ taken = Len(base_segments) /\ current = <<>>

\* No character of the document is lost between two pieces or two chunks: at the end each
\* that is not blank is in a chunk (_split_text, _split_long_text).
TextIsKept ==
  IsDone => \A i \in DOMAIN base_segments : Solid(base_segments[i]) \subseteq InChunks

\* Overlaps, joints and cuts included, no chunk is longer than was asked for, and none is
\* empty or blank at an end (the embedding model is never given more).
ChunksFit == \A i \in DOMAIN chunks : Len(chunks[i]) <= chunk_size /\ Stripped(chunks[i])

\* Each piece of a long segment reaches beyond the one before it, unless the overlap
\* is larger than the shortest piece (_split_long_text steps back by the overlap from
\* wherever the piece was cut).
PiecesAdvance ==
  [][cleaned # <<>> /\ cleaned' # <<>> /\ chunk_overlap <= MinBreak + 1
       => PieceEnd' > PieceEnd]_vars

\* Every document is split in the end, whatever the overlap (_split_long_text's loop).
SplittingEnds == <>IsDone
=============================================================================

-------------------------- MODULE TextSplitterProofs --------------------------
(***************************************************************************)
(* Theorems of TextSplitter, for every document, every size and overlap a  *)
(* form may ask for, and any limits: nothing of a text is lost, no chunk   *)
(* is too long, and the pieces of a long segment advance.                  *)
(***************************************************************************)
EXTENDS TextSplitter, SequenceTheorems, WellFoundedInduction, TLAPS

Fits(s) == Len(s) <= chunk_size /\ Stripped(s)

\* What of a segment has not been cut yet.
Uncut == {cleaned[i] : i \in start + 1 .. Len(cleaned)}

Contents(s) == UNION {Range(s[i]) : i \in DOMAIN s}

\* Each character that was taken is in a chunk, being packed, or ahead of the cut.
Kept ==
  \A j \in 1..taken :
    Solid(base_segments[j]) \subseteq Contents(chunks) \cup Range(current) \cup Uncut

TypeInv == SplitTypeOK /\ base_segments \in Documents

\* The inductive invariant.
SplitInv ==
  /\ TypeInv
  /\ current # <<>> => Fits(current)
  /\ ChunksFit
  /\ Kept

----------------------------------------------------------------------------
(* Sets of numbers.                                                        *)

\* A set of naturals that is not empty has a least member.
LEMMA LeastNatural ==
  ASSUME NEW S \in SUBSET Nat, S # {}
  PROVE  \E x \in S : \A y \in S : x <= y
<1>1. PICK x \in S : \A y \in S : <<y, x>> \notin OpToRel(<, Nat)
  BY NatLessThanWellFounded, WFMin
<1>2. ASSUME NEW y \in S  PROVE x <= y
  <2>1. x \in Nat /\ y \in Nat
    OBVIOUS
  <2>2. y < x => <<y, x>> \in OpToRel(<, Nat)
    BY <2>1 DEF OpToRel
  <2>3. ~(y < x)
    BY <1>1, <2>2
  <2> QED  BY <2>1, <2>3
<1> QED  BY <1>2

\* A nonempty set of positions has a last and a first one.
LEMMA Extremes ==
  ASSUME NEW b \in Nat, NEW S \in SUBSET (1..b), S # {}
  PROVE  /\ Max(S) \in S /\ \A y \in S : y <= Max(S)
         /\ Min(S) \in S /\ \A y \in S : Min(S) <= y
<1>1. \E x \in S : \A y \in S : x =< y
  <2>1. S \in SUBSET Nat
    OBVIOUS
  <2> QED  BY <2>1, LeastNatural
<1>2. \E x \in S : \A y \in S : x >= y
  <2> DEFINE D == {b - s : s \in S}
  <2>1. \A s \in S : s \in 1..b
    OBVIOUS
  <2>2. \A s \in S : b - s \in Nat
    BY <2>1
  <2>3. D \in SUBSET Nat /\ D # {}
    BY <2>2
  <2>4. PICK z \in D : \A y \in D : z <= y
    BY <2>3, LeastNatural
  <2>5. PICK x \in S : z = b - x
    OBVIOUS
  <2>6. \A y \in S : b - x <= b - y
    BY <2>4, <2>5
  <2> QED
    BY <2>1, <2>6
<1>3. Max(S) \in S /\ \A y \in S : Max(S) >= y
  BY <1>2 DEF Max
<1>4. Min(S) \in S /\ \A y \in S : Min(S) =< y
  BY <1>1 DEF Min
<1>5. \A y \in S : y \in Int
  OBVIOUS
<1> QED
  BY <1>3, <1>4, <1>5

\* The larger and the smaller of two integers.
LEMMA OfTwo ==
  ASSUME NEW a \in Int, NEW b \in Int
  PROVE  /\ Max({a, b}) \in Int /\ Max({a, b}) >= a /\ Max({a, b}) >= b
         /\ Max({a, b}) = a \/ Max({a, b}) = b
         /\ Min({a, b}) \in Int /\ Min({a, b}) <= a /\ Min({a, b}) <= b
         /\ Min({a, b}) = a \/ Min({a, b}) = b
<1>1. \E x \in {a, b} : \A y \in {a, b} : x >= y
  BY SMT
<1>2. \E x \in {a, b} : \A y \in {a, b} : x =< y
  BY SMT
<1>3. Max({a, b}) \in {a, b} /\ \A y \in {a, b} : Max({a, b}) >= y
  BY <1>1 DEF Max
<1>4. Min({a, b}) \in {a, b} /\ \A y \in {a, b} : Min({a, b}) =< y
  BY <1>2 DEF Min
<1> QED
  BY <1>3, <1>4

----------------------------------------------------------------------------
(* Texts.                                                                  *)

\* What strip() leaves is no longer, has no blank at an end, and all that is not blank.
LEMMA StripFacts ==
  ASSUME NEW s \in Seq(Chars)
  PROVE  /\ Strip(s) \in Seq(Chars) /\ Len(Strip(s)) <= Len(s)
         /\ Strip(s) # <<>> => Stripped(Strip(s))
         /\ Solid(s) \subseteq Range(Strip(s))
<1> DEFINE solid == {i \in DOMAIN s : s[i] \notin Blanks}
<1>1. CASE solid = {}
  <2>1. Strip(s) = <<>>
    BY <1>1 DEF Strip
  <2>2. Solid(s) = {}
    BY <1>1 DEF Solid, Range
  <2> QED  BY <2>1, <2>2
<1>2. CASE solid # {}
  <2> DEFINE m == Min(solid)
             n == Max(solid)
             t == SubSeq(s, m, n)
  <2>1. /\ n \in solid /\ \A y \in solid : y <= n
        /\ m \in solid /\ \A y \in solid : m <= y
    <3>1. solid \in SUBSET (1..Len(s)) /\ Len(s) \in Nat
      OBVIOUS
    <3> QED  BY <1>2, <3>1, Extremes
  <2>2. Strip(s) = t
    BY <1>2 DEF Strip
  <2>3. m \in 1..Len(s) /\ n \in 1..Len(s) /\ m <= n
    BY <2>1
  <2> HIDE DEF m, n
  <2>4. t \in Seq(Chars) /\ Len(t) = n - m + 1 /\ \A i \in 1..(n - m + 1) : t[i] = s[m + i - 1]
    <3>1. \A i \in m..n : s[i] \in Chars
      BY <2>3
    <3> QED  BY <2>3, <3>1, SubSeqProperties
  <2>5. Stripped(t)
    <3>1. t[1] = s[m] /\ t[Len(t)] = s[n] /\ t # <<>>
      BY <2>3, <2>4
    <3> QED  BY <3>1, <2>1 DEF Stripped
  <2>6. Solid(s) \subseteq Range(t)
    <3>1. ASSUME NEW c \in Solid(s)  PROVE c \in Range(t)
      <4>1. PICK i \in DOMAIN s : c = s[i] /\ i \in solid
        BY DEF Solid, Range
      <4>2. i \in m..n
        BY <4>1, <2>1, <2>3
      <4>3. i - m + 1 \in 1..(n - m + 1) /\ t[i - m + 1] = s[i]
        BY <4>2, <2>3, <2>4
      <4>4. DOMAIN t = 1..(n - m + 1)
        BY <2>4
      <4> QED  BY <4>1, <4>3, <4>4 DEF Range
    <3> QED  BY <3>1
  <2> QED
    BY <2>2, <2>3, <2>4, <2>5, <2>6
<1> QED
  BY <1>1, <1>2

\* The characters of two texts after each other.
LEMMA RangeOfConcat ==
  ASSUME NEW s \in Seq(Chars), NEW t \in Seq(Chars)
  PROVE  s \o t \in Seq(Chars) /\ Range(s \o t) = Range(s) \cup Range(t)
BY RangeConcatenation

\* A text between two others that fits begins like the first and ends like the last.
LEMMA ConcatStripped ==
  ASSUME NEW s \in Seq(Chars), NEW m \in Seq(Chars), NEW t \in Seq(Chars),
         Stripped(s), Stripped(t)
  PROVE  /\ s \o m \o t \in Seq(Chars) /\ Stripped(s \o m \o t)
         /\ Range(s) \subseteq Range(s \o m \o t) /\ Range(t) \subseteq Range(s \o m \o t)
<1> DEFINE u == (s \o m) \o t
<1>1. u \in Seq(Chars) /\ Len(u) = Len(s) + Len(m) + Len(t)
  OBVIOUS
<1>2. Len(s) > 0 /\ Len(t) > 0
  BY DEF Stripped
<1>3. u[1] = s[1] /\ u[Len(u)] = t[Len(t)]
  BY <1>1, <1>2
<1>4. Stripped(u)
  BY <1>1, <1>2, <1>3 DEF Stripped
<1>5. Range(u) = Range(s) \cup Range(m) \cup Range(t)
  <2>1. Range(s \o m) = Range(s) \cup Range(m) /\ s \o m \in Seq(Chars)
    BY RangeOfConcat
  <2> QED  BY <2>1, RangeOfConcat
<1> QED
  BY <1>1, <1>4, <1>5

\* One chunk more.
LEMMA Appended ==
  ASSUME NEW cs \in Seq(Seq(Chars)), NEW c \in Seq(Chars),
         \A i \in DOMAIN cs : Fits(cs[i]), Fits(c)
  PROVE  /\ Append(cs, c) \in Seq(Seq(Chars))
         /\ \A i \in DOMAIN Append(cs, c) : Fits(Append(cs, c)[i])
         /\ Contents(Append(cs, c)) = Contents(cs) \cup Range(c)
<1> DEFINE a == Append(cs, c)
<1>1. /\ a \in Seq(Seq(Chars)) /\ DOMAIN a = 1..(Len(cs) + 1) /\ DOMAIN cs = 1..Len(cs)
      /\ \A i \in 1..Len(cs) : a[i] = cs[i]
      /\ a[Len(cs) + 1] = c
  OBVIOUS
<1> HIDE DEF a
<1>2. \A i \in DOMAIN a : i \in DOMAIN cs \/ i = Len(cs) + 1
  BY <1>1
<1>3. \A i \in DOMAIN a : Fits(a[i])
  BY <1>1, <1>2
<1>4. Contents(a) = Contents(cs) \cup Range(c)
  <2>1. ASSUME NEW x \in Contents(a)  PROVE x \in Contents(cs) \cup Range(c)
    BY <1>1, <1>2 DEF Contents
  <2>2. ASSUME NEW x \in Contents(cs) \cup Range(c)  PROVE x \in Contents(a)
    <3>1. Len(cs) + 1 \in DOMAIN a /\ \A i \in DOMAIN cs : i \in DOMAIN a
      BY <1>1
    <3> QED  BY <1>1, <3>1 DEF Contents
  <2> QED  BY <2>1, <2>2
<1> QED
  BY <1>1, <1>3, <1>4 DEF a

\* Nothing is empty.
LEMMA EmptyRange == Range(<<>>) = {}
BY DEF Range

----------------------------------------------------------------------------
(* The start, and the cut of a piece.                                      *)

LEMMA InitEstablishes ==
  ASSUME Init
  PROVE  SplitInv
<1>1. PICK requested \in Sizes, shared \in Overlaps :
        /\ chunk_size = Max({MinSize, requested})
        /\ chunk_overlap = Max({0, Min({shared, chunk_size \div 2})})
  BY DEF Init
<1>2. requested \in Int /\ shared \in Int /\ MinSize \in Nat
  BY LimitsAssumption
<1>3. chunk_size \in Nat /\ chunk_size >= MinSize
  BY <1>1, <1>2, OfTwo
<1>4. chunk_size \div 2 \in Nat /\ 2 * (chunk_size \div 2) <= chunk_size
  BY <1>3
<1>5. chunk_overlap \in Nat /\ 2 * chunk_overlap <= chunk_size
  <2> DEFINE half == chunk_size \div 2
             m == Min({shared, half})
  <2>0. half \in Int /\ chunk_overlap = Max({0, m})
    BY <1>1, <1>4
  <2> HIDE DEF half
  <2>1. m \in Int /\ m <= half
    BY <1>2, <2>0, OfTwo
  <2> HIDE DEF m
  <2>2. /\ Max({0, m}) >= 0 /\ Max({0, m}) \in Int
        /\ Max({0, m}) = 0 \/ Max({0, m}) = m
    <3>1. 0 \in Int
      OBVIOUS
    <3> QED  BY <2>1, <3>1, OfTwo
  <2>3. chunk_overlap >= 0 /\ (chunk_overlap = 0 \/ chunk_overlap = m) /\ chunk_overlap \in Int
    BY <2>0, <2>2
  <2> QED
    BY <2>1, <2>3, <1>3, <1>4 DEF half
<1>6. base_segments \in Documents /\ base_segments \in Seq(Seq(Chars))
  BY DocumentsAssumption DEF Init
<1>7. TypeInv
  BY <1>3, <1>5, <1>6 DEF Init, TypeInv, SplitTypeOK
<1> QED
  BY <1>7 DEF Init, SplitInv, ChunksFit, Kept

\* The length below which nothing is cut.
LEMMA MinBreakType == TypeInv => MinBreak \in Nat
<1> SUFFICES ASSUME TypeInv  PROVE MinBreak \in Nat
  OBVIOUS
<1>1. chunk_size \in Nat /\ BreakPercent \in Nat
  BY LimitsAssumption DEF TypeInv, SplitTypeOK
<1>2. chunk_size * BreakPercent \in Nat
  BY <1>1
<1> QED
  BY <1>2 DEF MinBreak

\* A piece has a character at least, no more than fit, and ends in the segment: at its
\* end, a full size after its beginning, or beyond the earliest break.
LEMMA PieceEndFacts ==
  ASSUME TypeInv, cleaned # <<>>
  PROVE  /\ PieceEnd \in start + 1 .. Len(cleaned)
         /\ PieceEnd <= start + chunk_size
         /\ \/ PieceEnd = Len(cleaned)
            \/ PieceEnd = start + chunk_size
            \/ PieceEnd >= EarliestBreak
<1>1. /\ cleaned \in Seq(Chars) /\ start \in Nat /\ start < Len(cleaned)
      /\ chunk_size \in Nat /\ chunk_size > 0 /\ MinBreak \in Nat
  BY MinBreakType, LimitsAssumption DEF TypeInv, SplitTypeOK
<1> DEFINE limit == start + chunk_size
           breaks == {i \in EarliestBreak..limit : cleaned[i] \in Breaks}
<1>2. EarliestBreak \in Nat /\ EarliestBreak > start + 1
  BY <1>1 DEF EarliestBreak
<1>3. CASE limit >= Len(cleaned)
  <2>1. PieceEnd = Len(cleaned)
    BY <1>1, <1>3 DEF PieceEnd
  <2> QED  BY <1>1, <1>3, <2>1
<1>4. CASE limit < Len(cleaned) /\ breaks = {}
  <2>1. PieceEnd = limit
    BY <1>1, <1>4 DEF PieceEnd
  <2> QED  BY <1>1, <1>4, <2>1
<1>5. CASE limit < Len(cleaned) /\ breaks # {}
  <2>1. PieceEnd = Max(breaks)
    BY <1>1, <1>5 DEF PieceEnd
  <2>2. breaks \in SUBSET (1..limit) /\ limit \in Nat
    BY <1>1, <1>2
  <2>3. Max(breaks) \in breaks
    BY <2>2, <1>5, Extremes
  <2>4. PieceEnd \in EarliestBreak..limit
    BY <2>1, <2>3
  <2> HIDE DEF breaks
  <2> QED  BY <1>1, <1>2, <1>5, <2>4
<1> QED
  BY <1>1, <1>3, <1>4, <1>5

\* The next piece begins within this one or right after it.
LEMMA ResumeFacts ==
  ASSUME TypeInv, cleaned # <<>>
  PROVE  Resume \in start + 1 .. PieceEnd /\ Resume >= PieceEnd - chunk_overlap
<1>1. /\ start \in Nat /\ chunk_overlap \in Nat /\ PieceEnd \in Int /\ PieceEnd >= start + 1
      /\ cleaned \in Seq(Chars)
  BY PieceEndFacts DEF TypeInv, SplitTypeOK
<1> DEFINE a == start + 1
           b == PieceEnd - chunk_overlap
<1>2. a \in Int /\ b \in Int /\ a <= PieceEnd /\ b <= PieceEnd
  BY <1>1
<1>3. Resume = Max({a, b})
  BY DEF Resume
<1> HIDE DEF a, b
<1>4. Resume \in Int /\ Resume >= a /\ Resume >= b /\ (Resume = a \/ Resume = b)
  BY <1>2, <1>3, OfTwo
<1> QED
  BY <1>1, <1>2, <1>4 DEF a, b

\* The piece fits, and it has all that is not blank up to the cut.
LEMMA PieceFacts ==
  ASSUME TypeInv, cleaned # <<>>
  PROVE  /\ Piece \in Seq(Chars) /\ (Piece # <<>> => Fits(Piece))
         /\ \A i \in start + 1 .. PieceEnd : cleaned[i] \in Range(Piece) \cup Blanks
<1> DEFINE cut == SubSeq(cleaned, start + 1, PieceEnd)
<1>1. /\ cleaned \in Seq(Chars) /\ start \in Nat /\ PieceEnd \in Int /\ chunk_size \in Nat
      /\ start + 1 <= PieceEnd /\ PieceEnd <= Len(cleaned) /\ PieceEnd <= start + chunk_size
  BY PieceEndFacts DEF TypeInv, SplitTypeOK
<1>2. /\ cut \in Seq(Chars) /\ Len(cut) = PieceEnd - start
      /\ \A i \in 1..(PieceEnd - start) : cut[i] = cleaned[start + i]
  <2>1. \A i \in start + 1 .. PieceEnd : cleaned[i] \in Chars
    BY <1>1
  <2>2. start + 1 \in Int /\ PieceEnd - (start + 1) + 1 = PieceEnd - start
    BY <1>1
  <2>3. /\ cut \in Seq(Chars) /\ Len(cut) = PieceEnd - start
        /\ \A i \in 1..(PieceEnd - start) : cut[i] = cleaned[(start + 1) + i - 1]
    BY <1>1, <2>1, <2>2, SubSeqProperties
  <2> QED  BY <1>1, <2>3
<1> HIDE DEF cut
<1>3. Piece = Strip(cut)
  BY DEF Piece, cut
<1>4. /\ Strip(cut) \in Seq(Chars) /\ Len(Strip(cut)) <= Len(cut)
      /\ Strip(cut) # <<>> => Stripped(Strip(cut))
      /\ Solid(cut) \subseteq Range(Strip(cut))
  BY <1>2, StripFacts
<1>5. ASSUME NEW i \in start + 1 .. PieceEnd  PROVE cleaned[i] \in Range(Piece) \cup Blanks
  <2>1. i - start \in 1..(PieceEnd - start) /\ i - start \in DOMAIN cut
    BY <1>1, <1>2
  <2>2. cut[i - start] = cleaned[i]
    BY <1>1, <1>2, <2>1
  <2>3. cleaned[i] \in Range(cut)
    BY <2>1, <2>2 DEF Range
  <2> QED  BY <2>3, <1>3, <1>4 DEF Solid
<1>6. Strip(cut) # <<>> => Fits(Strip(cut))
  BY <1>1, <1>2, <1>4 DEF Fits
<1> QED
  BY <1>3, <1>4, <1>5, <1>6

LEMMA CutKeeps ==
  ASSUME SplitInv, CutPiece
  PROVE  SplitInv'
<1>1. /\ TypeInv /\ cleaned # <<>> /\ current = <<>> /\ current' = <<>>
      /\ cleaned \in Seq(Chars) /\ chunks \in Seq(Seq(Chars)) /\ start \in Nat
      /\ \A i \in DOMAIN chunks : Fits(chunks[i])
  BY DEF SplitInv, TypeInv, SplitTypeOK, CutPiece, ChunksFit, Fits
<1>2. /\ chunks' \in Seq(Seq(Chars)) /\ \A i \in DOMAIN chunks' : Fits(chunks'[i])
      /\ Contents(chunks') = Contents(chunks) \cup Range(Piece)
  <2>1. CASE Piece = <<>>
    BY <1>1, <2>1, EmptyRange DEF CutPiece
  <2>2. CASE Piece # <<>>
    <3>1. chunks' = Append(chunks, Piece) /\ Piece \in Seq(Chars) /\ Fits(Piece)
      BY <1>1, <2>2, PieceFacts DEF CutPiece
    <3> QED  BY <1>1, <3>1, Appended
  <2> QED  BY <2>1, <2>2
<1>3. /\ cleaned' \in Seq(Chars) /\ start' \in Nat
      /\ IF cleaned' = <<>> THEN start' = 0 ELSE start' < Len(cleaned')
      /\ Uncut \subseteq Range(Piece) \cup Blanks \cup Uncut'
  <2>0. /\ PieceEnd \in Int /\ start + 1 <= PieceEnd /\ PieceEnd <= Len(cleaned)
        /\ \A i \in start + 1 .. PieceEnd : cleaned[i] \in Range(Piece) \cup Blanks
    BY <1>1, PieceEndFacts, PieceFacts
  <2>1. CASE PieceEnd < Len(cleaned) /\ start' = Resume /\ UNCHANGED cleaned
    <3>1. Resume \in Int /\ start + 1 <= Resume /\ Resume <= PieceEnd
      BY <1>1, ResumeFacts
    <3>2. ASSUME NEW i \in start + 1 .. Len(cleaned)
          PROVE  cleaned[i] \in Range(Piece) \cup Blanks \cup Uncut'
      <4>1. CASE i <= PieceEnd
        BY <1>1, <2>0, <4>1
      <4>2. CASE i > PieceEnd
        <5>1. i \in start' + 1 .. Len(cleaned') /\ cleaned'[i] = cleaned[i]
          BY <1>1, <2>0, <2>1, <3>1, <4>2
        <5> QED  BY <5>1 DEF Uncut
      <4> QED  BY <1>1, <2>0, <4>1, <4>2
    <3>3. Uncut \subseteq Range(Piece) \cup Blanks \cup Uncut'
      BY <3>2 DEF Uncut
    <3> QED  BY <1>1, <2>0, <2>1, <3>1, <3>3
  <2>2. CASE PieceEnd = Len(cleaned) /\ cleaned' = <<>> /\ start' = 0
    <3>1. Uncut \subseteq Range(Piece) \cup Blanks
      BY <1>1, <2>0, <2>2 DEF Uncut
    <3> QED  BY <2>2, <3>1
  <2> QED  BY <2>1, <2>2 DEF CutPiece
<1>4. /\ UNCHANGED <<chunk_size, chunk_overlap, base_segments, taken>>
  BY DEF CutPiece
<1>5. TypeInv'
  BY <1>1, <1>2, <1>3, <1>4 DEF TypeInv, SplitTypeOK
<1>6. ChunksFit'
  BY <1>2, <1>4 DEF ChunksFit, Fits
<1>7. Kept'
  <2>1. ASSUME NEW j \in 1..taken
        PROVE  Solid(base_segments[j]) \subseteq Contents(chunks') \cup Range(current') \cup Uncut'
    <3>1. Solid(base_segments[j]) \subseteq Contents(chunks) \cup Range(current) \cup Uncut
      BY DEF SplitInv, Kept
    <3>2. Range(current) = {} /\ Solid(base_segments[j]) \cap Blanks = {}
      BY <1>1, EmptyRange DEF Solid
    <3> QED  BY <1>2, <1>3, <3>1, <3>2
  <2>2. Kept' <=> \A j \in 1..taken :
                   Solid(base_segments[j])
                     \subseteq Contents(chunks') \cup Range(current') \cup Uncut'
    BY <1>4 DEF Kept, Contents, Solid
  <2> QED  BY <2>1, <2>2
<1> QED
  BY <1>1, <1>5, <1>6, <1>7 DEF SplitInv

----------------------------------------------------------------------------
(* Packing.                                                                *)

LEMMA SegmentFacts ==
  ASSUME TypeInv, taken < Len(base_segments)
  PROVE  Segment \in Seq(Chars) /\ Stripped(Segment)
<1>1. /\ base_segments \in Seq(Seq(Chars)) /\ taken \in Nat
      /\ \A i \in DOMAIN base_segments : Stripped(base_segments[i])
  BY DocumentsAssumption DEF TypeInv, SplitTypeOK
<1>2. taken + 1 \in DOMAIN base_segments
  BY <1>1
<1> QED
  BY <1>1, <1>2 DEF Segment

\* The chunk that was being packed is a chunk now.
LEMMA ClosedFacts ==
  ASSUME SplitInv
  PROVE  /\ Closed \in Seq(Seq(Chars)) /\ \A i \in DOMAIN Closed : Fits(Closed[i])
         /\ Contents(Closed) = Contents(chunks) \cup Range(current)
<1>1. /\ chunks \in Seq(Seq(Chars)) /\ current \in Seq(Chars)
      /\ \A i \in DOMAIN chunks : Fits(chunks[i])
      /\ current # <<>> => Fits(current)
  BY DEF SplitInv, TypeInv, SplitTypeOK, ChunksFit, Fits
<1>2. CASE current = <<>>
  BY <1>1, <1>2, EmptyRange DEF Closed
<1>3. CASE current # <<>>
  BY <1>1, <1>3, Appended DEF Closed
<1> QED
  BY <1>2, <1>3

LEMMA JoinedFacts ==
  ASSUME SplitInv, taken < Len(base_segments)
  PROVE  /\ Joined \in Seq(Chars) /\ Stripped(Joined)
         /\ Range(current) \cup Range(Segment) \subseteq Range(Joined)
<1>1. /\ current \in Seq(Chars) /\ (current # <<>> => Stripped(current))
      /\ Segment \in Seq(Chars) /\ Stripped(Segment)
  BY SegmentFacts DEF SplitInv, TypeInv, SplitTypeOK, Fits
<1>2. CASE current = <<>>
  BY <1>1, <1>2, EmptyRange DEF Joined
<1>3. CASE current # <<>>
  <2>1. <<Newline, Newline>> \in Seq(Chars)
    BY CharsAssumption
  <2> QED  BY <1>1, <1>3, <2>1, ConcatStripped DEF Joined
<1> QED
  BY <1>2, <1>3

LEMMA OverlappedFacts ==
  ASSUME SplitInv, taken < Len(base_segments)
  PROVE  /\ Overlapped \in Seq(Chars) /\ Stripped(Overlapped)
         /\ Range(Segment) \subseteq Range(Overlapped)
<1>1. /\ current \in Seq(Chars) /\ Segment \in Seq(Chars) /\ Stripped(Segment)
      /\ chunk_overlap \in Nat
  BY SegmentFacts DEF SplitInv, TypeInv, SplitTypeOK
<1> DEFINE from == Max({1, Len(current) - chunk_overlap + 1})
           end  == SubSeq(current, from, Len(current))
           overlap_text == Strip(end)
<1>2. from \in Int /\ from >= 1
  <2>1. 1 \in Int /\ Len(current) - chunk_overlap + 1 \in Int
    BY <1>1
  <2> QED  BY <2>1, OfTwo
<1> HIDE DEF from
<1>3. end \in Seq(Chars)
  <2>1. Len(current) \in Int /\ \A i \in from..Len(current) : current[i] \in Chars
    BY <1>1, <1>2
  <2> QED  BY <1>2, <2>1, SubSeqProperties
<1> HIDE DEF end
<1>4. overlap_text \in Seq(Chars) /\ (overlap_text # <<>> => Stripped(overlap_text))
  BY <1>3, StripFacts
<1>5. OverlapText(current) = overlap_text
  BY DEF OverlapText, end, from
<1> HIDE DEF overlap_text
<1>6. CASE overlap_text = <<>>
  BY <1>1, <1>5, <1>6 DEF Overlapped
<1>7. CASE overlap_text # <<>>
  <2>1. <<Newline>> \in Seq(Chars)
    BY CharsAssumption
  <2> QED  BY <1>1, <1>4, <1>5, <1>7, <2>1, ConcatStripped DEF Overlapped
<1> QED
  BY <1>6, <1>7

\* A text that begins a chunk is the current one, or ahead of the cut as a whole.
LEMMA StartFacts ==
  ASSUME TypeInv, cleaned = <<>>, UNCHANGED chunk_size,
         NEW text \in Seq(Chars), Stripped(text), StartChunk(text)
  PROVE  /\ current' \in Seq(Chars) /\ cleaned' \in Seq(Chars) /\ start' \in Nat
         /\ IF cleaned' = <<>> THEN start' = 0 ELSE start' < Len(cleaned') /\ current' = <<>>
         /\ current' # <<>> => Len(current') <= chunk_size /\ Stripped(current')
         /\ Range(text) \subseteq Range(current') \cup Uncut'
<1>1. start = 0 /\ chunk_size \in Nat
  BY DEF TypeInv, SplitTypeOK
<1>2. CASE Len(text) > chunk_size
  <2>1. current' = <<>> /\ cleaned' = text /\ start' = 0
    BY <1>2 DEF StartChunk
  <2>2. Range(text) \subseteq Uncut'
    BY <2>1 DEF Range, Uncut
  <2> QED  BY <1>1, <1>2, <2>1, <2>2
<1>3. CASE Len(text) <= chunk_size
  <2>1. current' = text /\ cleaned' = <<>> /\ start' = 0
    BY <1>1, <1>3 DEF StartChunk
  <2> QED  BY <1>1, <1>3, <2>1
<1> QED
  BY <1>1, <1>2, <1>3

LEMMA TakeKeeps ==
  ASSUME SplitInv, TakeSegment
  PROVE  SplitInv'
<1>1. /\ TypeInv /\ cleaned = <<>> /\ start = 0 /\ taken \in Nat
      /\ taken < Len(base_segments) /\ taken' = taken + 1
      /\ UNCHANGED <<chunk_size, chunk_overlap, base_segments>>
      /\ Segment \in Seq(Chars) /\ Stripped(Segment) /\ Segment = base_segments[taken + 1]
      /\ chunk_size \in Nat /\ base_segments \in Seq(Seq(Chars))
  BY SegmentFacts DEF SplitInv, TypeInv, SplitTypeOK, TakeSegment, Segment
<1> DEFINE Good ==
      /\ chunks' \in Seq(Seq(Chars)) /\ \A i \in DOMAIN chunks' : Fits(chunks'[i])
      /\ current' \in Seq(Chars) /\ cleaned' \in Seq(Chars) /\ start' \in Nat
      /\ IF cleaned' = <<>> THEN start' = 0 ELSE start' < Len(cleaned') /\ current' = <<>>
      /\ current' # <<>> => Fits(current')
      /\ Contents(chunks) \cup Range(current) \cup Range(Segment)
           \subseteq Contents(chunks') \cup Range(current') \cup Uncut'
<1>2. Good
  <2>1. ASSUME NEW text \in Seq(Chars), Stripped(text), Range(Segment) \subseteq Range(text),
               chunks' = Closed, StartChunk(text)
        PROVE  Good
    <3>1. /\ current' \in Seq(Chars) /\ cleaned' \in Seq(Chars) /\ start' \in Nat
          /\ IF cleaned' = <<>> THEN start' = 0 ELSE start' < Len(cleaned') /\ current' = <<>>
          /\ current' # <<>> => Fits(current')
          /\ Range(text) \subseteq Range(current') \cup Uncut'
      BY <1>1, <2>1, StartFacts DEF Fits
    <3> QED  BY <2>1, <3>1, ClosedFacts
  <2>2. CASE Len(Segment) > chunk_size /\ chunks' = Closed /\ StartChunk(Segment)
    BY <1>1, <2>1, <2>2
  <2>3. CASE Len(Joined) <= chunk_size /\ current' = Joined /\ UNCHANGED <<chunks, cleaned, start>>
    <3>1. /\ chunks \in Seq(Seq(Chars)) /\ \A i \in DOMAIN chunks : Fits(chunks[i])
      BY DEF SplitInv, TypeInv, SplitTypeOK, ChunksFit, Fits
    <3>2. Fits(Joined) /\ Joined \in Seq(Chars)
          /\ Range(current) \cup Range(Segment) \subseteq Range(Joined)
      BY <1>1, <2>3, JoinedFacts DEF Fits
    <3> QED  BY <1>1, <2>3, <3>1, <3>2
  <2>4. CASE chunks' = Closed /\ StartChunk(Overlapped)
    BY <1>1, <2>1, <2>4, OverlappedFacts
  <2> QED
    BY <2>2, <2>3, <2>4 DEF TakeSegment
<1>3. TypeInv'
  <2>1. taken' \in 0..Len(base_segments')
    BY <1>1
  <2> QED  BY <1>1, <1>2, <2>1 DEF TypeInv, SplitTypeOK
<1>4. ChunksFit' /\ (current' # <<>> => Fits(current)')
  BY <1>1, <1>2 DEF ChunksFit, Fits
<1>5. Kept'
  <2>1. ASSUME NEW j \in 1..taken'
        PROVE  Solid(base_segments[j]) \subseteq Contents(chunks') \cup Range(current') \cup Uncut'
    <3>1. CASE j = taken + 1
      BY <1>1, <1>2, <3>1 DEF Solid
    <3>2. CASE j \in 1..taken
      <4>1. Solid(base_segments[j]) \subseteq Contents(chunks) \cup Range(current) \cup Uncut
        BY <3>2 DEF SplitInv, Kept
      <4>2. Uncut = {}
        BY <1>1 DEF Uncut
      <4> QED  BY <1>2, <4>1, <4>2
    <3> QED  BY <1>1, <3>1, <3>2
  <2>2. Kept' <=> \A j \in 1..taken' :
                   Solid(base_segments[j])
                     \subseteq Contents(chunks') \cup Range(current') \cup Uncut'
    BY <1>1 DEF Kept, Contents, Solid
  <2> QED  BY <2>1, <2>2
<1> QED
  BY <1>3, <1>4, <1>5 DEF SplitInv

LEMMA CloseKeeps ==
  ASSUME SplitInv, CloseLast
  PROVE  SplitInv'
<1>1. /\ TypeInv /\ cleaned = <<>> /\ cleaned' = <<>> /\ current' = <<>> /\ chunks' = Closed
      /\ UNCHANGED <<chunk_size, chunk_overlap, base_segments, taken, start>>
  BY DEF SplitInv, CloseLast
<1>2. /\ chunks' \in Seq(Seq(Chars)) /\ \A i \in DOMAIN chunks' : Fits(chunks'[i])
      /\ Contents(chunks') = Contents(chunks) \cup Range(current)
  BY <1>1, ClosedFacts
<1>3. TypeInv'
  BY <1>1, <1>2 DEF TypeInv, SplitTypeOK
<1>4. ChunksFit'
  BY <1>1, <1>2 DEF ChunksFit, Fits
<1>5. Kept'
  <2>1. ASSUME NEW j \in 1..taken
        PROVE  Solid(base_segments[j]) \subseteq Contents(chunks') \cup Range(current') \cup Uncut'
    <3>1. Solid(base_segments[j]) \subseteq Contents(chunks) \cup Range(current) \cup Uncut
      BY DEF SplitInv, Kept
    <3>2. Uncut' = Uncut
      BY <1>1 DEF Uncut
    <3> QED  BY <1>2, <3>1, <3>2
  <2>2. Kept' <=> \A j \in 1..taken :
                   Solid(base_segments[j])
                     \subseteq Contents(chunks') \cup Range(current') \cup Uncut'
    BY <1>1 DEF Kept, Contents, Solid
  <2> QED  BY <2>1, <2>2
<1> QED
  BY <1>1, <1>3, <1>4, <1>5 DEF SplitInv

----------------------------------------------------------------------------
(* The theorems.                                                           *)

\* Segments, chunks, cut and limits fit together at every step of the two functions.
THEOREM SplitInvariant == Spec => []SplitInv
<1>1. SplitInv /\ UNCHANGED vars => SplitInv'
  BY DEF SplitInv, TypeInv, SplitTypeOK, ChunksFit, Kept, Fits, Uncut, Contents, Solid, vars
<1>2. SplitInv /\ [Next]_vars => SplitInv'
  BY <1>1, CutKeeps, TakeKeeps, CloseKeeps DEF Next
<1> QED
  BY InitEstablishes, <1>2, PTL DEF Spec

\* Every variable keeps its type, and nothing is packed while a segment is cut.
THEOREM SplitTypeCorrect == Spec => []SplitTypeOK
<1>1. SplitInv => SplitTypeOK
  BY DEF SplitInv, TypeInv
<1> QED
  BY <1>1, SplitInvariant, PTL

\* Whatever the document and the limits, every character of a segment that is not blank
\* is in a chunk at the end.
THEOREM NoTextIsLost == Spec => []TextIsKept
<1>1. SplitInv => TextIsKept
  <2> SUFFICES ASSUME SplitInv, IsDone, NEW i \in DOMAIN base_segments
               PROVE  Solid(base_segments[i]) \subseteq InChunks
    BY DEF TextIsKept
  <2>1. i \in 1..taken /\ current = <<>> /\ cleaned = <<>> /\ start = 0
    BY DEF IsDone, SplitInv, TypeInv, SplitTypeOK
  <2>2. Uncut = {} /\ Range(current) = {}
    BY <2>1, EmptyRange DEF Uncut
  <2> QED
    BY <2>1, <2>2 DEF SplitInv, Kept, Contents, InChunks
<1> QED
  BY <1>1, SplitInvariant, PTL

\* No chunk is longer than its limit, empty, or blank at an end.
THEOREM EveryChunkFits == Spec => []ChunksFit
<1>1. SplitInv => ChunksFit
  BY DEF SplitInv
<1> QED
  BY <1>1, SplitInvariant, PTL

\* With an overlap that is no larger than the shortest piece, no piece of a segment ends
\* where the one before it did, or earlier.
THEOREM EveryPieceAdvances == Spec => PiecesAdvance
<1> DEFINE Advance ==
      cleaned # <<>> /\ cleaned' # <<>> /\ chunk_overlap <= MinBreak + 1
        => PieceEnd' > PieceEnd
<1>1. SplitInv /\ SplitInv' /\ [Next]_vars => [Advance]_vars
  <2> SUFFICES ASSUME SplitInv, SplitInv', Next, cleaned # <<>>, cleaned' # <<>>,
                      chunk_overlap <= MinBreak + 1
               PROVE  PieceEnd' > PieceEnd
    OBVIOUS
  <2>1. CutPiece
    BY DEF Next, TakeSegment, CloseLast
  <2>2. /\ start' = Resume /\ cleaned' = cleaned /\ PieceEnd < Len(cleaned)
        /\ chunk_size' = chunk_size
    BY <2>1 DEF CutPiece
  <2>3. /\ TypeInv /\ TypeInv' /\ MinBreak \in Nat /\ MinBreak' = MinBreak
        /\ chunk_size \in Nat /\ chunk_overlap \in Nat /\ 2 * chunk_overlap <= chunk_size
        /\ chunk_size > 0
    <3>1. TypeInv /\ TypeInv'
      BY DEF SplitInv
    <3>2. MinBreak \in Nat
      BY <3>1, MinBreakType
    <3>3. MinBreak' = MinBreak
      BY <2>2 DEF MinBreak
    <3>4. /\ chunk_size \in Nat /\ chunk_overlap \in Nat /\ 2 * chunk_overlap <= chunk_size
          /\ chunk_size > 0
      BY <3>1, LimitsAssumption DEF TypeInv, SplitTypeOK
    <3> QED  BY <3>1, <3>2, <3>3, <3>4
  <2>4. /\ PieceEnd \in Int /\ Resume \in Int /\ Resume >= PieceEnd - chunk_overlap
    BY <2>3, PieceEndFacts, ResumeFacts DEF TypeInv, SplitTypeOK
  <2>5. /\ PieceEnd' \in Int
        /\ \/ PieceEnd' = Len(cleaned')
           \/ PieceEnd' = start' + chunk_size'
           \/ PieceEnd' >= EarliestBreak'
    <3>1. (TypeInv /\ cleaned # <<>> =>
            /\ PieceEnd \in start + 1 .. Len(cleaned)
            /\ \/ PieceEnd = Len(cleaned)
               \/ PieceEnd = start + chunk_size
               \/ PieceEnd >= EarliestBreak)'
      BY PieceEndFacts, PTL
    <3> QED  BY <2>3, <3>1
  <2>6. EarliestBreak' = Resume + MinBreak + 2
    BY <2>2, <2>3 DEF EarliestBreak
  <2> HIDE DEF Advance
  <2> QED
    BY <2>2, <2>3, <2>4, <2>5, <2>6
<1> QED
  BY <1>1, SplitInvariant, PTL DEF Spec, PiecesAdvance
=============================================================================

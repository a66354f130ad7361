-------------------------- MODULE EdictPipelineProofs --------------------------
(***************************************************************************)
(* Theorems of EdictPipeline, for every list of stages, every size of the   *)
(* window and of the pieces, and texts of any length: phases are reported  *)
(* in the order in which they were announced, none is late for longer than *)
(* the window, and each is logged once.                                    *)
(***************************************************************************)
EXTENDS EdictPipeline, SequenceTheorems, WellFoundedInduction, TLAPS

\* Where the window begins in the text.
WindowStart(units) == IF Len(units) > WindowSize THEN Len(units) - WindowSize + 1 ELSE 1

\* A marker, unit by unit.
IsMarker(units, i, s) ==
  /\ i \in Nat /\ 1 <= i /\ i + MarkerLength - 1 <= Len(units)
  /\ \A k \in 1..MarkerLength : units[i + k - 1] = <<s, k>>

\* The place of a stage in the list: the smaller, the more it is preferred.
Rank(s) == CHOOSE n \in DOMAIN Stages :
  Stages[n] = s /\ \A m \in DOMAIN Stages : Stages[m] = s => n <= m

\* The markers of a text; those that begin in the window.
MarkersIn(units) == UNION {MarkersAt(units, s) : s \in Stage}
StageIn(units, i) == units[i][1]
InWindow(units, i) == i \in MarkersIn(units) /\ WindowStart(units) <= i

----------------------------------------------------------------------------
(* The inductive invariant.                                                *)

Shape ==
  /\ text \in Seq(Unit) /\ phases \in Seq(Stage) /\ log \in Seq(Stage)
  /\ pc \in {"streaming", "ended", "failed"}
  /\ window = SubSeq(text, WindowStart(text), Len(text))
  /\ last_stage = IF phases = <<>> THEN None ELSE phases[Len(phases)]

\* Each phase has a marker of its own; what stands before the last of these markers and
\* is still in the window is not preferred to it.
OrderedBy(at, units, reported) ==
  /\ at \in [1..Len(reported) -> MarkersIn(units)]
  /\ \A n \in 1..Len(reported) : StageIn(units, at[n]) = reported[n]
  /\ \A n, m \in 1..Len(reported) : n < m => at[n] < at[m]
  /\ reported # <<>> =>
       \A j : InWindow(units, j) /\ j <= at[Len(reported)] =>
         Rank(reported[Len(reported)]) <= Rank(StageIn(units, j))
Ordered == \E at : OrderedBy(at, text, phases)

\* The report is noticed however dense the markers before it are.
ReportNoticed ==
  (PiecesFit /\ Markers # {} /\ StageAt(Max(Markers)) = "completed")
    => last_stage = "completed"

EndShown == pc = "ended" => taskPhase = FinalPhase

EdictInv ==
  /\ Shape /\ Ordered /\ StageIsCurrent /\ ReportNoticed /\ EndShown /\ LogFollowsPhases

----------------------------------------------------------------------------
(* Sets of numbers, sizes, ranks.                                          *)

\* A set of naturals that is not empty has a least element.
LEMMA LeastExists ==
  ASSUME NEW S, S \subseteq Nat, S # {}
  PROVE  \E m \in S : \A n \in S : m <= n
<1>1. PICK m \in S : \A n \in S : ~ (<<n, m>> \in OpToRel(<, Nat))
  BY NatLessThanWellFounded, WFMin
<1>2. ASSUME NEW n \in S  PROVE m <= n
  <2>1. m \in Nat /\ n \in Nat
    OBVIOUS
  <2>2. (n < m) => <<n, m>> \in OpToRel(<, Nat)
    BY <2>1 DEF OpToRel
  <2>3. ~(n < m)
    BY <1>1, <2>2
  <2> QED  BY <2>1, <2>3
<1> QED  BY <1>2

\* A bounded set of positive naturals that is not empty has a greatest element.
LEMMA GreatestExists ==
  ASSUME NEW n \in Nat, NEW S, S \subseteq 1..n, S # {}
  PROVE  \E m \in S : \A k \in S : k <= m
<1> DEFINE D == {n - k : k \in S}
<1>0. \A k \in S : k \in Int /\ 1 <= k /\ k <= n
  OBVIOUS
<1>1. \A k \in S : n - k \in Nat
  BY <1>0
<1>2. D \subseteq Nat /\ D # {}
  BY <1>1
<1>3. PICK d \in D : \A e \in D : d <= e
  BY <1>2, LeastExists
<1>4. PICK m \in S : d = n - m
  OBVIOUS
<1>5. ASSUME NEW k \in S  PROVE k <= m
  <2>1. n - k \in D
    OBVIOUS
  <2>2. n - m <= n - k
    BY <1>3, <1>4, <2>1
  <2> HIDE DEF D
  <2> QED  BY <2>2, <1>0
<1> QED  BY <1>5

LEMMA MaxIs ==
  ASSUME NEW S, S \subseteq Int, NEW m \in S, \A n \in S : n <= m
  PROVE  Max(S) = m
<1>1. PICK a \in S : a = Max(S) /\ \A n \in S : a >= n
  BY DEF Max
<1>2. a \in Int /\ m \in Int
  OBVIOUS
<1>3. a = m
  BY <1>1, <1>2
<1> QED  BY <1>1, <1>3

LEMMA MinIs ==
  ASSUME NEW S, S \subseteq Int, NEW m \in S, \A n \in S : m <= n
  PROVE  Min(S) = m
<1>1. PICK a \in S : a = Min(S) /\ \A n \in S : a <= n
  BY DEF Min
<1>2. a \in Int /\ m \in Int
  OBVIOUS
<1>3. a = m
  BY <1>1, <1>2
<1> QED  BY <1>1, <1>3

LEMMA Sizes ==
  /\ MarkerLength \in Nat /\ WindowSize \in Nat /\ MaxDelta \in Nat
  /\ 1 <= MarkerLength /\ MarkerLength <= WindowSize /\ 1 <= MaxDelta
BY SizesAssumption

\* A stage has a rank, which no other stage has; the report is preferred to all.
LEMMA Ranks ==
  ASSUME NEW s \in Stage
  PROVE  /\ Rank(s) \in DOMAIN Stages /\ Rank(s) \in Nat /\ 1 <= Rank(s)
         /\ Stages[Rank(s)] = s
         /\ \A m \in DOMAIN Stages : Stages[m] = s => Rank(s) <= m
<1> DEFINE S == {n \in DOMAIN Stages : Stages[n] = s}
<1>1. DOMAIN Stages = 1..Len(Stages) /\ Len(Stages) \in Nat
  BY StagesAssumption, LenProperties
<1>2. S \subseteq Nat /\ S # {}
  BY <1>1 DEF Stage, Range
<1>3. \E m \in S : \A n \in S : m <= n
  BY <1>2, LeastExists
<1>4. \E n \in DOMAIN Stages : Stages[n] = s /\ \A m \in DOMAIN Stages : Stages[m] = s => n <= m
  BY <1>3
<1> QED  BY <1>1, <1>4 DEF Rank

LEMMA ReportRank == "completed" \in Stage /\ Rank("completed") = 1
<1>1. DOMAIN Stages = 1..Len(Stages) /\ Len(Stages) \in Nat /\ Len(Stages) # 0
  BY StagesAssumption, LenProperties, EmptySeq
<1>2. 1 \in DOMAIN Stages
  BY <1>1
<1>3. "completed" \in Stage
  BY <1>2, StagesAssumption DEF Stage, Range
<1> QED  BY <1>2, <1>3, Ranks, StagesAssumption

----------------------------------------------------------------------------
(* Windows and markers.                                                    *)

LEMMA WindowStartType ==
  ASSUME NEW units \in Seq(Unit)
  PROVE  /\ WindowStart(units) \in Nat /\ 1 <= WindowStart(units)
         /\ WindowStart(units) <= Len(units) + 1 /\ Len(units) \in Nat
         /\ Len(units) - WindowStart(units) + 1 <= WindowSize
BY Sizes, LenProperties DEF WindowStart

\* The window is the last WindowSize units, or all.
LEMMA WindowIs ==
  ASSUME NEW units \in Seq(Unit)
  PROVE  Window(units) = SubSeq(units, WindowStart(units), Len(units))
<1>1. Len(units) \in Nat
  BY LenProperties
<1>2. Max({1, Len(units) - WindowSize + 1}) = WindowStart(units)
  <2>1. WindowStart(units) \in {1, Len(units) - WindowSize + 1}
    BY DEF WindowStart
  <2>2. \A n \in {1, Len(units) - WindowSize + 1} : n <= WindowStart(units)
    BY <1>1, Sizes DEF WindowStart
  <2>3. {1, Len(units) - WindowSize + 1} \subseteq Int
    BY <1>1, Sizes
  <2> QED  BY <2>1, <2>2, <2>3, MaxIs
<1> QED  BY <1>2 DEF Window

LEMMA WindowUnits ==
  ASSUME NEW units \in Seq(Unit)
  PROVE  /\ Window(units) \in Seq(Unit)
         /\ Len(Window(units)) = Len(units) - WindowStart(units) + 1
         /\ \A k \in 1..(Len(units) - WindowStart(units) + 1) :
              Window(units)[k] = units[WindowStart(units) + k - 1]
<1> DEFINE w == WindowStart(units)
<1>1. w \in Nat /\ 1 <= w /\ w <= Len(units) + 1 /\ Len(units) \in Nat
  BY WindowStartType
<1>2. \A i \in w..Len(units) : units[i] \in Unit
  BY <1>1, ElementOfSeq
<1>3. w \in 1..(Len(units) + 1)
  BY <1>1
<1> HIDE DEF w
<1>4. /\ SubSeq(units, w, Len(units)) \in Seq(Unit)
      /\ Len(SubSeq(units, w, Len(units))) = IF w <= Len(units) THEN Len(units) - w + 1 ELSE 0
      /\ \A i \in 1..(Len(units) - w + 1) :
           SubSeq(units, w, Len(units))[i] = units[w + i - 1]
  BY <1>1, <1>2, <1>3, SubSeqProperties
<1>5. Window(units) = SubSeq(units, w, Len(units))
  BY WindowIs DEF w
<1>6. Len(Window(units)) = Len(units) - w + 1
  BY <1>1, <1>4, <1>5
<1> QED  BY <1>4, <1>5, <1>6 DEF w

LEMMA MarkersAre ==
  ASSUME NEW units \in Seq(Unit), NEW s, NEW i
  PROVE  i \in MarkersAt(units, s) <=> IsMarker(units, i, s)
<1>0. Len(units) \in Nat
  BY LenProperties
<1>1. SUFFICES ASSUME i \in Nat, 1 <= i, i + MarkerLength - 1 <= Len(units)
               PROVE  SubSeq(units, i, i + MarkerLength - 1) = Marker(s)
                        <=> \A k \in 1..MarkerLength : units[i + k - 1] = <<s, k>>
  <2>1. i \in 1..(Len(units) - MarkerLength + 1)
          <=> i \in Nat /\ 1 <= i /\ i + MarkerLength - 1 <= Len(units)
    BY <1>0, Sizes
  <2>2. i \in MarkersAt(units, s)
          <=> /\ i \in 1..(Len(units) - MarkerLength + 1)
              /\ SubSeq(units, i, i + MarkerLength - 1) = Marker(s)
    BY DEF MarkersAt
  <2> QED  BY <2>1, <2>2, Zenon DEF IsMarker
<1> DEFINE part == SubSeq(units, i, i + MarkerLength - 1)
<1>2. /\ part \in Seq(Unit)
      /\ Len(part) = MarkerLength
      /\ \A k \in 1..MarkerLength : part[k] = units[i + k - 1]
  <2>1. \A j \in i..(i + MarkerLength - 1) : units[j] \in Unit
    BY <1>0, <1>1, Sizes, ElementOfSeq
  <2>2. i \in Int /\ i + MarkerLength - 1 \in Int /\ i <= i + MarkerLength - 1
        /\ (i + MarkerLength - 1) - i + 1 = MarkerLength
    BY <1>1, Sizes
  <2>3. /\ part \in Seq(Unit)
        /\ Len(part) = IF i <= i + MarkerLength - 1
                       THEN (i + MarkerLength - 1) - i + 1 ELSE 0
        /\ \A k \in 1..((i + MarkerLength - 1) - i + 1) : part[k] = units[i + k - 1]
    BY <2>1, <2>2, SubSeqProperties
  <2> QED  BY <2>2, <2>3
<1>3. part = [k \in 1..MarkerLength |-> part[k]]
  <2>1. DOMAIN part = 1..MarkerLength /\ part \in [1..MarkerLength -> Unit]
    BY <1>2, LenProperties
  <2> QED  BY <2>1
<1> HIDE DEF part
<1>4. (part = Marker(s)) <=> (\A k \in 1..MarkerLength : part[k] = <<s, k>>)
  BY <1>3 DEF Marker
<1> QED  BY <1>2, <1>4 DEF part

\* A marker of the text begins with its stage.
LEMMA MarkerStage ==
  ASSUME NEW units \in Seq(Unit), NEW i \in MarkersIn(units)
  PROVE  /\ i \in Nat /\ 1 <= i /\ i + MarkerLength - 1 <= Len(units)
         /\ StageIn(units, i) \in Stage /\ IsMarker(units, i, StageIn(units, i))
<1>1. PICK s \in Stage : i \in MarkersAt(units, s)
  BY DEF MarkersIn
<1>2. IsMarker(units, i, s)
  BY <1>1, MarkersAre
<1>3. units[i] = <<s, 1>>
  <2>1. 1 \in 1..MarkerLength /\ i + 1 - 1 = i
    BY <1>2, Sizes DEF IsMarker
  <2>2. units[i + 1 - 1] = <<s, 1>>
    BY <1>2, <2>1 DEF IsMarker
  <2> QED  BY <2>1, <2>2
<1>4. StageIn(units, i) = s
  BY <1>3 DEF StageIn
<1> QED  BY <1>2, <1>4 DEF IsMarker

LEMMA IsAMarker ==
  ASSUME NEW units \in Seq(Unit), NEW s \in Stage, NEW i, IsMarker(units, i, s)
  PROVE  i \in MarkersIn(units) /\ StageIn(units, i) = s
<1>1. i \in MarkersAt(units, s)
  BY MarkersAre
<1>2. i \in MarkersIn(units)
  BY <1>1 DEF MarkersIn
<1>3. 1 \in 1..MarkerLength /\ i + 1 - 1 = i
  BY Sizes DEF IsMarker
<1>4. units[i + 1 - 1] = <<s, 1>>
  BY <1>3 DEF IsMarker
<1> QED  BY <1>2, <1>3, <1>4 DEF StageIn

\* The markers of the window are those of the text that begin in it.
LEMMA MarkersOfWindow ==
  ASSUME NEW units \in Seq(Unit), NEW s \in Stage, NEW i \in Nat
  PROVE  IsMarker(Window(units), i, s)
           <=> 1 <= i /\ IsMarker(units, WindowStart(units) + i - 1, s)
<1>1. PICK w : w = WindowStart(units)
  OBVIOUS
<1>2. w \in Nat /\ 1 <= w /\ w <= Len(units) + 1 /\ Len(units) \in Nat
  BY <1>1, WindowStartType
<1>3. /\ Len(Window(units)) = Len(units) - w + 1
      /\ \A k \in 1..(Len(units) - w + 1) : Window(units)[k] = units[w + k - 1]
  BY <1>1, WindowUnits
<1>4. SUFFICES ASSUME 1 <= i, i + MarkerLength - 1 <= Len(units) - w + 1
               PROVE  (\A k \in 1..MarkerLength : Window(units)[i + k - 1] = <<s, k>>)
                        <=> \A k \in 1..MarkerLength : units[(w + i - 1) + k - 1] = <<s, k>>
  <2>1. IsMarker(Window(units), i, s)
          <=> /\ 1 <= i /\ i + MarkerLength - 1 <= Len(units) - w + 1
              /\ \A k \in 1..MarkerLength : Window(units)[i + k - 1] = <<s, k>>
    BY <1>3, Zenon DEF IsMarker
  <2>2. 1 <= i => (/\ w + i - 1 \in Nat /\ 1 <= w + i - 1
                   /\ ((w + i - 1) + MarkerLength - 1 <= Len(units)
                         <=> i + MarkerLength - 1 <= Len(units) - w + 1))
    BY <1>2, Sizes
  <2>3. 1 <= i => (IsMarker(units, w + i - 1, s)
          <=> /\ i + MarkerLength - 1 <= Len(units) - w + 1
              /\ \A k \in 1..MarkerLength : units[(w + i - 1) + k - 1] = <<s, k>>)
    BY <2>2, Zenon DEF IsMarker
  <2> QED  BY <1>1, <2>1, <2>3, Zenon
<1>5. ASSUME NEW k \in 1..MarkerLength
      PROVE  Window(units)[i + k - 1] = units[(w + i - 1) + k - 1]
  <2>1. i + k - 1 \in 1..(Len(units) - w + 1) /\ w + (i + k - 1) - 1 = (w + i - 1) + k - 1
    BY <1>2, <1>4, Sizes
  <2>2. Window(units)[i + k - 1] = units[w + (i + k - 1) - 1]
    BY <1>3, <2>1
  <2> QED  BY <2>1, <2>2
<1> QED  BY <1>5

\* What is detected in the window: the most preferred stage of its markers.
LEMMA Detects ==
  ASSUME NEW units \in Seq(Unit), NEW d, d = detect_pipeline_stage(Window(units))
  PROVE  /\ d # None => d \in Stage /\ \E i : InWindow(units, i) /\ StageIn(units, i) = d
         /\ \A j : InWindow(units, j) => d # None /\ Rank(d) <= Rank(StageIn(units, j))
<1> DEFINE F == Found(Window(units))
<1>1. DOMAIN Stages \subseteq Nat /\ \A n \in DOMAIN Stages : Stages[n] \in Stage
  BY StagesAssumption, LenProperties DEF Stage, Range
<1>2. PICK w : w = WindowStart(units)
  OBVIOUS
<1>3. w \in Nat /\ 1 <= w /\ w <= Len(units) + 1 /\ Len(units) \in Nat
  BY <1>2, WindowStartType
<1>4. Window(units) \in Seq(Unit)
  BY WindowUnits
\* A stage of the list that is found has a marker in the window, and conversely.
<1>5. ASSUME NEW n \in F
      PROVE  /\ n \in DOMAIN Stages
             /\ \E i : InWindow(units, i) /\ StageIn(units, i) = Stages[n]
  <2>1. n \in DOMAIN Stages /\ MarkersAt(Window(units), Stages[n]) # {}
    BY DEF Found
  <2>2. PICK k : IsMarker(Window(units), k, Stages[n])
    BY <1>4, <2>1, MarkersAre
  <2>3. k \in Nat /\ Stages[n] \in Stage
    BY <1>1, <2>1, <2>2 DEF IsMarker
  <2>4. 1 <= k /\ IsMarker(units, w + k - 1, Stages[n])
    BY <1>2, <2>2, <2>3, MarkersOfWindow
  <2>5. w + k - 1 \in MarkersIn(units) /\ StageIn(units, w + k - 1) = Stages[n]
    BY <2>3, <2>4, IsAMarker
  <2>6. w <= w + k - 1
    BY <1>3, <2>3, <2>4
  <2> QED  BY <1>2, <2>1, <2>5, <2>6 DEF InWindow
<1>6. ASSUME NEW j, InWindow(units, j)
      PROVE  StageIn(units, j) \in Stage /\ Rank(StageIn(units, j)) \in F
  <2>1. /\ j \in Nat /\ StageIn(units, j) \in Stage /\ IsMarker(units, j, StageIn(units, j))
        /\ w <= j
    BY <1>2, <1>6, MarkerStage DEF InWindow
  <2>2. j - w + 1 \in Nat /\ 1 <= j - w + 1 /\ w + (j - w + 1) - 1 = j
    BY <1>3, <2>1
  <2>3. IsMarker(Window(units), j - w + 1, StageIn(units, j))
    BY <1>2, <2>1, <2>2, MarkersOfWindow
  <2>4. j - w + 1 \in MarkersAt(Window(units), StageIn(units, j))
    BY <1>4, <2>3, MarkersAre
  <2> QED  BY <2>1, <2>4, Ranks DEF Found
<1> HIDE DEF F
<1>7. CASE F = {}
  <2>1. d = None
    BY <1>7 DEF F, detect_pipeline_stage
  <2> QED  BY <1>6, <1>7, <2>1
<1>8. CASE F # {}
  <2>1. F \subseteq Nat /\ F \subseteq Int
    BY <1>1, <1>5
  <2>2. PICK m \in F : \A n \in F : m <= n
    BY <1>8, <2>1, LeastExists
  <2>3. Min(F) = m
    BY <2>1, <2>2, MinIs
  <2>4. d = Stages[m]
    BY <1>8, <2>3 DEF F, detect_pipeline_stage
  <2>5. m \in DOMAIN Stages /\ d \in Stage /\ d # None
    BY <1>1, <1>5, <2>2, <2>4, StagesAssumption
  <2>6. Rank(d) <= m
    BY <2>4, <2>5, Ranks
  <2>7. ASSUME NEW j, InWindow(units, j)  PROVE Rank(d) <= Rank(StageIn(units, j))
    <3>1. m <= Rank(StageIn(units, j))
      BY <1>6, <2>2, <2>7
    <3>2. Rank(d) \in Nat /\ m \in Nat /\ Rank(StageIn(units, j)) \in Nat
      BY <1>6, <2>1, <2>2, <2>5, <2>7, Ranks
    <3> QED  BY <2>6, <3>1, <3>2
  <2> QED  BY <1>5, <2>2, <2>4, <2>5, <2>7
<1> QED  BY <1>7, <1>8

\* The window of what is received depends on the window before only.
LEMMA WindowMoves ==
  ASSUME NEW units \in Seq(Unit), NEW delta \in Seq(Unit)
  PROVE  Window(Window(units) \o delta) = Window(units \o delta)
<1>1. PICK a \in Seq(Unit) : a = Window(units)
  BY WindowUnits
<1>2. PICK b \in Seq(Unit) : b = a \o delta
  BY ConcatProperties
<1>3. PICK all \in Seq(Unit) : all = units \o delta
  BY ConcatProperties
<1>4. PICK w, v, u : w = WindowStart(units) /\ v = WindowStart(b) /\ u = WindowStart(all)
  OBVIOUS
<1>5. /\ Len(units) \in Nat /\ Len(delta) \in Nat
      /\ Len(a) = Len(units) - w + 1
      /\ Len(b) = Len(a) + Len(delta) /\ Len(all) = Len(units) + Len(delta)
  BY <1>1, <1>2, <1>3, <1>4, WindowUnits, ConcatProperties, LenProperties
<1>6. /\ w \in Nat /\ 1 <= w /\ w <= Len(units) + 1
      /\ v \in Nat /\ 1 <= v /\ v <= Len(b) + 1
      /\ u \in Nat /\ 1 <= u /\ u <= Len(all) + 1
  BY <1>4, WindowStartType
<1>7. u = w + v - 1
  <2>1. /\ w = IF Len(units) > WindowSize THEN Len(units) - WindowSize + 1 ELSE 1
        /\ v = IF Len(b) > WindowSize THEN Len(b) - WindowSize + 1 ELSE 1
        /\ u = IF Len(all) > WindowSize THEN Len(all) - WindowSize + 1 ELSE 1
    BY <1>4 DEF WindowStart
  <2>2. CASE Len(units) > WindowSize
    <3>1. w = Len(units) - WindowSize + 1 /\ Len(a) = WindowSize
      BY <1>5, <2>1, <2>2, Sizes
    <3>2. Len(all) > WindowSize /\ u = Len(units) + Len(delta) - WindowSize + 1
      BY <1>5, <2>1, <2>2, Sizes
    <3>3. v = Len(delta) + 1
      BY <1>5, <2>1, <3>1, Sizes
    <3> QED  BY <1>5, <3>1, <3>2, <3>3, Sizes
  <2>3. CASE ~(Len(units) > WindowSize)
    <3>1. w = 1 /\ Len(b) = Len(all)
      BY <1>5, <2>1, <2>3, Sizes
    <3> QED  BY <1>6, <2>1, <3>1
  <2> QED  BY <2>2, <2>3
<1>8. /\ Window(b) \in Seq(Unit) /\ Len(Window(b)) = Len(b) - v + 1
      /\ \A k \in 1..(Len(b) - v + 1) : Window(b)[k] = b[v + k - 1]
  BY <1>4, WindowUnits
<1>9. /\ Window(all) \in Seq(Unit) /\ Len(Window(all)) = Len(all) - u + 1
      /\ \A k \in 1..(Len(all) - u + 1) : Window(all)[k] = all[u + k - 1]
  BY <1>4, WindowUnits
<1>10. Len(b) - v + 1 = Len(all) - u + 1
  BY <1>5, <1>6, <1>7
<1>11. ASSUME NEW k \in 1..(Len(b) - v + 1)  PROVE b[v + k - 1] = all[u + k - 1]
  <2>1. PICK x, y : x = v + k - 1 /\ y = u + k - 1
    OBVIOUS
  <2>2. /\ x \in 1..(Len(a) + Len(delta)) /\ y = w + x - 1
        /\ y \in 1..(Len(units) + Len(delta))
    BY <1>5, <1>6, <1>7, <2>1
  <2>3. b[x] = IF x <= Len(a) THEN a[x] ELSE delta[x - Len(a)]
    BY <1>2, <2>2, ConcatProperties
  <2>4. all[y] = IF y <= Len(units) THEN units[y] ELSE delta[y - Len(units)]
    BY <1>3, <2>2, ConcatProperties
  <2>5. CASE x <= Len(a)
    <3>1. x \in 1..(Len(units) - w + 1) /\ y <= Len(units)
      BY <1>5, <1>6, <2>2, <2>5
    <3>2. a[x] = units[w + x - 1]
      BY <1>1, <1>4, <3>1, WindowUnits
    <3> QED  BY <2>1, <2>2, <2>3, <2>4, <2>5, <3>1, <3>2
  <2>6. CASE ~(x <= Len(a))
    <3>1. ~(y <= Len(units)) /\ y - Len(units) = x - Len(a)
      BY <1>5, <1>6, <2>2, <2>6
    <3> QED  BY <2>1, <2>3, <2>4, <2>6, <3>1
  <2> QED  BY <2>5, <2>6
<1>12. Window(b) = Window(all)
  <2>1. \A k \in 1..Len(Window(b)) : Window(b)[k] = Window(all)[k]
    BY <1>8, <1>9, <1>10, <1>11
  <2>2. Len(Window(b)) = Len(Window(all))
    BY <1>8, <1>9, <1>10
  <2> QED  BY <1>8, <1>9, <2>1, <2>2, SeqEqual
<1> QED  BY <1>1, <1>2, <1>3, <1>12

\* What a piece adds: the markers that were complete stay, the new ones end in the piece,
\* and the window moves on by no more than the piece.
LEMMA TextGrows ==
  ASSUME NEW units \in Seq(Unit), NEW delta \in Seq(Unit),
         NEW all \in Seq(Unit), all = units \o delta
  PROVE  /\ Len(all) = Len(units) + Len(delta) /\ Len(units) \in Nat /\ Len(delta) \in Nat
         /\ \A i \in MarkersIn(units) :
              i \in MarkersIn(all) /\ StageIn(all, i) = StageIn(units, i)
         /\ \A i \in MarkersIn(all) :
              i + MarkerLength - 1 <= Len(units) => i \in MarkersIn(units)
         /\ WindowStart(units) <= WindowStart(all)
<1>1. /\ Len(all) = Len(units) + Len(delta) /\ Len(units) \in Nat /\ Len(delta) \in Nat
      /\ \A i \in 1..Len(units) : all[i] = units[i]
  <2>1. \A i \in 1..(Len(units) + Len(delta)) :
          all[i] = IF i <= Len(units) THEN units[i] ELSE delta[i - Len(units)]
    BY ConcatProperties
  <2>2. Len(all) = Len(units) + Len(delta) /\ Len(units) \in Nat /\ Len(delta) \in Nat
    BY ConcatProperties, LenProperties
  <2> QED  BY <2>1, <2>2
<1>2. ASSUME NEW i, NEW s, i + MarkerLength - 1 <= Len(units)
      PROVE  IsMarker(units, i, s) <=> IsMarker(all, i, s)
  <2>1. CASE i \in Nat /\ 1 <= i
    <3>1. \A k \in 1..MarkerLength : all[i + k - 1] = units[i + k - 1]
      <4>1. \A k \in 1..MarkerLength : i + k - 1 \in 1..Len(units)
        BY <1>1, <1>2, <2>1, Sizes
      <4> QED  BY <1>1, <4>1
    <3>2. i + MarkerLength - 1 <= Len(all)
      BY <1>1, <1>2, <2>1, Sizes
    <3>3. (\A k \in 1..MarkerLength : units[i + k - 1] = <<s, k>>)
            <=> (\A k \in 1..MarkerLength : all[i + k - 1] = <<s, k>>)
      BY <3>1
    <3> QED  BY <1>2, <2>1, <3>2, <3>3, Zenon DEF IsMarker
  <2>2. CASE ~(i \in Nat /\ 1 <= i)
    BY <2>2, Zenon DEF IsMarker
  <2> QED  BY <2>1, <2>2
<1>3. ASSUME NEW i \in MarkersIn(units)
      PROVE  i \in MarkersIn(all) /\ StageIn(all, i) = StageIn(units, i)
  <2>1. /\ i + MarkerLength - 1 <= Len(units) /\ StageIn(units, i) \in Stage
        /\ IsMarker(units, i, StageIn(units, i))
    BY MarkerStage
  <2>2. IsMarker(all, i, StageIn(units, i))
    BY <1>2, <2>1
  <2> QED  BY <2>1, <2>2, IsAMarker
<1>4. ASSUME NEW i \in MarkersIn(all), i + MarkerLength - 1 <= Len(units)
      PROVE  i \in MarkersIn(units)
  <2>1. StageIn(all, i) \in Stage /\ IsMarker(all, i, StageIn(all, i))
    BY MarkerStage
  <2>2. IsMarker(units, i, StageIn(all, i))
    BY <1>2, <1>4, <2>1
  <2> QED  BY <2>1, <2>2, IsAMarker
<1>5. WindowStart(units) <= WindowStart(all)
  BY <1>1, Sizes DEF WindowStart
<1> QED  BY <1>1, <1>3, <1>4, <1>5

\* The last marker of a text that has one.
LEMMA LastMarker ==
  ASSUME NEW units \in Seq(Unit), MarkersIn(units) # {}
  PROVE  /\ Max(MarkersIn(units)) \in MarkersIn(units)
         /\ \A i \in MarkersIn(units) : i <= Max(MarkersIn(units))
<1>1. Len(units) \in Nat
  BY LenProperties
<1>2. MarkersIn(units) \subseteq 1..Len(units) /\ MarkersIn(units) \subseteq Int
  <2>1. \A i \in MarkersIn(units) : i \in Nat /\ 1 <= i /\ i + MarkerLength - 1 <= Len(units)
    BY MarkerStage
  <2> QED  BY <1>1, <2>1, Sizes
<1>3. PICK m \in MarkersIn(units) : \A i \in MarkersIn(units) : i <= m
  BY <1>1, <1>2, GreatestExists
<1>4. Max(MarkersIn(units)) = m
  BY <1>2, <1>3, MaxIs
<1> QED  BY <1>3, <1>4

\* All but the last of a sequence.
LEMMA FrontIs ==
  ASSUME NEW S, NEW s \in Seq(S), s # <<>>
  PROVE  /\ Front(s) \in Seq(S) /\ Len(Front(s)) = Len(s) - 1 /\ s[Len(s)] \in S
         /\ \A i \in 1..(Len(s) - 1) : Front(s)[i] = s[i]
         /\ Append(Front(s), s[Len(s)]) = s
<1>1. Len(s) \in Nat /\ 1 <= Len(s) /\ \A i \in 1..(Len(s) - 1) : s[i] \in S
  BY LenProperties, EmptySeq, ElementOfSeq
<1>2. PICK n : n = Len(s) - 1
  OBVIOUS
<1>7. n \in Nat /\ n + 1 = Len(s)
  BY <1>1, <1>2
<1>3. Front(s) \in Seq(S) /\ Len(Front(s)) = n /\ \A i \in 1..n : Front(s)[i] = s[i]
  <2>1. Front(s) = SubSeq(s, 1, n)
    BY <1>2 DEF Front
  <2>2. /\ SubSeq(s, 1, n) \in Seq(S)
        /\ Len(SubSeq(s, 1, n)) = IF 1 <= n THEN n - 1 + 1 ELSE 0
        /\ \A i \in 1..(n - 1 + 1) : SubSeq(s, 1, n)[i] = s[1 + i - 1]
    BY <1>1, <1>2, <1>7, SubSeqProperties
  <2>3. (IF 1 <= n THEN n - 1 + 1 ELSE 0) = n /\ \A i \in 1..n : i \in 1..(n - 1 + 1) /\ 1 + i - 1 = i
    BY <1>7
  <2> QED  BY <2>1, <2>2, <2>3
<1>4. s[Len(s)] \in S
  BY <1>1, ElementOfSeq
<1>5. PICK f \in Seq(S), x \in S : f = Front(s) /\ x = s[Len(s)]
  BY <1>3, <1>4
<1>6. Append(f, x) = s
  <2>1. /\ Append(f, x) \in Seq(S) /\ Len(Append(f, x)) = Len(f) + 1
        /\ \A i \in 1..Len(f) : Append(f, x)[i] = f[i]
        /\ Append(f, x)[Len(f) + 1] = x
    BY AppendProperties
  <2>2. Len(Append(f, x)) = Len(s) /\ Len(f) + 1 = Len(s)
    BY <1>1, <1>3, <1>5, <1>7, <2>1
  <2>3. \A i \in 1..Len(s) : Append(f, x)[i] = s[i]
    BY <1>1, <1>3, <1>5, <1>7, <2>1, <2>2
  <2> QED  BY <2>1, <2>2, <2>3, SeqEqual
<1> QED  BY <1>2, <1>3, <1>4, <1>5, <1>6

LEMMA FrontOfAppend ==
  ASSUME NEW S, NEW s \in Seq(S), NEW x \in S
  PROVE  Append(s, x) # <<>> /\ Front(Append(s, x)) = s
<1>1. PICK a \in Seq(S) : a = Append(s, x)
  BY AppendProperties
<1>2. Len(a) = Len(s) + 1 /\ Len(s) \in Nat /\ \A i \in 1..Len(s) : a[i] = s[i]
  BY <1>1, AppendProperties, LenProperties
<1>3. a # <<>>
  BY <1>2, EmptySeq
<1>4. Front(a) \in Seq(S) /\ Len(Front(a)) = Len(s) /\ \A i \in 1..Len(s) : Front(a)[i] = s[i]
  <2>1. /\ Front(a) \in Seq(S) /\ Len(Front(a)) = Len(a) - 1
        /\ \A i \in 1..(Len(a) - 1) : Front(a)[i] = a[i]
    BY <1>3, FrontIs
  <2>2. Len(a) - 1 = Len(s)
    BY <1>2
  <2> QED  BY <1>2, <2>1, <2>2
<1>5. Front(a) = s
  BY <1>4, SeqEqual
<1> QED  BY <1>1, <1>3, <1>5

----------------------------------------------------------------------------
(* A piece arrives.                                                        *)

\* The new text, and the stage detected in its window.
Arrives(delta, all, stage) ==
  /\ delta \in Seq(Unit) /\ Len(delta) <= MaxDelta
  /\ all \in Seq(Unit) /\ all = text \o delta
  /\ text' = all /\ window' = Window(all) /\ stage = detect_pipeline_stage(Window(all))
  /\ last_stage' = IF New(stage) THEN stage ELSE last_stage
  /\ phases' = IF New(stage) THEN Append(phases, stage) ELSE phases
  /\ log' = IF New(stage) THEN Flushed(last_stage) ELSE log
  /\ pc = "streaming" /\ pc' = pc

LEMMA PieceArrives ==
  ASSUME Shape, NEW delta \in Deltas, Delta(delta)
  PROVE  \E all, stage : Arrives(delta, all, stage)
<1>1. PICK n \in 1..MaxDelta : delta \in [1..n -> Unit]
  BY DEF Deltas
<1>2. n \in Nat /\ n <= MaxDelta
  BY <1>1, Sizes
<1>3. delta \in Seq(Unit) /\ Len(delta) = n
  BY <1>1, <1>2
<1>4. PICK all \in Seq(Unit) : all = text \o delta
  BY <1>3, ConcatProperties DEF Shape
<1>5. window' = Window(all)
  <2>1. window = Window(text)
    BY WindowIs DEF Shape
  <2>2. window' = Window(window \o delta)
    BY DEF Delta
  <2> QED  BY <1>3, <1>4, <2>1, <2>2, WindowMoves DEF Shape
<1>6. PICK stage : stage = detect_pipeline_stage(Window(all))
  OBVIOUS
<1>7. text' = all
  BY <1>4 DEF Delta
<1>8. /\ last_stage' = IF New(stage) THEN stage ELSE last_stage
      /\ phases' = IF New(stage) THEN Append(phases, stage) ELSE phases
      /\ log' = IF New(stage) THEN Flushed(last_stage) ELSE log
      /\ pc = "streaming" /\ pc' = pc
  <2>1. stage = detect_pipeline_stage(window')
    BY <1>5, <1>6
  <2> QED  BY <2>1 DEF Delta
<1>9. Arrives(delta, all, stage)
  BY <1>2, <1>3, <1>4, <1>5, <1>6, <1>7, <1>8 DEF Arrives
<1> QED  BY <1>9

\* The types of a step; what is new is a stage that has a marker in the window.
LEMMA ArrivesFacts ==
  ASSUME Shape, NEW delta, NEW all, NEW stage, Arrives(delta, all, stage)
  PROVE  /\ New(stage) => /\ stage \in Stage /\ stage # None /\ stage # last_stage
                          /\ phases' = Append(phases, stage) /\ last_stage' = stage
                          /\ phases' \in Seq(Stage) /\ Len(phases') = Len(phases) + 1
                          /\ phases'[Len(phases) + 1] = stage
                          /\ \A n \in 1..Len(phases) : phases'[n] = phases[n]
         /\ ~New(stage) => /\ phases' = phases /\ last_stage' = last_stage
                           /\ stage = None \/ stage = last_stage
         /\ Len(phases) \in Nat
<1>1. phases \in Seq(Stage) /\ Len(phases) \in Nat
  BY LenProperties DEF Shape
<1>2. CASE New(stage)
  <2>1. stage # None /\ stage # last_stage /\ stage \in Stage
    BY <1>2, Detects DEF New, Arrives
  <2> QED  BY <1>1, <1>2, <2>1, AppendProperties DEF Arrives
<1>3. CASE ~New(stage)
  BY <1>1, <1>3 DEF New, Arrives
<1> QED  BY <1>2, <1>3

\* How the markers of the text have changed.
LEMMA ArrivesGrows ==
  ASSUME Shape, NEW delta, NEW all, NEW stage, Arrives(delta, all, stage)
  PROVE  /\ \A i \in MarkersIn(text) :
              i \in MarkersIn(all) /\ StageIn(all, i) = StageIn(text, i)
         /\ \A i \in MarkersIn(all) :
              i + MarkerLength - 1 <= Len(text) => i \in MarkersIn(text)
         /\ WindowStart(text) <= WindowStart(all)
         /\ WindowStart(text) \in Nat /\ WindowStart(all) \in Nat
<1>1. delta \in Seq(Unit) /\ all \in Seq(Unit) /\ all = text \o delta
  BY DEF Arrives
<1>2. text \in Seq(Unit)
  BY DEF Shape
<1>3. WindowStart(text) \in Nat /\ WindowStart(all) \in Nat
  BY <1>1, <1>2, WindowStartType, Zenon
<1> QED  BY <1>1, <1>2, <1>3, TextGrows, Zenon

LEMMA DeltaKeepsShape ==
  ASSUME Shape, NEW delta, NEW all, NEW stage, Arrives(delta, all, stage)
  PROVE  Shape'
<1>1. text' \in Seq(Unit) /\ window' = SubSeq(text', WindowStart(text'), Len(text'))
  BY WindowIs DEF Arrives
<1>2. pc' \in {"streaming", "ended", "failed"}
  BY DEF Shape, Arrives
<1>3. CASE New(stage)
  <2>1. phases' \in Seq(Stage) /\ phases' # <<>> /\ last_stage' = phases'[Len(phases')]
    BY <1>3, ArrivesFacts, EmptySeq
  <2>2. log' \in Seq(Stage)
    <3>1. log' = IF last_stage = None THEN log ELSE Append(log, last_stage)
      BY <1>3 DEF Arrives, Flushed
    <3>2. last_stage = None \/ last_stage \in Stage
      BY EmptySeq, ElementOfSeq, LenProperties DEF Shape
    <3> QED  BY <3>1, <3>2, AppendProperties DEF Shape
  <2> QED  BY <1>1, <1>2, <2>1, <2>2 DEF Shape
<1>4. CASE ~New(stage)
  <2>1. phases' = phases /\ last_stage' = last_stage /\ log' = log
    BY <1>4, ArrivesFacts DEF Arrives
  <2> QED  BY <1>1, <1>2, <2>1 DEF Shape
<1> QED  BY <1>3, <1>4

\* What is logged is what was reported, but the last.
LEMMA DeltaKeepsLog ==
  ASSUME Shape, LogFollowsPhases, NEW delta, NEW all, NEW stage, Arrives(delta, all, stage)
  PROVE  LogFollowsPhases'
<1>1. phases \in Seq(Stage) /\ Len(phases) \in Nat /\ pc # "ended" /\ pc' # "ended"
  BY LenProperties DEF Shape, Arrives
<1>2. CASE New(stage)
  <2>1. phases' = Append(phases, stage) /\ phases' # <<>> /\ stage \in Stage
    BY <1>1, <1>2, ArrivesFacts, EmptySeq
  <2>2. Front(phases') = phases
    BY <1>1, <2>1, FrontOfAppend
  <2>3. log' = IF last_stage = None THEN log ELSE Append(log, last_stage)
    BY <1>2 DEF Arrives, Flushed
  <2>4. log' = phases
    <3>1. CASE phases = <<>>
      BY <1>1, <2>3, <3>1 DEF Shape, LogFollowsPhases
    <3>2. CASE phases # <<>>
      <4>1. last_stage = phases[Len(phases)] /\ log = Front(phases)
        BY <1>1, <3>2 DEF Shape, LogFollowsPhases
      <4>2. last_stage \in Stage /\ Append(log, last_stage) = phases
        BY <1>1, <3>2, <4>1, FrontIs
      <4>3. last_stage # None
        BY <4>2, StagesAssumption
      <4> QED  BY <2>3, <4>2, <4>3
    <3> QED  BY <3>1, <3>2
  <2> QED  BY <1>1, <2>1, <2>2, <2>4 DEF LogFollowsPhases
<1>3. CASE ~New(stage)
  <2>1. phases' = phases /\ log' = log
    BY <1>3, ArrivesFacts DEF Arrives
  <2> QED  BY <1>1, <2>1 DEF LogFollowsPhases
<1> QED  BY <1>2, <1>3

\* A new phase gets a marker behind those of the phases before: one of the window, and
\* had it been there before, it would have been preferred.
LEMMA DeltaKeepsOrder ==
  ASSUME Shape, Ordered, NEW delta, NEW all, NEW stage, Arrives(delta, all, stage)
  PROVE  Ordered'
<1>1. PICK at : OrderedBy(at, text, phases)
  BY DEF Ordered
<1>2. PICK l : l = Len(phases)
  OBVIOUS
<1>3. l \in Nat /\ phases \in Seq(Stage) /\ text \in Seq(Unit) /\ (phases # <<>> => l >= 1)
  BY <1>2, LenProperties, EmptySeq DEF Shape
<1>4. /\ at \in [1..l -> MarkersIn(text)]
      /\ \A n \in 1..l : StageIn(text, at[n]) = phases[n]
      /\ \A n, m \in 1..l : n < m => at[n] < at[m]
      /\ phases # <<>> =>
           \A j : InWindow(text, j) /\ j <= at[l] => Rank(phases[l]) <= Rank(StageIn(text, j))
  BY <1>1, <1>2 DEF OrderedBy
<1>5. /\ \A i \in MarkersIn(text) :
           i \in MarkersIn(all) /\ StageIn(all, i) = StageIn(text, i)
      /\ \A i \in MarkersIn(all) :
           i + MarkerLength - 1 <= Len(text) => i \in MarkersIn(text)
      /\ WindowStart(text) <= WindowStart(all)
      /\ WindowStart(text) \in Nat /\ WindowStart(all) \in Nat
  BY ArrivesGrows
\* What stands before a marker that was complete was complete.
<1>6. ASSUME NEW j, InWindow(all, j), NEW p \in MarkersIn(text), j <= p
      PROVE  InWindow(text, j) /\ StageIn(all, j) = StageIn(text, j)
  <2>1. p \in Nat /\ p + MarkerLength - 1 <= Len(text) /\ Len(text) \in Nat
    BY <1>3, MarkerStage, LenProperties
  <2>2. j \in MarkersIn(all) /\ j \in Nat /\ WindowStart(all) <= j
    BY <1>6, MarkerStage DEF InWindow, Arrives
  <2>3. j + MarkerLength - 1 <= Len(text)
    BY <1>6, <2>1, <2>2, Sizes
  <2>4. j \in MarkersIn(text) /\ WindowStart(text) <= j
    BY <1>5, <2>2, <2>3
  <2> QED  BY <1>5, <2>4 DEF InWindow
<1>7. CASE ~New(stage)
  <2>1. phases' = phases /\ text' = all
    BY <1>7, ArrivesFacts DEF Arrives
  <2>2. OrderedBy(at, all, phases)
    <3>1. at \in [1..l -> MarkersIn(all)] /\ \A n \in 1..l : StageIn(all, at[n]) = phases[n]
      BY <1>4, <1>5
    <3>2. ASSUME phases # <<>>, NEW j, InWindow(all, j), j <= at[l]
          PROVE  Rank(phases[l]) <= Rank(StageIn(all, j))
      <4>1. at[l] \in MarkersIn(text)
        BY <1>3, <1>4, <3>2
      <4>2. InWindow(text, j) /\ StageIn(all, j) = StageIn(text, j)
        BY <1>6, <3>2, <4>1
      <4> QED  BY <1>4, <3>2, <4>2
    <3> QED  BY <1>2, <1>4, <3>1, <3>2 DEF OrderedBy
  <2> QED  BY <2>1, <2>2 DEF Ordered
<1>8. CASE New(stage)
  <2>1. /\ stage \in Stage /\ stage # None /\ stage # last_stage
        /\ Len(phases') = l + 1 /\ phases'[l + 1] = stage
        /\ \A n \in 1..l : phases'[n] = phases[n]
    BY <1>2, <1>8, ArrivesFacts
  <2>2. PICK i : InWindow(all, i) /\ StageIn(all, i) = stage
    BY <2>1, Detects DEF Arrives
  <2>3. \A j : InWindow(all, j) => Rank(stage) <= Rank(StageIn(all, j))
    BY Detects DEF Arrives
  <2>4. i \in MarkersIn(all) /\ i \in Nat
    BY <2>2, MarkerStage DEF InWindow, Arrives
  <2>5. ASSUME phases # <<>>  PROVE at[l] \in Nat /\ at[l] < i
    <3>1. at[l] \in MarkersIn(text) /\ StageIn(text, at[l]) = phases[l]
      BY <1>3, <1>4, <2>5
    <3>2. at[l] \in Nat /\ phases[l] \in Stage
      BY <1>3, <3>1, MarkerStage
    <3>3. SUFFICES ASSUME i <= at[l]  PROVE FALSE
      BY <2>4, <3>2
    <3>4. Rank(phases[l]) <= Rank(stage)
      <4>1. InWindow(text, i) /\ StageIn(text, i) = stage
        BY <1>6, <2>2, <3>1, <3>3
      <4> QED  BY <1>4, <2>5, <3>3, <4>1
    <3>5. Rank(stage) <= Rank(phases[l])
      <4>1. at[l] \in MarkersIn(all) /\ StageIn(all, at[l]) = phases[l]
        BY <1>5, <3>1
      <4>2. WindowStart(all) <= at[l]
        BY <1>5, <2>2, <2>4, <3>2, <3>3 DEF InWindow
      <4>3. InWindow(all, at[l])
        BY <4>1, <4>2 DEF InWindow
      <4> QED  BY <2>3, <4>1, <4>3
    <3>6. phases[l] = stage
      BY <2>1, <3>2, <3>4, <3>5, Ranks
    <3> QED  BY <1>2, <2>1, <2>5, <3>6 DEF Shape
  <2> DEFINE at2 == [n \in 1..(l + 1) |-> IF n = l + 1 THEN i ELSE at[n]]
  <2>6. at2 \in [1..(l + 1) -> MarkersIn(all)]
    <3>1. \A n \in 1..(l + 1) : n # l + 1 => at[n] \in MarkersIn(all)
      <4>1. \A n \in 1..(l + 1) : n # l + 1 => n \in 1..l
        BY <1>3
      <4> QED  BY <1>4, <1>5, <4>1
    <3> QED  BY <2>4, <3>1
  <2>7. \A n \in 1..(l + 1) : StageIn(all, at2[n]) = phases'[n]
    BY <1>3, <1>4, <1>5, <2>1, <2>2
  <2>8. \A n, m \in 1..(l + 1) : n < m => at2[n] < at2[m]
    <3>1. SUFFICES ASSUME NEW n \in 1..(l + 1), NEW m \in 1..(l + 1), n < m
                   PROVE  at2[n] < at2[m]
      OBVIOUS
    <3>2. n \in 1..l /\ at2[n] = at[n]
      BY <1>3, <3>1
    <3>3. CASE m = l + 1
      <4>1. l \in 1..l /\ phases # <<>>
        BY <1>2, <1>3, <3>2, EmptySeq
      <4>2. at[n] = at[l] \/ at[n] < at[l]
        BY <1>3, <1>4, <3>2, <4>1
      <4>3. at[n] \in Nat /\ at[l] \in Nat /\ at[l] < i
        BY <1>3, <1>4, <2>5, <3>2, <4>1, MarkerStage
      <4>4. at2[m] = i
        BY <3>1, <3>3
      <4>5. at[n] < i
        BY <2>4, <4>2, <4>3
      <4> QED  BY <3>2, <4>4, <4>5
    <3>4. CASE m # l + 1
      <4>1. m \in 1..l /\ at2[m] = at[m]
        BY <1>3, <3>4
      <4> QED  BY <1>4, <3>1, <3>2, <4>1
    <3> QED  BY <3>3, <3>4
  <2>9. at2[l + 1] = i
    BY <1>3
  <2> HIDE DEF at2
  <2>10. OrderedBy(at2, all, phases')
    BY <2>1, <2>3, <2>6, <2>7, <2>8, <2>9 DEF OrderedBy
  <2> QED  BY <2>10 DEF Ordered, Arrives
<1> QED  BY <1>7, <1>8

----------------------------------------------------------------------------
(* The last marker.                                                        *)

LastIn(units) == Max(MarkersIn(units))

\* If the last marker has left the window, nothing came behind it: what was complete is
\* the same as before.
LEMMA LeftBehind ==
  ASSUME Shape, PiecesFit, NEW delta, NEW all, NEW stage, Arrives(delta, all, stage),
         MarkersIn(all) # {}, LastIn(all) < WindowStart(all)
  PROVE  /\ MarkersIn(text) = MarkersIn(all) /\ stage = None
         /\ \A i \in MarkersIn(all) : StageIn(all, i) = StageIn(text, i)
<1>1. /\ all \in Seq(Unit) /\ delta \in Seq(Unit) /\ text \in Seq(Unit)
      /\ all = text \o delta /\ Len(delta) <= MaxDelta
  BY DEF Arrives, Shape
<1>2. /\ Len(all) = Len(text) + Len(delta) /\ Len(text) \in Nat /\ Len(delta) \in Nat
      /\ \A i \in MarkersIn(text) :
           i \in MarkersIn(all) /\ StageIn(all, i) = StageIn(text, i)
      /\ \A i \in MarkersIn(all) :
           i + MarkerLength - 1 <= Len(text) => i \in MarkersIn(text)
  <2>1. Len(all) = Len(text) + Len(delta) /\ Len(text) \in Nat /\ Len(delta) \in Nat
    BY <1>1, TextGrows, Zenon
  <2> QED  BY <2>1, ArrivesGrows
<1>3. ASSUME NEW i \in MarkersIn(all)
      PROVE  /\ i \in Nat /\ 1 <= i /\ i <= LastIn(all) /\ LastIn(all) \in Nat
             /\ i < WindowStart(all)
  <2>1. LastIn(all) \in MarkersIn(all) /\ i <= LastIn(all)
    BY <1>1, LastMarker DEF LastIn
  <2>2. i \in Nat /\ 1 <= i /\ LastIn(all) \in Nat
    BY <1>1, <2>1, MarkerStage
  <2>3. WindowStart(all) \in Nat
    BY <1>1, WindowStartType
  <2>4. PICK last, start : last = LastIn(all) /\ start = WindowStart(all)
    OBVIOUS
  <2>5. i < start
    BY <2>1, <2>2, <2>3, <2>4
  <2> QED  BY <2>1, <2>2, <2>4, <2>5
<1>4. ASSUME NEW i \in MarkersIn(all)  PROVE i \in MarkersIn(text)
  <2>1. i \in Nat /\ 1 <= i /\ i < WindowStart(all)
    BY <1>3
  <2>2. WindowStart(all) = Len(all) - WindowSize + 1
    BY <1>2, <2>1, Sizes DEF WindowStart
  <2>3. i + MarkerLength - 1 <= Len(text)
    BY <1>1, <1>2, <2>1, <2>2, Sizes DEF PiecesFit
  <2> QED  BY <1>2, <2>3
<1>5. stage = None
  <2>1. stage # None => \E i : InWindow(all, i)
    BY <1>1, Detects DEF Arrives
  <2>2. \A i : ~InWindow(all, i)
    <3>1. \A i \in MarkersIn(all) : ~(WindowStart(all) <= i)
      <4>1. WindowStart(all) \in Nat
        BY <1>1, WindowStartType
      <4> QED  BY <1>3, <4>1
    <3> QED  BY <3>1 DEF InWindow
  <2> QED  BY <2>1, <2>2
<1> QED  BY <1>2, <1>4, <1>5

\* What one finds alone in the window, or as the report, is what is detected.
LEMMA DeltaKeepsCurrent ==
  ASSUME Shape, StageIsCurrent, NEW delta, NEW all, NEW stage, Arrives(delta, all, stage)
  PROVE  StageIsCurrent'
<1>1. /\ all \in Seq(Unit) /\ text \in Seq(Unit) /\ text' = all
      /\ delta \in Seq(Unit) /\ Len(delta) <= MaxDelta
      /\ Len(all) = Len(text) + Len(delta) /\ Len(text) \in Nat /\ Len(delta) \in Nat
  BY TextGrows DEF Arrives, Shape
<1>2. SUFFICES ASSUME PiecesFit, MarkersIn(all) # {},
                 \A i \in MarkersIn(all) \ {LastIn(all)} :
                   LastIn(all) - i >= MaxDelta /\ Len(all) >= i + WindowSize
               PROVE  last_stage' = StageIn(all, LastIn(all))
  BY <1>1, Zenon DEF StageIsCurrent, Markers, MarkersIn, StageAt, StageIn, LastIn
<1>3. /\ LastIn(all) \in MarkersIn(all) /\ LastIn(all) \in Nat
      /\ \A i \in MarkersIn(all) : i \in Nat
  BY <1>1, <1>2, LastMarker, MarkerStage DEF LastIn
<1>4. WindowStart(all) \in Nat
  BY <1>1, WindowStartType
<1>5. CASE WindowStart(all) <= LastIn(all)
  <2>1. InWindow(all, LastIn(all))
    BY <1>3, <1>5 DEF InWindow
  <2>2. ASSUME NEW i, InWindow(all, i)  PROVE i = LastIn(all)
    <3>1. i \in MarkersIn(all) /\ i \in Nat /\ WindowStart(all) <= i
      BY <1>3, <2>2 DEF InWindow
    <3>2. SUFFICES ASSUME i # LastIn(all)  PROVE FALSE
      OBVIOUS
    <3>3. Len(all) >= i + WindowSize
      BY <1>2, <3>1, <3>2
    <3> QED  BY <1>1, <3>1, <3>3, Sizes DEF WindowStart
  <2>3. stage # None /\ stage = StageIn(all, LastIn(all))
    BY <1>1, <2>1, <2>2, Detects DEF Arrives
  <2> QED  BY <2>3, ArrivesFacts
<1>6. CASE LastIn(all) < WindowStart(all)
  <2>1. /\ MarkersIn(text) = MarkersIn(all) /\ stage = None
        /\ \A i \in MarkersIn(all) : StageIn(all, i) = StageIn(text, i)
    BY <1>2, <1>6, LeftBehind
  <2>2. LastIn(text) = LastIn(all)
    BY <2>1 DEF LastIn
  <2>3. ASSUME NEW i \in MarkersIn(text) \ {LastIn(text)}
        PROVE  LastIn(text) - i >= MaxDelta /\ Len(text) >= i + WindowSize
    <3>1. i \in Nat /\ LastIn(all) - i >= MaxDelta
      BY <1>2, <1>3, <2>1, <2>2
    <3>2. LastIn(all) + WindowSize <= Len(all)
      <4>1. 1 <= LastIn(all) /\ Len(all) \in Nat
        BY <1>1, <1>3, MarkerStage
      <4>2. WindowStart(all) = Len(all) - WindowSize + 1
        BY <1>3, <1>6, <4>1, Sizes DEF WindowStart
      <4> QED  BY <1>3, <1>6, <4>1, <4>2, Sizes
    <3>3. Len(text) >= i + WindowSize
      BY <1>1, <1>3, <3>1, <3>2, Sizes
    <3> QED  BY <2>2, <3>1, <3>3
  <2>4. last_stage = StageIn(text, LastIn(text))
    <3>1. (PiecesFit /\ MarkersIn(text) # {}) =>
            ((\A i \in MarkersIn(text) \ {LastIn(text)} :
                LastIn(text) - i >= MaxDelta /\ Len(text) >= i + WindowSize)
               => last_stage = StageIn(text, LastIn(text)))
      BY Zenon DEF StageIsCurrent, Markers, MarkersIn, StageAt, StageIn, LastIn
    <3> QED  BY <1>2, <2>1, <2>3, <3>1
  <2>5. last_stage' = last_stage
    BY <2>1, ArrivesFacts DEF New
  <2> QED  BY <1>3, <2>1, <2>2, <2>4, <2>5
<1> QED  BY <1>3, <1>4, <1>5, <1>6

LEMMA DeltaKeepsReport ==
  ASSUME Shape, ReportNoticed, NEW delta, NEW all, NEW stage, Arrives(delta, all, stage)
  PROVE  ReportNoticed'
<1>1. all \in Seq(Unit) /\ text' = all
  BY DEF Arrives
<1>2. SUFFICES ASSUME PiecesFit, MarkersIn(all) # {},
                      StageIn(all, LastIn(all)) = "completed"
               PROVE  last_stage' = "completed"
  BY <1>1, Zenon DEF ReportNoticed, Markers, MarkersIn, StageAt, StageIn, LastIn
<1>3. LastIn(all) \in MarkersIn(all) /\ LastIn(all) \in Nat /\ WindowStart(all) \in Nat
  BY <1>1, <1>2, LastMarker, MarkerStage, WindowStartType DEF LastIn
<1>4. CASE WindowStart(all) <= LastIn(all)
  <2>1. InWindow(all, LastIn(all))
    BY <1>3, <1>4 DEF InWindow
  <2>2. stage # None /\ stage \in Stage /\ Rank(stage) <= Rank("completed")
    BY <1>1, <1>2, <2>1, Detects DEF Arrives
  <2>3. stage = "completed"
    BY <2>2, Ranks, ReportRank
  <2> QED  BY <2>2, <2>3, ArrivesFacts
<1>5. CASE LastIn(all) < WindowStart(all)
  <2>1. /\ MarkersIn(text) = MarkersIn(all) /\ stage = None
        /\ \A i \in MarkersIn(all) : StageIn(all, i) = StageIn(text, i)
    BY <1>2, <1>5, LeftBehind
  <2>2. MarkersIn(text) # {} /\ StageIn(text, LastIn(text)) = "completed"
    BY <1>2, <1>3, <2>1 DEF LastIn
  <2>3. last_stage = "completed"
    BY <1>2, <2>2, Zenon DEF ReportNoticed, Markers, MarkersIn, StageAt, StageIn, LastIn
  <2> QED  BY <2>1, <2>3, ArrivesFacts DEF New
<1> QED  BY <1>3, <1>4, <1>5

----------------------------------------------------------------------------
(* The other steps, and the theorems.                                      *)

LEMMA InitEdictInv == Init => EdictInv
<1> SUFFICES ASSUME Init  PROVE EdictInv
  OBVIOUS
<1>1. text = <<>> /\ window = <<>> /\ phases = <<>> /\ log = <<>> /\ last_stage = None
      /\ pc = "streaming"
  BY DEF Init
<1>2. <<>> \in Seq(Unit) /\ <<>> \in Seq(Stage) /\ Len(<<>>) = 0
  BY EmptySeq
<1>3. MarkersIn(text) = {}
  <2>1. \A i : i \notin MarkersIn(text)
    <3>1. SUFFICES ASSUME NEW i \in MarkersIn(text)  PROVE FALSE
      OBVIOUS
    <3>2. i \in Nat /\ 1 <= i /\ i + MarkerLength - 1 <= 0
      BY <1>1, <1>2, MarkerStage
    <3> QED  BY <3>2, Sizes
  <2> QED  BY <2>1
<1>4. Markers = {}
  BY <1>3 DEF Markers, MarkersIn
<1>5. Shape
  <2>1. WindowStart(text) = 1
    BY <1>1, <1>2, Sizes DEF WindowStart
  <2>2. window = SubSeq(text, WindowStart(text), Len(text))
    BY <1>1, <1>2, <2>1, SubSeqEmpty
  <2> QED  BY <1>1, <1>2, <2>2 DEF Shape
<1>6. Ordered
  <2> DEFINE at == [n \in 1..Len(phases) |-> n]
  <2>1. Len(phases) = 0
    BY <1>1, <1>2
  <2>2. OrderedBy(at, text, phases)
    BY <1>1, <2>1 DEF OrderedBy
  <2> QED  BY <2>2 DEF Ordered
<1>7. StageIsCurrent /\ ReportNoticed /\ EndShown
  BY <1>1, <1>4 DEF StageIsCurrent, ReportNoticed, EndShown
<1>8. LogFollowsPhases
  BY <1>1 DEF LogFollowsPhases
<1> QED  BY <1>5, <1>6, <1>7, <1>8 DEF EdictInv

LEMMA FinishKeeps == EdictInv /\ Finish => EdictInv'
<1> SUFFICES ASSUME EdictInv, Finish  PROVE EdictInv'
  OBVIOUS
<1>1. /\ Shape /\ Ordered /\ StageIsCurrent /\ ReportNoticed /\ LogFollowsPhases
      /\ UNCHANGED <<text, window, last_stage, phases>>
      /\ pc = "streaming" /\ pc' = "ended" /\ taskPhase' = FinalPhase
      /\ log' = Flushed(last_stage)
  BY DEF EdictInv, Finish
<1>2. /\ Ordered' /\ StageIsCurrent' /\ ReportNoticed' /\ EndShown'
  BY <1>1 DEF Ordered, StageIsCurrent, ReportNoticed, EndShown, FinalPhase, PiecesFit,
              Markers, StageAt
<1>3. log' = phases
  <2>1. CASE phases = <<>>
    BY <1>1, <2>1 DEF Shape, LogFollowsPhases, Flushed
  <2>2. CASE phases # <<>>
    <3>1. last_stage = phases[Len(phases)] /\ log = Front(phases)
      BY <1>1, <2>2 DEF Shape, LogFollowsPhases
    <3>2. last_stage \in Stage /\ Append(log, last_stage) = phases
      BY <1>1, <2>2, <3>1, FrontIs DEF Shape
    <3> QED  BY <1>1, <3>2, StagesAssumption DEF Flushed
  <2> QED  BY <2>1, <2>2
<1>4. Shape' /\ LogFollowsPhases'
  BY <1>1, <1>3 DEF Shape, LogFollowsPhases
<1> QED  BY <1>2, <1>4 DEF EdictInv

LEMMA FailKeeps == EdictInv /\ (Fail \/ UNCHANGED vars) => EdictInv'
<1> SUFFICES ASSUME EdictInv, Fail \/ UNCHANGED vars  PROVE EdictInv'
  OBVIOUS
<1>1. /\ UNCHANGED <<text, window, last_stage, phases, log, taskPhase>>
      /\ pc' = pc \/ (pc = "streaming" /\ pc' = "failed")
  BY DEF Fail, vars
<1>2. Ordered' /\ StageIsCurrent' /\ ReportNoticed' /\ EndShown'
  BY <1>1 DEF EdictInv, Ordered, StageIsCurrent, ReportNoticed, EndShown, FinalPhase,
              PiecesFit, Markers, StageAt
<1>3. Shape' /\ LogFollowsPhases'
  BY <1>1 DEF EdictInv, Shape, LogFollowsPhases
<1> QED  BY <1>2, <1>3 DEF EdictInv

LEMMA DeltaKeeps == ASSUME EdictInv, NEW d \in Deltas, Delta(d)  PROVE EdictInv'
<1>1. PICK all, stage : Arrives(d, all, stage)
  BY PieceArrives DEF EdictInv
<1>2. Shape' /\ Ordered' /\ StageIsCurrent' /\ ReportNoticed' /\ LogFollowsPhases'
  BY <1>1, DeltaKeepsShape, DeltaKeepsOrder, DeltaKeepsCurrent, DeltaKeepsReport,
     DeltaKeepsLog DEF EdictInv
<1>3. EndShown'
  BY <1>1 DEF EndShown, Arrives
<1> QED  BY <1>2, <1>3 DEF EdictInv

LEMMA EdictInvInductive == EdictInv /\ [Next]_vars => EdictInv'
<1> SUFFICES ASSUME EdictInv, [Next]_vars  PROVE EdictInv'
  OBVIOUS
<1>1. ASSUME NEW d \in Deltas, Delta(d)  PROVE EdictInv'
  BY <1>1, DeltaKeeps
<1>2. CASE Finish
  BY <1>2, FinishKeeps
<1>3. CASE Fail \/ UNCHANGED vars
  BY <1>3, FailKeeps
<1> QED  BY <1>1, <1>2, <1>3 DEF Next

LEMMA EdictInvariant == Spec => []EdictInv
BY InitEdictInv, EdictInvInductive, PTL DEF Spec

\* Phases are reported in the order of the markers, whatever the list prefers, however
\* the text is cut and however small the window is.
THEOREM PhasesComeInOrder == Spec => []PhasesInOrder
<1>1. EdictInv => PhasesInOrder
  <2> SUFFICES ASSUME EdictInv  PROVE PhasesInOrder
    OBVIOUS
  <2>1. PICK at : OrderedBy(at, text, phases)
    BY DEF EdictInv, Ordered
  <2>2. DOMAIN phases = 1..Len(phases) /\ Markers = MarkersIn(text)
    BY LenProperties DEF EdictInv, Shape, Markers, MarkersIn
  <2>3. /\ at \in [DOMAIN phases -> Markers]
        /\ \A n \in DOMAIN phases : StageAt(at[n]) = phases[n]
        /\ \A n, m \in DOMAIN phases : n < m => at[n] < at[m]
    BY <2>1, <2>2 DEF OrderedBy, StageAt, StageIn
  <2> QED  BY <2>3 DEF PhasesInOrder
<1> QED  BY <1>1, EdictInvariant, PTL

\* A marker that stands clear of the others is reported, at the latest when they have
\* left the window, for every window that no piece can jump over.
THEOREM NoPhaseIsLate == Spec => []StageIsCurrent
<1>1. EdictInv => StageIsCurrent
  BY DEF EdictInv
<1> QED  BY <1>1, EdictInvariant, PTL

\* A text that ends with the marker of the report is shown as completed.
THEOREM ReportIsShown == Spec => []ReportCompletes
<1>1. EdictInv => ReportCompletes
  BY DEF EdictInv, ReportNoticed, EndShown, ReportCompletes, FinalPhase
<1> QED  BY <1>1, EdictInvariant, PTL

\* The log is what was reported, without the last phase as long as it may go on and when
\* the gateway fails.
THEOREM LogIsComplete == Spec => []LogFollowsPhases
<1>1. EdictInv => LogFollowsPhases
  BY DEF EdictInv
<1> QED  BY <1>1, EdictInvariant, PTL

================================================================================

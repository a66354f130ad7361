----------------------------- MODULE EdictPipeline -----------------------------
(***************************************************************************)
(* The Edict pipeline: the gateway streams the text of a chain of agents;   *)
(* each announces itself with a marker.  The server looks for markers in    *)
(* the last characters it received, reports each new phase, and logs it     *)
(* when the next one begins (main.py, core/openclaw.py); the client looks   *)
(* for markers in each piece it shows (App.jsx).                           *)
(*                                                                         *)
(* The text is a sequence of units: plain text, or part k of the marker of  *)
(* a stage.  It arrives in pieces that begin and end anywhere.             *)
(***************************************************************************)
EXTENDS Integers, SequencesExt

CONSTANTS
  Stages,        \* in the order in which they are looked for, "completed" first
  MarkerLength,  \* the units of a marker
  WindowSize,    \* the units the server looks at
  MaxDelta,      \* the longest piece the gateway sends
  MaxLength,     \* bound: the length of the text
  None

Stage == Range(Stages)

ASSUME StagesAssumption ==
  /\ Stages \in Seq(Stage) /\ Stages # <<>> /\ Stages[1] = "completed"
  /\ "idle" \notin Stage /\ None \notin Stage
ASSUME SizesAssumption ==
  /\ {MarkerLength, WindowSize, MaxDelta, MaxLength} \subseteq Nat \ {0}
  /\ MarkerLength <= WindowSize

VARIABLES
  text,        \* what the gateway has sent
  window,      \* _detect_window
  last_stage,
  phases,      \* the phase_update events sent
  log,         \* the stages of the execution_log_entry events sent
  taskPhase,   \* what the client shows
  pc           \* the task: "streaming", "ended" or "failed"

vars == <<text, window, last_stage, phases, log, taskPhase, pc>>

Plain == <<None, 0>>
Unit == {Plain} \cup (Stage \X (1..MarkerLength))
Marker(s) == [k \in 1..MarkerLength |-> <<s, k>>]

\* The gateway writes whole markers.
Follows(unit, before) ==
  IF before[2] \in {0, MarkerLength} THEN unit[2] \in {0, 1}
  ELSE unit = <<before[1], before[2] + 1>>

Deltas ==
  LET written == IF text = <<>> THEN Plain ELSE Last(text) IN
  {d \in UNION {[1..n -> Unit] : n \in 1..MaxDelta} :
     /\ Len(text) + Len(d) <= MaxLength
     /\ \A i \in DOMAIN d : Follows(d[i], IF i = 1 THEN written ELSE d[i - 1])}

\* Where the complete markers of a text begin.
MarkersAt(units, s) ==
  {i \in 1..(Len(units) - MarkerLength + 1) :
     SubSeq(units, i, i + MarkerLength - 1) = Marker(s)}
Found(units) == {n \in DOMAIN Stages : MarkersAt(units, Stages[n]) # {}}

\* Mutant: the marker that stands last in the list wins.
detect_pipeline_stage_Last(units) ==
  IF Found(units) = {} THEN None ELSE Stages[Max(Found(units))]

\* The first of the list that is found anywhere in the text, by the server and by the
\* client.
detect_pipeline_stage(units) ==
  IF Found(units) = {} THEN None ELSE Stages[Min(Found(units))]

\* Mutant: the window keeps everything.
Window_Whole(units) == units

Window(units) == SubSeq(units, Max({1, Len(units) - WindowSize + 1}), Len(units))

Init ==
  /\ text = <<>> /\ window = <<>> /\ last_stage = None
  /\ phases = <<>> /\ log = <<>> /\ taskPhase = "idle" /\ pc = "streaming"

Flushed(stage) == IF stage = None THEN log ELSE Append(log, stage)

\* Mutant: a stage that is still in the window is new again.
New_Always(stage) == stage # None

New(stage) == stage # None /\ stage # last_stage

\* A piece arrives.  The client reads the events in the order they were sent: the new
\* phase, if there is one, and then the piece itself.
Delta(delta) ==
  /\ pc = "streaming"
  /\ text' = text \o delta
  /\ window' = Window(window \o delta)
  /\ LET stage == detect_pipeline_stage(window')
         seen == detect_pipeline_stage(delta)
     IN /\ last_stage' = IF New(stage) THEN stage ELSE last_stage
        /\ phases' = IF New(stage) THEN Append(phases, stage) ELSE phases
        /\ log' = IF New(stage) THEN Flushed(last_stage) ELSE log
        /\ taskPhase' = IF seen # None THEN seen
                        ELSE IF New(stage) THEN stage ELSE taskPhase
  /\ UNCHANGED pc

FinalPhase == IF last_stage = "completed" THEN "completed" ELSE "idle"

\* Mutant: the last stage is not logged.
Finish_NoFlush ==
  /\ pc = "streaming" /\ pc' = "ended"
  /\ taskPhase' = FinalPhase
  /\ UNCHANGED <<text, window, last_stage, phases, log>>

Finish ==
  /\ pc = "streaming" /\ pc' = "ended"
  /\ log' = Flushed(last_stage)
  /\ taskPhase' = FinalPhase
  /\ UNCHANGED <<text, window, last_stage, phases>>

\* The gateway fails or is too slow: an error event, which changes no phase.
Fail ==
  /\ pc = "streaming" /\ pc' = "failed"
  /\ UNCHANGED <<text, window, last_stage, phases, log, taskPhase>>

Next == (\E d \in Deltas : Delta(d)) \/ Finish \/ Fail

Spec == Init /\ [][Next]_vars
----------------------------------------------------------------------------
Markers == UNION {MarkersAt(text, s) : s \in Stage}
StageAt(i) == text[i][1]

\* Phases are reported in the order in which their markers were sent, each for a marker
\* of its own, although the list prefers some stages to others and a marker is found
\* again as long as it is in the window.
PhasesInOrder ==
  \E at \in [DOMAIN phases -> Markers] :
    /\ \A n \in DOMAIN phases : StageAt(at[n]) = phases[n]
    /\ \A n, m \in DOMAIN phases : n < m => at[n] < at[m]

\* How late a phase may be: if the last marker stands at least one piece behind the one
\* before, it is reported when that one has left the window, if not earlier.
PiecesFit == MaxDelta <= WindowSize - MarkerLength + 1
StageIsCurrent ==
  (PiecesFit /\ Markers # {}) =>
    LET last == Max(Markers) IN
    (\A i \in Markers \ {last} : last - i >= MaxDelta /\ Len(text) >= i + WindowSize)
      => last_stage = StageAt(last)

\* A text whose last marker is that of the report ends as completed, however dense its
\* markers are.
ReportCompletes ==
  (PiecesFit /\ pc = "ended" /\ Markers # {} /\ StageAt(Max(Markers)) = "completed")
    => taskPhase = "completed"

\* Each reported phase is logged once and in order; the last one when the text ends, and
\* not at all when the gateway fails.
LogFollowsPhases ==
  log = IF phases = <<>> \/ pc = "ended" THEN phases ELSE Front(phases)

=============================================================================

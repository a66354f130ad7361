--------------------------- MODULE CommandLanesProofs ---------------------------
(***************************************************************************)
(* Theorems of CommandLanes, for any jobs, sessions, limits, reloads and    *)
(* restarts: slots are held by whom they are counted for, no wake-up is     *)
(* lost, runs of a session exclude each other between two restarts, and a   *)
(* restart that waited cuts nothing off.                                    *)
(***************************************************************************)
EXTENDS CommandLanes, SequenceTheorems, FiniteSetTheorems, TLAPS

JOB == [phase : {"new", "queued", "preparing", "working", "registered", "returning", "settled"},
        outer : 1..2, depth : 0..3, born : [Lanes -> Nat]]
GATEWAY ==
  [phase : {"serving", "draining", "closing"}, draining : BOOLEAN,
   waiting : SUBSET (Lanes \X Jobs), tasks_drained : BOOLEAN, runs_drained : BOOLEAN,
   timed_out : BOOLEAN, restarts : Nat, reloads : Nat]

\* What Holds says of a job with the record r.
HoldsIn(j, r, l) ==
  \E d \in r.outer..r.depth : Path(j)[d] = l /\ ~(d = r.depth /\ r.phase = "queued")

\* How deep a job is in its path.
RecordOK(j, r) ==
  /\ r \in JOB /\ r.depth \in 0..Len(Path(j))
  /\ r.outer < Len(Path(j)) /\ r.depth >= r.outer - 1
  /\ r.phase = "new" => r.depth = 0
  /\ r.phase \in {"new", "settled"} => r.depth < r.outer
  /\ r.phase \in {"queued", "working", "registered", "returning"} => r.depth >= r.outer
  /\ r.phase \in {"working", "registered"} => r.depth = Len(Path(j))
  /\ r.phase = "preparing" => r.depth < Len(Path(j))

JobOK(j) == RecordOK(j, job[j]) /\ \A l \in Lanes : job[j].born[l] <= generation[l]

\* A slot is counted for a job just when the job holds it since the last reset.
SlotOK(j) ==
  \A l \in Lanes : j \in active[l] <=> HoldsIn(j, job[j], l) /\ job[j].born[l] = generation[l]

\* Who waits in a lane, waits nowhere else, and once.
QueueOK(l) ==
  /\ \A i \in 1..Len(queue[l]) : job[queue[l][i]].phase = "queued" /\ LaneOf(queue[l][i]) = l
  /\ \A i, k \in 1..Len(queue[l]) : queue[l][i] = queue[l][k] => i = k

\* The one slot of a session.
SessionOK(s) ==
  /\ maxConcurrent[SessionLane(s)] = 1
  /\ \A i, j \in active[SessionLane(s)] : i = j

\* Nobody waits, or no slot is free, or the lane is still to be drained.
Pumped(l) == \E i \in 1..Len(pumping) : pumping[i] = l
AwakeOK(l) == queue[l] = <<>> \/ Cardinality(active[l]) >= maxConcurrent[l] \/ Pumped(l)

\* A run that holds its session's lane since the last reset, and works or is about to.
Committed(j) ==
  /\ job[j].phase \in {"queued", "working", "registered"} /\ job[j].depth = Len(Path(j))
  /\ job[j].born[SessionLane(Session[j])] = generation[SessionLane(Session[j])]

\* A restart waits for every such run.
RestartOK ==
  /\ gateway.phase # "serving" => gateway.draining
  /\ gateway.phase = "draining" =>
       \A j \in Jobs : Committed(j) =>
         <<SessionLane(Session[j]), j>> \in gateway.waiting /\ ~gateway.tasks_drained
  /\ gateway.phase = "closing" /\ ~gateway.timed_out => \A j \in Jobs : ~Committed(j)

TypeInv == LanesTypeOK /\ \A l \in Lanes : IsFiniteSet(active[l])

Inv ==
  /\ TypeInv
  /\ \A j \in Jobs : JobOK(j) /\ SlotOK(j)
  /\ \A l \in Lanes : QueueOK(l) /\ AwakeOK(l)
  /\ \A s \in Sessions : SessionOK(s)
  /\ RestartOK

----------------------------------------------------------------------------
(* Lanes and paths.                                                        *)

LEMMA LaneNames ==
  /\ \A s, l : SessionLane(s) # GlobalLane(l)
  /\ \A s, t : SessionLane(s) = SessionLane(t) => s = t
  /\ \A l, m : GlobalLane(l) = GlobalLane(m) => l = m
  /\ \A s \in Sessions : SessionLane(s) \in Lanes
  /\ \A l \in CommandLane : GlobalLane(l) \in Lanes
BY DEF SessionLane, GlobalLane, Lanes

\* A path leads through two or three different lanes, the session's being the last but one.
LEMMA PathFacts ==
  ASSUME NEW j \in Jobs
  PROVE  /\ Path(j) \in Seq(Lanes) /\ Len(Path(j)) \in 2..3
         /\ \A d \in 1..Len(Path(j)) : Path(j)[d] \in Lanes
         /\ \A d, e \in 1..Len(Path(j)) : Path(j)[d] = Path(j)[e] => d = e
         /\ Path(j)[Len(Path(j)) - 1] = SessionLane(Session[j])
         /\ SessionLane(Session[j]) \in Lanes
         /\ Path(j)[Len(Path(j))] # GlobalLane("cron")
         /\ Lane[j] = "cron" => Len(Path(j)) = 3 /\ Path(j)[1] = GlobalLane("cron")
<1> DEFINE S == SessionLane(Session[j])
           G == GlobalLane(resolveGlobalLane(Lane[j]))
           C == GlobalLane("cron")
<1>1. /\ S \in Lanes /\ G \in Lanes /\ C \in Lanes /\ S # G /\ S # C /\ G # C
  BY LaneNames, JobsAssumption DEF CommandLane, resolveGlobalLane
<1>2. CASE Lane[j] = "cron"
  <2>1. Path(j) = <<C>> \o <<S, G>>
    BY <1>2 DEF Path
  <2>2. /\ <<C>> \in Seq(Lanes) /\ <<S, G>> \in Seq(Lanes) /\ Len(<<C>>) = 1 /\ Len(<<S, G>>) = 2
        /\ <<C>>[1] = C /\ <<S, G>>[1] = S /\ <<S, G>>[2] = G
    BY <1>1
  <2>3. /\ Path(j) \in Seq(Lanes) /\ Len(Path(j)) = 3
        /\ Path(j)[1] = C /\ Path(j)[2] = S /\ Path(j)[3] = G
    BY <2>1, <2>2, ConcatProperties
  <2> HIDE DEF S, G, C
  <2> QED  BY <1>1, <2>3 DEF S, C
<1>3. CASE Lane[j] # "cron"
  <2>1. Path(j) = <<S, G>>
    BY <1>3 DEF Path
  <2>2. /\ Path(j) \in Seq(Lanes) /\ Len(Path(j)) = 2 /\ Path(j)[1] = S /\ Path(j)[2] = G
    BY <1>1, <2>1
  <2> HIDE DEF S, G, C
  <2> QED  BY <1>1, <1>3, <2>2 DEF S, C
<1> QED
  BY <1>2, <1>3

LEMMA LastButOne == \A n \in 2..3, o \in 1..2 : o < n => n - 1 \in o..n /\ n - 1 # n
OBVIOUS

\* There are finitely many lanes.
LEMMA FiniteLanes == IsFiniteSet(Lanes)
<1> DEFINE f == [s \in Sessions |-> SessionLane(s)]
           T == {SessionLane(s) : s \in Sessions}
           G == {GlobalLane(l) : l \in CommandLane}
<1>1. f \in Surjection(Sessions, T)
  BY DEF Surjection
<1>2. IsFiniteSet(T)
  BY <1>1, SessionsAssumption, FS_Surjection
<1>4. IsFiniteSet(G)
  <2>1. \A A, x : IsFiniteSet(A) => IsFiniteSet(A \cup {x})
    BY FS_AddElement
  <2>2. IsFiniteSet({GlobalLane("main")})
    BY FS_Singleton
  <2>3. IsFiniteSet({GlobalLane("main")} \cup {GlobalLane("cron")})
    BY <2>1, <2>2
  <2>4. IsFiniteSet(({GlobalLane("main")} \cup {GlobalLane("cron")}) \cup {GlobalLane("subagent")})
    BY <2>1, <2>3
  <2>5. IsFiniteSet((({GlobalLane("main")} \cup {GlobalLane("cron")}) \cup {GlobalLane("subagent")})
                      \cup {GlobalLane("nested")})
    BY <2>1, <2>4
  <2>6. G = (({GlobalLane("main")} \cup {GlobalLane("cron")}) \cup {GlobalLane("subagent")})
              \cup {GlobalLane("nested")}
    BY DEF CommandLane
  <2> QED  BY <2>5, <2>6
<1>5. Lanes = T \cup G
  BY DEF Lanes
<1> HIDE DEF T, G
<1> QED
  BY <1>2, <1>4, <1>5, FS_Union

\* An order of all the members of a set leaves nobody out.
LEMMA AllInSequence ==
  ASSUME NEW T, IsFiniteSet(T), NEW q \in SetToSeqs(T)
  PROVE  q \in Seq(T) /\ \A x \in T : \E i \in 1..Len(q) : q[i] = x
<1>1. PICK n : n = Cardinality(T)
  OBVIOUS
<1>2. n \in Nat
  BY <1>1, FS_CardinalityType
<1>3. q \in Injection(1..n, T)
  BY <1>1 DEF SetToSeqs, Injection, IsInjective
<1>4. IsFiniteSet(1..n) /\ Cardinality(1..n) = n
  BY <1>2, FS_Interval
<1>5. q \in Surjection(1..n, T)
  BY <1>1, <1>3, <1>4, FS_Injection
<1>6. q \in [1..n -> T]
  BY <1>3 DEF Injection
<1>7. q \in Seq(T) /\ Len(q) = n
  BY <1>2, <1>6
<1> QED
  BY <1>5, <1>7 DEF Surjection

----------------------------------------------------------------------------
(* How the lanes a job holds change.                                       *)

\* A job that asks for the next lane holds what it held.
LEMMA HoldsWhenAsking ==
  ASSUME NEW j, NEW r \in JOB, NEW q \in JOB, NEW l, r.phase # "queued",
         q.phase = "queued", q.depth = r.depth + 1, q.outer = r.outer
  PROVE  HoldsIn(j, q, l) <=> HoldsIn(j, r, l)
BY DEF HoldsIn, JOB

LEMMA HoldsTheSame ==
  ASSUME NEW j, NEW r \in JOB, NEW q \in JOB, NEW l, r.phase # "queued",
         q.phase # "queued", q.depth = r.depth, q.outer = r.outer
  PROVE  HoldsIn(j, q, l) <=> HoldsIn(j, r, l)
BY DEF HoldsIn, JOB

\* One that starts holds its lane as well, whether it asks for another one or not.
LEMMA HoldsWhenStarting ==
  ASSUME NEW j \in Jobs, NEW r \in JOB, NEW q \in JOB, NEW l, r.phase = "queued",
         r.depth >= r.outer, q.outer = r.outer,
         \/ q.phase # "queued" /\ q.depth = r.depth
         \/ q.phase = "queued" /\ q.depth = r.depth + 1
  PROVE  HoldsIn(j, q, l) <=> HoldsIn(j, r, l) \/ l = Path(j)[r.depth]
BY DEF HoldsIn, JOB

\* One that leaves its innermost lane holds the others.
LEMMA HoldsWhenLeaving ==
  ASSUME NEW j \in Jobs, NEW r, NEW q \in JOB, NEW l, RecordOK(j, r), r.depth >= r.outer,
         q.phase # "queued", q.depth = r.depth - 1, q.outer = r.outer
  PROVE  /\ HoldsIn(j, q, l) <=> HoldsIn(j, r, l) /\ l # Path(j)[r.depth]
         /\ r.phase = "queued" => ~HoldsIn(j, r, Path(j)[r.depth])
<1>0. PICK n, o : n = r.depth /\ o = r.outer
  OBVIOUS
<1>1. /\ n \in 1..Len(Path(j)) /\ Len(Path(j)) \in 2..3 /\ q.depth = n - 1 /\ q.outer = o
      /\ o \in 1..2 /\ o <= n
  BY <1>0, PathFacts DEF RecordOK, JOB
<1>2. \A d \in o..n : Path(j)[d] = Path(j)[n] => d = n
  BY <1>1, PathFacts
<1>3. \A d \in o..n : d = n \/ d \in o..(n - 1)
  BY <1>1
<1>4. HoldsIn(j, q, l) <=> \E d \in o..(n - 1) : Path(j)[d] = l
  BY <1>1 DEF HoldsIn
<1>5. HoldsIn(j, r, l) <=> \/ \E d \in o..(n - 1) : Path(j)[d] = l
                           \/ Path(j)[n] = l /\ r.phase # "queued"
  <2>1. \A d \in o..(n - 1) : d \in o..n /\ d # n
    BY <1>1
  <2>2. n \in o..n
    BY <1>1
  <2> QED  BY <1>0, <1>3, <2>1, <2>2 DEF HoldsIn
<1>6. \A d \in o..(n - 1) : Path(j)[d] # Path(j)[n]
  BY <1>1, <1>2
<1> QED
  <2>1. r.phase = "queued" => ~HoldsIn(j, r, Path(j)[n])
    BY <1>0, <1>2 DEF HoldsIn
  <2>2. HoldsIn(j, q, l) <=> HoldsIn(j, r, l) /\ l # Path(j)[n]
    BY <1>4, <1>5, <1>6
  <2> QED  BY <1>0, <2>1, <2>2

\* One whose time is up holds the lanes of its run.
LEMMA HoldsWhenTimedOut ==
  ASSUME NEW j \in Jobs, NEW r, NEW q \in JOB, NEW l, RecordOK(j, r), Lane[j] = "cron",
         r.outer = 1, r.depth > 1 \/ (r.depth = 1 /\ r.phase = "preparing"),
         q.phase = r.phase, q.depth = r.depth, q.outer = 2
  PROVE  HoldsIn(j, q, l) <=> HoldsIn(j, r, l) /\ l # GlobalLane("cron")
<1>1. PICK n : n = r.depth
  OBVIOUS
<1>2. /\ n \in 1..3 /\ Len(Path(j)) = 3 /\ Path(j)[1] = GlobalLane("cron") /\ n \in 1..Len(Path(j))
  BY <1>1, PathFacts DEF RecordOK
<1>3. \A d \in 2..n : d \in 1..n /\ Path(j)[d] # Path(j)[1]
  <2>1. SUFFICES ASSUME NEW d \in 2..n  PROVE d \in 1..n /\ Path(j)[d] # Path(j)[1]
    OBVIOUS
  <2>2. d \in 1..Len(Path(j)) /\ 1 \in 1..Len(Path(j)) /\ d # 1 /\ d \in 1..n
    BY <1>2
  <2> QED  BY <2>2, PathFacts
<1>4. \A d \in 1..n : d = 1 \/ d \in 2..n
  BY <1>2
<1>5. ASSUME HoldsIn(j, q, l)  PROVE HoldsIn(j, r, l) /\ l # GlobalLane("cron")
  BY <1>1, <1>2, <1>3, <1>5 DEF HoldsIn
<1>6. ASSUME HoldsIn(j, r, l), l # GlobalLane("cron")  PROVE HoldsIn(j, q, l)
  BY <1>1, <1>2, <1>4, <1>6 DEF HoldsIn
<1> QED
  BY <1>5, <1>6

----------------------------------------------------------------------------
(* Frames.                                                                 *)

LEMMA InitEstablishes == Init => Inv
<1> SUFFICES ASSUME Init  PROVE Inv
  OBVIOUS
<1>1. NewJob \in JOB /\ NewJob.depth = 0 /\ NewJob.outer = 1 /\ NewJob.phase = "new"
      /\ \A l \in Lanes : NewJob.born[l] = 0
  BY DEF NewJob, JOB
<1>2. \A j \in Jobs : job[j] = NewJob /\ \A l : ~HoldsIn(j, job[j], l)
  BY <1>1 DEF Init, HoldsIn
<1>3. \A j \in Jobs : JobOK(j) /\ SlotOK(j)
  <2> SUFFICES ASSUME NEW j \in Jobs  PROVE JobOK(j) /\ SlotOK(j)
    OBVIOUS
  <2>1. PICK n \in 2..3 : n = Len(Path(j))
    BY PathFacts
  <2>2. RecordOK(j, NewJob)
    <3>1. /\ NewJob.outer < n /\ NewJob.depth \in 0..n /\ NewJob.depth >= NewJob.outer - 1
          /\ NewJob.depth < NewJob.outer
      BY <1>1
    <3> QED  BY <1>1, <2>1, <3>1 DEF RecordOK
  <2>3. JobOK(j)
    BY <1>1, <1>2, <2>2 DEF Init, JobOK
  <2>4. SlotOK(j)
    BY <1>2 DEF Init, SlotOK
  <2> QED  BY <2>3, <2>4
<1>4. TypeInv
  <2>1. gateway \in GATEWAY /\ job \in [Jobs -> JOB]
    BY <1>1 DEF Init, GATEWAY, Serving
  <2>2. LanesTypeOK
    BY <2>1, NoneAssumption DEF Init, LanesTypeOK, JOB, GATEWAY
  <2> QED  BY <2>2, FS_EmptySet DEF Init, TypeInv
<1>5. \A l \in Lanes : QueueOK(l) /\ AwakeOK(l)
  BY DEF Init, QueueOK, AwakeOK
<1>6. \A s \in Sessions : SessionOK(s)
  BY LaneNames DEF Init, SessionOK
<1>7. RestartOK
  BY DEF Init, RestartOK, Serving
<1> QED
  BY <1>3, <1>4, <1>5, <1>6, <1>7 DEF Inv

LEMMA Types ==
  ASSUME Inv
  PROVE  /\ queue \in [Lanes -> Seq(Jobs)] /\ active \in [Lanes -> SUBSET Jobs]
         /\ maxConcurrent \in [Lanes -> Nat \ {0}] /\ generation \in [Lanes -> Nat]
         /\ job \in [Jobs -> JOB] /\ pumping \in Seq(Lanes)
         /\ activeRun \in [Sessions -> Jobs \cup {None}] /\ gateway \in GATEWAY
         /\ replyRun \in [Sessions -> Replies \cup {None}]
         /\ \A l \in Lanes : IsFiniteSet(active[l]) /\ Cardinality(active[l]) \in Nat
         /\ \A l \in Lanes : Len(queue[l]) \in Nat /\ \A i \in 1..Len(queue[l]) : queue[l][i] \in Jobs
BY FS_CardinalityType DEF Inv, TypeInv, LanesTypeOK, JOB, GATEWAY

\* The jobs a step does not touch.
LEMMA OthersStay ==
  ASSUME Inv, NEW k \in Jobs, job'[k] = job[k], UNCHANGED generation,
         \A l \in Lanes : k \in active'[l] <=> k \in active[l]
  PROVE  JobOK(k)' /\ SlotOK(k)' /\ (Committed(k)' <=> Committed(k))
<1>1. JobOK(k) /\ SlotOK(k)
  BY DEF Inv
<1>2. JobOK(k)'
  BY <1>1 DEF JobOK
<1>3. SlotOK(k)'
  BY <1>1 DEF SlotOK
<1> QED
  BY <1>2, <1>3 DEF Committed

\* The queues a step does not touch.
LEMMA QueueStays ==
  ASSUME Inv, NEW l \in Lanes, queue'[l] = queue[l],
         \A i \in 1..Len(queue[l]) : job'[queue[l][i]] = job[queue[l][i]]
  PROVE  QueueOK(l)'
<1>1. QueueOK(l)
  BY DEF Inv
<1> QED
  BY <1>1 DEF QueueOK, LaneOf

\* A job waits in the lane it asked for last, if it waits.
LEMMA WaitsWhereItAsked ==
  ASSUME Inv, NEW j \in Jobs, NEW l \in Lanes, NEW i \in 1..Len(queue[l]), queue[l][i] = j
  PROVE  job[j].phase = "queued" /\ l = LaneOf(j)
BY DEF Inv, QueueOK

\* A job goes on, in the lanes it holds.
LEMMA JobGoesOn ==
  ASSUME Inv, NEW j \in Jobs, NEW r, job[j].phase # "queued",
         job' = [job EXCEPT ![j] = r], RecordOK(j, r), r.phase # "queued",
         r.depth = job[j].depth, r.outer = job[j].outer, r.born = job[j].born,
         r.phase \in {"working", "registered"} => job[j].phase \in {"working", "registered"},
         activeRun' \in [Sessions -> Jobs \cup {None}],
         replyRun' \in [Sessions -> Replies \cup {None}],
         UNCHANGED <<lanes, gateway>>
  PROVE  Inv'
<1>1. /\ UNCHANGED <<queue, active, maxConcurrent, generation, pumping, gateway>>
      /\ job'[j] = r /\ r \in JOB /\ job[j] \in JOB /\ \A k \in Jobs \ {j} : job'[k] = job[k]
      /\ job' \in [Jobs -> JOB]
  BY Types DEF lanes, RecordOK
<1>2. \A l : HoldsIn(j, r, l) <=> HoldsIn(j, job[j], l)
  BY <1>1, HoldsTheSame
<1>3. JobOK(j)' /\ SlotOK(j)'
  BY <1>1, <1>2 DEF Inv, JobOK, SlotOK
<1>4. Committed(j)' => Committed(j)
  BY <1>1 DEF Committed
<1>5. \A k \in Jobs : JobOK(k)' /\ SlotOK(k)' /\ (Committed(k)' => Committed(k))
  BY <1>1, <1>3, <1>4, OthersStay
<1>6. \A l \in Lanes : QueueOK(l)'
  BY <1>1, Types, WaitsWhereItAsked, QueueStays
<1>7. TypeInv'
  BY <1>1 DEF Inv, TypeInv, LanesTypeOK, JOB
<1>8. RestartOK'
  BY <1>1, <1>5 DEF Inv, RestartOK
<1>9. /\ \A l \in Lanes : AwakeOK(l)'
      /\ \A s \in Sessions : SessionOK(s)'
  BY <1>1 DEF Inv, AwakeOK, Pumped, SessionOK
<1> QED
  BY <1>5, <1>6, <1>7, <1>8, <1>9 DEF Inv

\* A lane more is to be drained, or the same.
LEMMA PumpedMore ==
  ASSUME Inv, NEW l \in Lanes, NEW more \in Seq(Lanes), pumping' = <<l>> \o more,
         more = pumping \/ pumping = <<>>
  PROVE  pumping' \in Seq(Lanes) /\ Pumped(l)' /\ \A k : Pumped(k) => Pumped(k)'
<1>1. /\ <<l>> \in Seq(Lanes) /\ Len(<<l>>) = 1 /\ <<l>>[1] = l /\ Len(more) \in Nat
      /\ pumping \in Seq(Lanes)
  BY Types
<1>2. /\ pumping' \in Seq(Lanes) /\ Len(pumping') = 1 + Len(more)
      /\ \A i \in 1..(1 + Len(more)) : pumping'[i] = IF i <= 1 THEN <<l>>[i] ELSE more[i - 1]
  BY <1>1, ConcatProperties
<1>3. Pumped(l)'
  <2>1. 1 \in 1..Len(pumping') /\ pumping'[1] = l
    BY <1>1, <1>2
  <2> QED  BY <2>1 DEF Pumped
<1>4. ASSUME NEW k, Pumped(k)  PROVE Pumped(k)'
  <2>1. PICK i \in 1..Len(pumping) : pumping[i] = k
    BY <1>4 DEF Pumped
  <2>2. more = pumping
    BY <2>1
  <2>3. i + 1 \in 1..Len(pumping') /\ pumping'[i + 1] = k
    BY <1>1, <1>2, <2>1, <2>2
  <2> QED  BY <2>3 DEF Pumped
<1> QED
  BY <1>2, <1>3, <1>4

\* A queue with one more who waited nowhere.
LEMMA QueueGrows ==
  ASSUME Inv, NEW j \in Jobs, NEW l \in Lanes, queue'[l] = Append(queue[l], j),
         \A i \in 1..Len(queue[l]) : queue[l][i] # j,
         \A k \in Jobs \ {j} : job'[k] = job[k],
         job'[j].phase = "queued", Path(j)[job'[j].depth] = l
  PROVE  QueueOK(l)' /\ queue'[l] # <<>>
<1> DEFINE n == Len(queue[l])
<1>1. /\ n \in Nat /\ queue'[l] \in Seq(Jobs) /\ Len(queue'[l]) = n + 1
      /\ \A i \in 1..(n + 1) : queue'[l][i] = IF i = n + 1 THEN j ELSE queue[l][i]
      /\ \A i \in 1..n : queue[l][i] \in Jobs
  <2>1. queue[l] \in Seq(Jobs)
    BY Types
  <2> QED  BY <2>1, AppendProperties
<1>2. QueueOK(l)
  BY DEF Inv
<1>3. ASSUME NEW i \in 1..(n + 1)
      PROVE  job'[queue'[l][i]].phase = "queued" /\ Path(queue'[l][i])[job'[queue'[l][i]].depth] = l
  <2>1. CASE i = n + 1
    BY <1>1, <2>1
  <2>2. CASE i # n + 1
    <3>1. i \in 1..n /\ queue'[l][i] = queue[l][i] /\ queue[l][i] \in Jobs \ {j}
      BY <1>1, <2>2
    <3>2. job[queue[l][i]].phase = "queued" /\ LaneOf(queue[l][i]) = l
      BY <1>2, <3>1 DEF QueueOK
    <3> QED  BY <3>1, <3>2 DEF LaneOf
  <2> QED  BY <2>1, <2>2
<1>4. ASSUME NEW i \in 1..(n + 1), NEW k \in 1..(n + 1), queue'[l][i] = queue'[l][k]
      PROVE  i = k
  BY <1>1, <1>2, <1>4 DEF QueueOK
<1> HIDE DEF n
<1> QED
  BY <1>1, <1>3, <1>4 DEF QueueOK, LaneOf

\* A job that is in no queue asks for the next lane of its path.
LEMMA EnterKeeps ==
  ASSUME Inv, NEW j \in Jobs, job[j].phase \in {"new", "preparing"}, ~gateway.draining, Idle,
         Enter(j, Path(j)[job[j].depth + 1]),
         UNCHANGED <<active, maxConcurrent, generation, activeRun, replyRun, gateway>>
  PROVE  Inv'
<1>0. PICK d, l, r : /\ d = job[j].depth + 1 /\ l = Path(j)[d]
                     /\ r = [job[j] EXCEPT !.phase = "queued", !.depth = d]
  OBVIOUS
<1>1. /\ job[j] \in JOB /\ RecordOK(j, job[j]) /\ d \in 1..Len(Path(j)) /\ l \in Lanes
      /\ d \in 0..3
  <2>1. job[j] \in JOB /\ RecordOK(j, job[j]) /\ job[j].depth \in 0..Len(Path(j))
    BY Types DEF Inv, JobOK, RecordOK
  <2>2. job[j].depth < Len(Path(j)) /\ Len(Path(j)) \in 2..3
    BY <2>1, PathFacts DEF RecordOK, JOB
  <2>3. d \in 1..Len(Path(j))
    BY <1>0, <2>1, <2>2
  <2> QED  BY <1>0, <2>1, <2>2, <2>3, PathFacts
<1>2. job' = [job EXCEPT ![j] = r] /\ r \in JOB /\ r.phase = "queued" /\ r.depth = d
      /\ r.born = job[j].born /\ r.outer = job[j].outer
  BY <1>0, <1>1, Types DEF Enter, JOB
<1>3. /\ queue' = [queue EXCEPT ![l] = Append(@, j)] /\ pumping' = <<l>> \o pumping
      /\ queue'[l] = Append(queue[l], j) /\ \A k \in Lanes \ {l} : queue'[k] = queue[k]
  BY <1>0, <1>1, Types DEF Enter
<1>4. /\ job'[j] = r /\ job' \in [Jobs -> JOB] /\ \A k \in Jobs \ {j} : job'[k] = job[k]
  BY <1>2, Types
<1>5. RecordOK(j, r)
  <2>1. d >= r.outer - 1 /\ d >= r.outer
    BY <1>0, <1>1, <1>2 DEF RecordOK, JOB
  <2>2. r.outer < Len(Path(j)) /\ d \in 0..Len(Path(j))
    BY <1>1, <1>2, PathFacts DEF RecordOK
  <2> QED  BY <1>2, <2>1, <2>2 DEF RecordOK
<1>6. JobOK(j)' /\ SlotOK(j)'
  <2>1. \A k : HoldsIn(j, r, k) <=> HoldsIn(j, job[j], k)
    BY <1>0, <1>1, <1>2, HoldsWhenAsking
  <2> QED  BY <1>2, <1>4, <1>5, <2>1 DEF Inv, JobOK, SlotOK
<1>7. \A k \in Jobs : JobOK(k)' /\ SlotOK(k)'
  BY <1>4, <1>6, OthersStay
<1>8. \A k \in Lanes : \A i \in 1..Len(queue[k]) : queue[k][i] # j
  BY WaitsWhereItAsked
<1>9. QueueOK(l)' /\ queue'[l] # <<>>
  BY <1>1, <1>2, <1>3, <1>4, <1>8, <1>0, QueueGrows
<1>10. \A k \in Lanes : QueueOK(k)'
  BY <1>3, <1>4, <1>8, <1>9, Types, QueueStays
<1>11. pumping' \in Seq(Lanes) /\ Pumped(l)' /\ \A k : Pumped(k) => Pumped(k)'
  BY <1>1, <1>3, Types, PumpedMore
<1>12. \A k \in Lanes : AwakeOK(k)'
  BY <1>3, <1>11 DEF Inv, AwakeOK
<1>13. TypeInv'
  <2>1. queue' \in [Lanes -> Seq(Jobs)]
    BY <1>3, Types
  <2> QED  BY <1>4, <1>11, <2>1 DEF Inv, TypeInv, LanesTypeOK, JOB
<1>14. RestartOK'
  BY DEF Inv, RestartOK
<1>15. \A s \in Sessions : SessionOK(s)'
  BY DEF Inv, SessionOK
<1> QED
  BY <1>7, <1>10, <1>12, <1>13, <1>14, <1>15 DEF Inv

----------------------------------------------------------------------------
(* Jobs come, prepare, register, try again and finish.                     *)

LEMMA SubmitKeeps ==
  ASSUME Inv, NEW j \in Jobs, Submit(j)
  PROVE  Inv'
<1>1. RecordOK(j, job[j]) /\ job[j] \in JOB /\ job[j].phase = "new" /\ job[j].depth = 0
  BY Types DEF Inv, JobOK, RecordOK, Submit
<1>2. CASE gateway.draining
  <2> DEFINE r == [job[j] EXCEPT !.phase = "settled"]
  <2>1. /\ job' = [job EXCEPT ![j] = r] /\ r \in JOB /\ r.phase = "settled"
        /\ r.depth = job[j].depth /\ r.outer = job[j].outer /\ r.born = job[j].born
    BY <1>1, <1>2 DEF Submit, JOB
  <2>2. /\ RecordOK(j, r) /\ activeRun' \in [Sessions -> Jobs \cup {None}]
        /\ replyRun' \in [Sessions -> Replies \cup {None}] /\ UNCHANGED <<lanes, gateway>>
    BY <1>1, <1>2, <2>1, Types DEF RecordOK, Submit, lanes
  <2> HIDE DEF r
  <2> QED  BY <1>1, <2>1, <2>2, JobGoesOn
<1>3. CASE ~gateway.draining
  BY <1>1, <1>3, EnterKeeps DEF Submit
<1> QED
  BY <1>2, <1>3

LEMMA OpenReplyKeeps ==
  ASSUME Inv, NEW j \in Jobs, OpenReply(j)
  PROVE  Inv'
<1> DEFINE r == [job[j] EXCEPT !.phase = "preparing"]
<1>1. RecordOK(j, job[j]) /\ job[j] \in JOB /\ job[j].phase = "new"
  BY Types DEF Inv, JobOK, OpenReply
<1>2. /\ job' = [job EXCEPT ![j] = r] /\ r \in JOB /\ r.phase = "preparing"
      /\ r.depth = job[j].depth /\ r.outer = job[j].outer /\ r.born = job[j].born
      /\ UNCHANGED <<lanes, gateway>>
  BY <1>1 DEF OpenReply, JOB
<1>3. /\ activeRun' \in [Sessions -> Jobs \cup {None}]
      /\ replyRun' \in [Sessions -> Replies \cup {None}]
  BY Types DEF OpenReply
<1>4. RecordOK(j, r)
  <2>1. job[j].depth < Len(Path(j))
    BY <1>1, PathFacts DEF RecordOK, JOB
  <2> QED  BY <1>1, <1>2, <2>1 DEF RecordOK
<1> HIDE DEF r
<1> QED
  BY <1>1, <1>2, <1>3, <1>4, JobGoesOn

LEMMA ProceedKeeps ==
  ASSUME Inv, NEW j \in Jobs, Proceed(j)
  PROVE  Inv'
<1>1. RecordOK(j, job[j]) /\ job[j] \in JOB /\ job[j].phase = "preparing"
  BY Types DEF Inv, JobOK, Proceed
<1>2. CASE ~gateway.draining /\ Enter(j, Path(j)[job[j].depth + 1])
  BY <1>1, <1>2, EnterKeeps DEF Proceed
<1>3. CASE job' = [job EXCEPT ![j].phase = Done(job[j])] /\ UNCHANGED <<queue, pumping>>
  <2>0. PICK c : c = Done(job[j])
    OBVIOUS
  <2>1. /\ job[j].depth < job[j].outer => c = "settled"
        /\ job[j].depth >= job[j].outer => c = "returning"
        /\ c \in {"settled", "returning"}
    BY <1>1, <2>0 DEF Done, JOB
  <2> DEFINE r == [job[j] EXCEPT !.phase = c]
  <2>2. /\ job' = [job EXCEPT ![j] = r] /\ r \in JOB /\ r.phase = c
        /\ r.depth = job[j].depth /\ r.outer = job[j].outer /\ r.born = job[j].born
    BY <1>1, <1>3, <2>0, <2>1 DEF JOB
  <2>3. RecordOK(j, r)
    BY <1>1, <2>1, <2>2 DEF RecordOK, JOB
  <2>4. /\ activeRun' \in [Sessions -> Jobs \cup {None}]
        /\ replyRun' \in [Sessions -> Replies \cup {None}] /\ UNCHANGED <<lanes, gateway>>
    BY <1>3, Types DEF Proceed, lanes
  <2> HIDE DEF r
  <2> QED  BY <1>1, <2>1, <2>2, <2>3, <2>4, JobGoesOn
<1> QED
  BY <1>2, <1>3 DEF Proceed

LEMMA RegisterKeeps ==
  ASSUME Inv, NEW j \in Jobs, Register(j)
  PROVE  Inv'
<1> DEFINE r == [job[j] EXCEPT !.phase = "registered"]
<1>1. RecordOK(j, job[j]) /\ job[j] \in JOB /\ job[j].phase = "working"
  BY Types DEF Inv, JobOK, Register
<1>2. /\ job' = [job EXCEPT ![j] = r] /\ r \in JOB /\ r.phase = "registered"
      /\ r.depth = job[j].depth /\ r.outer = job[j].outer /\ r.born = job[j].born
      /\ UNCHANGED <<lanes, gateway>>
  BY <1>1 DEF Register, JOB
<1>3. /\ activeRun' \in [Sessions -> Jobs \cup {None}]
      /\ replyRun' \in [Sessions -> Replies \cup {None}]
  BY Types DEF Register
<1>4. RecordOK(j, r)
  BY <1>1, <1>2 DEF RecordOK
<1> HIDE DEF r
<1> QED
  BY <1>1, <1>2, <1>3, <1>4, JobGoesOn

LEMMA RetryKeeps ==
  ASSUME Inv, NEW j \in Jobs, Retry(j)
  PROVE  Inv'
<1> DEFINE r == [job[j] EXCEPT !.phase = "working"]
<1>1. RecordOK(j, job[j]) /\ job[j] \in JOB /\ job[j].phase = "registered"
  BY Types DEF Inv, JobOK, Retry
<1>2. /\ job' = [job EXCEPT ![j] = r] /\ r \in JOB /\ r.phase = "working"
      /\ r.depth = job[j].depth /\ r.outer = job[j].outer /\ r.born = job[j].born
      /\ UNCHANGED <<lanes, gateway>>
  BY <1>1 DEF Retry, JOB
<1>3. /\ activeRun' \in [Sessions -> Jobs \cup {None}]
      /\ replyRun' \in [Sessions -> Replies \cup {None}]
  BY Types DEF Retry, Unregistered
<1>4. RecordOK(j, r)
  BY <1>1, <1>2 DEF RecordOK
<1> HIDE DEF r
<1> QED
  BY <1>1, <1>2, <1>3, <1>4, JobGoesOn

LEMMA FinishKeeps ==
  ASSUME Inv, NEW j \in Jobs, Finish(j)
  PROVE  Inv'
<1> DEFINE r == [job[j] EXCEPT !.phase = "returning"]
<1>1. RecordOK(j, job[j]) /\ job[j] \in JOB /\ job[j].phase \in {"working", "registered"}
  BY Types DEF Inv, JobOK, Finish, AtWork
<1>2. /\ job' = [job EXCEPT ![j] = r] /\ r \in JOB /\ r.phase = "returning"
      /\ r.depth = job[j].depth /\ r.outer = job[j].outer /\ r.born = job[j].born
      /\ UNCHANGED <<lanes, gateway>>
  BY <1>1 DEF Finish, JOB
<1>3. /\ activeRun' \in [Sessions -> Jobs \cup {None}]
      /\ replyRun' \in [Sessions -> Replies \cup {None}]
  BY Types DEF Finish, Unregistered
<1>4. RecordOK(j, r)
  BY <1>1, <1>2 DEF RecordOK
<1> HIDE DEF r
<1> QED
  BY <1>1, <1>2, <1>3, <1>4, JobGoesOn

----------------------------------------------------------------------------
(* Drains.                                                                 *)

\* The head of a queue leaves it.
LEMMA QueueShrinks ==
  ASSUME Inv, NEW l \in Lanes, queue[l] # <<>>, queue'[l] = Tail(queue[l]),
         \A k \in Jobs \ {Head(queue[l])} : job'[k] = job[k]
  PROVE  QueueOK(l)' /\ queue'[l] \in Seq(Jobs)
<1> DEFINE n == Len(queue[l])
<1>1. queue[l] \in Seq(Jobs)
  BY Types
<1>2. /\ n \in Nat \ {0} /\ queue'[l] \in Seq(Jobs) /\ Len(queue'[l]) = n - 1
      /\ \A i \in 1..(n - 1) : queue'[l][i] = queue[l][i + 1]
      /\ Head(queue[l]) = queue[l][1] /\ \A i \in 1..n : queue[l][i] \in Jobs
  BY <1>1
<1>3. QueueOK(l)
  BY DEF Inv
<1>4. ASSUME NEW i \in 1..(n - 1)
      PROVE  job'[queue'[l][i]].phase = "queued" /\ Path(queue'[l][i])[job'[queue'[l][i]].depth] = l
  <2>1. i + 1 \in 1..n /\ 1 \in 1..n /\ i + 1 # 1
    BY <1>2
  <2>2. queue'[l][i] \in Jobs \ {Head(queue[l])}
    BY <1>2, <1>3, <2>1 DEF QueueOK
  <2>3. job[queue[l][i + 1]].phase = "queued" /\ LaneOf(queue[l][i + 1]) = l
    BY <1>3, <2>1 DEF QueueOK
  <2> QED  BY <1>2, <2>2, <2>3 DEF LaneOf
<1>5. ASSUME NEW i \in 1..(n - 1), NEW k \in 1..(n - 1), queue'[l][i] = queue'[l][k]
      PROVE  i = k
  <2>1. i + 1 \in 1..n /\ k + 1 \in 1..n /\ queue[l][i + 1] = queue[l][k + 1]
    BY <1>2, <1>5
  <2>2. i + 1 = k + 1
    BY <1>3, <2>1 DEF QueueOK
  <2> QED  BY <1>2, <2>2
<1> HIDE DEF n
<1> QED
  BY <1>2, <1>4, <1>5 DEF QueueOK, LaneOf

LEMMA StartKeeps ==
  ASSUME Inv, NEW l \in Lanes, Start(l)
  PROVE  Inv'
<1>1. PICK j, d, o, m, r : /\ j = Head(queue[l]) /\ d = job[j].depth /\ o = job[j].outer
                           /\ m = Path(j)[d + 1] /\ r = job'[j]
  OBVIOUS
<1> DEFINE entering == d < Len(Path(j)) /\ l # GlobalLane("cron") /\ ~gateway.draining
<1>2. /\ queue[l] # <<>> /\ Cardinality(active[l]) < maxConcurrent[l]
      /\ pumping # <<>> /\ Head(pumping) = l
      /\ UNCHANGED <<maxConcurrent, generation, activeRun, replyRun, gateway>>
      /\ active' = [active EXCEPT ![l] = @ \cup {j}]
  BY <1>1 DEF Start, Draining, CanStart
<1>3. j \in Jobs /\ 1 \in 1..Len(queue[l]) /\ queue[l][1] = j
  BY <1>1, <1>2, Types
<1>4. /\ job[j].phase = "queued" /\ Path(j)[d] = l /\ RecordOK(j, job[j]) /\ job[j] \in JOB
      /\ \A k \in Lanes : job[j].born[k] <= generation[k]
  BY <1>1, <1>3, WaitsWhereItAsked, Types DEF LaneOf, Inv, JobOK
<1>5. /\ d \in 1..Len(Path(j)) /\ Len(Path(j)) \in 2..3
      /\ o \in 1..2 /\ o <= d /\ o < Len(Path(j))
      /\ d = Len(Path(j)) => l # GlobalLane("cron")
  BY <1>1, <1>3, <1>4, PathFacts DEF RecordOK, JOB
<1>6. entering => m \in Lanes /\ m # l
  <2>1. SUFFICES ASSUME d < Len(Path(j))  PROVE m \in Lanes /\ m # l
    OBVIOUS
  <2>2. d + 1 \in 1..Len(Path(j)) /\ d + 1 # d
    BY <1>5, <2>1
  <2> QED  BY <1>1, <1>3, <1>4, <1>5, <2>2, PathFacts
<1> DEFINE born == [job[j].born EXCEPT ![l] = generation[l]]
<1>7. /\ \/ entering /\ r = [phase |-> "queued", outer |-> o, depth |-> d + 1, born |-> born]
         \/ ~entering /\ d = Len(Path(j)) /\ r = [phase |-> "working", outer |-> o, depth |-> d, born |-> born]
         \/ ~entering /\ d < Len(Path(j))
              /\ r = [phase |-> "preparing", outer |-> o, depth |-> d, born |-> born]
         \/ ~entering /\ r = [phase |-> "returning", outer |-> o, depth |-> d, born |-> born]
      /\ job' = [job EXCEPT ![j] = r]
  <2> DEFINE started == [job EXCEPT ![j].born[l] = generation[l]]
             q == [phase |-> "queued", outer |-> o, depth |-> d, born |-> born]
  <2>1. job \in [Jobs -> JOB] /\ job[j] = [phase |-> "queued", outer |-> o, depth |-> d, born |-> job[j].born]
    BY <1>1, <1>4, Types DEF JOB
  <2>2. started = [job EXCEPT ![j] = q]
    <3>1. [job[j] EXCEPT !.born = born] = q
      BY <2>1
    <3>2. started = [job EXCEPT ![j] = [job[j] EXCEPT !.born = born]]
      BY <1>3, <2>1
    <3> QED  BY <3>1, <3>2
  <2>3. \A c : c \in {"working", "preparing", "returning"} =>
          [started EXCEPT ![j].phase = c] = [job EXCEPT ![j] = [phase |-> c, outer |-> o, depth |-> d, born |-> born]]
    <3> HIDE DEF started
    <3> QED  BY <1>3, <2>1, <2>2
  <2>4. [started EXCEPT ![j].depth = d + 1]
          = [job EXCEPT ![j] = [phase |-> "queued", outer |-> o, depth |-> d + 1, born |-> born]]
    <3>1. started[j] = q /\ DOMAIN started = DOMAIN job /\ \A k \in DOMAIN job \ {j} : started[k] = job[k]
      BY <1>3, <2>1, <2>2
    <3> HIDE DEF started
    <3>2. [started EXCEPT ![j].depth = d + 1] = [started EXCEPT ![j] = [q EXCEPT !.depth = d + 1]]
      BY <3>1
    <3>3. [q EXCEPT !.depth = d + 1] = [phase |-> "queued", outer |-> o, depth |-> d + 1, born |-> born]
      OBVIOUS
    <3> QED  BY <2>2, <3>2, <3>3
  <2>5. job' = CASE d = Len(Path(j))       -> [started EXCEPT ![j].phase = "working"]
                 [] l = GlobalLane("cron") -> [started EXCEPT ![j].phase = "preparing"]
                 [] entering               -> [started EXCEPT ![j].depth = d + 1]
                 [] OTHER                  -> [started EXCEPT ![j].phase = "returning"]
    BY <1>1 DEF Start
  <2> HIDE DEF started
  <2>6. DOMAIN job = Jobs
    BY <2>1
  <2>7. CASE d = Len(Path(j))
    <3>1. ~entering /\ l # GlobalLane("cron")
      BY <1>5, <2>7
    <3>2. job' = [job EXCEPT ![j] = [phase |-> "working", outer |-> o, depth |-> d, born |-> born]]
      BY <2>3, <2>5, <2>7, <3>1
    <3> QED  BY <1>1, <1>3, <2>6, <2>7, <3>1, <3>2
  <2>8. CASE d # Len(Path(j)) /\ l = GlobalLane("cron")
    <3>1. ~entering /\ d < Len(Path(j))
      BY <1>5, <2>8
    <3>2. job' = [job EXCEPT ![j] = [phase |-> "preparing", outer |-> o, depth |-> d, born |-> born]]
      BY <2>3, <2>5, <2>8, <3>1
    <3> QED  BY <1>1, <1>3, <2>6, <2>8, <3>1, <3>2
  <2>9. CASE d # Len(Path(j)) /\ l # GlobalLane("cron") /\ entering
    <3>1. job' = [job EXCEPT ![j] = [phase |-> "queued", outer |-> o, depth |-> d + 1, born |-> born]]
      BY <2>4, <2>5, <2>9
    <3> QED  BY <1>1, <1>3, <2>6, <2>9, <3>1
  <2>10. CASE d # Len(Path(j)) /\ l # GlobalLane("cron") /\ ~entering
    <3>1. job' = [job EXCEPT ![j] = [phase |-> "returning", outer |-> o, depth |-> d, born |-> born]]
      BY <2>3, <2>5, <2>10
    <3> QED  BY <1>1, <1>3, <2>6, <2>10, <3>1
  <2> QED  BY <2>7, <2>8, <2>9, <2>10
<1>8. IF entering
      THEN /\ queue' = [queue EXCEPT ![l] = Tail(@), ![m] = Append(@, j)]
           /\ pumping' = <<m>> \o pumping
      ELSE queue' = [queue EXCEPT ![l] = Tail(@)] /\ pumping' = pumping
  BY <1>1 DEF Start
<1> HIDE DEF entering
<1>9. born \in [Lanes -> Nat] /\ born[l] = generation[l] /\ \A k \in Lanes \ {l} : born[k] = job[j].born[k]
  BY <1>4, Types DEF JOB
<1> HIDE DEF born
<1>10. /\ r \in JOB /\ r.born = born /\ r.outer = o
       /\ \/ r.phase # "queued" /\ r.depth = d
          \/ r.phase = "queued" /\ r.depth = d + 1
       /\ RecordOK(j, r)
  <2>1. /\ d \in 0..3 /\ d # 0 /\ d \in 0..Len(Path(j)) /\ d + 1 # 0
        /\ entering => d + 1 \in 0..3 /\ d + 1 \in 0..Len(Path(j))
    <3>1. CASE Len(Path(j)) = 2
      BY <1>5, <3>1 DEF entering
    <3>2. CASE Len(Path(j)) = 3
      BY <1>5, <3>2 DEF entering
    <3> QED  BY <1>5, <3>1, <3>2
  <2>2. r \in JOB
    BY <1>5, <1>7, <1>9, <2>1 DEF JOB
  <2>3. d >= o - 1 /\ d + 1 >= o - 1 /\ d + 1 >= o
    BY <1>5
  <2> QED  BY <1>5, <1>7, <2>1, <2>2, <2>3 DEF RecordOK
<1>11. /\ job'[j] = r /\ job' \in [Jobs -> JOB] /\ \A k \in Jobs \ {j} : job'[k] = job[k]
  BY <1>3, <1>7, <1>10, Types
<1>12. /\ active'[l] = active[l] \cup {j} /\ \A k \in Lanes \ {l} : active'[k] = active[k]
       /\ active' \in [Lanes -> SUBSET Jobs]
  BY <1>2, <1>3, Types
<1>13. JobOK(j)' /\ SlotOK(j)'
  <2>1. \A k : HoldsIn(j, r, k) <=> HoldsIn(j, job[j], k) \/ k = l
    BY <1>1, <1>3, <1>4, <1>5, <1>10, HoldsWhenStarting
  <2>2. SlotOK(j)
    BY <1>3 DEF Inv
  <2>3. SlotOK(j)'
    BY <1>2, <1>9, <1>10, <1>11, <1>12, <2>1, <2>2 DEF SlotOK
  <2>4. \A k \in Lanes : r.born[k] <= generation[k]
    <3>1. \A k \in Lanes \ {l} : r.born[k] <= generation[k]
      BY <1>4, <1>9, <1>10
    <3>2. r.born[l] <= generation[l]
      <4>1. r.born[l] = generation[l] /\ generation[l] \in Nat
        BY <1>9, <1>10, Types
      <4> QED  BY <4>1
    <3> QED  BY <3>1, <3>2
  <2> QED  BY <1>2, <1>10, <1>11, <2>3, <2>4 DEF JobOK
<1>14. \A k \in Jobs \ {j} : JobOK(k)' /\ SlotOK(k)' /\ (Committed(k)' <=> Committed(k))
  BY <1>2, <1>11, <1>12, OthersStay
<1>15. QueueOK(l)' /\ queue'[l] \in Seq(Jobs)
  <2>1. queue'[l] = Tail(queue[l])
    BY <1>6, <1>8, Types
  <2> QED  BY <1>1, <1>2, <1>11, <2>1, QueueShrinks
<1>16. \A k \in Lanes \ {l} : \A i \in 1..Len(queue[k]) : queue[k][i] # j
  BY <1>1, <1>3, <1>4, WaitsWhereItAsked DEF LaneOf
<1>17. entering => QueueOK(m)' /\ queue'[m] \in Seq(Jobs) /\ queue'[m] = Append(queue[m], j)
  <2> SUFFICES ASSUME entering
               PROVE  QueueOK(m)' /\ queue'[m] \in Seq(Jobs) /\ queue'[m] = Append(queue[m], j)
    OBVIOUS
  <2>1. queue'[m] = Append(queue[m], j) /\ queue[m] \in Seq(Jobs)
    BY <1>6, <1>8, Types
  <2>2. job'[j].phase = "queued" /\ Path(j)[job'[j].depth] = m
    BY <1>1, <1>7, <1>11
  <2>3. QueueOK(m)'
    BY <1>3, <1>6, <1>11, <1>16, <2>1, <2>2, QueueGrows
  <2> QED  BY <1>3, <2>1, <2>3
<1>18. \A k \in Lanes \ {l} : ~(entering /\ k = m) => queue'[k] = queue[k] /\ QueueOK(k)'
  <2> SUFFICES ASSUME NEW k \in Lanes \ {l}, ~(entering /\ k = m)
               PROVE  queue'[k] = queue[k] /\ QueueOK(k)'
    OBVIOUS
  <2>1. queue'[k] = queue[k]
    BY <1>6, <1>8, Types
  <2> QED  BY <1>11, <1>16, <2>1, Types, QueueStays
<1>19. /\ pumping' \in Seq(Lanes) /\ Pumped(l)' /\ (entering => Pumped(m)')
       /\ \A k : Pumped(k) => Pumped(k)'
  <2>1. pumping \in Seq(Lanes)
    BY Types
  <2>2. Pumped(l)
    <3>1. 1 \in 1..Len(pumping) /\ pumping[1] = l
      BY <1>2, <2>1
    <3> QED  BY <3>1 DEF Pumped
  <2>3. CASE entering
    <3>1. pumping' = <<m>> \o pumping /\ m \in Lanes
      BY <1>6, <1>8, <2>3
    <3>2. pumping' \in Seq(Lanes) /\ Pumped(m)' /\ \A k : Pumped(k) => Pumped(k)'
      BY <2>1, <3>1, PumpedMore
    <3> QED  BY <2>2, <3>2
  <2>4. CASE ~entering
    <3>1. pumping' = pumping
      BY <1>8, <2>4
    <3> QED  BY <2>1, <2>2, <2>4, <3>1 DEF Pumped
  <2> QED  BY <2>3, <2>4
<1>20. \A k \in Lanes : QueueOK(k)' /\ AwakeOK(k)'
  <2>1. \A k \in Lanes : AwakeOK(k)
    BY DEF Inv
  <2>2. \A k \in Lanes : QueueOK(k)'
    BY <1>15, <1>17, <1>18
  <2>3. \A k \in Lanes \ {l} : AwakeOK(k)'
    BY <1>2, <1>12, <1>18, <1>19, <2>1 DEF AwakeOK
  <2> QED  BY <1>19, <2>2, <2>3 DEF AwakeOK
<1>21. TypeInv'
  <2>1. queue' \in [Lanes -> Seq(Jobs)]
    <3>1. DOMAIN queue' = Lanes /\ queue' = [k \in Lanes |-> queue'[k]]
      BY <1>8, Types
    <3>2. \A k \in Lanes : queue'[k] \in Seq(Jobs)
      BY <1>15, <1>17, <1>18, Types
    <3> QED  BY <3>1, <3>2
  <2>2. \A k \in Lanes : IsFiniteSet(active'[k])
    <3>1. IsFiniteSet(active'[l])
      <4>1. IsFiniteSet(active[l])
        BY Types
      <4> QED  BY <1>12, <4>1, FS_AddElement
    <3> QED  BY <1>12, <3>1, Types
  <2> QED  BY <1>2, <1>11, <1>12, <1>19, <2>1, <2>2 DEF Inv, TypeInv, LanesTypeOK, JOB
<1>22. \A s \in Sessions : SessionOK(s)'
  <2> SUFFICES ASSUME NEW s \in Sessions  PROVE SessionOK(s)'
    OBVIOUS
  <2>1. SessionOK(s) /\ SessionLane(s) \in Lanes
    BY LaneNames DEF Inv
  <2>2. CASE SessionLane(s) = l
    <3>1. Cardinality(active[l]) = 0 /\ IsFiniteSet(active[l])
      BY <1>2, <2>1, <2>2, Types DEF SessionOK
    <3>2. active[l] = {}
      BY <3>1, FS_EmptySet
    <3> QED  BY <1>2, <1>12, <2>1, <2>2, <3>2 DEF SessionOK
  <2>3. CASE SessionLane(s) # l
    BY <1>2, <1>12, <2>1, <2>3 DEF SessionOK
  <2> QED  BY <2>2, <2>3
<1>23. RestartOK'
  <2>1. RestartOK
    BY DEF Inv
  <2>2. CASE gateway.phase = "serving"
    BY <1>2, <2>2 DEF RestartOK
  <2>3. CASE gateway.phase # "serving"
    <3>1. ~entering
      BY <2>1, <2>3 DEF RestartOK, entering
    <3>2. Committed(j)' => Committed(j)
      <4>1. SUFFICES ASSUME Committed(j)'  PROVE Committed(j)
        OBVIOUS
      <4>2. d = Len(Path(j))
        BY <1>7, <1>11, <3>1, <4>1 DEF Committed
      <4>3. l # SessionLane(Session[j]) /\ SessionLane(Session[j]) \in Lanes
        <5>1. Len(Path(j)) - 1 \in 1..Len(Path(j)) /\ Len(Path(j)) - 1 # d
          BY <1>5, <4>2
        <5> QED  BY <1>3, <1>4, <1>5, <5>1, PathFacts
      <4> QED  BY <1>1, <1>2, <1>4, <1>9, <1>10, <1>11, <4>1, <4>2, <4>3 DEF Committed
    <3>3. \A k \in Jobs : Committed(k)' => Committed(k)
      BY <1>14, <3>2
    <3> QED  BY <1>2, <2>1, <3>3 DEF RestartOK
  <2> QED  BY <2>2, <2>3
<1> QED
  BY <1>13, <1>14, <1>20, <1>21, <1>22, <1>23 DEF Inv

LEMMA DrainEndsKeeps ==
  ASSUME Inv, NEW l \in Lanes, DrainEnds(l)
  PROVE  Inv'
<1>1. /\ pumping # <<>> /\ Head(pumping) = l /\ pumping' = Tail(pumping)
      /\ ~(Cardinality(active[l]) < maxConcurrent[l] /\ queue[l] # <<>>)
      /\ UNCHANGED <<queue, active, maxConcurrent, generation, job, activeRun, replyRun, gateway>>
  BY DEF DrainEnds, Draining, CanStart
<1>2. /\ pumping \in Seq(Lanes) /\ pumping' \in Seq(Lanes) /\ Len(pumping) \in Nat \ {0}
      /\ Len(pumping') = Len(pumping) - 1
      /\ \A i \in 1..(Len(pumping) - 1) : pumping'[i] = pumping[i + 1]
      /\ pumping[1] = l
  <2>1. pumping \in Seq(Lanes)
    BY Types
  <2> QED  BY <1>1, <2>1
<1>3. ASSUME NEW k \in Lanes \ {l}, Pumped(k)  PROVE Pumped(k)'
  <2>1. PICK i \in 1..Len(pumping) : pumping[i] = k
    BY <1>3 DEF Pumped
  <2>2. i # 1
    BY <1>2, <2>1
  <2>3. i - 1 \in 1..Len(pumping') /\ pumping'[i - 1] = k
    BY <1>2, <2>1, <2>2
  <2> QED  BY <2>3 DEF Pumped
<1>4. \A k \in Lanes : AwakeOK(k)'
  <2>1. \A k \in Lanes : AwakeOK(k)
    BY DEF Inv
  <2>2. AwakeOK(l)'
    BY <1>1, Types DEF AwakeOK
  <2> QED  BY <1>1, <1>3, <2>1, <2>2 DEF AwakeOK
<1>5. \A j \in Jobs : JobOK(j)' /\ SlotOK(j)' /\ (Committed(j)' <=> Committed(j))
  BY <1>1, OthersStay
<1>6. \A k \in Lanes : QueueOK(k)'
  BY <1>1, QueueStays
<1>7. TypeInv'
  BY <1>1, <1>2 DEF Inv, TypeInv, LanesTypeOK
<1>8. RestartOK' /\ \A s \in Sessions : SessionOK(s)'
  BY <1>1, <1>5 DEF Inv, RestartOK, SessionOK
<1> QED
  BY <1>4, <1>5, <1>6, <1>7, <1>8 DEF Inv

----------------------------------------------------------------------------
(* Slots given back, queues cleared, lanes configured.                      *)

\* A job that leaves a lane it does not hold, or whose slot goes with it.
LEMMA LeaveFacts ==
  ASSUME Inv, NEW j \in Jobs, job[j].phase \in {"queued", "returning"}
  PROVE  /\ LeaveLane(j) \in JOB /\ RecordOK(j, LeaveLane(j)) /\ LaneOf(j) \in Lanes
         /\ LeaveLane(j).outer = job[j].outer
         /\ LeaveLane(j).phase \in {"settled", "returning"}
         /\ \A l \in Lanes \ {LaneOf(j)} : LeaveLane(j).born[l] = job[j].born[l]
         /\ \A l \in Lanes : LeaveLane(j).born[l] <= generation[l]
         /\ \A l \in Lanes : HoldsIn(j, LeaveLane(j), l) <=> HoldsIn(j, job[j], l) /\ l # LaneOf(j)
         /\ job[j].phase = "queued" => ~HoldsIn(j, job[j], LaneOf(j))
<1>1. PICK q, m : q = LeaveLane(j) /\ m = LaneOf(j)
  OBVIOUS
<1>2. /\ job[j] \in JOB /\ RecordOK(j, job[j]) /\ generation \in [Lanes -> Nat]
      /\ \A l \in Lanes : job[j].born[l] <= generation[l]
  BY Types DEF Inv, JobOK
<1>3. /\ job[j].depth \in 1..Len(Path(j)) /\ job[j].depth \in 1..3 /\ m \in Lanes
      /\ job[j].outer \in 1..2 /\ job[j].outer <= job[j].depth
      /\ Len(Path(j)) \in 2..3
  BY <1>1, <1>2, PathFacts DEF RecordOK, JOB, LaneOf
<1>4. /\ q = [phase |-> IF job[j].depth = job[j].outer THEN "settled" ELSE "returning",
              outer |-> job[j].outer, depth |-> job[j].depth - 1, born |-> [job[j].born EXCEPT ![m] = 0]]
      /\ job[j].born \in [Lanes -> Nat]
  BY <1>1, <1>2 DEF LeaveLane, JOB
<1>5. q \in JOB /\ q.depth = job[j].depth - 1 /\ q.outer = job[j].outer /\ q.phase \in {"settled", "returning"}
  BY <1>3, <1>4 DEF JOB
<1>6. RecordOK(j, q)
  <2>1. q.depth \in 0..Len(Path(j)) /\ q.depth >= q.outer - 1 /\ q.outer < Len(Path(j))
    BY <1>2, <1>3, <1>5 DEF RecordOK
  <2>2. CASE job[j].depth = job[j].outer
    <3>1. q.phase = "settled" /\ q.depth < q.outer
      BY <1>3, <1>4, <1>5, <2>2
    <3> QED  BY <1>5, <2>1, <3>1 DEF RecordOK
  <2>3. CASE job[j].depth # job[j].outer
    <3>1. q.phase = "returning" /\ q.depth >= q.outer
      BY <1>3, <1>4, <1>5, <2>3
    <3> QED  BY <1>5, <2>1, <3>1 DEF RecordOK
  <2> QED  BY <2>2, <2>3
<1>7. /\ \A l \in Lanes \ {m} : q.born[l] = job[j].born[l]
      /\ q.born[m] = 0
  BY <1>3, <1>4
<1>8. \A l \in Lanes : q.born[l] <= generation[l]
  <2>1. \A l \in Lanes \ {m} : q.born[l] <= generation[l]
    BY <1>2, <1>7
  <2>2. q.born[m] <= generation[m]
    BY <1>2, <1>3, <1>7
  <2> QED  BY <2>1, <2>2
<1>9. /\ \A l : HoldsIn(j, q, l) <=> HoldsIn(j, job[j], l) /\ l # m
      /\ job[j].phase = "queued" => ~HoldsIn(j, job[j], m)
  BY <1>1, <1>2, <1>3, <1>5, HoldsWhenLeaving DEF LaneOf
<1> QED
  BY <1>1, <1>3, <1>5, <1>6, <1>7, <1>8, <1>9

\* From job[j] to q, the job gives up the slot of l and keeps those of the other lanes; a
\* run that goes on stays where it is.
GivesUp(j, l, q) ==
  /\ RecordOK(j, q)
  /\ job[j].phase = "queued" => q.phase = "queued" /\ q.depth = job[j].depth
  /\ q.phase \in {"queued", "working", "registered"} =>
       /\ q.phase = job[j].phase /\ q.depth = job[j].depth
       /\ q.born[SessionLane(Session[j])] = job[j].born[SessionLane(Session[j])]
  /\ \A k \in Lanes \ {l} : q.born[k] = job[j].born[k]
  /\ \A k \in Lanes : q.born[k] <= generation[k]
  /\ \A k \in Lanes : HoldsIn(j, q, k) <=> HoldsIn(j, job[j], k) /\ k # l

\* A job gives back the slot of a lane, whether its run goes on or not.
LEMMA GiveBackKeeps ==
  ASSUME Inv, NEW j \in Jobs, NEW l \in Lanes, NEW q, Idle, GiveBack(j, l), GivesUp(j, l, q),
         job' = [job EXCEPT ![j] = q],
         UNCHANGED <<queue, maxConcurrent, generation, activeRun, replyRun>>
  PROVE  Inv'
<1>2. /\ Idle /\ job' = [job EXCEPT ![j] = q]
      /\ IF job[j].born[l] = generation[l]
         THEN /\ active' = [active EXCEPT ![l] = @ \ {j}]
              /\ gateway' = Notified(gateway, active')
              /\ pumping' = <<l>>
         ELSE UNCHANGED <<active, gateway, pumping>>
      /\ UNCHANGED <<queue, maxConcurrent, generation, activeRun, replyRun>>
  BY DEF GiveBack
<1>3. /\ q \in JOB /\ RecordOK(j, q) /\ l \in Lanes
      /\ \A k \in Lanes \ {l} : q.born[k] = job[j].born[k]
      /\ \A k \in Lanes : q.born[k] <= generation[k]
      /\ \A k \in Lanes : HoldsIn(j, q, k) <=> HoldsIn(j, job[j], k) /\ k # l
  BY DEF GivesUp, RecordOK
<1>4. job'[j] = q /\ job' \in [Jobs -> JOB] /\ \A k \in Jobs \ {j} : job'[k] = job[k]
  BY <1>2, <1>3, Types
<1>5. SlotOK(j)
  BY DEF Inv
<1>6. /\ active'[l] = active[l] \ {j} /\ \A k \in Lanes \ {l} : active'[k] = active[k]
      /\ active' \in [Lanes -> SUBSET Jobs]
  <2>1. CASE job[j].born[l] = generation[l]
    <3>1. active' = [active EXCEPT ![l] = @ \ {j}]
      BY <1>2, <2>1
    <3>2. active \in [Lanes -> SUBSET Jobs]
      BY Types
    <3> QED  BY <3>1, <3>2
  <2>2. CASE job[j].born[l] # generation[l]
    <3>1. active' = active /\ j \notin active[l]
      BY <1>2, <1>3, <1>5, <2>2 DEF SlotOK
    <3> QED  BY <3>1, Types
  <2> QED  BY <2>1, <2>2
<1>7. JobOK(j)' /\ SlotOK(j)' /\ (Committed(j)' => Committed(j))
  <2>1. JobOK(j)'
    BY <1>2, <1>3, <1>4 DEF JobOK
  <2>2. SlotOK(j)'
    BY <1>2, <1>3, <1>4, <1>5, <1>6 DEF SlotOK
  <2>3. Committed(j)' => Committed(j)
    BY <1>2, <1>4 DEF Committed, GivesUp
  <2> QED  BY <2>1, <2>2, <2>3
<1>8. \A k \in Jobs \ {j} : JobOK(k)' /\ SlotOK(k)' /\ (Committed(k)' <=> Committed(k))
  <2> SUFFICES ASSUME NEW k \in Jobs \ {j}
               PROVE  JobOK(k)' /\ SlotOK(k)' /\ (Committed(k)' <=> Committed(k))
    OBVIOUS
  <2>1. \A m \in Lanes : k \in active'[m] <=> k \in active[m]
    BY <1>6
  <2> QED  BY <1>2, <1>4, <2>1, OthersStay
<1>9. \A k \in Lanes : QueueOK(k)'
  <2> SUFFICES ASSUME NEW k \in Lanes  PROVE QueueOK(k)'
    OBVIOUS
  <2>1. QueueOK(k) /\ queue'[k] = queue[k] /\ \A i \in 1..Len(queue[k]) : queue[k][i] \in Jobs
    BY <1>2, Types DEF Inv
  <2>2. ASSUME NEW i \in 1..Len(queue[k])
        PROVE  /\ job'[queue[k][i]].phase = job[queue[k][i]].phase
               /\ job'[queue[k][i]].depth = job[queue[k][i]].depth
    <3>1. job[queue[k][i]].phase = "queued"
      BY <2>1 DEF QueueOK
    <3> QED  BY <1>4, <2>1, <3>1 DEF GivesUp
  <2> QED  BY <2>1, <2>2 DEF QueueOK, LaneOf
<1>10. pumping = <<>> /\ pumping' \in Seq(Lanes) /\ \A k : Pumped(k) => Pumped(k)'
  <2>1. pumping = <<>>
    BY <1>2 DEF Idle
  <2>2. \A k : ~Pumped(k)
    BY <2>1 DEF Pumped
  <2>3. pumping' \in Seq(Lanes)
    <3>1. pumping' = <<l>> \/ pumping' = pumping
      BY <1>2
    <3>2. <<l>> \in Seq(Lanes)
      BY <1>3
    <3>3. pumping \in Seq(Lanes)
      BY Types
    <3> QED  BY <3>1, <3>2, <3>3
  <2> QED  BY <2>1, <2>2, <2>3
<1>11. job[j].born[l] = generation[l] => Pumped(l)'
  <2>1. SUFFICES ASSUME pumping' = <<l>>  PROVE Pumped(l)'
    BY <1>2
  <2>2. 1 \in 1..Len(pumping') /\ pumping'[1] = l
    BY <2>1
  <2> QED  BY <2>2 DEF Pumped
<1>12. \A k \in Lanes : AwakeOK(k)'
  <2>1. \A k \in Lanes : AwakeOK(k)
    BY DEF Inv
  <2>2. \A k \in Lanes \ {l} : AwakeOK(k)'
    BY <1>2, <1>6, <1>10, <2>1 DEF AwakeOK
  <2>3. AwakeOK(l)'
    <3>1. CASE job[j].born[l] = generation[l]
      BY <1>11, <3>1 DEF AwakeOK
    <3>2. CASE job[j].born[l] # generation[l]
      BY <1>2, <1>3, <1>10, <2>1, <3>2 DEF AwakeOK
    <3> QED  BY <3>1, <3>2
  <2> QED  BY <2>2, <2>3
<1>13. /\ gateway' \in GATEWAY
       /\ gateway' = gateway
          \/ /\ gateway' = [gateway EXCEPT !.tasks_drained = TRUE]
             /\ gateway.phase = "draining"
             /\ \A task \in gateway.waiting : task[2] \notin active'[task[1]]
  <2>1. gateway \in GATEWAY
    BY Types
  <2>2. gateway' = gateway \/ gateway' = Notified(gateway, active')
    BY <1>2
  <2> QED  BY <2>1, <2>2 DEF Notified, GATEWAY
<1>14. TypeInv'
  <2>1. \A k \in Lanes : IsFiniteSet(active'[k])
    <3>1. IsFiniteSet(active'[l])
      <4>1. IsFiniteSet(active[l])
        BY <1>3, Types
      <4> QED  BY <1>6, <4>1, FS_RemoveElement
    <3> QED  BY <1>6, <3>1, Types
  <2> QED  BY <1>2, <1>4, <1>6, <1>10, <1>13, <2>1, Types DEF TypeInv, LanesTypeOK, JOB, GATEWAY
<1>15. \A s \in Sessions : SessionOK(s)'
  <2> SUFFICES ASSUME NEW s \in Sessions  PROVE SessionOK(s)'
    OBVIOUS
  <2>1. SessionOK(s) /\ SessionLane(s) \in Lanes
    BY LaneNames DEF Inv
  <2>2. active'[SessionLane(s)] \subseteq active[SessionLane(s)]
    BY <1>6, <2>1
  <2> QED  BY <1>2, <2>1, <2>2 DEF SessionOK
<1>16. RestartOK'
  <2>1. RestartOK /\ gateway \in GATEWAY
    BY Types DEF Inv
  <2>2. \A k \in Jobs : Committed(k)' => Committed(k)
    BY <1>7, <1>8
  <2>3. CASE gateway' = gateway
    BY <2>1, <2>2, <2>3 DEF RestartOK
  <2>4. CASE /\ gateway' = [gateway EXCEPT !.tasks_drained = TRUE]
             /\ gateway.phase = "draining"
             /\ \A task \in gateway.waiting : task[2] \notin active'[task[1]]
    <3>1. gateway'.phase = "draining" /\ gateway'.draining
      BY <2>1, <2>4 DEF RestartOK, GATEWAY
    <3>2. ASSUME NEW k \in Jobs, Committed(k)'  PROVE FALSE
      <4>1. <<SessionLane(Session[k]), k>> \in gateway.waiting
        BY <2>1, <2>2, <2>4, <3>2 DEF RestartOK
      <4>2. k \notin active'[SessionLane(Session[k])]
        BY <2>4, <4>1
      <4>3. HoldsIn(k, job'[k], SessionLane(Session[k]))
        <5>1. /\ job'[k].depth = Len(Path(k)) /\ Len(Path(k)) \in 2..3
              /\ Path(k)[Len(Path(k)) - 1] = SessionLane(Session[k])
          BY <3>2, PathFacts DEF Committed
        <5>2. /\ job'[k].outer \in 1..2 /\ job'[k].outer < Len(Path(k))
          BY <1>7, <1>8 DEF JobOK, RecordOK, JOB
        <5>3. /\ Len(Path(k)) - 1 \in (job'[k].outer)..Len(Path(k))
              /\ Len(Path(k)) - 1 # Len(Path(k))
          BY <5>1, <5>2, LastButOne
        <5> QED  BY <5>1, <5>3 DEF HoldsIn
      <4>4. SlotOK(k)' /\ SessionLane(Session[k]) \in Lanes
        BY <1>7, <1>8, PathFacts
      <4> QED  BY <3>2, <4>2, <4>3, <4>4 DEF SlotOK, Committed
    <3> QED  BY <3>1, <3>2 DEF RestartOK
  <2> QED  BY <1>13, <2>3, <2>4
<1> QED
  BY <1>7, <1>8, <1>9, <1>12, <1>14, <1>15, <1>16 DEF Inv

LEMMA ReturnKeeps ==
  ASSUME Inv, NEW j \in Jobs, Return(j)
  PROVE  Inv'
<1>1. PICK l, q : l = LaneOf(j) /\ q = LeaveLane(j)
  OBVIOUS
<1>2. /\ Idle /\ job[j].phase = "returning" /\ job' = [job EXCEPT ![j] = q] /\ GiveBack(j, l)
      /\ UNCHANGED <<queue, maxConcurrent, generation, activeRun, replyRun>>
  BY <1>1 DEF Return
<1>3. /\ RecordOK(j, q) /\ l \in Lanes /\ q.phase \in {"settled", "returning"}
      /\ \A k \in Lanes \ {l} : q.born[k] = job[j].born[k]
      /\ \A k \in Lanes : q.born[k] <= generation[k]
      /\ \A k \in Lanes : HoldsIn(j, q, k) <=> HoldsIn(j, job[j], k) /\ k # l
  BY <1>1, <1>2, LeaveFacts
<1>4. GivesUp(j, l, q)
  BY <1>2, <1>3 DEF GivesUp
<1> QED
  BY <1>2, <1>3, <1>4, GiveBackKeeps

LEMMA CronTimesOutKeeps ==
  ASSUME Inv, NEW j \in Jobs, CronTimesOut(j)
  PROVE  Inv'
<1>1. PICK l, born, q : /\ l = GlobalLane("cron") /\ born = [job[j].born EXCEPT ![l] = 0]
                        /\ q = [phase |-> job[j].phase, outer |-> 2, depth |-> job[j].depth,
                                born |-> born]
  OBVIOUS
<1>2. /\ job[j] \in JOB /\ RecordOK(j, job[j]) /\ generation \in [Lanes -> Nat]
      /\ \A k \in Lanes : job[j].born[k] <= generation[k]
      /\ l \in Lanes /\ l # SessionLane(Session[j]) /\ SessionLane(Session[j]) \in Lanes
  BY <1>1, Types, LaneNames, PathFacts DEF Inv, JobOK, CommandLane
<1>3. /\ born \in [Lanes -> Nat] /\ born[l] = 0
      /\ \A k \in Lanes \ {l} : born[k] = job[j].born[k]
  BY <1>1, <1>2 DEF JOB
<1>4. /\ Idle /\ job[j].outer = 1 /\ Lane[j] = "cron" /\ GiveBack(j, l)
      /\ job[j].depth > 1 \/ (job[j].depth = 1 /\ job[j].phase = "preparing")
      /\ UNCHANGED <<queue, maxConcurrent, generation, activeRun, replyRun>>
  BY <1>1 DEF CronTimesOut
<1>5. job' = [job EXCEPT ![j] = q]
  <2>1. /\ job \in [Jobs -> JOB]
        /\ job[j] = [phase |-> job[j].phase, outer |-> 1, depth |-> job[j].depth,
                     born |-> job[j].born]
    BY <1>2, <1>4, Types DEF JOB
  <2>2. job' = [job EXCEPT ![j] = [job[j] EXCEPT !.outer = 2, !.born[l] = 0]]
    BY <1>1, <2>1 DEF CronTimesOut
  <2>3. [job[j] EXCEPT !.outer = 2, !.born[l] = 0] = q
    <3>1. PICK n : n = [job[j] EXCEPT !.outer = 2, !.born[l] = 0]
      OBVIOUS
    <3>2. n = [phase |-> job[j].phase, outer |-> 2, depth |-> job[j].depth,
               born |-> [job[j].born EXCEPT ![l] = 0]]
      BY <1>2, <3>1 DEF JOB
    <3> QED  BY <1>1, <3>1, <3>2
  <2> QED  BY <2>2, <2>3
<1>6. /\ q \in JOB /\ q.phase = job[j].phase /\ q.outer = 2 /\ q.depth = job[j].depth
      /\ q.born = born
  BY <1>1, <1>2, <1>3 DEF JOB
<1>7. RecordOK(j, q)
  <2>1. Len(Path(j)) = 3
    BY <1>4, PathFacts
  <2>2. job[j].phase \notin {"new", "settled"}
    BY <1>2, <1>4 DEF RecordOK, JOB
  <2>3. q.depth >= q.outer - 1 /\ (q.phase # "preparing" => q.depth >= q.outer)
    BY <1>2, <1>4, <1>6 DEF JOB
  <2> QED  BY <1>2, <1>6, <2>1, <2>2, <2>3 DEF RecordOK
<1>8. \A k \in Lanes : HoldsIn(j, q, k) <=> HoldsIn(j, job[j], k) /\ k # l
  BY <1>1, <1>2, <1>4, <1>6, HoldsWhenTimedOut
<1>9. /\ \A k \in Lanes \ {l} : q.born[k] = job[j].born[k]
      /\ \A k \in Lanes : q.born[k] <= generation[k]
  <2>1. \A k \in Lanes \ {l} : q.born[k] <= generation[k]
    BY <1>2, <1>3, <1>6
  <2>2. q.born[l] <= generation[l]
    BY <1>2, <1>3, <1>6
  <2> QED  BY <1>3, <1>6, <2>1, <2>2
<1>10. q.born[SessionLane(Session[j])] = job[j].born[SessionLane(Session[j])]
  BY <1>2, <1>9
<1>11. GivesUp(j, l, q)
  BY <1>6, <1>7, <1>8, <1>9, <1>10 DEF GivesUp
<1> QED
  BY <1>2, <1>4, <1>5, <1>11, GiveBackKeeps

LEMMA ClearKeeps ==
  ASSUME Inv, NEW s \in Sessions, Clear(s)
  PROVE  Inv'
<1>1. PICK l : l = SessionLane(s)
  OBVIOUS
<1>2. /\ job' = Rejected(l) /\ queue' = [queue EXCEPT ![l] = <<>>] /\ l \in Lanes
      /\ UNCHANGED <<active, maxConcurrent, generation, pumping, activeRun, replyRun, gateway>>
  BY <1>1, LaneNames DEF Clear
<1>3. queue'[l] = <<>> /\ queue' \in [Lanes -> Seq(Jobs)] /\ \A k \in Lanes \ {l} : queue'[k] = queue[k]
  BY <1>2, Types
<1> DEFINE rejected == {j \in Jobs : Contains(queue[l], j)}
<1>4. \A j \in rejected : j \in Jobs /\ job[j].phase = "queued" /\ LaneOf(j) = l
  <2> SUFFICES ASSUME NEW j \in rejected
               PROVE  j \in Jobs /\ job[j].phase = "queued" /\ LaneOf(j) = l
    OBVIOUS
  <2>1. PICK i \in 1..Len(queue[l]) : queue[l][i] = j
    BY DEF Contains
  <2> QED  BY <1>2, <2>1, WaitsWhereItAsked
<1>5. /\ job' = [j \in Jobs |-> IF j \in rejected THEN LeaveLane(j) ELSE job[j]]
  BY <1>2 DEF Rejected
<1> HIDE DEF rejected
<1>6. \A j \in Jobs \ rejected : JobOK(j)' /\ SlotOK(j)' /\ (Committed(j)' <=> Committed(j))
  <2> SUFFICES ASSUME NEW j \in Jobs \ rejected
               PROVE  JobOK(j)' /\ SlotOK(j)' /\ (Committed(j)' <=> Committed(j))
    OBVIOUS
  <2>1. job'[j] = job[j]
    BY <1>5
  <2> QED  BY <1>2, <2>1, OthersStay
<1>7. \A j \in rejected : job'[j] \in JOB /\ JobOK(j)' /\ SlotOK(j)' /\ ~Committed(j)'
  <2> SUFFICES ASSUME NEW j \in rejected
               PROVE  job'[j] \in JOB /\ JobOK(j)' /\ SlotOK(j)' /\ ~Committed(j)'
    OBVIOUS
  <2>0. PICK q : q = LeaveLane(j)
    OBVIOUS
  <2>1. j \in Jobs /\ job'[j] = q /\ LaneOf(j) = l
    BY <1>4, <1>5, <2>0
  <2>2. /\ q \in JOB /\ RecordOK(j, q) /\ q.phase \in {"settled", "returning"}
        /\ \A k \in Lanes \ {l} : q.born[k] = job[j].born[k]
        /\ \A k \in Lanes : q.born[k] <= generation[k]
        /\ \A k \in Lanes : HoldsIn(j, q, k) <=> HoldsIn(j, job[j], k) /\ k # l
        /\ ~HoldsIn(j, job[j], l)
    BY <1>4, <2>0, <2>1, LeaveFacts
  <2>3. SlotOK(j)
    BY <2>1 DEF Inv
  <2>4. JobOK(j)'
    BY <1>2, <2>1, <2>2 DEF JobOK
  <2>5. SlotOK(j)'
    BY <1>2, <2>1, <2>2, <2>3 DEF SlotOK
  <2> QED  BY <2>1, <2>2, <2>4, <2>5 DEF Committed
<1>8. job' \in [Jobs -> JOB]
  BY <1>5, <1>7, Types
<1>9. \A k \in Lanes : QueueOK(k)'
  <2>1. QueueOK(l)'
    BY <1>3 DEF QueueOK
  <2>2. ASSUME NEW k \in Lanes \ {l}  PROVE QueueOK(k)'
    <3>1. \A i \in 1..Len(queue[k]) : queue[k][i] \in Jobs \ rejected
      <4> SUFFICES ASSUME NEW i \in 1..Len(queue[k])  PROVE queue[k][i] \in Jobs \ rejected
        OBVIOUS
      <4>1. queue[k][i] \in Jobs
        BY Types
      <4>2. LaneOf(queue[k][i]) = k
        BY <4>1, WaitsWhereItAsked
      <4> QED  BY <1>4, <2>2, <4>1, <4>2
    <3>2. \A i \in 1..Len(queue[k]) : job'[queue[k][i]] = job[queue[k][i]]
      BY <1>5, <3>1
    <3> QED  BY <1>3, <2>2, <3>2, QueueStays
  <2> QED  BY <2>1, <2>2
<1>10. \A k \in Lanes : AwakeOK(k)'
  BY <1>2, <1>3 DEF Inv, AwakeOK, Pumped
<1>11. TypeInv'
  BY <1>2, <1>3, <1>8 DEF Inv, TypeInv, LanesTypeOK, JOB
<1>12. \A j \in Jobs : Committed(j)' => Committed(j)
  BY <1>6, <1>7
<1>13. RestartOK'
  BY <1>2, <1>12 DEF Inv, RestartOK
<1>14. \A t \in Sessions : SessionOK(t)'
  BY <1>2 DEF Inv, SessionOK
<1> QED
  BY <1>6, <1>7, <1>9, <1>10, <1>11, <1>13, <1>14 DEF Inv

LEMMA ReloadKeeps ==
  ASSUME Inv, NEW limit \in Limits, Reload(limit)
  PROVE  Inv'
<1>0. PICK x, y, z : /\ x = GlobalLane("cron") /\ y = GlobalLane("main")
                     /\ z = GlobalLane("subagent")
  OBVIOUS
<1>1. PICK f, g, h : /\ f = AtLeastOne(limit["cron"]) /\ g = AtLeastOne(limit["main"])
                     /\ h = AtLeastOne(limit["subagent"])
  OBVIOUS
<1>2. /\ x \in Lanes /\ y \in Lanes /\ z \in Lanes
      /\ f \in Nat \ {0} /\ g \in Nat \ {0} /\ h \in Nat \ {0}
  <2>1. x \in Lanes /\ y \in Lanes /\ z \in Lanes
    BY <1>0, LaneNames DEF CommandLane
  <2>2. limit["cron"] \in Nat /\ limit["main"] \in Nat /\ limit["subagent"] \in Nat
    BY LimitsAssumption DEF ConfiguredLane
  <2> QED  BY <1>1, <2>1, <2>2 DEF AtLeastOne
<1>3. /\ Idle /\ maxConcurrent' = [maxConcurrent EXCEPT ![x] = f, ![y] = g, ![z] = h]
      /\ pumping' = <<x, y, z>> /\ gateway' = [gateway EXCEPT !.reloads = @ + 1]
      /\ UNCHANGED <<queue, active, generation, job, activeRun, replyRun>>
  BY <1>0, <1>1 DEF Reload
<1>4. /\ gateway' \in GATEWAY /\ gateway'.phase = gateway.phase
      /\ gateway'.draining = gateway.draining /\ gateway'.waiting = gateway.waiting
      /\ gateway'.tasks_drained = gateway.tasks_drained /\ gateway'.timed_out = gateway.timed_out
  <2>1. gateway \in GATEWAY
    BY Types
  <2> QED  BY <1>3, <2>1 DEF GATEWAY
<1>5. \A j \in Jobs : JobOK(j)' /\ SlotOK(j)' /\ (Committed(j)' <=> Committed(j))
  BY <1>3, OthersStay
<1>6. \A k \in Lanes : QueueOK(k)'
  BY <1>3, QueueStays
<1>7. /\ \A k \in {x, y, z} : Pumped(k)'
      /\ \A k : ~Pumped(k)
  <2>1. /\ 1 \in 1..Len(pumping') /\ pumping'[1] = x
        /\ 2 \in 1..Len(pumping') /\ pumping'[2] = y
        /\ 3 \in 1..Len(pumping') /\ pumping'[3] = z
    BY <1>3
  <2>2. Pumped(x)' /\ Pumped(y)' /\ Pumped(z)'
    BY <2>1 DEF Pumped
  <2> QED  BY <1>3, <2>2 DEF Pumped, Idle
<1>8. \A k \in Lanes \ {x, y, z} : maxConcurrent'[k] = maxConcurrent[k]
  BY <1>3, Types
<1>9. \A k \in Lanes : AwakeOK(k)'
  <2>1. \A k \in Lanes : AwakeOK(k)
    BY DEF Inv
  <2> QED  BY <1>3, <1>7, <1>8, <2>1 DEF AwakeOK
<1>10. TypeInv'
  <2>1. maxConcurrent' \in [Lanes -> Nat \ {0}] /\ pumping' \in Seq(Lanes)
    <3>1. maxConcurrent \in [Lanes -> Nat \ {0}]
      BY Types
    <3>2. PICK m1 : m1 = [maxConcurrent EXCEPT ![x] = f]
      OBVIOUS
    <3>3. m1 \in [Lanes -> Nat \ {0}]
      BY <1>2, <3>1, <3>2
    <3>4. PICK m2 : m2 = [m1 EXCEPT ![y] = g]
      OBVIOUS
    <3>5. m2 \in [Lanes -> Nat \ {0}] /\ maxConcurrent' = [m2 EXCEPT ![z] = h]
      BY <1>2, <1>3, <3>2, <3>3, <3>4
    <3>6. maxConcurrent' \in [Lanes -> Nat \ {0}]
      BY <1>2, <3>5
    <3> QED  BY <1>2, <1>3, <3>6
  <2> QED  BY <1>3, <1>4, <2>1 DEF Inv, TypeInv, LanesTypeOK, GATEWAY
<1>11. \A s \in Sessions : SessionOK(s)'
  <2>1. \A s \in Sessions : SessionLane(s) \in Lanes \ {x, y, z}
    BY <1>0, LaneNames
  <2> QED  BY <1>3, <1>8, <2>1 DEF Inv, SessionOK
<1>12. RestartOK'
  BY <1>4, <1>5 DEF Inv, RestartOK
<1> QED
  BY <1>5, <1>6, <1>9, <1>10, <1>11, <1>12 DEF Inv

----------------------------------------------------------------------------
(* The restart.                                                            *)

\* Who works for a session, or is about to, holds the lane of the session.
LEMMA CommittedHolds ==
  ASSUME Inv, NEW j \in Jobs, Committed(j)
  PROVE  j \in active[SessionLane(Session[j])] /\ SessionLane(Session[j]) \in Lanes
<1>1. /\ job[j].depth = Len(Path(j)) /\ Len(Path(j)) \in 2..3
      /\ Path(j)[Len(Path(j)) - 1] = SessionLane(Session[j])
      /\ SessionLane(Session[j]) \in Lanes
  BY PathFacts DEF Committed
<1>2. /\ Len(Path(j)) - 1 \in (job[j].outer)..Len(Path(j))
      /\ Len(Path(j)) - 1 # Len(Path(j))
  <2>1. job[j].outer \in 1..2 /\ job[j].outer < Len(Path(j))
    BY DEF Inv, JobOK, RecordOK, JOB
  <2> QED  BY <1>1, <2>1, LastButOne
<1>3. HoldsIn(j, job[j], SessionLane(Session[j]))
  BY <1>1, <1>2 DEF HoldsIn
<1> QED
  BY <1>1, <1>3 DEF Inv, SlotOK, Committed

\* A step of the restart that touches neither lanes nor jobs.
LEMMA RestartStepKeeps ==
  ASSUME Inv, UNCHANGED <<lanes, job, activeRun>>, gateway' \in GATEWAY,
         replyRun' \in [Sessions -> Replies \cup {None}],
         (\A j \in Jobs : Committed(j)' <=> Committed(j)) => RestartOK'
  PROVE  Inv'
<1>1. UNCHANGED <<queue, active, maxConcurrent, generation, pumping, job, activeRun>>
  BY DEF lanes
<1>2. \A j \in Jobs : JobOK(j)' /\ SlotOK(j)' /\ (Committed(j)' <=> Committed(j))
  BY <1>1, OthersStay
<1>3. \A k \in Lanes : QueueOK(k)' /\ AwakeOK(k)'
  BY <1>1, QueueStays DEF Inv, AwakeOK, Pumped
<1>4. TypeInv' /\ \A s \in Sessions : SessionOK(s)'
  BY <1>1 DEF Inv, TypeInv, LanesTypeOK, GATEWAY, SessionOK
<1> QED
  BY <1>2, <1>3, <1>4 DEF Inv

LEMMA RequestRestartKeeps ==
  ASSUME Inv, RequestRestart
  PROVE  Inv'
<1> DEFINE waiting == UNION {{<<l, j>> : j \in active[l]} : l \in Lanes}
           idle == \A l \in Lanes : active[l] = {}
<1>1. gateway \in GATEWAY /\ active \in [Lanes -> SUBSET Jobs]
  BY Types
<1>2. waiting \in SUBSET (Lanes \X Jobs)
  BY <1>1
<1>3. /\ gateway' = [gateway EXCEPT !.phase = "draining", !.waiting = waiting,
                       !.tasks_drained = idle, !.runs_drained = Registered = {},
                       !.timed_out = FALSE, !.draining = TRUE]
      /\ UNCHANGED <<lanes, job, activeRun, replyRun>>
  BY <1>1 DEF RequestRestart, Waiting, GATEWAY
<1>4. \A j \in Jobs : Committed(j) =>
        <<SessionLane(Session[j]), j>> \in waiting /\ ~idle
  BY CommittedHolds
<1>5. idle \in BOOLEAN /\ (Registered = {}) \in BOOLEAN
  OBVIOUS
<1> HIDE DEF waiting, idle
<1>6. /\ gateway' \in GATEWAY /\ gateway'.phase = "draining" /\ gateway'.draining
      /\ gateway'.waiting = waiting /\ gateway'.tasks_drained = idle
  BY <1>1, <1>2, <1>3, <1>5 DEF GATEWAY
<1>7. ASSUME \A j \in Jobs : Committed(j)' <=> Committed(j)  PROVE RestartOK'
  BY <1>4, <1>6, <1>7, Zenon DEF RestartOK
<1> QED
  BY <1>3, <1>6, <1>7, Types, RestartStepKeeps

LEMMA PollRunsKeeps ==
  ASSUME Inv, PollRuns
  PROVE  Inv'
<1>1. /\ gateway \in GATEWAY /\ gateway' = [gateway EXCEPT !.runs_drained = TRUE]
      /\ UNCHANGED <<lanes, job, activeRun, replyRun>>
  BY Types DEF PollRuns
<1>2. gateway' \in GATEWAY
  BY <1>1 DEF GATEWAY
<1>3. ASSUME \A j \in Jobs : Committed(j)' <=> Committed(j)  PROVE RestartOK'
  BY <1>1, <1>3 DEF Inv, RestartOK, GATEWAY
<1> QED
  BY <1>1, <1>2, <1>3, Types, RestartStepKeeps

LEMMA CloseKeeps ==
  ASSUME Inv, Close
  PROVE  Inv'
<1>1. /\ gateway \in GATEWAY /\ gateway' = [gateway EXCEPT !.phase = "closing"]
      /\ gateway.phase = "draining" /\ gateway.tasks_drained
      /\ UNCHANGED <<lanes, job, activeRun, replyRun>>
  BY Types DEF Close
<1>2. gateway' \in GATEWAY
  BY <1>1 DEF GATEWAY
<1>3. ASSUME \A j \in Jobs : Committed(j)' <=> Committed(j)  PROVE RestartOK'
  BY <1>1, <1>3 DEF Inv, RestartOK, GATEWAY
<1> QED
  BY <1>1, <1>2, <1>3, Types, RestartStepKeeps

\* Replies are closed.
LEMMA WithoutIsTyped ==
  ASSUME Inv, NEW R
  PROVE  Without(R) \in [Sessions -> Replies \cup {None}]
BY Types DEF Without

LEMMA RepliesEndKeeps ==
  ASSUME Inv, NEW s \in Sessions, AbortReply(s) \/ CloseReply(s)
  PROVE  Inv'
<1>1. /\ UNCHANGED <<lanes, job, activeRun>> /\ gateway' = gateway
      /\ replyRun' \in [Sessions -> Replies \cup {None}]
  BY WithoutIsTyped DEF AbortReply, CloseReply
<1>2. ASSUME \A j \in Jobs : Committed(j)' <=> Committed(j)  PROVE RestartOK'
  BY <1>1, <1>2 DEF Inv, RestartOK
<1> QED
  BY <1>1, <1>2, Types, RestartStepKeeps

LEMMA DrainTimesOutKeeps ==
  ASSUME Inv, DrainTimesOut
  PROVE  Inv'
<1>1. /\ gateway \in GATEWAY /\ gateway.phase = "draining"
      /\ gateway' = [gateway EXCEPT !.phase = "closing", !.timed_out = TRUE]
      /\ UNCHANGED <<lanes, job, activeRun>>
      /\ replyRun' \in [Sessions -> Replies \cup {None}]
  BY Types, WithoutIsTyped DEF DrainTimesOut
<1>2. gateway' \in GATEWAY
  BY <1>1 DEF GATEWAY
<1>3. ASSUME \A j \in Jobs : Committed(j)' <=> Committed(j)  PROVE RestartOK'
  BY <1>1, <1>3 DEF Inv, RestartOK, GATEWAY
<1> QED
  BY <1>1, <1>2, <1>3, RestartStepKeeps

LEMMA ResetAllLanesKeeps ==
  ASSUME Inv, ResetAllLanes
  PROVE  Inv'
<1>1. /\ Idle /\ gateway \in GATEWAY /\ generation \in [Lanes -> Nat]
      /\ gateway' = [Serving EXCEPT !.restarts = gateway.restarts + 1, !.reloads = gateway.reloads]
      /\ generation' = [l \in Lanes |-> generation[l] + 1]
      /\ active' = [l \in Lanes |-> {}]
      /\ pumping' \in SetToSeqs(WaitingLanes)
      /\ UNCHANGED <<queue, maxConcurrent, job, activeRun, replyRun>>
  BY Types DEF ResetAllLanes
<1>2. gateway' \in GATEWAY /\ gateway'.phase = "serving"
  <2>1. gateway' = [phase |-> "serving", draining |-> FALSE, waiting |-> {},
                    tasks_drained |-> FALSE, runs_drained |-> FALSE, timed_out |-> FALSE,
                    restarts |-> gateway.restarts + 1, reloads |-> gateway.reloads]
    BY <1>1 DEF Serving
  <2>2. gateway.restarts + 1 \in Nat /\ gateway.reloads \in Nat
    BY <1>1 DEF GATEWAY
  <2> QED  BY <2>1, <2>2 DEF GATEWAY
<1>3. \A l \in Lanes : generation'[l] \in Nat /\ generation[l] < generation'[l]
  BY <1>1
<1>4. \A j \in Jobs : JobOK(j)' /\ SlotOK(j)'
  <2> SUFFICES ASSUME NEW j \in Jobs  PROVE JobOK(j)' /\ SlotOK(j)'
    OBVIOUS
  <2>1. JobOK(j) /\ job[j] \in JOB
    BY Types DEF Inv
  <2>2. \A l \in Lanes : job[j].born[l] \in Nat /\ job[j].born[l] <= generation[l]
    BY <2>1 DEF JobOK, JOB
  <2>3. \A l \in Lanes : job[j].born[l] < generation'[l]
    BY <1>1, <1>3, <2>2
  <2>4. \A l \in Lanes : job[j].born[l] <= generation'[l] /\ job[j].born[l] # generation'[l]
    BY <1>3, <2>2, <2>3
  <2> QED  BY <1>1, <2>1, <2>4 DEF JobOK, SlotOK
<1>5. \A l \in Lanes : QueueOK(l)'
  BY <1>1, QueueStays
<1>6. pumping' \in Seq(Lanes) /\ \A l \in WaitingLanes : Pumped(l)'
  <2>1. IsFiniteSet(WaitingLanes)
    BY FiniteLanes, FS_Subset DEF WaitingLanes
  <2>2. /\ pumping' \in Seq(WaitingLanes)
        /\ \A l \in WaitingLanes : \E i \in 1..Len(pumping') : pumping'[i] = l
    BY <1>1, <2>1, AllInSequence
  <2>3. WaitingLanes \subseteq Lanes
    BY DEF WaitingLanes
  <2> QED  BY <2>2, <2>3 DEF Pumped
<1>7. \A l \in Lanes : AwakeOK(l)'
  BY <1>1, <1>6 DEF AwakeOK, WaitingLanes
<1>8. TypeInv'
  <2>1. generation' \in [Lanes -> Nat] /\ active' \in [Lanes -> SUBSET Jobs]
    BY <1>1
  <2>2. \A l \in Lanes : IsFiniteSet(active'[l])
    BY <1>1, FS_EmptySet
  <2> QED  BY <1>1, <1>2, <1>6, <2>1, <2>2, Types DEF TypeInv, LanesTypeOK, JOB, GATEWAY
<1>9. \A s \in Sessions : SessionOK(s)'
  BY <1>1, LaneNames DEF Inv, SessionOK
<1>10. RestartOK'
  BY <1>2 DEF RestartOK
<1> QED
  BY <1>4, <1>5, <1>7, <1>8, <1>9, <1>10 DEF Inv

LEMMA StutteringKeeps ==
  ASSUME Inv, UNCHANGED vars
  PROVE  Inv'
<1>1. UNCHANGED <<lanes, job, activeRun, replyRun>> /\ gateway' = gateway
  BY DEF vars
<1>2. ASSUME \A j \in Jobs : Committed(j)' <=> Committed(j)  PROVE RestartOK'
  BY <1>1, <1>2 DEF Inv, RestartOK
<1> QED
  BY <1>1, <1>2, Types, RestartStepKeeps

----------------------------------------------------------------------------
(* Theorems.                                                               *)

LEMMA NextKeeps == Inv /\ [Next]_vars => Inv'
<1> SUFFICES ASSUME Inv, [Next]_vars  PROVE Inv'
  OBVIOUS
<1>1. CASE Drain
  BY <1>1, StartKeeps, DrainEndsKeeps DEF Drain
<1>2. ASSUME NEW j \in Jobs,
             Submit(j) \/ OpenReply(j) \/ Register(j) \/ Retry(j) \/ Serve(j) \/ CronTimesOut(j)
      PROVE  Inv'
  BY <1>2, SubmitKeeps, OpenReplyKeeps, RegisterKeeps, RetryKeeps, ProceedKeeps, FinishKeeps,
     ReturnKeeps, CronTimesOutKeeps DEF Serve
<1>3. ASSUME NEW s \in Sessions, Clear(s) \/ AbortReply(s) \/ CloseReply(s)  PROVE Inv'
  BY <1>3, ClearKeeps, RepliesEndKeeps
<1>4. ASSUME NEW limit \in Limits, Reload(limit)  PROVE Inv'
  BY <1>4, ReloadKeeps
<1>5. CASE RequestRestart \/ PollRuns \/ Close \/ DrainTimesOut \/ ResetAllLanes
  BY <1>5, RequestRestartKeeps, PollRunsKeeps, CloseKeeps, DrainTimesOutKeeps, ResetAllLanesKeeps
<1>6. CASE UNCHANGED vars
  BY <1>6, StutteringKeeps
<1> QED
  BY <1>1, <1>2, <1>3, <1>4, <1>5, <1>6 DEF Next

\* The inductive invariant of the lanes, the jobs in them and the restart loop.
THEOREM LanesInvariant == Spec => []Inv
<1> QED
  BY InitEstablishes, NextKeeps, PTL DEF Spec

\* Every variable of the queue, its jobs and the restart loop has its type.
THEOREM LanesTypeCorrect == Spec => []LanesTypeOK
<1>1. Inv => LanesTypeOK
  BY DEF Inv, TypeInv
<1> QED
  BY <1>1, LanesInvariant, PTL

\* Once drainLane has run to its end nobody waits in a lane with a free slot, whatever
\* ended, was cleared, configured or reset: no wake-up is lost.
THEOREM NoWakeUpIsLost == Spec => []NoIdleSlot
<1>1. Inv => NoIdleSlot
  <2> SUFFICES ASSUME Inv, pumping = <<>>, NEW l \in Lanes
               PROVE  queue[l] = <<>> \/ Cardinality(active[l]) >= maxConcurrent[l]
    BY DEF NoIdleSlot, Idle
  <2>1. AwakeOK(l) /\ ~Pumped(l)
    BY DEF Inv, Pumped
  <2> QED  BY <2>1 DEF AwakeOK
<1> QED
  BY <1>1, LanesInvariant, PTL

\* activeTaskIds holds the tasks that hold the lane since its last reset, and no other:
\* no slot leaks, and none is given twice.
THEOREM NoSlotLeaks == Spec => []SlotsAreHeld
<1>1. Inv => SlotsAreHeld
  <2> SUFFICES ASSUME Inv, NEW l \in Lanes
               PROVE  active[l] = {j \in Jobs : job[j].phase # "settled" /\ Holds(j, l)
                                                 /\ job[j].born[l] = generation[l]}
    BY DEF SlotsAreHeld
  <2>1. active[l] \subseteq Jobs
    BY Types
  <2>2. ASSUME NEW j \in Jobs
        PROVE  j \in active[l] <=> job[j].phase # "settled" /\ Holds(j, l)
                                    /\ job[j].born[l] = generation[l]
    <3>1. SlotOK(j) /\ RecordOK(j, job[j])
      BY DEF Inv, JobOK
    <3>2. Holds(j, l) <=> HoldsIn(j, job[j], l)
      BY DEF Holds, HoldsIn
    <3>3. job[j].phase = "settled" => ~Holds(j, l)
      BY <3>1 DEF RecordOK, JOB, Holds
    <3> QED  BY <3>1, <3>2, <3>3 DEF SlotOK
  <2> QED  BY <2>1, <2>2
<1> QED
  BY <1>1, LanesInvariant, PTL

\* Between two restarts one run at a time works on a session, however many are asked for.
THEOREM RunsOfASessionExclude == Spec => []OneRunPerLifecycle
<1>1. Inv => OneRunPerLifecycle
  <2> SUFFICES ASSUME Inv, NEW s \in Sessions
               PROVE  Cardinality({j \in Jobs : AtWork(j) /\ Session[j] = s
                        /\ job[j].born[SessionLane(s)] = generation[SessionLane(s)]}) <= 1
    BY DEF OneRunPerLifecycle
  <2> DEFINE R == {j \in Jobs : AtWork(j) /\ Session[j] = s
                     /\ job[j].born[SessionLane(s)] = generation[SessionLane(s)]}
  <2>1. \A j \in R : Committed(j)
    BY DEF AtWork, Committed, Inv, JobOK, RecordOK
  <2>2. \A j \in R : j \in active[SessionLane(s)]
    BY <2>1, CommittedHolds
  <2>3. \A i, j \in R : i = j
    BY <2>2 DEF Inv, SessionOK
  <2> HIDE DEF R
  <2>4. R = {} \/ \E x : R = {x}
    BY <2>3
  <2>5. Cardinality(R) = 0 \/ Cardinality(R) = 1
    BY <2>4, FS_EmptySet, FS_Singleton
  <2> QED  BY <2>5 DEF R
<1> QED
  BY <1>1, LanesInvariant, PTL

\* A restart that waited until tasks and runs were drained cuts off no run started since
\* the restart before.
THEOREM RestartWaits == Spec => []NothingIsCutOff
<1>1. Inv => NothingIsCutOff
  BY DEF Inv, RestartOK, NothingIsCutOff, Committed, AtWork, JobOK, RecordOK
<1> QED
  BY <1>1, LanesInvariant, PTL

=============================================================================

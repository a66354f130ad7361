------------------------------ MODULE CommandLanes ------------------------------
(***************************************************************************)
(* The command queue of the OpenClaw gateway (process/command-queue.ts),    *)
(* the runs that pass through it, and the in-process restart that resets    *)
(* it (cli/gateway-cli/run-loop.ts).                                       *)
(*                                                                         *)
(* A job is one agent run.  It takes a slot in each lane of its path, one   *)
(* after the other, works while it holds them all, and gives them back in   *)
(* the opposite order: session lane, then global lane; a cron job holds     *)
(* the cron lane before that, until its run has ended or its time is up.    *)
(*                                                                         *)
(* A run that answers a message belongs to a reply, which is opened before  *)
(* the run asks for a lane and closed after it has settled                 *)
(* (auto-reply/reply/reply-run-registry.ts).  A reply asks for one run: the *)
(* memory flush and the fallback models of a reply would be further runs.   *)
(*                                                                         *)
(* drainLane runs to its end without giving up the event loop.  What it     *)
(* starts may drain another lane: pumping is the stack of drains under way, *)
(* and everything else waits until it is empty.                            *)
(***************************************************************************)
EXTENDS Naturals, FiniteSets, SequencesExt

CONSTANTS
  Jobs,        \* agent runs, each asked for at most once
  Replies,     \* those that answer a message
  Sessions,
  Session,     \* the session of each job
  Lane,        \* the lane each job asks for
  Limits,      \* what a configuration may say of the concurrency of each lane
  MaxRestarts, \* bound: restarts of the gateway
  MaxReloads,  \* bound: reloads of the configuration
  None         \* no run

CommandLane == {"main", "cron", "subagent", "nested"}

ConfiguredLane == {"main", "cron", "subagent"}

ASSUME JobsAssumption == Session \in [Jobs -> Sessions] /\ Lane \in [Jobs -> CommandLane]
ASSUME SessionsAssumption == IsFiniteSet(Sessions)
ASSUME LimitsAssumption == Limits \subseteq [ConfiguredLane -> Nat]
ASSUME BoundsAssumption == MaxRestarts \in Nat /\ MaxReloads \in Nat
ASSUME RepliesAssumption == Replies \subseteq Jobs
ASSUME NoneAssumption == None \notin Jobs

VARIABLES
  queue,          \* the jobs that wait in each lane
  active,         \* the jobs each lane counts as running (activeTaskIds)
  maxConcurrent,  \* the slots of each lane
  generation,     \* how often each lane was reset
  job,            \* where each job stands
  pumping,        \* the lanes being drained, the innermost first
  activeRun,      \* the run registered for each session, or None
  replyRun,       \* the run whose reply is open in each session, or None
  gateway         \* the restart loop

lanes == <<queue, active, maxConcurrent, generation, pumping>>
vars == <<lanes, job, activeRun, replyRun, gateway>>

SessionLane(s) == <<"session", s>>
GlobalLane(lane) == <<"global", lane>>
Lanes == {SessionLane(s) : s \in Sessions} \cup {GlobalLane(l) : l \in CommandLane}

\* Mutant: a cron job asks for the lane it holds.
resolveGlobalLane_Same(lane) == lane

\* "Cron jobs hold the cron lane slot; inner operations must use nested to avoid deadlock."
resolveGlobalLane(lane) == IF lane = "cron" THEN "nested" ELSE lane

Path(j) ==
  LET run == <<SessionLane(Session[j]), GlobalLane(resolveGlobalLane(Lane[j]))>>
  IN  IF Lane[j] = "cron" THEN <<GlobalLane("cron")>> \o run ELSE run

\* The job has entered the lanes of its path up to depth, and left those before outer
\* for good; born: the generation in which it got its slot in each of them.
NewJob == [phase |-> "new", outer |-> 1, depth |-> 0, born |-> [l \in Lanes |-> 0]]

LaneOf(j) == Path(j)[job[j].depth]

\* waiting: the tasks a restart waits for (activeAtStart).
Serving == [phase |-> "serving", draining |-> FALSE, waiting |-> {}, tasks_drained |-> FALSE,
            runs_drained |-> FALSE, timed_out |-> FALSE, restarts |-> 0, reloads |-> 0]

Init ==
  /\ queue = [l \in Lanes |-> <<>>]
  /\ active = [l \in Lanes |-> {}]
  /\ maxConcurrent = [l \in Lanes |-> 1]
  /\ generation = [l \in Lanes |-> 0]
  /\ job = [j \in Jobs |-> NewJob]
  /\ pumping = <<>>
  /\ activeRun = [s \in Sessions |-> None]
  /\ replyRun = [s \in Sessions |-> None]
  /\ gateway = Serving

Idle == pumping = <<>>

----------------------------------------------------------------------------
(* The lanes.                                                              *)

\* A job waits in lane l, the next of its path, and the lane is drained.
Enter(j, l) ==
  /\ queue' = [queue EXCEPT ![l] = Append(@, j)]
  /\ pumping' = <<l>> \o pumping
  /\ job' = [job EXCEPT ![j].phase = "queued", ![j].depth = @ + 1]

\* enqueueCommandInLane, called from outside any lane and any reply.
Submit(j) ==
  /\ Idle /\ job[j].phase = "new" /\ j \notin Replies
  /\ IF gateway.draining
     THEN /\ job' = [job EXCEPT ![j].phase = "settled"]   \* refused
          /\ UNCHANGED <<queue, pumping>>
     ELSE Enter(j, Path(j)[1])
  /\ UNCHANGED <<active, maxConcurrent, generation, activeRun, replyRun, gateway>>

\* Mutant: one task more than there are slots.
CanStart_OneMore(l) == Cardinality(active[l]) <= maxConcurrent[l] /\ queue[l] # <<>>

CanStart(l) == Cardinality(active[l]) < maxConcurrent[l] /\ queue[l] # <<>>

Draining(l) == pumping # <<>> /\ Head(pumping) = l

\* The task of the entry at the head of lane l starts: a cron job prepares its run, a
\* session task asks for the global lane at once, a task that holds all lanes works.
Start(l) ==
  /\ Draining(l) /\ CanStart(l)
  /\ LET j == Head(queue[l])
         d == job[j].depth
         started == [job EXCEPT ![j].born[l] = generation[l]]
         entering == d < Len(Path(j)) /\ l # GlobalLane("cron") /\ ~gateway.draining
     IN
     /\ active' = [active EXCEPT ![l] = @ \cup {j}]
     /\ job' = CASE d = Len(Path(j))     -> [started EXCEPT ![j].phase = "working"]
                 [] l = GlobalLane("cron") -> [started EXCEPT ![j].phase = "preparing"]
                 [] entering             -> [started EXCEPT ![j].depth = d + 1]
                 [] OTHER                -> [started EXCEPT ![j].phase = "returning"]  \* refused
     /\ IF entering
        THEN /\ queue' = [queue EXCEPT ![l] = Tail(@), ![Path(j)[d + 1]] = Append(@, j)]
             /\ pumping' = <<Path(j)[d + 1]>> \o pumping
        ELSE /\ queue' = [queue EXCEPT ![l] = Tail(@)]
             /\ UNCHANGED pumping
  /\ UNCHANGED <<maxConcurrent, generation, activeRun, replyRun, gateway>>

DrainEnds(l) ==
  /\ Draining(l) /\ ~CanStart(l)
  /\ pumping' = Tail(pumping)
  /\ UNCHANGED <<queue, active, maxConcurrent, generation, job, activeRun, replyRun, gateway>>

\* createReplyOperation, draining or not; a session has one reply at a time.
OpenReply(j) ==
  /\ Idle /\ job[j].phase = "new" /\ j \in Replies /\ replyRun[Session[j]] = None
  /\ replyRun' = [replyRun EXCEPT ![Session[j]] = j]
  /\ job' = [job EXCEPT ![j].phase = "preparing"]
  /\ UNCHANGED <<lanes, activeRun, gateway>>

\* The replies that have not asked for their run yet.
Opening == {s \in Sessions : replyRun[s] # None /\ job[replyRun[s]].phase = "preparing"}

Without(replies) == [s \in Sessions |-> IF s \in replies THEN None ELSE replyRun[s]]

\* A reply that is aborted while it is queued is closed at once; what it was about to do
\* goes on.
AbortReply(s) ==
  /\ Idle /\ s \in Opening
  /\ replyRun' = Without({s})
  /\ UNCHANGED <<lanes, job, activeRun, gateway>>

\* Mutant: a reply that ends while the gateway drains is left open.
CloseReply_NotDraining(s) ==
  /\ Idle /\ replyRun[s] # None /\ job[replyRun[s]].phase = "settled" /\ ~gateway.draining
  /\ replyRun' = Without({s})
  /\ UNCHANGED <<lanes, job, activeRun, gateway>>

\* complete or fail, some time after the run of the reply has settled.
CloseReply(s) ==
  /\ Idle /\ replyRun[s] # None /\ job[replyRun[s]].phase = "settled"
  /\ replyRun' = Without({s})
  /\ UNCHANGED <<lanes, job, activeRun, gateway>>

\* Where a job goes that is done with all it did at its depth.
Done(r) == IF r.depth < r.outer THEN "settled" ELSE "returning"

\* The run a reply or a cron job has prepared asks for its first lane; or there is
\* nothing to run, or it is refused.
Proceed(j) ==
  /\ Idle /\ job[j].phase = "preparing"
  /\ \/ /\ ~gateway.draining
        /\ Enter(j, Path(j)[job[j].depth + 1])
     \/ /\ job' = [job EXCEPT ![j].phase = Done(job[j])]
        /\ UNCHANGED <<queue, pumping>>
  /\ UNCHANGED <<active, maxConcurrent, generation, activeRun, replyRun, gateway>>

AtWork(j) == job[j].phase \in {"working", "registered"}

\* setActiveEmbeddedRun, some time into an attempt; it replaces what it finds.
Register(j) ==
  /\ Idle /\ job[j].phase = "working"
  /\ job' = [job EXCEPT ![j].phase = "registered"]
  /\ activeRun' = [activeRun EXCEPT ![Session[j]] = j]
  /\ UNCHANGED <<lanes, replyRun, gateway>>

\* clearActiveEmbeddedRun leaves the registration of another run alone.
Unregistered(j) == [activeRun EXCEPT ![Session[j]] = IF @ = j THEN None ELSE @]

\* An attempt ends, and the run tries again.
Retry(j) ==
  /\ Idle /\ job[j].phase = "registered"
  /\ job' = [job EXCEPT ![j].phase = "working"]
  /\ activeRun' = Unregistered(j)
  /\ UNCHANGED <<lanes, replyRun, gateway>>

\* The work ends, is aborted, fails or times out.
Finish(j) ==
  /\ Idle /\ AtWork(j)
  /\ job' = [job EXCEPT ![j].phase = "returning"]
  /\ activeRun' = Unregistered(j)
  /\ UNCHANGED <<lanes, replyRun, gateway>>

\* The job goes back to the lane it entered before.
LeaveLane(j) ==
  [job[j] EXCEPT !.phase = IF job[j].depth = job[j].outer THEN "settled" ELSE "returning",
                 !.depth = @ - 1, !.born[LaneOf(j)] = 0]

\* notifyActiveTaskWaiters.
Notified(restart, running) ==
  IF restart.phase = "draining" /\ \A task \in restart.waiting : task[2] \notin running[task[1]]
  THEN [restart EXCEPT !.tasks_drained = TRUE]
  ELSE restart

\* Mutant: the lane is not drained.
GiveBack_NoPump(j, l) ==
  IF job[j].born[l] = generation[l]
  THEN /\ active' = [active EXCEPT ![l] = @ \ {j}]
       /\ gateway' = Notified(gateway, active')
       /\ UNCHANGED pumping
  ELSE UNCHANGED <<active, gateway, pumping>>

\* completeTask: a slot of lane l is given back and the lane is drained, unless the lane
\* was reset since the task started.
GiveBack(j, l) ==
  IF job[j].born[l] = generation[l]
  THEN /\ active' = [active EXCEPT ![l] = @ \ {j}]
       /\ gateway' = Notified(gateway, active')
       /\ pumping' = <<l>>
  ELSE UNCHANGED <<active, gateway, pumping>>

\* The task of the innermost lane of a job has ended.
Return(j) ==
  /\ Idle /\ job[j].phase = "returning"
  /\ job' = [job EXCEPT ![j] = LeaveLane(j)]
  /\ GiveBack(j, LaneOf(j))
  /\ UNCHANGED <<queue, maxConcurrent, generation, activeRun, replyRun>>

\* "cron: job execution timed out": the job gives back the slot of the cron lane, its run
\* goes on where it stands.
CronTimesOut(j) ==
  /\ Idle /\ Lane[j] = "cron" /\ job[j].outer = 1
  /\ job[j].depth > 1 \/ (job[j].depth = 1 /\ job[j].phase = "preparing")
  /\ job' = [job EXCEPT ![j].outer = 2, ![j].born[GlobalLane("cron")] = 0]
  /\ GiveBack(j, GlobalLane("cron"))
  /\ UNCHANGED <<queue, maxConcurrent, generation, activeRun, replyRun>>

\* What waits is rejected.
Rejected(l) == [j \in Jobs |-> IF Contains(queue[l], j) THEN LeaveLane(j) ELSE job[j]]

\* clearCommandLane, for a message that interrupts the session or a session that is reset.
Clear(s) ==
  LET l == SessionLane(s) IN
  /\ Idle /\ queue[l] # <<>>
  /\ job' = Rejected(l)
  /\ queue' = [queue EXCEPT ![l] = <<>>]
  /\ UNCHANGED <<active, maxConcurrent, generation, pumping, activeRun, replyRun, gateway>>

\* Mutant: the limit is taken as it is.
AtLeastOne_AsGiven(limit) == limit

AtLeastOne(limit) == IF limit = 0 THEN 1 ELSE limit

\* setCommandLaneConcurrency, for one lane after the other, at the start and when the
\* configuration is reloaded; the session lanes and the nested lane keep their one slot.
Reload(limit) ==
  /\ Idle /\ gateway.reloads < MaxReloads
  /\ maxConcurrent' = [maxConcurrent EXCEPT ![GlobalLane("cron")] = AtLeastOne(limit["cron"]),
                                            ![GlobalLane("main")] = AtLeastOne(limit["main"]),
                                            ![GlobalLane("subagent")] = AtLeastOne(limit["subagent"])]
  /\ pumping' = <<GlobalLane("cron"), GlobalLane("main"), GlobalLane("subagent")>>
  /\ gateway' = [gateway EXCEPT !.reloads = @ + 1]
  /\ UNCHANGED <<queue, active, generation, job, activeRun, replyRun>>

----------------------------------------------------------------------------
(* The restart.                                                            *)

\* getActiveEmbeddedRunCount: the sessions with a run at work or a reply.
Registered == {s \in Sessions : activeRun[s] # None \/ replyRun[s] # None}

\* What a restart waits for: the tasks that are active now, and runs and replies if there
\* are any.
Waiting ==
  [gateway EXCEPT !.phase = "draining",
     !.waiting = UNION {{<<l, j>> : j \in active[l]} : l \in Lanes},
     !.tasks_drained = \A l \in Lanes : active[l] = {},
     !.runs_drained = Registered = {}, !.timed_out = FALSE]

\* Mutant: new work is let in while the old one ends.
RequestRestart_LetsIn ==
  /\ Idle /\ gateway.phase = "serving" /\ gateway.restarts < MaxRestarts
  /\ gateway' = Waiting
  /\ UNCHANGED <<lanes, job, activeRun, replyRun>>

\* SIGUSR1: the gateway takes no more work and waits for what it has.
RequestRestart ==
  /\ Idle /\ gateway.phase = "serving" /\ gateway.restarts < MaxRestarts
  /\ gateway' = [Waiting EXCEPT !.draining = TRUE]
  /\ UNCHANGED <<lanes, job, activeRun, replyRun>>

\* waitForActiveEmbeddedRuns polls.
PollRuns ==
  /\ Idle /\ gateway.phase = "draining" /\ ~gateway.runs_drained /\ Registered = {}
  /\ gateway' = [gateway EXCEPT !.runs_drained = TRUE]
  /\ UNCHANGED <<lanes, job, activeRun, replyRun>>

Close ==
  /\ Idle /\ gateway.phase = "draining"
  /\ gateway.tasks_drained /\ gateway.runs_drained
  /\ gateway' = [gateway EXCEPT !.phase = "closing"]
  /\ UNCHANGED <<lanes, job, activeRun, replyRun>>

\* "drain timeout reached; proceeding with restart".  What still runs is aborted, which
\* is one of the ways to Finish, in its own time; replies that are queued are closed.
DrainTimesOut ==
  /\ Idle /\ gateway.phase = "draining"
  /\ ~(gateway.tasks_drained /\ gateway.runs_drained)
  /\ gateway' = [gateway EXCEPT !.phase = "closing", !.timed_out = TRUE]
  /\ \E queued \in SUBSET Opening : replyRun' = Without(queued)
  /\ UNCHANGED <<lanes, job, activeRun>>

WaitingLanes == {l \in Lanes : queue[l] # <<>>}

\* Mutant: the slots of the tasks before the restart stay taken.
ResetAllLanes_KeepsActive ==
  /\ Idle /\ gateway.phase = "closing"
  /\ gateway' = [Serving EXCEPT !.restarts = gateway.restarts + 1, !.reloads = gateway.reloads]
  /\ generation' = [l \in Lanes |-> generation[l] + 1]
  /\ pumping' \in SetToSeqs(WaitingLanes)
  /\ UNCHANGED <<queue, active, maxConcurrent, job, activeRun, replyRun>>

\* The server is closed; the next turn of the loop resets the lanes and drains those
\* in which somebody waits, in the order they were first used in, before it starts the
\* server again.
ResetAllLanes ==
  /\ Idle /\ gateway.phase = "closing"
  /\ gateway' = [Serving EXCEPT !.restarts = gateway.restarts + 1, !.reloads = gateway.reloads]
  /\ generation' = [l \in Lanes |-> generation[l] + 1]
  /\ active' = [l \in Lanes |-> {}]
  /\ pumping' \in SetToSeqs(WaitingLanes)
  /\ UNCHANGED <<queue, maxConcurrent, job, activeRun, replyRun>>

----------------------------------------------------------------------------
Drain == \E l \in Lanes : Start(l) \/ DrainEnds(l)

Serve(j) == Proceed(j) \/ Finish(j) \/ Return(j)

Next ==
  \/ Drain
  \/ \E j \in Jobs :
       Submit(j) \/ OpenReply(j) \/ Register(j) \/ Retry(j) \/ Serve(j) \/ CronTimesOut(j)
  \/ \E s \in Sessions : Clear(s) \/ AbortReply(s) \/ CloseReply(s)
  \/ \E limit \in Limits : Reload(limit)
  \/ RequestRestart \/ PollRuns \/ Close \/ DrainTimesOut \/ ResetAllLanes

\* Runs end, by their own timeout if need be, and so do the replies around them; a
\* restart need not time out, nor a cron job.
Fairness ==
  /\ WF_vars(Drain)
  /\ \A j \in Jobs : WF_vars(Serve(j))
  /\ \A s \in Sessions : WF_vars(CloseReply(s))
  /\ WF_vars(PollRuns) /\ WF_vars(Close) /\ WF_vars(ResetAllLanes)

Spec == Init /\ [][Next]_vars /\ Fairness

----------------------------------------------------------------------------
LanesTypeOK ==
  /\ queue \in [Lanes -> Seq(Jobs)]
  /\ active \in [Lanes -> SUBSET Jobs]
  /\ maxConcurrent \in [Lanes -> Nat \ {0}]
  /\ generation \in [Lanes -> Nat]
  /\ job \in [Jobs ->
       [phase : {"new", "queued", "preparing", "working", "registered", "returning", "settled"},
        outer : 1..2, depth : 0..3, born : [Lanes -> Nat]]]
  /\ pumping \in Seq(Lanes)
  /\ activeRun \in [Sessions -> Jobs \cup {None}]
  /\ replyRun \in [Sessions -> Replies \cup {None}]
  /\ gateway \in
       [phase : {"serving", "draining", "closing"}, draining : BOOLEAN,
        waiting : SUBSET (Lanes \X Jobs), tasks_drained : BOOLEAN, runs_drained : BOOLEAN,
        timed_out : BOOLEAN, restarts : Nat, reloads : Nat]

\* Nobody waits in a lane that has a free slot, whatever ended, was cleared, configured
\* or reset: no wake-up is lost.
NoIdleSlot ==
  Idle => \A l \in Lanes : queue[l] = <<>> \/ Cardinality(active[l]) >= maxConcurrent[l]

\* A job holds the lanes of its path it has started in and not yet left.
Holds(j, l) ==
  \E d \in job[j].outer..job[j].depth :
    Path(j)[d] = l /\ ~(d = job[j].depth /\ job[j].phase = "queued")

\* The slots counted as taken are those of tasks that hold the lane since its last
\* reset, so that no slot leaks and none is given twice.
SlotsAreHeld ==
  \A l \in Lanes :
    active[l] = {j \in Jobs : job[j].phase # "settled" /\ Holds(j, l)
                                /\ job[j].born[l] = generation[l]}

\* Between two restarts one run at a time works on a session.
OneRunPerLifecycle ==
  \A s \in Sessions :
    Cardinality({j \in Jobs : AtWork(j) /\ Session[j] = s
                   /\ job[j].born[SessionLane(s)] = generation[SessionLane(s)]}) <= 1

\* A restart that waited to the end cuts off no run started since the restart before.
NothingIsCutOff ==
  gateway.phase = "closing" /\ ~gateway.timed_out =>
    \A j \in Jobs : AtWork(j) =>
      job[j].born[SessionLane(Session[j])] # generation[SessionLane(Session[j])]

\* Whoever asked for a run hears how it ended, across restarts.
JobsSettle == \A j \in Jobs : job[j].phase # "new" ~> job[j].phase = "settled"

\* A restart does not need its timeout: what it waits for ends by itself.
RestartsEnd == gateway.phase = "draining" ~> gateway.phase = "serving"

=============================================================================

----------------------------- MODULE StepExecutor -----------------------------
(***************************************************************************)
(* POST /chat/stream, POST /chat/stop, the session store and the step      *)
(* executor, as they share one asyncio event loop.                         *)
(*                                                                         *)
(* A request is one call of /chat/stream.  A fresh request builds a        *)
(* SessionData object; the object is named by that request, and store maps *)
(* a session id to the object it holds, so that a task can go on working   *)
(* on an object the store has dropped.  Every accepted request gets one    *)
(* task that runs execute_step and one response body, sse[r].              *)
(*                                                                         *)
(* Only a node that calls the language model suspends its task.  Between   *)
(* two suspensions a task has the event loop to itself: running names it,  *)
(* and the handlers wait until running is None.  Each iteration of the     *)
(* while loop of execute_step is an action (three, around a model call).   *)
(* Tasks that can run wait their turn in ready, first in, first out; a     *)
(* handler whose request has arrived may run between any two of them.      *)
(***************************************************************************)
EXTENDS PlanExpansion, FiniteSets, SequencesExt

CONSTANTS
  Requests,     \* calls of /chat/stream, each made at most once
  SessionIds,   \* session ids the clients use
  Anonymous,    \* the key of a request without session_id; need not be used
  Targets,      \* what the user may address: [type, agent] records
  CeoPlans,     \* department sequences the CEO's model may answer
  SubPlans,     \* agent sequences a department lead's model may answer
  Moves,        \* what the environment does beside asking and continuing:
                \* a subset of EnvironmentMoves
  None          \* Python's None

EnvironmentMoves ==
  {"message", "regenerate", "modify", "stop", "raise", "malformed", "restart",
   "stream",       \* bodies show the tokens of an answer, not only its end
   "disconnect"}   \* a move of the client's: see ChatSystem

ASSUME MovesAssumption == Moves \subseteq EnvironmentMoves
ASSUME TargetsAssumption ==
  Targets \subseteq [type : {"orchestrator", "agent"}, agent : Names]
ASSUME PlansAssumption == CeoPlans \subseteq Seq(Names) /\ SubPlans \subseteq Seq(Names)

VARIABLES
  store,        \* _sessions: the object each session id holds, or None
  sessionData,  \* the SessionData object built by each request, or None
  task,         \* the executor task of each request
  sse,          \* the response body of each request, event by event
  ready,        \* the tasks waiting for the event loop, in order
  running       \* the task that has the event loop, or None

vars == <<store, sessionData, task, sse, ready, running>>

----------------------------------------------------------------------------
(* Messages, state, events.                                                *)

\* by: the request whose text this is, or whose task wrote it.
UserMessage(r) == [role |-> "user", by |-> r]
AIMessage(r)   == [role |-> "ai", by |-> r]
Message == [role : {"user", "ai"}, by : Requests]
IsAI(m) == m.role = "ai"

NoReply == [role |-> "none", by |-> None]

\* AgentState, without what only prompts or the LangGraph engine read.
\* results holds the places of state["results"] that have been written; messages
\* starts with the question, without the history a client may send in front of it.
InitialState(r) ==
  [messages |-> <<UserMessage(r)>>, results |-> {}, plan |-> <<>>, plan_step |-> 0,
   sub_plan |-> <<>>, sub_plan_step |-> 0, current_department |-> ""]

Thinking(node) == [type |-> "thinking", node |-> node]
Chunk(node, r) == [type |-> "stream", node |-> node, by |-> r]
Updated(node)  == [type |-> "update", node |-> node]
AwaitingConfirmation(node, next, is_final) ==
  [type |-> "awaiting_confirmation", node |-> node, next |-> next, is_final |-> is_final]
Final(response) == [type |-> "final", response |-> response]
Stopped    == [type |-> "stopped"]
ErrorEvent == [type |-> "error"]
End        == [type |-> "end"]

NewTask == [pc |-> "none", session_id |-> Anonymous, obj |-> None, plan |-> <<>>,
            cursor |-> 0, writer |-> None, streamed |-> FALSE]

HasEnded(r) == sse[r] # <<>> /\ Last(sse[r]) = End
CurrentNode(t) == task[t].plan[task[t].cursor + 1]
SessionOf(t) == sessionData[task[t].obj]
StateOf(t) == SessionOf(t).state

Init ==
  /\ store = [s \in SessionIds |-> None]
  /\ sessionData = [r \in Requests |-> None]
  /\ task = [r \in Requests |-> NewTask]
  /\ sse = [r \in Requests |-> <<>>]
  /\ ready = <<>>
  /\ running = None

----------------------------------------------------------------------------
(* The handlers of /chat/stream and /chat/stop.  Each runs to its first     *)
(* await on the event queue without giving up the loop.                    *)

Mode(target) ==
  IF target.type = "agent" THEN "agent"
  ELSE IF target.agent \in Departments THEN "department" ELSE "ceo"

CreateTask(r, sid, obj) ==
  /\ task' = [task EXCEPT ![r].pc = "created", ![r].session_id = sid, ![r].obj = obj]
  /\ ready' = Append(ready, r)

\* Fresh request mode: a new session takes the place of what the id held.
FreshRequest(r, sid, target) ==
  /\ running = None /\ task[r].pc = "none"
  /\ sid = Anonymous \/ store[sid] = None
  /\ sessionData' = [sessionData EXCEPT ![r] =
       [state |-> InitialState(r),
        execution_plan |-> ComputeInitialPlan(Mode(target), target.agent),
        cursor |-> 0, last_node |-> NoNode, cancelled |-> FALSE, stream_writer |-> r]]
  /\ store' = [store EXCEPT ![sid] = r]
  /\ CreateTask(r, sid, r)
  /\ UNCHANGED <<sse, running>>

\* What every resumption does to the session: the next stream is that of r.
\* Mutant: the tokens go on to the old stream.
Resumed_OldWriter(data, r) == [data EXCEPT !.cancelled = FALSE]

Resumed(data, r) == [data EXCEPT !.cancelled = FALSE, !.stream_writer = r]

WithMessage(data, r) == [data EXCEPT !.state.messages = Append(@, UserMessage(r))]

\* "Resume from clarification pause (user typed a response)".
ResumeWithMessage(r, sid) ==
  /\ running = None /\ task[r].pc = "none"
  /\ sid # Anonymous /\ store[sid] # None
  /\ sessionData' = [sessionData EXCEPT ![store[sid]] = WithMessage(Resumed(@, r), r)]
  /\ CreateTask(r, sid, store[sid])
  /\ UNCHANGED <<store, sse, running>>

\* Mutants: no floor; no step.
StepBack_BelowZero(cursor) == cursor - 1
StepBack_Forgotten(cursor) == cursor

\* The cursor of a session whose last node is to run again: max(0, cursor - 1).
StepBack(cursor) == IF cursor > 0 THEN cursor - 1 ELSE 0

\* Confirmation resume mode: continue, regenerate or modify.
Confirmed(data, r, action) ==
  CASE action = "continue"   -> data
    [] action = "regenerate" -> [data EXCEPT !.cursor = StepBack(@)]
    [] action = "modify"     -> WithMessage([data EXCEPT !.cursor = StepBack(@)], r)

Confirm(r, sid, action) ==
  /\ running = None /\ task[r].pc = "none"
  /\ store[sid] # None
  /\ sessionData' =
       [sessionData EXCEPT ![store[sid]] = Confirmed(Resumed(@, r), r, action)]
  /\ CreateTask(r, sid, store[sid])
  /\ UNCHANGED <<store, sse, running>>

\* A confirmation without a session: the error event is queued, but the generator
\* returns before its first yield and the body closes empty.
ConfirmExpired(r, sid) ==
  /\ running = None /\ task[r].pc = "none"
  /\ store[sid] = None
  /\ task' = [task EXCEPT ![r].pc = "expired", ![r].session_id = sid]
  /\ sse' = [sse EXCEPT ![r] = <<End>>]
  /\ UNCHANGED <<store, sessionData, ready, running>>

\* /chat/stop: cancel_session.  The id is mandatory here.
StopChat(sid) ==
  /\ running = None
  /\ sid # Anonymous /\ store[sid] # None
  /\ sessionData' = [sessionData EXCEPT ![store[sid]].cancelled = TRUE]
  /\ UNCHANGED <<store, task, sse, ready, running>>

----------------------------------------------------------------------------
(* execute_step.                                                           *)

AtLoopHead(t) ==
  running = t /\ task[t].pc = "loop" /\ task[t].cursor < Len(task[t].plan)

\* Control reaches the node: the loop was entered and the session not cancelled.
AtNode(t, node) ==
  AtLoopHead(t) /\ ~SessionOf(t).cancelled /\ CurrentNode(t) = node

Emit(t, events) == sse' = [sse EXCEPT ![t] = @ \o events]

EndTask(t) ==
  /\ task' = [task EXCEPT ![t].pc = "done"]
  /\ running' = None

\* The event loop is free and gives the turn to t, which can go on from pc.
Turn(t, pc) ==
  /\ running = None
  /\ ready # <<>> /\ t = Head(ready)
  /\ task[t].pc = pc

\* The first run of the task, some time after create_task.
StartTask(t) ==
  /\ Turn(t, "created")
  /\ task' = [task EXCEPT ![t].pc = "loop",
                          ![t].plan = SessionOf(t).execution_plan,
                          ![t].cursor = SessionOf(t).cursor]
  /\ ready' = Tail(ready)
  /\ running' = t
  /\ UNCHANGED <<store, sessionData, sse>>

\* Mutant: the loop is left, but not the function.
StopAtCheck_FallsThrough(t) ==
  /\ AtLoopHead(t) /\ SessionOf(t).cancelled
  /\ Emit(t, <<Stopped, Final(NoReply), End>>)
  /\ EndTask(t)
  /\ UNCHANGED <<store, sessionData, ready>>

\* The check at the head of the loop finds the session cancelled.
StopAtCheck(t) ==
  /\ AtLoopHead(t) /\ SessionOf(t).cancelled
  /\ sessionData' = [sessionData EXCEPT ![task[t].obj].execution_plan = task[t].plan,
                                        ![task[t].obj].cursor = task[t].cursor]
  /\ store' = [store EXCEPT ![task[t].session_id] = task[t].obj]
  /\ Emit(t, <<Stopped, End>>)
  /\ EndTask(t)
  /\ UNCHANGED ready

SkipUnknownNode(t) ==
  /\ AtLoopHead(t) /\ ~SessionOf(t).cancelled
  /\ CurrentNode(t) \notin NODE_REGISTRY
  /\ task' = [task EXCEPT ![t].cursor = @ + 1]
  /\ UNCHANGED <<store, sessionData, sse, ready, running>>

\* What a pause saves.  Mutant: not the node it comes after.
Paused_LastNodeUnsaved(data, state, plan, cursor, node) ==
  [data EXCEPT !.state = state, !.execution_plan = plan, !.cursor = cursor]

Paused(data, state, plan, cursor, node) ==
  [data EXCEPT !.state = state, !.execution_plan = plan, !.cursor = cursor,
               !.last_node = node]

\* The node's output has been merged into state: advance, expand, report, and
\* pause for the user if the node is one of PAUSABLE_NODES.
CompleteNode(t, state, events) ==
  LET node   == CurrentNode(t)
      cursor == task[t].cursor + 1
      plan   == ExpandPlanAfterNode(state, task[t].plan, cursor, node)
  IN  \/ /\ node \in PAUSABLE_NODES
         /\ sessionData' =
              [sessionData EXCEPT ![task[t].obj] = Paused(@, state, plan, cursor, node)]
         /\ store' = [store EXCEPT ![task[t].session_id] = task[t].obj]
         /\ Emit(t, events \o <<Updated(node),
                      AwaitingConfirmation(node, FindNextPausable(plan, cursor),
                                           cursor >= Len(plan)),
                      End>>)
         /\ EndTask(t)
      \/ /\ node \notin PAUSABLE_NODES
         /\ sessionData' = [sessionData EXCEPT ![task[t].obj].state = state]
         /\ Emit(t, events \o <<Updated(node)>>)
         /\ task' = [task EXCEPT ![t].pc = "loop", ![t].plan = plan, ![t].cursor = cursor]
         /\ running' = t
         /\ UNCHANGED store

Reply(state, t) == [state EXCEPT !.messages = Append(@, AIMessage(t))]

\* dispatch_to_department_node.  Mutant: plan_step is not advanced.
DispatchedToDepartment_SameStep(state) ==
  IF state.plan_step >= Len(state.plan)
  THEN [state EXCEPT !.current_department = "CEO"]
  ELSE [state EXCEPT !.current_department = state.plan[state.plan_step + 1]]

DispatchedToDepartment(state) ==
  IF state.plan_step >= Len(state.plan)
  THEN [state EXCEPT !.current_department = "CEO"]
  ELSE [state EXCEPT !.plan_step = @ + 1,
                     !.current_department = state.plan[state.plan_step + 1]]

RunDispatchToDepartment(t) ==
  /\ AtNode(t, DispatchToDepartment)
  /\ CompleteNode(t, DispatchedToDepartment(StateOf(t)), <<Thinking(CurrentNode(t))>>)
  /\ UNCHANGED ready

\* DepartmentLeadAgent._dispatch_node.
DispatchedToAgent(state) ==
  IF state.sub_plan_step >= Len(state.sub_plan)
  THEN state
  ELSE [state EXCEPT !.sub_plan_step = @ + 1]

RunDispatch(t) ==
  \E d \in Departments :
    /\ AtNode(t, DEPT_DISPATCH(d))
    /\ CompleteNode(t, DispatchedToAgent(StateOf(t)), <<Thinking(CurrentNode(t))>>)
  /\ UNCHANGED ready

\* trigger_actions_node: after a sale, run the repair department.
SaleClosed(state) ==
  /\ state.current_department = "SALES"
  /\ Nested("SALES", "quote") \in state.results

\* The triggered run is one step here: the quote agent writes its result elsewhere, so
\* none ever starts.
ActionsTriggered(state, t) ==
  IF SaleClosed(state)
  THEN [Reply(state, t) EXCEPT !.results = @ \cup {TopLevel("REPAIR_TRIGGERED")}]
  ELSE state

RunTriggerActions(t) ==
  /\ AtNode(t, TriggerActions)
  /\ CompleteNode(t, ActionsTriggered(StateOf(t), t), <<Thinking(TriggerActions)>>)
  /\ UNCHANGED ready

\* The nodes whose function awaits the language model.
ModelNodes == {AnalyzeIntent, SummarizeResult} \cup LEAD_PLAN_NODES \cup AGENT_NODES

\* A node that awaits the model gives up the loop.  It streams to the writer it
\* finds in the shared state now.
CallNode(t) ==
  /\ AtLoopHead(t) /\ ~SessionOf(t).cancelled
  /\ CurrentNode(t) \in ModelNodes
  /\ Emit(t, <<Thinking(CurrentNode(t))>>)
  /\ task' = [task EXCEPT ![t].pc = "calling", ![t].streamed = FALSE,
                          ![t].writer = SessionOf(t).stream_writer]
  /\ running' = None
  /\ UNCHANGED <<store, sessionData, ready>>

\* A piece of the answer (the first one stands for all); nobody reads a queue whose
\* response body has ended.
StreamChunk(t) ==
  /\ "stream" \in Moves
  /\ running = None /\ task[t].pc = "calling" /\ ~task[t].streamed
  /\ task' = [task EXCEPT ![t].streamed = TRUE]
  /\ sse' = IF HasEnded(task[t].writer) THEN sse
            ELSE [sse EXCEPT ![task[t].writer] = Append(@, Chunk(CurrentNode(t), t))]
  /\ UNCHANGED <<store, sessionData, ready, running>>

\* The answer is complete, or the call has failed or timed out.
ModelAnswers(t) ==
  /\ running = None /\ task[t].pc = "calling"
  /\ task' = [task EXCEPT ![t].pc = "answered"]
  /\ ready' = Append(ready, t)
  /\ UNCHANGED <<store, sessionData, sse, running>>

\* The task takes up the answer of the model where it awaited it.
Answered(t, node) ==
  /\ Turn(t, "answered") /\ CurrentNode(t) = node
  /\ ready' = Tail(ready)

\* analyze_intent_node: an empty plan, and an answer that is not JSON, mean CS;
\* only the former adds a message.
AnalyzeIntentReturns(t) ==
  /\ Answered(t, AnalyzeIntent)
  /\ \/ \E plan \in CeoPlans :
          CompleteNode(t, [Reply(StateOf(t), t) EXCEPT
                             !.plan = IF plan = <<>> THEN <<"CS">> ELSE plan,
                             !.plan_step = 0], <<>>)
     \/ /\ "malformed" \in Moves
        /\ CompleteNode(t, [StateOf(t) EXCEPT !.plan = <<"CS">>, !.plan_step = 0], <<>>)

\* DepartmentLeadAgent._lead_plan_node: the default sub-plan if the answer is not JSON.
LeadPlanReturns(t) ==
  \E d \in Departments :
    /\ Answered(t, DEPT_LEAD_PLAN(d))
    /\ \E sub_plan \in SubPlans \cup
            {p \in {DEPARTMENT_CONFIGS[d].default_sub_plan} : "malformed" \in Moves} :
         CompleteNode(t, [Reply(StateOf(t), t) EXCEPT
                            !.sub_plan = sub_plan, !.sub_plan_step = 0,
                            !.current_department = d], <<>>)

\* agent_node of create_sub_agent_node.
AgentReturns(t) ==
  \E a \in SubAgents :
    /\ Answered(t, AgentNode(a))
    /\ CompleteNode(t, [Reply(StateOf(t), t) EXCEPT
                          !.results = @ \cup SUB_AGENT_CONFIGS[a].writes], <<>>)

SummarizeReturns(t) ==
  /\ Answered(t, SummarizeResult)
  /\ CompleteNode(t, Reply(StateOf(t), t), <<>>)

\* Mutants: the failed node counts as done; the body is left open.
NodeRaises_Advances(t) ==
  /\ "raise" \in Moves
  /\ Answered(t, CurrentNode(t))
  /\ sessionData' = [sessionData EXCEPT ![task[t].obj].execution_plan = task[t].plan,
                                        ![task[t].obj].cursor = task[t].cursor + 1]
  /\ Emit(t, <<ErrorEvent, End>>)
  /\ EndTask(t)
  /\ UNCHANGED store

NodeRaises_NoEnd(t) ==
  /\ "raise" \in Moves
  /\ Answered(t, CurrentNode(t))
  /\ Emit(t, <<ErrorEvent>>)
  /\ EndTask(t)
  /\ UNCHANGED <<store, sessionData>>

\* The model call has failed.  What silent nodes did to state stays; the
\* plan and cursor of the session are those of the last save.
NodeRaises(t) ==
  /\ "raise" \in Moves
  /\ Answered(t, CurrentNode(t))
  /\ Emit(t, <<ErrorEvent, End>>)
  /\ EndTask(t)
  /\ UNCHANGED <<store, sessionData>>

\* The loop ends: answer with the last AI message and drop the session.
LastReply(messages) ==
  LET replies == {i \in DOMAIN messages : IsAI(messages[i])}
  IN  IF replies = {} THEN NoReply
      ELSE messages[CHOOSE i \in replies : \A j \in replies : j <= i]

FinishPlan(t) ==
  /\ running = t /\ task[t].pc = "loop" /\ task[t].cursor >= Len(task[t].plan)
  /\ Emit(t, <<Final(LastReply(StateOf(t).messages)), End>>)
  /\ store' = [store EXCEPT ![task[t].session_id] = None]
  /\ EndTask(t)
  /\ UNCHANGED <<sessionData, ready>>

\* The process restarts: nothing of it is on disk.
IsLive(t) == task[t].pc \in {"created", "loop", "calling", "answered"}
Restart ==
  /\ "restart" \in Moves
  /\ running = None
  /\ store' = [s \in SessionIds |-> None]
  /\ task' = [t \in Requests |-> IF IsLive(t) THEN [task[t] EXCEPT !.pc = "lost"]
                                 ELSE task[t]]
  /\ ready' = <<>>
  /\ UNCHANGED <<sessionData, sse, running>>

----------------------------------------------------------------------------
Handle(r, sid) ==
  \/ \E target \in Targets : FreshRequest(r, sid, target)
  \/ "message" \in Moves /\ ResumeWithMessage(r, sid)
  \/ \E action \in {"continue"} \cup (Moves \cap {"regenerate", "modify"}) :
       Confirm(r, sid, action)
  \/ ConfirmExpired(r, sid)

NodeReturns(t) ==
  \/ AnalyzeIntentReturns(t)
  \/ LeadPlanReturns(t)
  \/ AgentReturns(t)
  \/ SummarizeReturns(t)

\* What the event loop does for a task once it is its turn.
Advance(t) ==
  \/ StartTask(t)
  \/ StopAtCheck(t)
  \/ SkipUnknownNode(t)
  \/ RunDispatchToDepartment(t)
  \/ RunDispatch(t)
  \/ RunTriggerActions(t)
  \/ CallNode(t)
  \/ ModelAnswers(t)
  \/ NodeReturns(t)
  \/ NodeRaises(t)
  \/ FinishPlan(t)

Next ==
  \/ \E r \in Requests, sid \in SessionIds : Handle(r, sid)
  \/ "stop" \in Moves /\ \E sid \in SessionIds : StopChat(sid)
  \/ \E t \in Requests : Advance(t) \/ StreamChunk(t)
  \/ Restart

\* The event loop serves every ready task, and a model call returns or times out.
Fairness == \A t \in Requests : WF_vars(Advance(t))

Spec == Init /\ [][Next]_vars /\ Fairness

----------------------------------------------------------------------------
(* Types.                                                                  *)

AgentState ==
  [messages : Seq(Message), results : SUBSET ResultPlaces,
   plan : Seq(Names), plan_step : Nat, sub_plan : Seq(Names), sub_plan_step : Nat,
   current_department : Names]

SessionData ==
  [state : AgentState, execution_plan : Seq(NODE), cursor : Nat,
   last_node : NODE \cup {NoNode}, cancelled : BOOLEAN, stream_writer : Requests]

Task ==
  [pc : {"none", "created", "loop", "calling", "answered", "done", "expired", "lost"},
   session_id : SessionIds \cup {Anonymous}, obj : Requests \cup {None},
   plan : Seq(NODE), cursor : Nat, writer : Requests \cup {None}, streamed : BOOLEAN]

Event ==
  [type : {"thinking", "update"}, node : NODE]
    \cup [type : {"stream"}, node : NODE, by : Requests]
    \cup [type : {"awaiting_confirmation"}, node : NODE, next : NODE \cup {NoNode},
           is_final : BOOLEAN]
    \cup [type : {"final"}, response : Message \cup {NoReply}]
    \cup [type : {"stopped", "error", "end"}]

ASSUME NoneAssumption == None \notin Requests /\ None \notin SessionData

\* Every variable has its type.
TypeOK ==
  /\ store \in [SessionIds -> Requests \cup {None}]
  /\ sessionData \in [Requests -> SessionData \cup {None}]
  /\ task \in [Requests -> Task]
  /\ sse \in [Requests -> Seq(Event)]
  /\ ready \in Seq(Requests)
  /\ running \in Requests \cup {None}

----------------------------------------------------------------------------
(* What holds however the clients behave: requests on one session may       *)
(* overlap, be stopped, fail, and outlive the session.                     *)

\* A cursor never points past the plan it goes with, in a session or in a task:
\* plan, cursor and expansion stay in step through regenerate, stop and failure.
CursorInPlan ==
  /\ \A o \in Requests : sessionData[o] # None =>
       sessionData[o].cursor <= Len(sessionData[o].execution_plan)
  /\ \A t \in Requests : task[t].cursor <= Len(task[t].plan)

\* No node is skipped: every known node behind the cursor of a session, or of a
\* task at work on it, was reported as run in the body of some request on that
\* session, whatever was regenerated, stopped or raised in between.
HasRun(o, node) ==
  \E r \in Requests : task[r].obj = o /\ Contains(sse[r], Updated(node))
AllRun(o, nodes) == \A i \in DOMAIN nodes : nodes[i] \in NODE_REGISTRY => HasRun(o, nodes[i])
NodesBehindCursorRan ==
  /\ \A o \in Requests : sessionData[o] # None =>
       AllRun(o, Prefix(sessionData[o].execution_plan, sessionData[o].cursor))
  /\ \A t \in Requests : AllRun(task[t].obj, Prefix(task[t].plan, task[t].cursor))

\* One model answer per request: a body reports at most one node that calls the
\* model, so the user is asked after every agent.
PausesAfterEveryAgent ==
  \A r \in Requests :
    Cardinality({i \in DOMAIN sse[r] :
                   sse[r][i].type = "update" /\ sse[r][i].node \in ModelNodes}) <= 1

\* A body says once how it ended, just before it closes, and says nothing after;
\* only the body of an expired confirmation closes without a word.
Endings == {"awaiting_confirmation", "final", "stopped", "error"}
SaysOnceHowItEnded ==
  \A r \in Requests :
    LET n == Len(sse[r]) IN
    /\ \A i \in 1..n : sse[r][i].type \in Endings => HasEnded(r) /\ i = n - 1
    /\ \A i \in 1..n : sse[r][i] = End => i = n
    /\ HasEnded(r) /\ task[r].pc # "expired" => n > 1 /\ sse[r][n - 1].type \in Endings

\* The user is told that a node was the last one exactly when no node that would
\* ask again is left.
FinalMeansNothingNext ==
  \A r \in Requests : \A i \in DOMAIN sse[r] :
    sse[r][i].type = "awaiting_confirmation" =>
      (sse[r][i].is_final <=> sse[r][i].next = NoNode)

\* Every task ends its response body, unless the process restarts.
StreamsEnd == \A r \in Requests : IsLive(r) ~> HasEnded(r) \/ task[r].pc = "lost"

=============================================================================

------------------------------- MODULE BodyProofs -------------------------------
(***************************************************************************)
(* Theorems of StepExecutor about response bodies.  No node of a plan is    *)
(* skipped: whatever is behind a cursor was reported as run to a client of *)
(* that session.  A body reports one answer of a model at most, and says   *)
(* once, at its end, how it ended.                                         *)
(***************************************************************************)
EXTENDS StepExecutorProofs, FiniteSetTheorems

----------------------------------------------------------------------------
(* No node is skipped.                                                     *)

\* NodesBehindCursorRan, node by node.
Ran(o, plan, cursor) ==
  \A i \in 1..cursor : plan[i] \in NODE_REGISTRY => HasRun(o, plan[i])

SessionRan(o) ==
  sessionData[o] # None => Ran(o, sessionData[o].execution_plan, sessionData[o].cursor)
TaskRan(t) == Ran(task[t].obj, task[t].plan, task[t].cursor)

\* A request that has no object has done nothing.
Unbound(t) ==
  /\ task[t].pc = "none" => task[t].obj = None
  /\ task[t].obj = None => task[t].cursor = 0

RanInv ==
  /\ \A o \in Requests : SessionRan(o)
  /\ \A t \in Requests : TaskRan(t)
  /\ \A t \in Requests : Unbound(t)

\* The invariant implies the property of the run.
LEMMA RanInvShows == StepInv /\ RanInv => NodesBehindCursorRan
<1> SUFFICES ASSUME StepInv, RanInv  PROVE NodesBehindCursorRan
  OBVIOUS
<1>1. ASSUME NEW o, NEW plan \in Seq(NODE), NEW cursor \in 0..Len(plan), Ran(o, plan, cursor)
      PROVE  AllRun(o, Prefix(plan, cursor))
  <2>1. /\ DOMAIN Prefix(plan, cursor) = 1..cursor
        /\ \A i \in 1..cursor : Prefix(plan, cursor)[i] = plan[i]
    BY PrefixProperties, LenProperties
  <2> QED  BY <1>1, <2>1 DEF AllRun, Ran
<1>2. ASSUME NEW o \in Requests, sessionData[o] # None
      PROVE  AllRun(o, Prefix(sessionData[o].execution_plan, sessionData[o].cursor))
  <2>1. /\ sessionData[o].execution_plan \in Seq(NODE)
        /\ sessionData[o].cursor \in 0..Len(sessionData[o].execution_plan)
    BY <1>2, LenProperties DEF StepInv, SessionOK, SessionData
  <2> QED  BY <1>1, <1>2, <2>1 DEF RanInv, SessionRan
<1>3. ASSUME NEW t \in Requests
      PROVE  AllRun(task[t].obj, Prefix(task[t].plan, task[t].cursor))
  <2>1. /\ task[t].plan \in Seq(NODE) /\ task[t].cursor \in Nat
        /\ task[t].cursor <= Len(task[t].plan)
    BY DEF StepInv, Shape, TaskOK, Task
  <2>2. task[t].cursor \in 0..Len(task[t].plan)
    BY <2>1, LenProperties
  <2> QED  BY <1>1, <2>1, <2>2 DEF RanInv, TaskRan
<1> QED  BY <1>2, <1>3 DEF NodesBehindCursorRan

\* Bodies only grow and a request keeps its object: what was reported stays reported.
Grows ==
  \A u \in Requests : task[u].obj # None =>
    /\ task'[u].obj = task[u].obj
    /\ \A e : Contains(sse[u], e) => Contains(sse'[u], e)

\* Ran, SessionRan and TaskRan after the step; plan and cursor may be of either state.
HasRunNext(o, node) ==
  \E r \in Requests : task'[r].obj = o /\ Contains(sse'[r], Updated(node))
RanNext(o, plan, cursor) ==
  \A i \in 1..cursor : plan[i] \in NODE_REGISTRY => HasRunNext(o, plan[i])
SessionRanNext(o) ==
  sessionData'[o] # None => RanNext(o, sessionData'[o].execution_plan, sessionData'[o].cursor)
TaskRanNext(t) == RanNext(task'[t].obj, task'[t].plan, task'[t].cursor)

\* What a step has to show for the invariant, object by object and task by task.
LEMMA NextRanInv ==
  ASSUME \A o \in Requests : SessionRanNext(o), \A t \in Requests : TaskRanNext(t),
         \A t \in Requests : Unbound(t)'
  PROVE  RanInv'
<1>1. ASSUME NEW o \in Requests  PROVE SessionRan(o)'
  BY DEF SessionRanNext, SessionRan, RanNext, Ran, HasRunNext, HasRun
<1>2. ASSUME NEW t \in Requests  PROVE TaskRan(t)'
  BY DEF TaskRanNext, TaskRan, RanNext, Ran, HasRunNext, HasRun
<1> QED  BY <1>1, <1>2 DEF RanInv

\* A node that was reported as run stays so: bodies grow and tasks keep their object.
LEMMA HasRunStays ==
  ASSUME Grows, NEW o \in Requests, NEW node, HasRun(o, node)
  PROVE  HasRunNext(o, node)
BY NoneAssumption DEF Grows, HasRun, HasRunNext, Updated

\* So what is behind a cursor stays run.
LEMMA RanStays ==
  ASSUME Grows, NEW o \in Requests, NEW plan, NEW cursor, Ran(o, plan, cursor)
  PROVE  RanNext(o, plan, cursor)
BY HasRunStays DEF Ran, RanNext

\* What an action may do to an object and to a task without further ado.
SessionKept(o) ==
  \/ sessionData'[o] = sessionData[o]
  \/ /\ sessionData[o] \in SessionData /\ sessionData[o] # None
     /\ sessionData'[o].execution_plan = sessionData[o].execution_plan
     /\ sessionData'[o].cursor \in Nat /\ sessionData'[o].cursor <= sessionData[o].cursor
TaskKept(t) ==
  /\ task'[t].obj = task[t].obj /\ task'[t].plan = task[t].plan
  /\ task'[t].cursor = task[t].cursor

\* A step that changes one task and one object has only these to show.
LEMMA RanChange ==
  ASSUME StepInv, RanInv, Grows,
         \A o \in Requests : SessionKept(o) \/ SessionRanNext(o),
         \A t \in Requests : TaskKept(t) \/ (TaskRanNext(t) /\ task'[t].obj # None),
         \A t \in Requests : task'[t].pc = "none" => task[t].pc = "none" /\ TaskKept(t)
  PROVE  RanInv'
<1>1. ASSUME NEW o \in Requests  PROVE SessionRanNext(o)
  <2>1. CASE sessionData'[o] = sessionData[o]
    BY <2>1, RanStays DEF RanInv, SessionRan, SessionRanNext
  <2>2. CASE /\ sessionData[o] \in SessionData /\ sessionData[o] # None
             /\ sessionData'[o].execution_plan = sessionData[o].execution_plan
             /\ sessionData'[o].cursor \in Nat
             /\ sessionData'[o].cursor <= sessionData[o].cursor
    <3>1. \A i \in 1..sessionData'[o].cursor : i \in 1..sessionData[o].cursor
      BY <2>2 DEF SessionData
    <3> DEFINE plan == sessionData[o].execution_plan
               cursor == sessionData[o].cursor
    <3>2. Ran(o, plan, cursor)
      BY <2>2 DEF RanInv, SessionRan
    <3>3. RanNext(o, plan, cursor)
      <4> HIDE DEF plan, cursor
      <4> QED  BY <3>2, RanStays
    <3> QED  BY <2>2, <3>1, <3>3 DEF SessionRanNext, RanNext
  <2> QED  BY <2>1, <2>2 DEF SessionKept
<1>2. ASSUME NEW t \in Requests  PROVE TaskRanNext(t)
  <2>1. CASE TaskKept(t) /\ task[t].obj \in Requests
    BY <2>1, RanStays DEF RanInv, TaskRan, TaskRanNext, TaskKept
  <2>2. CASE TaskKept(t) /\ task[t].obj = None
    <3>1. task'[t].cursor = 0
      BY <2>2 DEF RanInv, Unbound, TaskKept
    <3> QED  BY <3>1 DEF TaskRanNext, RanNext
  <2>3. task[t].obj \in Requests \/ task[t].obj = None
    BY DEF StepInv, Shape, Task
  <2> QED  BY <2>1, <2>2, <2>3
<1>3. ASSUME NEW t \in Requests  PROVE Unbound(t)'
  BY DEF RanInv, Unbound, TaskKept
<1> QED  BY <1>1, <1>2, <1>3, NextRanInv

\* What a sequence contains, after more has been appended to it.
LEMMA ContainsConcat ==
  ASSUME NEW s \in Seq(Event), NEW t \in Seq(Event)
  PROVE  /\ \A e : Contains(s, e) => Contains(s \o t, e)
         /\ \A e : Contains(t, e) => Contains(s \o t, e)
<1>1. /\ Len(s) \in Nat /\ Len(t) \in Nat /\ Len(s \o t) = Len(s) + Len(t)
      /\ \A i \in 1..(Len(s) + Len(t)) :
           (s \o t)[i] = IF i <= Len(s) THEN s[i] ELSE t[i - Len(s)]
  BY ConcatProperties, LenProperties
<1>2. ASSUME NEW e, NEW i \in 1..Len(s), s[i] = e  PROVE Contains(s \o t, e)
  <2>1. i \in 1..(Len(s) + Len(t)) /\ i <= Len(s)
    BY <1>1
  <2>2. (s \o t)[i] = e
    BY <1>1, <1>2, <2>1
  <2> QED  BY <1>1, <2>1, <2>2 DEF Contains
<1>3. ASSUME NEW e, NEW i \in 1..Len(t), t[i] = e  PROVE Contains(s \o t, e)
  <2>1. /\ Len(s) + i \in 1..(Len(s) + Len(t)) /\ ~(Len(s) + i <= Len(s))
        /\ (Len(s) + i) - Len(s) = i
    BY <1>1
  <2>2. (s \o t)[Len(s) + i] = e
    BY <1>1, <1>3, <2>1
  <2> QED  BY <1>1, <2>1, <2>2 DEF Contains
<1> QED  BY <1>2, <1>3 DEF Contains

\* Emitting events takes none away.
LEMMA EmitGrows ==
  ASSUME StepInv, NEW t \in Requests, NEW events \in Seq(Event), Emit(t, events),
         \A u \in Requests : task'[u].obj = task[u].obj
  PROVE  Grows /\ \A e : Contains(events, e) => Contains(sse'[t], e)
<1>1. sse[t] \in Seq(Event) /\ sse'[t] = sse[t] \o events
  BY DEF Emit, StepInv, Shape
<1>2. \A u \in Requests : u # t => sse'[u] = sse[u]
  BY DEF Emit, StepInv, Shape
<1> QED  BY <1>1, <1>2, ContainsConcat DEF Grows

----------------------------------------------------------------------------
(* Each step keeps the order.                                              *)

\* A request is bound to an object of sid and nothing is run.
LEMMA BindingKeepsOrder ==
  ASSUME StepInv, RanInv, NEW r \in Requests, NEW sid, NEW o \in Requests,
         CreateTask(r, sid, o), task[r].pc = "none", UNCHANGED sse,
         \A p \in Requests : SessionKept(p) \/ SessionRanNext(p)
  PROVE  RanInv'
<1> DEFINE new == [task[r] EXCEPT !.pc = "created", !.session_id = sid, !.obj = o]
<1>1. task[r].obj = None /\ task[r].cursor = 0 /\ task[r] \in Task
  BY DEF RanInv, Unbound, StepInv, Shape
<1>2. /\ new.pc = "created" /\ new.obj = o /\ new.cursor = 0
  BY <1>1 DEF Task
<1>3. task'[r] = new /\ \A u \in Requests : u # r => task'[u] = task[u]
  BY DEF CreateTask, StepInv, Shape
<1> HIDE DEF new
<1>4. Grows
  BY <1>1, <1>3 DEF Grows
<1>5. TaskRanNext(r) /\ task'[r].obj # None
  BY <1>2, <1>3, NoneAssumption DEF TaskRanNext, RanNext
<1>6. task'[r].pc # "none"
  BY <1>2, <1>3
<1> QED  BY <1>3, <1>4, <1>5, <1>6, RanChange DEF TaskKept

\* A new session has nothing behind its cursor.
LEMMA FreshRequestKeepsOrder ==
  ASSUME StepInv, RanInv, NEW r \in Requests, NEW sid \in SessionIds,
         NEW target \in Targets, FreshRequest(r, sid, target)
  PROVE  RanInv'
<1>1. sessionData'[r].cursor = 0
  BY DEF FreshRequest, StepInv, Shape
<1>2. SessionRanNext(r)
  BY <1>1 DEF SessionRanNext, RanNext
<1>3. \A p \in Requests : p # r => SessionKept(p)
  BY DEF FreshRequest, StepInv, Shape, SessionKept
<1> QED  BY <1>2, <1>3, BindingKeepsOrder DEF FreshRequest

\* A typed answer leaves plan and cursor alone.
LEMMA ResumeWithMessageKeepsOrder ==
  ASSUME StepInv, RanInv, NEW r \in Requests, NEW sid \in SessionIds,
         ResumeWithMessage(r, sid)
  PROVE  RanInv'
<1> DEFINE o == store[sid]
           old == Resumed(sessionData[o], r)
           data == WithMessage(old, r)
<1>1. o \in Requests /\ sessionData[o] \in SessionData /\ sessionData[o] # None
  BY DEF ResumeWithMessage, StepInv, Shape, StoreOK, SessionOK
<1>2. sessionData' = [sessionData EXCEPT ![o] = data]
  BY DEF ResumeWithMessage
<1>3. /\ data.execution_plan = sessionData[o].execution_plan
      /\ data.cursor = sessionData[o].cursor /\ sessionData[o].cursor \in Nat
  <2>1. /\ old \in SessionData /\ old.cursor = sessionData[o].cursor
        /\ old.execution_plan = sessionData[o].execution_plan
    BY <1>1, ResumedType
  <2>2. sessionData[o].cursor \in Nat
    BY <1>1 DEF SessionData
  <2> HIDE DEF old
  <2> QED  BY <2>1, <2>2, WithMessageType
<1> HIDE DEF data
<1>4. \A p \in Requests : SessionKept(p)
  BY <1>1, <1>2, <1>3 DEF StepInv, Shape, SessionKept
<1> QED  BY <1>1, <1>4, BindingKeepsOrder DEF ResumeWithMessage

\* A confirmation moves the cursor back or not at all.
LEMMA ConfirmKeepsOrder ==
  ASSUME StepInv, RanInv, NEW r \in Requests, NEW sid \in SessionIds,
         NEW action \in {"continue", "regenerate", "modify"}, Confirm(r, sid, action)
  PROVE  RanInv'
<1> DEFINE o == store[sid]
           old == Resumed(sessionData[o], r)
           data == Confirmed(old, r, action)
<1>1. o \in Requests /\ sessionData[o] \in SessionData /\ sessionData[o] # None
  BY DEF Confirm, StepInv, Shape, StoreOK, SessionOK
<1>2. sessionData' = [sessionData EXCEPT ![o] = data]
  BY DEF Confirm
<1>3. /\ data.execution_plan = sessionData[o].execution_plan
      /\ data.cursor \in Nat /\ data.cursor <= sessionData[o].cursor
  <2>1. /\ old \in SessionData /\ old.cursor = sessionData[o].cursor
        /\ old.execution_plan = sessionData[o].execution_plan
        /\ old.cursor <= Len(old.execution_plan)
    BY <1>1, ResumedType, ResumedSession DEF Confirm
  <2> HIDE DEF old
  <2> QED  BY <2>1, ConfirmedType
<1> HIDE DEF data
<1>4. \A p \in Requests : SessionKept(p)
  BY <1>1, <1>2, <1>3 DEF StepInv, Shape, SessionKept
<1> QED  BY <1>1, <1>4, BindingKeepsOrder DEF Confirm

\* An expired confirmation has no object.
LEMMA ConfirmExpiredKeepsOrder ==
  ASSUME StepInv, RanInv, NEW r \in Requests, NEW sid \in SessionIds, ConfirmExpired(r, sid)
  PROVE  RanInv'
<1> DEFINE new == [task[r] EXCEPT !.pc = "expired", !.session_id = sid]
<1>1. task[r].obj = None /\ task[r] \in Task
  BY DEF ConfirmExpired, RanInv, Unbound, StepInv, Shape
<1>2. /\ new.pc = "expired" /\ new.obj = task[r].obj /\ new.plan = task[r].plan
      /\ new.cursor = task[r].cursor
  BY <1>1 DEF Task
<1>3. /\ task'[r] = new /\ \A u \in Requests : u # r => task'[u] = task[u]
      /\ \A u \in Requests : u # r => sse'[u] = sse[u]
  BY DEF ConfirmExpired, StepInv, Shape
<1> HIDE DEF new
<1>4. Grows
  BY <1>1, <1>3 DEF Grows
<1>5. \A t \in Requests : TaskKept(t) /\ (task'[t].pc = "none" => task[t].pc = "none")
  BY <1>2, <1>3 DEF TaskKept
<1>6. \A p \in Requests : SessionKept(p)
  BY DEF ConfirmExpired, SessionKept
<1> QED  BY <1>4, <1>5, <1>6, RanChange

\* A stop leaves plan and cursor alone.
LEMMA StopChatKeepsOrder ==
  ASSUME StepInv, RanInv, NEW sid \in SessionIds, StopChat(sid)
  PROVE  RanInv'
<1> DEFINE o == store[sid]
           data == [sessionData[o] EXCEPT !.cancelled = TRUE]
<1>1. o \in Requests /\ sessionData[o] \in SessionData /\ sessionData[o] # None
  BY DEF StopChat, StepInv, Shape, StoreOK, SessionOK
<1>2. sessionData' = [sessionData EXCEPT ![o] = data] /\ UNCHANGED <<task, sse>>
  BY DEF StopChat
<1>3. /\ data.execution_plan = sessionData[o].execution_plan
      /\ data.cursor = sessionData[o].cursor /\ sessionData[o].cursor \in Nat
  BY <1>1 DEF SessionData
<1> HIDE DEF data
<1>4. \A p \in Requests : SessionKept(p)
  BY <1>1, <1>2, <1>3 DEF StepInv, Shape, SessionKept
<1>5. Grows /\ \A t \in Requests : TaskKept(t)
  BY <1>2 DEF Grows, TaskKept
<1> QED  BY <1>2, <1>4, <1>5, RanChange

\* The steps that let sessions, plans and cursors be.
LEMMA SameWorkKeepsOrder ==
  ASSUME StepInv, RanInv, Grows, UNCHANGED sessionData,
         \A t \in Requests : TaskKept(t) /\ (task'[t].pc = "none" => task[t].pc = "none")
  PROVE  RanInv'
<1>1. \A o \in Requests : SessionKept(o)
  BY DEF SessionKept
<1> QED  BY <1>1, RanChange

\* What a change of fields that are not obj, plan or cursor does to a task.
LEMMA EndTaskKeepsWork ==
  ASSUME StepInv, NEW t \in Requests, EndTask(t)
  PROVE  \A u \in Requests : TaskKept(u) /\ (task'[u].pc = "none" => task[u].pc = "none")
<1> DEFINE new == [task[t] EXCEPT !.pc = "done"]
<1>1. task[t] \in Task
  BY DEF StepInv, Shape
<1>2. /\ new.pc = "done" /\ new.obj = task[t].obj /\ new.plan = task[t].plan
      /\ new.cursor = task[t].cursor
  BY <1>1 DEF Task
<1>3. task'[t] = new /\ \A u \in Requests : u # t => task'[u] = task[u]
  BY DEF EndTask, StepInv, Shape
<1> HIDE DEF new
<1> QED  BY <1>2, <1>3 DEF TaskKept

\* A task takes over what its session has behind the cursor.
LEMMA StartTaskKeepsOrder ==
  ASSUME StepInv, RanInv, NEW t \in Requests, StartTask(t)
  PROVE  RanInv'
<1> DEFINE plan == SessionOf(t).execution_plan
           cursor == SessionOf(t).cursor
           new == [task[t] EXCEPT !.pc = "loop", !.plan = plan, !.cursor = cursor]
<1>0. IsLive(t)
  BY DEF StartTask, Turn, IsLive
<1>1. task[t] \in Task /\ task[t].obj \in Requests /\ SessionOf(t) # None
  BY <1>0, LiveTask
<1>2. /\ new.pc = "loop" /\ new.plan = plan /\ new.cursor = cursor /\ new.obj = task[t].obj
  <2> HIDE DEF plan, cursor
  <2> QED  BY <1>1 DEF Task
<1>3. task'[t] = new /\ \A u \in Requests : u # t => task'[u] = task[u]
  BY DEF StartTask, StepInv, Shape
<1>4. Ran(task[t].obj, plan, cursor)
  BY <1>1 DEF RanInv, SessionRan, SessionOf
<1>5. UNCHANGED <<sessionData, sse>>
  BY DEF StartTask
<1> HIDE DEF new, plan, cursor
<1>6. Grows
  BY <1>2, <1>3, <1>5 DEF Grows
<1>7. TaskRanNext(t) /\ task'[t].obj # None
  <2>1. RanNext(task[t].obj, plan, cursor)
    BY <1>1, <1>4, <1>6, RanStays
  <2> QED  BY <1>1, <1>2, <1>3, <2>1, NoneAssumption DEF TaskRanNext, RanNext
<1>8. \A o \in Requests : SessionKept(o)
  BY <1>5 DEF SessionKept
<1> QED  BY <1>2, <1>3, <1>6, <1>7, <1>8, RanChange DEF TaskKept

\* A cancelled task hands what it has behind its cursor to its session.
LEMMA StopAtCheckKeepsOrder ==
  ASSUME StepInv, RanInv, NEW t \in Requests, StopAtCheck(t)
  PROVE  RanInv'
<1> DEFINE o == task[t].obj
           data == [sessionData[o] EXCEPT !.execution_plan = task[t].plan,
                                          !.cursor = task[t].cursor]
<1>0. IsLive(t)
  BY DEF StopAtCheck, AtLoopHead, IsLive
<1>1. o \in Requests /\ sessionData[o] \in SessionData
  BY <1>0, LiveTask DEF SessionOf
<1>2. data.execution_plan = task[t].plan /\ data.cursor = task[t].cursor
  BY <1>1 DEF SessionData
<1>3. sessionData' = [sessionData EXCEPT ![o] = data]
  BY DEF StopAtCheck
<1>4. \A u \in Requests : TaskKept(u) /\ (task'[u].pc = "none" => task[u].pc = "none")
  BY EndTaskKeepsWork DEF StopAtCheck
<1>5. Grows
  <2>1. <<Stopped, End>> \in Seq(Event)
    BY EventTypes
  <2>2. \A u \in Requests : task'[u].obj = task[u].obj
    BY <1>4 DEF TaskKept
  <2> QED  BY <2>1, <2>2, EmitGrows DEF StopAtCheck
<1> HIDE DEF data
<1>6. SessionRanNext(o)
  <2>1. sessionData'[o] = data
    BY <1>1, <1>3 DEF StepInv, Shape
  <2> DEFINE plan == task[t].plan
             cursor == task[t].cursor
  <2>2. Ran(o, plan, cursor)
    BY DEF RanInv, TaskRan
  <2>3. RanNext(o, plan, cursor)
    <3> HIDE DEF plan, cursor, o
    <3> QED  BY <1>1, <1>5, <2>2, RanStays
  <2> QED  BY <1>2, <2>1, <2>3 DEF SessionRanNext
<1>7. \A p \in Requests : p # o => SessionKept(p)
  BY <1>3 DEF StepInv, Shape, SessionKept
<1> QED  BY <1>4, <1>5, <1>6, <1>7, RanChange

\* A skipped node is not a known one.
LEMMA SkipUnknownNodeKeepsOrder ==
  ASSUME StepInv, RanInv, NEW t \in Requests, SkipUnknownNode(t)
  PROVE  RanInv'
<1> DEFINE new == [task[t] EXCEPT !.cursor = @ + 1]
           plan == task[t].plan
           cursor == task[t].cursor
           o == task[t].obj
<1>0. IsLive(t)
  BY DEF SkipUnknownNode, AtLoopHead, IsLive
<1>1. task[t] \in Task /\ o \in Requests /\ cursor \in Nat
  BY <1>0, LiveTask
<1>2. /\ new.pc = task[t].pc /\ new.plan = plan /\ new.cursor = cursor + 1 /\ new.obj = o
  BY <1>1 DEF Task
<1>3. task'[t] = new /\ \A u \in Requests : u # t => task'[u] = task[u]
  BY DEF SkipUnknownNode, StepInv, Shape
<1>4. UNCHANGED <<sessionData, sse>> /\ plan[cursor + 1] \notin NODE_REGISTRY
  BY DEF SkipUnknownNode, CurrentNode
<1>5. Ran(o, plan, cursor)
  BY DEF RanInv, TaskRan
<1>6. task[t].pc # "none"
  BY DEF SkipUnknownNode, AtLoopHead
<1> HIDE DEF new, plan, cursor, o
<1>7. Grows
  BY <1>2, <1>3, <1>4 DEF Grows, o
<1>8. TaskRanNext(t) /\ task'[t].obj # None
  <2>1. RanNext(o, plan, cursor)
    BY <1>1, <1>5, <1>7, RanStays
  <2>2. \A i \in 1..(cursor + 1) : i \in 1..cursor \/ i = cursor + 1
    BY <1>1
  <2> QED  BY <1>1, <1>2, <1>3, <1>4, <2>1, <2>2, NoneAssumption DEF TaskRanNext, RanNext
<1>9. \A p \in Requests : SessionKept(p)
  BY <1>4 DEF SessionKept
<1> QED  BY <1>2, <1>3, <1>6, <1>7, <1>8, <1>9, RanChange DEF TaskKept

\* The node of t has run and is reported; the past of the plan is what it was.
LEMMA CompleteNodeKeepsOrder ==
  ASSUME StepInv, RanInv, NEW t \in Requests, IsLive(t),
         task[t].cursor < Len(task[t].plan),
         NEW state \in AgentState, NEW events \in Seq(Event), CompleteNode(t, state, events)
  PROVE  RanInv'
<1> DEFINE node   == CurrentNode(t)
           cursor == task[t].cursor + 1
           plan   == ExpandPlanAfterNode(state, task[t].plan, cursor, node)
           o      == task[t].obj
           next   == FindNextPausable(plan, cursor)
           asked  == <<Updated(node), AwaitingConfirmation(node, next, cursor >= Len(plan)), End>>
           silent == <<Updated(node)>>
<1>1. /\ task[t] \in Task /\ task[t].plan \in Seq(NODE) /\ o \in Requests
      /\ node \in NODE /\ sessionData[o] \in SessionData /\ sessionData[o] # None
      /\ cursor \in 0..Len(task[t].plan) /\ cursor \in Nat /\ task[t].cursor \in Nat
      /\ node = task[t].plan[cursor]
  BY LiveTask DEF SessionOf, CurrentNode
<1>2. /\ plan \in Seq(NODE) /\ cursor <= Len(plan)
      /\ \A i \in 1..cursor : plan[i] = task[t].plan[i]
  <2>1. /\ state.plan \in Seq(Names) /\ state.sub_plan \in Seq(Names)
        /\ state.current_department \in Names
    BY DEF AgentState
  <2> HIDE DEF cursor, node
  <2> QED  BY <1>1, <2>1, ExpansionKeepsThePast
<1>3. asked \in Seq(Event) /\ silent \in Seq(Event)
  <2>1. next \in NODE \cup {NoNode}
    <3> HIDE DEF plan, cursor
    <3> QED  BY <1>1, <1>2, FindNextPausableType
  <2>2. (cursor >= Len(plan)) \in BOOLEAN
    OBVIOUS
  <2> HIDE DEF next, plan, cursor, node
  <2>3. /\ Updated(node) \in Event /\ End \in Event
        /\ AwaitingConfirmation(node, next, cursor >= Len(plan)) \in Event
    BY <1>1, <2>1, <2>2, EventTypes
  <2> QED  BY <2>3
<1>4. Contains(asked, Updated(node)) /\ Contains(silent, Updated(node))
  <2>1. /\ asked[1] = Updated(node) /\ 1 \in 1..Len(asked)
        /\ silent[1] = Updated(node) /\ 1 \in 1..Len(silent)
    <3> HIDE DEF node, next, plan, cursor
    <3> QED  OBVIOUS
  <2> HIDE DEF asked, silent
  <2> QED  BY <2>1 DEF Contains
<1>5. Ran(o, task[t].plan, task[t].cursor)
  BY DEF RanInv, TaskRan
\* Whichever of the two it says, the node is reported and the others stay so.
<1>6. ASSUME NEW said \in Seq(Event), Contains(said, Updated(node)), Emit(t, events \o said),
             \A u \in Requests : task'[u].obj = task[u].obj
      PROVE  Grows /\ RanNext(o, plan, cursor)
  <2>1. events \o said \in Seq(Event) /\ Contains(events \o said, Updated(node))
    BY <1>6, ConcatProperties, ContainsConcat
  <2>2. Grows /\ Contains(sse'[t], Updated(node))
    BY <1>6, <2>1, EmitGrows
  <2>3. HasRunNext(o, node)
    BY <1>6, <2>2 DEF HasRunNext
  <2>4. RanNext(o, task[t].plan, task[t].cursor)
    BY <1>1, <1>5, <2>2, RanStays
  <2>5. \A i \in 1..cursor : i \in 1..task[t].cursor \/ i = cursor
    BY <1>1
  <2> HIDE DEF plan, cursor, node, o
  <2> QED  BY <1>1, <1>2, <2>2, <2>3, <2>4, <2>5 DEF RanNext
<1>7. CASE /\ node \in PAUSABLE_NODES
           /\ sessionData' =
                [sessionData EXCEPT ![o] = Paused(@, state, plan, cursor, node)]
           /\ Emit(t, events \o asked)
           /\ EndTask(t)
  <2> DEFINE data == Paused(sessionData[o], state, plan, cursor, node)
  <2>1. data.cursor = cursor /\ data.execution_plan = plan
    <3>1. /\ plan \in Seq(NODE) /\ cursor \in Nat /\ node \in NODE
          /\ sessionData[o] \in SessionData
      BY <1>1, <1>2
    <3> HIDE DEF plan, cursor, node, o
    <3> QED  BY <3>1, PausedType
  <2>2. sessionData' = [sessionData EXCEPT ![o] = data]
    BY <1>7
  <2>3. \A u \in Requests : TaskKept(u) /\ (task'[u].pc = "none" => task[u].pc = "none")
    BY <1>7, EndTaskKeepsWork
  <2>4. Grows /\ RanNext(o, plan, cursor)
    <3>1. \A u \in Requests : task'[u].obj = task[u].obj
      BY <2>3 DEF TaskKept
    <3> HIDE DEF asked, plan, cursor, o
    <3> QED  BY <1>3, <1>4, <1>6, <1>7, <3>1
  <2> HIDE DEF data, plan, cursor
  <2>5. SessionRanNext(o)
    <3>1. sessionData'[o] = data
      BY <1>1, <2>2 DEF StepInv, Shape
    <3> QED  BY <2>1, <2>4, <3>1 DEF SessionRanNext
  <2>6. \A p \in Requests : p # o => SessionKept(p)
    BY <2>2 DEF StepInv, Shape, SessionKept
  <2> QED  BY <2>3, <2>4, <2>5, <2>6, RanChange
<1>8. CASE /\ node \notin PAUSABLE_NODES
           /\ sessionData' = [sessionData EXCEPT ![o].state = state]
           /\ Emit(t, events \o silent)
           /\ task' = [task EXCEPT ![t].pc = "loop", ![t].plan = plan, ![t].cursor = cursor]
  <2> DEFINE data == [sessionData[o] EXCEPT !.state = state]
             new == [task[t] EXCEPT !.pc = "loop", !.plan = plan, !.cursor = cursor]
  <2>1. /\ data.cursor = sessionData[o].cursor /\ sessionData[o].cursor \in Nat
        /\ data.execution_plan = sessionData[o].execution_plan
    BY <1>1 DEF SessionData
  <2>2. sessionData' = [sessionData EXCEPT ![o] = data]
    BY <1>8
  <2>3. /\ new.pc = "loop" /\ new.plan = plan /\ new.cursor = cursor /\ new.obj = o
    <3> HIDE DEF plan, cursor
    <3> QED  BY <1>1 DEF Task
  <2>4. task'[t] = new /\ \A u \in Requests : u # t => task'[u] = task[u]
    <3>1. task' = [task EXCEPT ![t] = new]
      BY <1>8
    <3> HIDE DEF new
    <3> QED  BY <3>1 DEF StepInv, Shape
  <2> HIDE DEF data, new
  <2>5. Grows /\ RanNext(o, plan, cursor)
    <3>1. \A u \in Requests : task'[u].obj = task[u].obj
      BY <2>3, <2>4
    <3> HIDE DEF silent, plan, cursor, o
    <3> QED  BY <1>3, <1>4, <1>6, <1>8, <3>1
  <2> HIDE DEF plan, cursor
  <2>6. TaskRanNext(t) /\ task'[t].obj # None
    BY <1>1, <2>3, <2>4, <2>5, NoneAssumption DEF TaskRanNext
  <2>7. \A p \in Requests : SessionKept(p)
    BY <1>1, <2>1, <2>2 DEF StepInv, Shape, SessionKept
  <2> QED  BY <2>3, <2>4, <2>5, <2>6, <2>7, RanChange DEF TaskKept
<1> QED  BY <1>7, <1>8 DEF CompleteNode

\* A node that runs without giving up the loop.
LEMMA SilentNodeKeepsOrder ==
  ASSUME StepInv, RanInv, NEW t \in Requests, SilentNode(t)
  PROVE  RanInv'
<1>0. PICK node, state :
        /\ AtNode(t, node) /\ state \in AgentState
        /\ CompleteNode(t, state, <<Thinking(CurrentNode(t))>>)
  BY DEF SilentNode
<1>1. IsLive(t) /\ task[t].cursor < Len(task[t].plan)
  BY <1>0, AtNodeFacts
<1>2. <<Thinking(CurrentNode(t))>> \in Seq(Event)
  BY <1>1, LiveTask, EventTypes
<1> QED  BY <1>0, <1>1, <1>2, CompleteNodeKeepsOrder

\* A node that takes up the answer of the model.
LEMMA ModelNodeKeepsOrder ==
  ASSUME StepInv, RanInv, NEW t \in Requests, ModelNode(t)
  PROVE  RanInv'
<1>1. <<>> \in Seq(Event)
  OBVIOUS
<1> QED  BY <1>1, AnsweredFacts, CompleteNodeKeepsOrder DEF ModelNode

\* A call of the model moves no cursor.
LEMMA CallNodeKeepsOrder ==
  ASSUME StepInv, RanInv, NEW t \in Requests, CallNode(t)
  PROVE  RanInv'
<1> DEFINE new == [task[t] EXCEPT !.pc = "calling", !.streamed = FALSE,
                                  !.writer = SessionOf(t).stream_writer]
<1>0. IsLive(t) /\ task[t].cursor < Len(task[t].plan)
  BY DEF CallNode, AtLoopHead, IsLive
<1>1. task[t] \in Task /\ CurrentNode(t) \in NODE
  BY <1>0, LiveTask
<1>2. /\ new.pc = "calling" /\ new.obj = task[t].obj /\ new.plan = task[t].plan
      /\ new.cursor = task[t].cursor
  BY <1>1 DEF Task
<1>3. task'[t] = new /\ \A u \in Requests : u # t => task'[u] = task[u]
  BY DEF CallNode, StepInv, Shape
<1> HIDE DEF new
<1>4. \A u \in Requests : TaskKept(u) /\ (task'[u].pc = "none" => task[u].pc = "none")
  BY <1>2, <1>3 DEF TaskKept
<1>5. Grows
  <2>1. <<Thinking(CurrentNode(t))>> \in Seq(Event)
    BY <1>1, EventTypes
  <2>2. \A u \in Requests : task'[u].obj = task[u].obj
    BY <1>4 DEF TaskKept
  <2> QED  BY <2>1, <2>2, EmitGrows DEF CallNode
<1> QED  BY <1>4, <1>5, SameWorkKeepsOrder DEF CallNode

\* A token moves no cursor, and bodies only grow.
LEMMA StreamChunkKeepsOrder ==
  ASSUME StepInv, RanInv, NEW t \in Requests, StreamChunk(t)
  PROVE  RanInv'
<1> DEFINE new == [task[t] EXCEPT !.streamed = TRUE]
           w == task[t].writer
           chunk == Chunk(CurrentNode(t), t)
<1>0. IsLive(t) /\ task[t].cursor < Len(task[t].plan) /\ w \in Requests
  BY DEF StreamChunk, IsLive, StepInv, TaskOK
<1>1. task[t] \in Task /\ CurrentNode(t) \in NODE
  BY <1>0, LiveTask
<1>2. /\ new.pc = task[t].pc /\ new.obj = task[t].obj /\ new.plan = task[t].plan
      /\ new.cursor = task[t].cursor
  BY <1>1 DEF Task
<1>3. task'[t] = new /\ \A u \in Requests : u # t => task'[u] = task[u]
  BY DEF StreamChunk, StepInv, Shape
<1> HIDE DEF new
<1>4. \A u \in Requests : TaskKept(u) /\ (task'[u].pc = "none" => task[u].pc = "none")
  BY <1>2, <1>3 DEF TaskKept
<1>5. \A u \in Requests : \A e : Contains(sse[u], e) => Contains(sse'[u], e)
  <2>1. chunk \in Event /\ sse[w] \in Seq(Event)
    BY <1>0, <1>1, EventTypes DEF StepInv, Shape
  <2>2. \A e : Contains(sse[w], e) => Contains(Append(sse[w], chunk), e)
    <3> HIDE DEF chunk, w
    <3>1. Append(sse[w], chunk) = sse[w] \o <<chunk>> /\ <<chunk>> \in Seq(Event)
      BY <2>1, AppendIsConcat
    <3> QED  BY <2>1, <3>1, ContainsConcat
  <2>3. sse' = sse \/ sse' = [sse EXCEPT ![w] = Append(@, chunk)]
    BY DEF StreamChunk
  <2> HIDE DEF chunk, w
  <2> QED  BY <1>0, <2>2, <2>3 DEF StepInv, Shape
<1>6. Grows
  BY <1>4, <1>5 DEF Grows, TaskKept
<1> QED  BY <1>4, <1>6, SameWorkKeepsOrder DEF StreamChunk

\* Nor does an answer before its task takes it up.
LEMMA ModelAnswersKeepsOrder ==
  ASSUME StepInv, RanInv, NEW t \in Requests, ModelAnswers(t)
  PROVE  RanInv'
<1> DEFINE new == [task[t] EXCEPT !.pc = "answered"]
<1>1. task[t] \in Task
  BY DEF StepInv, Shape
<1>2. /\ new.pc = "answered" /\ new.obj = task[t].obj /\ new.plan = task[t].plan
      /\ new.cursor = task[t].cursor
  BY <1>1 DEF Task
<1>3. task'[t] = new /\ \A u \in Requests : u # t => task'[u] = task[u]
  BY DEF ModelAnswers, StepInv, Shape
<1> HIDE DEF new
<1>4. \A u \in Requests : TaskKept(u) /\ (task'[u].pc = "none" => task[u].pc = "none")
  BY <1>2, <1>3 DEF TaskKept
<1>5. Grows
  BY <1>4 DEF ModelAnswers, Grows, TaskKept
<1> QED  BY <1>4, <1>5, SameWorkKeepsOrder DEF ModelAnswers

\* A failed call leaves the cursors where they were.
LEMMA NodeRaisesKeepsOrder ==
  ASSUME StepInv, RanInv, NEW t \in Requests, NodeRaises(t)
  PROVE  RanInv'
<1>1. \A u \in Requests : TaskKept(u) /\ (task'[u].pc = "none" => task[u].pc = "none")
  BY EndTaskKeepsWork DEF NodeRaises
<1>2. Grows
  <2>1. <<ErrorEvent, End>> \in Seq(Event)
    BY EventTypes
  <2>2. \A u \in Requests : task'[u].obj = task[u].obj
    BY <1>1 DEF TaskKept
  <2> QED  BY <2>1, <2>2, EmitGrows DEF NodeRaises
<1> QED  BY <1>1, <1>2, SameWorkKeepsOrder DEF NodeRaises

\* A finished plan moves no cursor.
LEMMA FinishPlanKeepsOrder ==
  ASSUME StepInv, RanInv, NEW t \in Requests, FinishPlan(t)
  PROVE  RanInv'
<1>1. \A u \in Requests : TaskKept(u) /\ (task'[u].pc = "none" => task[u].pc = "none")
  BY EndTaskKeepsWork DEF FinishPlan
<1>2. Grows
  <2>1. IsLive(t)
    BY DEF FinishPlan, IsLive
  <2>2. StateOf(t).messages \in Seq(Message)
    BY <2>1, LiveTask DEF AgentState
  <2>3. <<Final(LastReply(StateOf(t).messages)), End>> \in Seq(Event)
    <3>1. Final(LastReply(StateOf(t).messages)) \in Event /\ End \in Event
      BY <2>2, LastReplyType, EventTypes
    <3> QED  BY <3>1
  <2>4. \A u \in Requests : task'[u].obj = task[u].obj
    BY <1>1 DEF TaskKept
  <2> QED  BY <2>3, <2>4, EmitGrows DEF FinishPlan
<1> QED  BY <1>1, <1>2, SameWorkKeepsOrder DEF FinishPlan

\* A restart moves no cursor and takes back no event.
LEMMA RestartKeepsOrder ==
  ASSUME StepInv, RanInv, Restart
  PROVE  RanInv'
<1>1. ASSUME NEW t \in Requests
      PROVE  TaskKept(t) /\ (task'[t].pc = "none" => task[t].pc = "none")
  <2> DEFINE new == [task[t] EXCEPT !.pc = "lost"]
  <2>1. /\ new.pc = "lost" /\ new.obj = task[t].obj /\ new.plan = task[t].plan
        /\ new.cursor = task[t].cursor
    BY DEF StepInv, Shape, Task
  <2>2. task'[t] = new \/ task'[t] = task[t]
    BY DEF Restart
  <2> HIDE DEF new
  <2> QED  BY <2>1, <2>2 DEF TaskKept
<1>2. Grows
  BY <1>1 DEF Restart, Grows, TaskKept
<1> QED  BY <1>1, <1>2, SameWorkKeepsOrder DEF Restart

----------------------------------------------------------------------------
(* The theorem.                                                            *)

\* Nothing is behind a cursor initially.
LEMMA InitRanInv == Init => RanInv
BY DEF Init, NewTask, RanInv, SessionRan, TaskRan, Ran, Unbound

\* Every step keeps the invariant.
LEMMA RanInvInductive == StepInv /\ RanInv /\ [Step]_vars => RanInv'
<1> SUFFICES ASSUME StepInv, RanInv, [Step]_vars  PROVE RanInv'
  OBVIOUS
<1>1. ASSUME NEW r \in Requests, NEW sid \in SessionIds, Handled(r, sid)  PROVE RanInv'
  BY <1>1, ConfirmKeepsOrder, FreshRequestKeepsOrder, ResumeWithMessageKeepsOrder,
     ConfirmExpiredKeepsOrder DEF Handled
<1>2. ASSUME NEW sid \in SessionIds, StopChat(sid)  PROVE RanInv'
  BY <1>2, StopChatKeepsOrder
<1>3. ASSUME NEW t \in Requests, Advance(t)  PROVE RanInv'
  <2>1. CASE StartTask(t)        BY <2>1, StartTaskKeepsOrder
  <2>2. CASE StopAtCheck(t)      BY <2>2, StopAtCheckKeepsOrder
  <2>3. CASE SkipUnknownNode(t)  BY <2>3, SkipUnknownNodeKeepsOrder
  <2>4. CASE RunDispatchToDepartment(t) \/ RunDispatch(t) \/ RunTriggerActions(t)
    BY <2>4, SilentNodeKeepsOrder, RunDispatchToDepartmentIsSilent, RunDispatchIsSilent,
       RunTriggerActionsIsSilent
  <2>5. CASE CallNode(t)         BY <2>5, CallNodeKeepsOrder
  <2>6. CASE ModelAnswers(t)     BY <2>6, ModelAnswersKeepsOrder
  <2>7. CASE NodeReturns(t)      BY <2>7, NodeReturnsIsModelNode, ModelNodeKeepsOrder
  <2>8. CASE NodeRaises(t)       BY <2>8, NodeRaisesKeepsOrder
  <2>9. CASE FinishPlan(t)       BY <2>9, FinishPlanKeepsOrder
  <2> QED  BY <1>3, <2>1, <2>2, <2>3, <2>4, <2>5, <2>6, <2>7, <2>8, <2>9 DEF Advance
<1>4. ASSUME NEW t \in Requests, StreamChunk(t)  PROVE RanInv'
  BY <1>4, StreamChunkKeepsOrder
<1>5. CASE Restart
  BY <1>5, RestartKeepsOrder
<1>6. CASE UNCHANGED vars
  BY <1>6 DEF vars, RanInv, SessionRan, TaskRan, Ran, HasRun, Unbound
<1> QED  BY <1>1, <1>2, <1>3, <1>4, <1>5, <1>6 DEF Step

\* No node is skipped, whatever is regenerated, stopped, raised or restarted and however
\* the requests on a session overlap: what is behind a cursor was reported as run.
THEOREM NodesRunInOrder == Spec => []NodesBehindCursorRan
<1>1. Init => RanInv
  BY InitRanInv
<1>2. StepInv /\ RanInv /\ [Next]_vars => RanInv'
  BY RanInvInductive, NextIsStep
<1>3. StepInv /\ RanInv => NodesBehindCursorRan
  BY RanInvShows
<1> QED  BY <1>1, <1>2, <1>3, StepInvariant, PTL DEF Spec

----------------------------------------------------------------------------
(* One answer, one end.                                                    *)

ModelUpdate(e) == e.type = "update" /\ e.node \in ModelNodes

\* Nothing of what belongs to the end of a body.
QuietEvent(e) == e.type \notin Endings /\ e # End /\ ~ModelUpdate(e)
Open(body) == \A i \in 1..Len(body) : QuietEvent(body[i])

\* A body that has ended: the answer of a model stands right before its last word.
Closed(body) ==
  LET n == Len(body) IN
  /\ n > 1 /\ body[n] = End /\ body[n - 1].type \in Endings
  /\ \A i \in 1..(n - 2) :
       body[i].type \notin Endings /\ body[i] # End /\ (ModelUpdate(body[i]) => i = n - 2)

\* The inductive invariant: only a task that is done has closed its body.
BodyOK(t) ==
  /\ task[t].pc = "done" => Closed(sse[t])
  /\ task[t].pc = "expired" => sse[t] = <<End>>
  /\ task[t].pc \notin {"done", "expired"} => Open(sse[t])
BodyInv == \A t \in Requests : BodyOK(t)

----------------------------------------------------------------------------
(* Bodies.                                                                 *)

\* What the code says before an end is quiet.
LEMMA QuietEvents ==
  /\ \A node : QuietEvent(Thinking(node))
  /\ \A node : node \notin ModelNodes => QuietEvent(Updated(node))
  /\ \A node, r : QuietEvent(Chunk(node, r))
BY DEF QuietEvent, Thinking, Updated, Chunk, End, Endings, ModelUpdate

\* More quiet events leave a body open.
LEMMA StaysOpen ==
  ASSUME NEW body \in Seq(Event), NEW more \in Seq(Event), Open(body), Open(more)
  PROVE  Open(body \o more)
<1>1. /\ Len(body) \in Nat /\ Len(more) \in Nat /\ Len(body \o more) = Len(body) + Len(more)
      /\ \A i \in 1..(Len(body) + Len(more)) :
           (body \o more)[i] = IF i <= Len(body) THEN body[i] ELSE more[i - Len(body)]
  BY ConcatProperties, LenProperties
<1>2. ASSUME NEW i \in 1..(Len(body) + Len(more))  PROVE QuietEvent((body \o more)[i])
  <2>1. CASE i <= Len(body)
    <3>1. i \in 1..Len(body) /\ (body \o more)[i] = body[i]
      BY <1>1, <2>1
    <3> QED  BY <3>1 DEF Open
  <2>2. CASE ~(i <= Len(body))
    <3>1. i - Len(body) \in 1..Len(more) /\ (body \o more)[i] = more[i - Len(body)]
      BY <1>1, <2>2
    <3> QED  BY <3>1 DEF Open
  <2> QED  BY <2>1, <2>2
<1> QED  BY <1>1, <1>2 DEF Open

\* A last word and the end close an open body.
LEMMA Closes ==
  ASSUME NEW body \in Seq(Event), Open(body), NEW e \in Event, e.type \in Endings
  PROVE  Closed(body \o <<e, End>>)
<1> DEFINE tail == <<e, End>>
           all == body \o tail
           n == Len(body)
<1>1. tail \in Seq(Event) /\ Len(tail) = 2 /\ tail[1] = e /\ tail[2] = End
  BY EventTypes
<1> HIDE DEF tail
<1>2. /\ n \in Nat /\ Len(all) = n + 2
      /\ \A i \in 1..(n + 2) : all[i] = IF i <= n THEN body[i] ELSE tail[i - n]
  <2>1. /\ n \in Nat /\ Len(all) = n + Len(tail)
        /\ \A i \in 1..(n + Len(tail)) : all[i] = IF i <= n THEN body[i] ELSE tail[i - n]
    BY <1>1, ConcatProperties, LenProperties
  <2> QED  BY <1>1, <2>1
<1>3. all[n + 1] = e /\ all[n + 2] = End
  <2>1. /\ n + 1 \in 1..(n + 2) /\ ~(n + 1 <= n) /\ (n + 1) - n = 1
        /\ n + 2 \in 1..(n + 2) /\ ~(n + 2 <= n) /\ (n + 2) - n = 2
    BY <1>2
  <2> QED  BY <1>1, <1>2, <2>1
<1>4. \A i \in 1..n : QuietEvent(all[i])
  <2>1. \A i \in 1..n : i \in 1..(n + 2) /\ i <= n
    BY <1>2
  <2> QED  BY <1>2, <2>1 DEF Open
<1> HIDE DEF all, n
<1>5. /\ Len(all) > 1 /\ Len(all) - 1 = n + 1 /\ Len(all) - 2 = n
  BY <1>2
<1> QED  BY <1>2, <1>3, <1>4, <1>5 DEF Closed, QuietEvent, all, tail

\* So do the report of a node, a last word and the end.
LEMMA ClosesWithUpdate ==
  ASSUME NEW body \in Seq(Event), Open(body), NEW node \in NODE,
         NEW e \in Event, e.type \in Endings
  PROVE  Closed(body \o <<Updated(node), e, End>>)
<1> DEFINE tail == <<Updated(node), e, End>>
           all == body \o tail
           n == Len(body)
<1>1. /\ tail \in Seq(Event) /\ Len(tail) = 3
      /\ tail[1] = Updated(node) /\ tail[2] = e /\ tail[3] = End
  BY EventTypes
<1> HIDE DEF tail
<1>2. /\ n \in Nat /\ Len(all) = n + 3
      /\ \A i \in 1..(n + 3) : all[i] = IF i <= n THEN body[i] ELSE tail[i - n]
  <2>1. /\ n \in Nat /\ Len(all) = n + Len(tail)
        /\ \A i \in 1..(n + Len(tail)) : all[i] = IF i <= n THEN body[i] ELSE tail[i - n]
    BY <1>1, ConcatProperties, LenProperties
  <2> QED  BY <1>1, <2>1
<1>3. all[n + 1] = Updated(node) /\ all[n + 2] = e /\ all[n + 3] = End
  <2>1. /\ n + 1 \in 1..(n + 3) /\ ~(n + 1 <= n) /\ (n + 1) - n = 1
        /\ n + 2 \in 1..(n + 3) /\ ~(n + 2 <= n) /\ (n + 2) - n = 2
        /\ n + 3 \in 1..(n + 3) /\ ~(n + 3 <= n) /\ (n + 3) - n = 3
    BY <1>2
  <2> QED  BY <1>1, <1>2, <2>1
<1>4. \A i \in 1..n : QuietEvent(all[i])
  <2>1. \A i \in 1..n : i \in 1..(n + 3) /\ i <= n
    BY <1>2
  <2> QED  BY <1>2, <2>1 DEF Open
<1>5. Updated(node).type \notin Endings /\ Updated(node) # End
  BY DEF Updated, End, Endings
<1> HIDE DEF all, n
<1>6. /\ Len(all) > 1 /\ Len(all) - 1 = n + 2 /\ Len(all) - 2 = n + 1
      /\ \A i \in 1..(n + 1) : i \in 1..n \/ i = n + 1
  BY <1>2
<1> QED  BY <1>2, <1>3, <1>4, <1>5, <1>6 DEF Closed, QuietEvent, all, tail

\* The invariant implies the properties of the run.
LEMMA BodyInvShows ==
  StepInv /\ BodyInv => PausesAfterEveryAgent /\ SaysOnceHowItEnded
<1> SUFFICES ASSUME StepInv, BodyInv, NEW r \in Requests
             PROVE  /\ Cardinality({i \in DOMAIN sse[r] :
                          sse[r][i].type = "update" /\ sse[r][i].node \in ModelNodes}) <= 1
                    /\ LET n == Len(sse[r]) IN
                       /\ \A i \in 1..n : sse[r][i].type \in Endings => HasEnded(r) /\ i = n - 1
                       /\ \A i \in 1..n : sse[r][i] = End => i = n
                       /\ HasEnded(r) /\ task[r].pc # "expired"
                            => n > 1 /\ sse[r][n - 1].type \in Endings
  BY DEF PausesAfterEveryAgent, SaysOnceHowItEnded
<1> DEFINE body == sse[r]
           n == Len(body)
           updates == {i \in DOMAIN body : ModelUpdate(body[i])}
<1>1. body \in Seq(Event) /\ n \in Nat /\ DOMAIN body = 1..n
  BY LenProperties DEF StepInv, Shape
<1>2. HasEnded(r) <=> n > 0 /\ body[n] = End
  <2>1. body # <<>> <=> n > 0
    BY <1>1, EmptySeq
  <2> QED  BY <2>1 DEF HasEnded, Last
<1>3. ASSUME NEW m, updates \subseteq {m}  PROVE Cardinality(updates) <= 1
  <2>1. updates \in SUBSET {m} /\ IsFiniteSet({m}) /\ Cardinality({m}) = 1
    BY <1>3, FS_Singleton
  <2>2. Cardinality(updates) <= Cardinality({m})
    BY <2>1, FS_Subset
  <2> QED  BY <2>1, <2>2
<1>4. CASE Open(body)
  <2>1. updates \subseteq {0}
    BY <1>1, <1>4 DEF Open, QuietEvent
  <2>2. ~HasEnded(r)
    BY <1>1, <1>2, <1>4 DEF Open, QuietEvent
  <2> QED  BY <1>1, <1>3, <1>4, <2>1, <2>2 DEF Open, QuietEvent, ModelUpdate
<1>5. CASE Closed(body)
  <2>1. /\ n > 1 /\ body[n] = End /\ body[n - 1].type \in Endings
        /\ \A i \in 1..(n - 2) :
             body[i].type \notin Endings /\ body[i] # End /\ (ModelUpdate(body[i]) => i = n - 2)
    BY <1>5 DEF Closed
  <2>2. /\ \A i \in 1..n : i \in 1..(n - 2) \/ i = n - 1 \/ i = n
        /\ End.type \notin Endings /\ ~ModelUpdate(End)
        /\ ~ModelUpdate(body[n - 1]) /\ body[n - 1] # End
    BY <1>1, <2>1 DEF End, Endings, ModelUpdate
  <2>3. updates \subseteq {n - 2}
    BY <1>1, <2>1, <2>2
  <2> HIDE DEF body, n
  <2>4. Cardinality(updates) <= 1
    BY <1>3, <2>3
  <2> QED  BY <1>1, <1>2, <2>1, <2>2, <2>4 DEF body, n, ModelUpdate
<1>6. CASE task[r].pc = "expired" /\ body = <<End>>
  <2>1. /\ n = 1 /\ body[1] = End /\ DOMAIN body = {1}
        /\ End.type \notin Endings /\ ~ModelUpdate(End)
    BY <1>6 DEF End, Endings, ModelUpdate
  <2>2. updates \subseteq {1}
    BY <2>1
  <2> HIDE DEF body, n
  <2>3. Cardinality(updates) <= 1
    BY <1>3, <2>2
  <2> QED  BY <1>1, <1>6, <2>1, <2>3 DEF body, n, ModelUpdate
<1> QED  BY <1>4, <1>5, <1>6 DEF BodyInv, BodyOK

----------------------------------------------------------------------------
(* Each step keeps the invariant.                                          *)

Shut == {"done", "expired"}

\* The steps that say nothing and end no task.
LEMMA SaysNothing ==
  ASSUME BodyInv, UNCHANGED sse,
         \A u \in Requests : \/ task'[u].pc = task[u].pc
                             \/ task[u].pc \notin Shut /\ task'[u].pc \notin Shut
  PROVE  BodyInv'
BY DEF BodyInv, BodyOK, Shut

\* What Emit does to bodies.
LEMMA EmitBody ==
  ASSUME StepInv, NEW t \in Requests, NEW events \in Seq(Event), Emit(t, events)
  PROVE  /\ sse[t] \in Seq(Event) /\ sse'[t] = sse[t] \o events
         /\ \A u \in Requests : u # t => sse'[u] = sse[u]
BY DEF Emit, StepInv, Shape

\* A live task says something quiet and lives on.
LEMMA SaysQuietly ==
  ASSUME StepInv, BodyInv, NEW t \in Requests, IsLive(t), NEW events \in Seq(Event),
         Open(events), Emit(t, events), task'[t].pc \notin Shut,
         \A u \in Requests : u # t => task'[u] = task[u]
  PROVE  BodyInv'
<1>1. Open(sse[t])
  BY DEF BodyInv, BodyOK, IsLive
<1>2. sse'[t] = sse[t] \o events /\ Open(sse[t] \o events)
  BY <1>1, EmitBody, StaysOpen
<1>3. Open(sse'[t]) /\ \A u \in Requests : u # t => sse'[u] = sse[u]
  BY <1>2, EmitBody
<1> QED  BY <1>3 DEF BodyInv, BodyOK, Shut

\* A live task says how it ended.
LEMMA SaysItsEnd ==
  ASSUME StepInv, BodyInv, NEW t \in Requests, NEW events \in Seq(Event),
         Closed(sse[t] \o events), Emit(t, events), EndTask(t)
  PROVE  BodyInv'
<1>1. Closed(sse'[t]) /\ \A u \in Requests : u # t => sse'[u] = sse[u]
  BY EmitBody
<1>2. task'[t].pc = "done" /\ \A u \in Requests : u # t => task'[u] = task[u]
  BY DEF EndTask, StepInv, Shape, Task
<1> QED  BY <1>1, <1>2 DEF BodyInv, BodyOK

\* The body of a live task is open.
LEMMA LiveBody ==
  ASSUME StepInv, BodyInv, NEW t \in Requests, IsLive(t)
  PROVE  sse[t] \in Seq(Event) /\ Open(sse[t])
BY DEF BodyInv, BodyOK, IsLive, StepInv, Shape

\* A request whose task is created has said nothing yet.
LEMMA BindingKeepsBodies ==
  ASSUME StepInv, BodyInv, NEW r \in Requests, NEW sid, NEW o, CreateTask(r, sid, o),
         task[r].pc = "none", UNCHANGED sse
  PROVE  BodyInv'
<1>1. task'[r].pc = "created" /\ \A u \in Requests : u # r => task'[u] = task[u]
  BY DEF CreateTask, StepInv, Shape, Task
<1> QED  BY <1>1, SaysNothing DEF Shut

\* Nor has one whose confirmation has expired.
LEMMA ConfirmExpiredKeepsBodies ==
  ASSUME StepInv, BodyInv, NEW r \in Requests, NEW sid \in SessionIds, ConfirmExpired(r, sid)
  PROVE  BodyInv'
<1>1. task'[r].pc = "expired" /\ \A u \in Requests : u # r => task'[u] = task[u]
  BY DEF ConfirmExpired, StepInv, Shape, Task
<1>2. sse'[r] = <<End>> /\ \A u \in Requests : u # r => sse'[u] = sse[u]
  BY DEF ConfirmExpired, StepInv, Shape
<1> QED  BY <1>1, <1>2 DEF BodyInv, BodyOK

\* A node reports once; if it asked the model, the body ends there.
LEMMA CompleteNodeKeepsBodies ==
  ASSUME StepInv, BodyInv, NEW t \in Requests, IsLive(t), task[t].cursor < Len(task[t].plan),
         NEW state \in AgentState, NEW events \in Seq(Event), Open(events),
         CompleteNode(t, state, events)
  PROVE  BodyInv'
<1> DEFINE node   == CurrentNode(t)
           cursor == task[t].cursor + 1
           plan   == ExpandPlanAfterNode(state, task[t].plan, cursor, node)
           asks   == AwaitingConfirmation(node, FindNextPausable(plan, cursor),
                                          cursor >= Len(plan))
           asked  == <<Updated(node), asks, End>>
<1>1. /\ task[t].plan \in Seq(NODE) /\ node \in NODE /\ cursor \in 0..Len(task[t].plan)
      /\ cursor \in Nat /\ sse[t] \in Seq(Event) /\ Open(sse[t])
  BY LiveTask, LiveBody
<1>2. sse[t] \o events \in Seq(Event) /\ Open(sse[t] \o events)
  BY <1>1, StaysOpen, ConcatProperties
<1>3. CASE node \in PAUSABLE_NODES /\ Emit(t, events \o asked) /\ EndTask(t)
  <2>1. asks \in Event /\ asks.type \in Endings
    <3>1. plan \in Seq(NODE) /\ cursor <= Len(plan)
      <4>1. /\ state.plan \in Seq(Names) /\ state.sub_plan \in Seq(Names)
            /\ state.current_department \in Names
        BY DEF AgentState
      <4> HIDE DEF cursor, node
      <4> QED  BY <1>1, <4>1, ExpansionKeepsThePast
    <3>2. FindNextPausable(plan, cursor) \in NODE \cup {NoNode}
      <4> HIDE DEF plan, cursor
      <4> QED  BY <1>1, <3>1, FindNextPausableType
    <3>3. (cursor >= Len(plan)) \in BOOLEAN
      OBVIOUS
    <3> HIDE DEF plan, cursor, node
    <3> QED  BY <1>1, <3>2, <3>3, EventTypes DEF AwaitingConfirmation, Endings
  <2> HIDE DEF asks, node
  <2>2. asked \in Seq(Event)
    BY <1>1, <2>1, EventTypes
  <2>3. Closed((sse[t] \o events) \o asked)
    BY <1>1, <1>2, <2>1, ClosesWithUpdate
  <2> HIDE DEF asked
  <2>4. (sse[t] \o events) \o asked = sse[t] \o (events \o asked)
    <3>1. \A a, b, c \in Seq(Event) : (a \o b) \o c = a \o (b \o c)
      BY ConcatAssociative
    <3> HIDE DEF plan, cursor
    <3> QED  BY <1>1, <2>2, <3>1
  <2>5. events \o asked \in Seq(Event)
    BY <2>2, ConcatProperties
  <2> QED  BY <1>3, <2>3, <2>4, <2>5, SaysItsEnd
<1>4. CASE /\ node \notin PAUSABLE_NODES
           /\ Emit(t, events \o <<Updated(node)>>)
           /\ task' = [task EXCEPT ![t].pc = "loop", ![t].plan = plan, ![t].cursor = cursor]
  <2>1. <<Updated(node)>> \in Seq(Event) /\ Open(<<Updated(node)>>)
    <3>1. Updated(node) \in Event /\ QuietEvent(Updated(node))
      <4>1. node \notin ModelNodes
        BY <1>4 DEF PAUSABLE_NODES, ModelNodes
      <4> HIDE DEF node
      <4> QED  BY <1>1, <4>1, EventTypes, QuietEvents
    <3> HIDE DEF node
    <3> QED  BY <3>1 DEF Open
  <2>2. /\ events \o <<Updated(node)>> \in Seq(Event)
        /\ Open(events \o <<Updated(node)>>)
    <3> HIDE DEF node
    <3> QED  BY <2>1, StaysOpen, ConcatProperties
  <2>3. task'[t].pc = "loop" /\ \A u \in Requests : u # t => task'[u] = task[u]
    <3> HIDE DEF plan, cursor
    <3> QED  BY <1>4 DEF StepInv, Shape, Task
  <2> HIDE DEF plan, cursor, node
  <2> QED  BY <1>4, <2>2, <2>3, SaysQuietly DEF Shut
<1> QED  BY <1>3, <1>4 DEF CompleteNode

\* A node that runs at once first says that it is thinking.
LEMMA SilentNodeKeepsBodies ==
  ASSUME StepInv, BodyInv, NEW t \in Requests, SilentNode(t)
  PROVE  BodyInv'
<1>0. PICK node, state :
        /\ AtNode(t, node) /\ state \in AgentState
        /\ CompleteNode(t, state, <<Thinking(CurrentNode(t))>>)
  BY DEF SilentNode
<1>1. IsLive(t) /\ task[t].cursor < Len(task[t].plan)
  BY <1>0, AtNodeFacts
<1>2. Thinking(CurrentNode(t)) \in Event /\ QuietEvent(Thinking(CurrentNode(t)))
  BY <1>1, LiveTask, EventTypes, QuietEvents
<1>3. <<Thinking(CurrentNode(t))>> \in Seq(Event) /\ Open(<<Thinking(CurrentNode(t))>>)
  BY <1>2 DEF Open
<1> QED  BY <1>0, <1>1, <1>3, CompleteNodeKeepsBodies

\* A node that takes up an answer has said so before.
LEMMA ModelNodeKeepsBodies ==
  ASSUME StepInv, BodyInv, NEW t \in Requests, ModelNode(t)
  PROVE  BodyInv'
<1>1. <<>> \in Seq(Event) /\ Open(<<>>)
  BY DEF Open
<1> QED  BY <1>1, AnsweredFacts, CompleteNodeKeepsBodies DEF ModelNode

\* A task that calls the model says that it is thinking.
LEMMA CallNodeKeepsBodies ==
  ASSUME StepInv, BodyInv, NEW t \in Requests, CallNode(t)
  PROVE  BodyInv'
<1>1. IsLive(t) /\ task[t].cursor < Len(task[t].plan)
  BY DEF CallNode, AtLoopHead, IsLive
<1>2. Thinking(CurrentNode(t)) \in Event /\ QuietEvent(Thinking(CurrentNode(t)))
  BY <1>1, LiveTask, EventTypes, QuietEvents
<1>3. <<Thinking(CurrentNode(t))>> \in Seq(Event) /\ Open(<<Thinking(CurrentNode(t))>>)
  BY <1>2 DEF Open
<1>4. task'[t].pc = "calling" /\ \A u \in Requests : u # t => task'[u] = task[u]
  BY DEF CallNode, StepInv, Shape, Task
<1> QED  BY <1>1, <1>3, <1>4, SaysQuietly DEF CallNode, Shut

\* A token goes to a body that has not ended, which is open.
LEMMA StreamChunkKeepsBodies ==
  ASSUME StepInv, BodyInv, NEW t \in Requests, StreamChunk(t)
  PROVE  BodyInv'
<1> DEFINE w == task[t].writer
           chunk == Chunk(CurrentNode(t), t)
<1>1. IsLive(t) /\ w \in Requests /\ task[t].cursor < Len(task[t].plan)
  BY DEF StreamChunk, IsLive, StepInv, TaskOK
<1>2. \A u \in Requests : task'[u].pc = task[u].pc
  BY DEF StreamChunk, StepInv, Shape, Task
<1>3. CASE HasEnded(w)
  BY <1>2, <1>3, SaysNothing DEF StreamChunk
<1>4. CASE ~HasEnded(w)
  <2>1. sse[w] \in Seq(Event) /\ chunk \in Event /\ QuietEvent(chunk)
    BY <1>1, LiveTask, EventTypes, QuietEvents DEF StepInv, Shape
  <2>2. task[w].pc \notin Shut /\ Open(sse[w])
    <3>1. Closed(sse[w]) => HasEnded(w)
      BY <2>1, EmptySeq DEF Closed, HasEnded, Last
    <3>2. sse[w] = <<End>> => HasEnded(w)
      BY DEF HasEnded, Last
    <3> QED  BY <1>1, <1>4, <3>1, <3>2 DEF BodyInv, BodyOK, Shut
  <2>3. sse'[w] = Append(sse[w], chunk) /\ \A u \in Requests : u # w => sse'[u] = sse[u]
    BY <1>1, <1>4 DEF StreamChunk, StepInv, Shape
  <2> HIDE DEF chunk
  <2>4. Open(sse'[w])
    <3>1. /\ Len(sse'[w]) = Len(sse[w]) + 1 /\ Len(sse[w]) \in Nat
          /\ \A i \in 1..Len(sse[w]) : sse'[w][i] = sse[w][i]
          /\ sse'[w][Len(sse[w]) + 1] = chunk
      BY <2>1, <2>3, AppendProperties, LenProperties
    <3>2. \A i \in 1..(Len(sse[w]) + 1) : i \in 1..Len(sse[w]) \/ i = Len(sse[w]) + 1
      BY <3>1
    <3> QED  BY <2>1, <2>2, <3>1, <3>2 DEF Open
  <2> HIDE DEF w
  <2> QED  BY <1>2, <2>2, <2>3, <2>4 DEF BodyInv, BodyOK, Shut
<1> QED  BY <1>3, <1>4

\* A cancelled, failed or finished task says so.
LEMMA EndsKeepBodies ==
  ASSUME StepInv, BodyInv, NEW t \in Requests,
         StopAtCheck(t) \/ NodeRaises(t) \/ FinishPlan(t)
  PROVE  BodyInv'
<1>1. IsLive(t) /\ EndTask(t)
  BY DEF StopAtCheck, AtLoopHead, NodeRaises, Answered, Turn, FinishPlan, IsLive
<1>2. sse[t] \in Seq(Event) /\ Open(sse[t])
  BY <1>1, LiveBody
<1>3. PICK e \in Event : e.type \in Endings /\ Emit(t, <<e, End>>)
  <2>1. Stopped.type \in Endings /\ ErrorEvent.type \in Endings /\ End \in Event
    BY EventTypes DEF Stopped, ErrorEvent, Endings
  <2>2. LET last == Final(LastReply(StateOf(t).messages)) IN
        last \in Event /\ last.type \in Endings
    <3>1. StateOf(t).messages \in Seq(Message)
      BY <1>1, LiveTask DEF AgentState
    <3> QED  BY <3>1, LastReplyType, EventTypes DEF Final, Endings
  <2> QED  BY <2>1, <2>2, EventTypes DEF StopAtCheck, NodeRaises, FinishPlan
<1>4. <<e, End>> \in Seq(Event) /\ Closed(sse[t] \o <<e, End>>)
  BY <1>2, <1>3, Closes, EventTypes
<1> QED  BY <1>1, <1>3, <1>4, SaysItsEnd

\* The steps of a task that say nothing.
LEMMA QuietStepsKeepBodies ==
  ASSUME StepInv, BodyInv, NEW t \in Requests,
         StartTask(t) \/ SkipUnknownNode(t) \/ ModelAnswers(t)
  PROVE  BodyInv'
<1>1. /\ UNCHANGED sse /\ task[t].pc \notin Shut /\ task'[t].pc \notin Shut
      /\ \A u \in Requests : u # t => task'[u] = task[u]
  <2>1. CASE StartTask(t)
    BY <2>1 DEF StartTask, Turn, StepInv, Shape, Task, Shut
  <2>2. CASE SkipUnknownNode(t)
    BY <2>2 DEF SkipUnknownNode, AtLoopHead, StepInv, Shape, Task, Shut
  <2>3. CASE ModelAnswers(t)
    BY <2>3 DEF ModelAnswers, StepInv, Shape, Task, Shut
  <2> QED  BY <2>1, <2>2, <2>3
<1> QED  BY <1>1, SaysNothing

----------------------------------------------------------------------------
(* The theorems.                                                           *)

\* Bodies are empty at first.
LEMMA InitBodyInv == Init => BodyInv
BY DEF Init, BodyInv, BodyOK, NewTask, Open

\* Every step keeps them in order.
LEMMA BodyInvInductive == StepInv /\ BodyInv /\ [Step]_vars => BodyInv'
<1> SUFFICES ASSUME StepInv, BodyInv, [Step]_vars  PROVE BodyInv'
  OBVIOUS
<1>1. ASSUME NEW r \in Requests, NEW sid \in SessionIds, Handled(r, sid)  PROVE BodyInv'
  BY <1>1, BindingKeepsBodies, ConfirmExpiredKeepsBodies
     DEF Handled, FreshRequest, ResumeWithMessage, Confirm
<1>2. ASSUME NEW sid \in SessionIds, StopChat(sid)  PROVE BodyInv'
  BY <1>2, SaysNothing DEF StopChat
<1>3. ASSUME NEW t \in Requests, Advance(t)  PROVE BodyInv'
  <2>1. CASE StartTask(t) \/ SkipUnknownNode(t) \/ ModelAnswers(t)
    BY <2>1, QuietStepsKeepBodies
  <2>2. CASE StopAtCheck(t) \/ NodeRaises(t) \/ FinishPlan(t)
    BY <2>2, EndsKeepBodies
  <2>3. CASE RunDispatchToDepartment(t) \/ RunDispatch(t) \/ RunTriggerActions(t)
    BY <2>3, SilentNodeKeepsBodies, RunDispatchToDepartmentIsSilent, RunDispatchIsSilent,
       RunTriggerActionsIsSilent
  <2>4. CASE CallNode(t)
    BY <2>4, CallNodeKeepsBodies
  <2>5. CASE NodeReturns(t)
    BY <2>5, NodeReturnsIsModelNode, ModelNodeKeepsBodies
  <2> QED  BY <1>3, <2>1, <2>2, <2>3, <2>4, <2>5 DEF Advance
<1>4. ASSUME NEW t \in Requests, StreamChunk(t)  PROVE BodyInv'
  BY <1>4, StreamChunkKeepsBodies
<1>5. CASE Restart
  <2>1. ASSUME NEW u \in Requests
        PROVE  \/ task'[u].pc = task[u].pc
               \/ task[u].pc \notin Shut /\ task'[u].pc \notin Shut
    BY <1>5 DEF Restart, IsLive, Shut, StepInv, Shape, Task
  <2> QED  BY <1>5, <2>1, SaysNothing DEF Restart
<1>6. CASE UNCHANGED vars
  BY <1>6 DEF vars, BodyInv, BodyOK
<1> QED  BY <1>1, <1>2, <1>3, <1>4, <1>5, <1>6 DEF Step

\* The inductive invariant of bodies holds always.
LEMMA BodyInvariant == Spec => []BodyInv
<1> QED  BY InitStepInv, StepInvInductive, InitBodyInv, BodyInvInductive,
        NextIsStep, PTL DEF Spec

\* A body reports at most one node that asks the model, whatever the plan and however
\* requests overlap: the user is asked after every agent.
THEOREM OneAnswerPerRequest == Spec => []PausesAfterEveryAgent
<1>1. StepInv /\ BodyInv => PausesAfterEveryAgent
  BY BodyInvShows
<1> QED  BY <1>1, StepInvariant, BodyInvariant, PTL

\* A body says once how it ended, right before it closes, on every path of the executor.
THEOREM BodiesSayHowTheyEnded == Spec => []SaysOnceHowItEnded
<1>1. StepInv /\ BodyInv => SaysOnceHowItEnded
  BY BodyInvShows
<1> QED  BY <1>1, StepInvariant, BodyInvariant, PTL

----------------------------------------------------------------------------
(* "Final" means that nothing is left to ask.                              *)

\* A plan that asks the user somewhere asks at its end.
EndsAsking(plan) ==
  (\E i \in 1..Len(plan) : plan[i] \in PAUSABLE_NODES) => plan[Len(plan)] \in PAUSABLE_NODES

\* FinalMeansNothingNext, event by event.
Truthful(e) == e.type = "awaiting_confirmation" => (e.is_final <=> e.next = NoNode)
SaysTruth(body) == \A i \in 1..Len(body) : Truthful(body[i])

AsksInv ==
  /\ \A o \in Requests : sessionData[o] # None => EndsAsking(sessionData[o].execution_plan)
  /\ \A t \in Requests : EndsAsking(task[t].plan)
  /\ \A r \in Requests : SaysTruth(sse[r])

\* A model names an agent the executor knows at the end of its sub-plans.
EndKnown(p) == p # <<>> => p[Len(p)] \in SubAgents

\* The default sub-plans end so.
LEMMA DefaultPlansEndKnown ==
  \A d \in Departments : EndKnown(DEPARTMENT_CONFIGS[d].default_sub_plan)
<1>1. /\ DEPARTMENT_CONFIGS["CS"].default_sub_plan = <<"faq">>
      /\ DEPARTMENT_CONFIGS["SALES"].default_sub_plan = <<"lead_gen", "quote", "cad">>
      /\ DEPARTMENT_CONFIGS["REPAIR"].default_sub_plan = <<"manager", "master", "worker">>
      /\ DEPARTMENT_CONFIGS["USER"].default_sub_plan = <<"device">>
      /\ DEPARTMENT_CONFIGS["MARKET"].default_sub_plan
           = <<"analyze_industry", "generate_content">>
      /\ DEPARTMENT_CONFIGS["TECH"].default_sub_plan
           = <<"product", "developer", "tester", "devops">>
  BY DEF DEPARTMENT_CONFIGS, Department
<1>2. {"faq", "cad", "worker", "device", "generate_content", "devops"} \subseteq SubAgents
  BY DEF SubAgents, SUB_AGENT_CONFIGS
<1>3. /\ EndKnown(<<"faq">>) /\ EndKnown(<<"lead_gen", "quote", "cad">>)
      /\ EndKnown(<<"manager", "master", "worker">>) /\ EndKnown(<<"device">>)
      /\ EndKnown(<<"analyze_industry", "generate_content">>)
      /\ EndKnown(<<"product", "developer", "tester", "devops">>)
  BY <1>2 DEF EndKnown
<1> QED  BY <1>1, <1>3, DepartmentNames

\* The end of a concatenation.
LEMMA EndOfConcat ==
  ASSUME NEW S, NEW s \in Seq(S), NEW u \in Seq(S)
  PROVE  /\ u # <<>> => (s \o u)[Len(s \o u)] = u[Len(u)]
         /\ u = <<>> => s \o u = s
<1>1. /\ Len(s) \in Nat /\ Len(u) \in Nat /\ Len(s \o u) = Len(s) + Len(u)
      /\ \A i \in 1..(Len(s) + Len(u)) :
           (s \o u)[i] = IF i <= Len(s) THEN s[i] ELSE u[i - Len(s)]
  BY ConcatProperties, LenProperties
<1>2. ASSUME u # <<>>  PROVE (s \o u)[Len(s \o u)] = u[Len(u)]
  <2>1. Len(u) > 0
    BY <1>2, EmptySeq
  <2>2. PICK m \in Nat, n \in Nat : m = Len(s) /\ n = Len(u)
    BY <1>1
  <2>3. m + n \in 1..(m + n) /\ ~(m + n <= m) /\ (m + n) - m = n
    BY <2>1, <2>2
  <2> QED  BY <1>1, <2>2, <2>3
<1>3. ASSUME u = <<>>  PROVE s \o u = s
  BY <1>3
<1> QED  BY <1>2, <1>3

\* What a lead's sub-plan adds ends with its last agent.
LEMMA LeadExpansionEnd ==
  ASSUME NEW sub_plan \in Seq(Names), NEW dept \in Names
  PROVE  LET lead == LeadExpansion(dept, sub_plan)
         IN  /\ sub_plan = <<>> => lead = <<>>
             /\ sub_plan # <<>> =>
                  lead # <<>> /\ lead[Len(lead)] = AgentNode(sub_plan[Len(sub_plan)])
<1>1. Len(sub_plan) \in Nat
  BY LenProperties
<1>2. PICK n \in Nat : n = Len(sub_plan)
  BY <1>1
<1>3. CASE dept \in Departments
  <2> DEFINE lead == [i \in 1..(2 * n) |->
          IF i % 2 = 1 THEN DEPT_DISPATCH(dept) ELSE AgentNode(sub_plan[i \div 2])]
  <2>1. LeadExpansion(dept, sub_plan) = lead
    BY <1>2, <1>3 DEF LeadExpansion
  <2>2. lead \in Seq(NODE)
    BY <2>1, LeadExpansionType
  <2>3. DOMAIN lead = 1..(2 * n)
    OBVIOUS
  <2>4. Len(lead) = 2 * n
    <3> HIDE DEF lead
    <3> QED  BY <2>2, <2>3, LenProperties
  <2>5. sub_plan = <<>> => n = 0
    BY <1>2
  <2>6. sub_plan # <<>> => n > 0
    BY <1>2, EmptySeq
  <2>7. n > 0 => lead[2 * n] = AgentNode(sub_plan[n])
    <3>1. (2 * n) % 2 # 1 /\ (2 * n) \div 2 = n
      OBVIOUS
    <3> QED  BY <3>1
  <2> HIDE DEF lead
  <2>8. lead = <<>> <=> 2 * n = 0
    BY <2>2, <2>4, EmptySeq
  <2> QED  BY <1>2, <2>1, <2>4, <2>5, <2>6, <2>7, <2>8
<1>4. CASE dept \notin Departments
  <2> DEFINE lead == [i \in 1..n |-> AgentNode(sub_plan[i])]
  <2>1. LeadExpansion(dept, sub_plan) = lead
    BY <1>2, <1>4 DEF LeadExpansion
  <2>2. lead \in Seq(NODE)
    BY <2>1, LeadExpansionType
  <2>3. DOMAIN lead = 1..n
    OBVIOUS
  <2>4. Len(lead) = n
    <3> HIDE DEF lead
    <3> QED  BY <2>2, <2>3, LenProperties
  <2>5. sub_plan = <<>> => n = 0
    BY <1>2
  <2>6. sub_plan # <<>> => n > 0
    BY <1>2, EmptySeq
  <2>7. n > 0 => lead[n] = AgentNode(sub_plan[n])
    OBVIOUS
  <2> HIDE DEF lead
  <2>8. lead = <<>> <=> n = 0
    BY <2>2, <2>4, EmptySeq
  <2> QED  BY <1>2, <2>1, <2>4, <2>5, <2>6, <2>7, <2>8
<1> QED  BY <1>3, <1>4

\* After a node that asks the user a plan still asks at its end, as long as the leads'
\* models end their sub-plans with agents the executor knows.
LEMMA ExpansionEndsAsking ==
  ASSUME NEW plan \in Seq(NODE), NEW cursor \in 1..Len(plan), NEW state \in AgentState,
         plan[cursor] \in PAUSABLE_NODES, EndsAsking(plan),
         plan[cursor] \in LEAD_PLAN_NODES => EndKnown(state.sub_plan)
  PROVE  LET expanded == ExpandPlanAfterNode(state, plan, cursor, plan[cursor])
         IN  expanded[Len(expanded)] \in PAUSABLE_NODES
<1> DEFINE past == Prefix(plan, cursor)
           rest == Remaining(plan, cursor)
<1>1. /\ Len(plan) \in Nat /\ cursor \in Nat /\ cursor <= Len(plan) /\ cursor > 0
      /\ cursor \in 0..Len(plan)
      /\ state.plan \in Seq(Names) /\ state.sub_plan \in Seq(Names)
      /\ state.current_department \in Names
  BY LenProperties DEF AgentState
<1>2. /\ past \in Seq(NODE) /\ rest \in Seq(NODE) /\ past[Len(past)] = plan[cursor]
      /\ plan[Len(plan)] \in PAUSABLE_NODES
  <2>1. /\ past \in Seq(NODE) /\ Len(past) = cursor
        /\ \A i \in 1..cursor : past[i] = plan[i]
    BY <1>1, PrefixProperties
  <2>2. cursor \in 1..cursor
    BY <1>1
  <2>3. rest \in Seq(NODE)
    BY <1>1, RemainingProperties
  <2> QED  BY <2>1, <2>2, <2>3 DEF EndsAsking
<1>3. CASE plan[cursor] = AnalyzeIntent
  <2> DEFINE depts == DepartmentSequence(state.plan)
             close == <<TriggerActions, SummarizeResult>>
  <2>1. depts \in Seq(NODE) /\ close \in Seq(NODE)
    <3>1. TriggerActions \in NODE /\ SummarizeResult \in NODE
      BY NodesType
    <3> QED  BY <1>1, <3>1, DepartmentSequenceType
  <2>2. close # <<>> /\ close[Len(close)] = SummarizeResult
    OBVIOUS
  <2>3. (depts \o close)[Len(depts \o close)] = SummarizeResult
    <3> HIDE DEF depts, close
    <3> QED  BY <2>1, <2>2, EndOfConcat
  <2>4. /\ depts \o close \in Seq(NODE) /\ depts \o close # <<>>
    <3>1. Len(close) = 2
      OBVIOUS
    <3> HIDE DEF depts, close
    <3>2. depts \o close \in Seq(NODE) /\ Len(depts \o close) > 0
      BY <2>1, <3>1, ConcatProperties, LenProperties
    <3> QED  BY <3>2, EmptySeq
  <2>5. PICK tail : tail = depts \o close
    OBVIOUS
  <2>6. ExpandPlanAfterNode(state, plan, cursor, plan[cursor]) = past \o tail
    BY <1>3, <2>5 DEF ExpandPlanAfterNode, CeoExpansion
  <2> HIDE DEF past
  <2>7. (past \o tail)[Len(past \o tail)] = SummarizeResult
    BY <1>2, <2>3, <2>4, <2>5, EndOfConcat
  <2> QED  BY <2>6, <2>7, NodeKinds
<1>4. CASE plan[cursor] # AnalyzeIntent /\ plan[cursor] \in LEAD_PLAN_NODES
  <2> DEFINE lead == LeadExpansion(state.current_department, state.sub_plan)
  <2>1. ExpandPlanAfterNode(state, plan, cursor, plan[cursor]) = (past \o lead) \o rest
    BY <1>4 DEF ExpandPlanAfterNode
  <2>2. /\ lead \in Seq(NODE)
        /\ lead = <<>> \/ lead[Len(lead)] \in PAUSABLE_NODES
    <3>1. lead \in Seq(NODE)
      BY <1>1, LeadExpansionType
    <3>2. CASE state.sub_plan = <<>>
      BY <1>1, <3>1, <3>2, LeadExpansionEnd
    <3>3. CASE state.sub_plan # <<>>
      <4>1. state.sub_plan[Len(state.sub_plan)] \in SubAgents
        BY <1>4, <3>3 DEF EndKnown
      <4>2. AgentNode(state.sub_plan[Len(state.sub_plan)]) \in PAUSABLE_NODES
        BY <4>1 DEF PAUSABLE_NODES, AGENT_NODES
      <4> QED  BY <1>1, <3>1, <3>3, <4>2, LeadExpansionEnd
    <3> QED  BY <3>2, <3>3
  <2>3. rest = <<>> \/ rest[Len(rest)] = plan[Len(plan)]
    <3>1. PICK n \in Nat : n = Len(plan)
      BY <1>1
    <3>2. \A i \in (cursor + 1)..n : plan[i] \in NODE
      BY <1>1, <3>1, ElementOfSeq
    <3>3. CASE cursor = n
      <4>1. Len(rest) = 0
        BY <1>1, <3>1, <3>2, <3>3, SubSeqProperties DEF Remaining
      <4> QED  BY <1>2, <4>1, EmptySeq
    <3>4. CASE cursor < n
      <4>1. /\ Len(rest) = n - cursor
            /\ \A i \in 1..(n - cursor) : rest[i] = plan[cursor + i]
        <5>1. rest = SubSeq(plan, cursor + 1, n)
          BY <3>1 DEF Remaining
        <5>2. cursor + 1 \in Nat /\ cursor + 1 <= n + 1 /\ n - (cursor + 1) + 1 = n - cursor
          BY <1>1, <3>1, <3>4
        <5>3. /\ Len(SubSeq(plan, cursor + 1, n)) = n - cursor
              /\ \A i \in 1..(n - cursor) :
                   SubSeq(plan, cursor + 1, n)[i] = plan[(cursor + 1) + i - 1]
          BY <3>1, <3>2, <5>2, SubSeqProperties
        <5>4. \A i \in 1..(n - cursor) : (cursor + 1) + i - 1 = cursor + i
          BY <1>1, <3>1
        <5> QED  BY <5>1, <5>3, <5>4
      <4>2. n - cursor \in 1..(n - cursor) /\ cursor + (n - cursor) = n
        BY <1>1, <3>1, <3>4
      <4>3. rest[n - cursor] = plan[n]
        BY <4>1, <4>2
      <4> QED  BY <3>1, <4>1, <4>3
    <3> QED  BY <1>1, <3>1, <3>3, <3>4
  <2> HIDE DEF past, lead, rest
  <2>4. /\ past \o lead \in Seq(NODE)
        /\ (past \o lead)[Len(past \o lead)] \in PAUSABLE_NODES
    BY <1>2, <2>2, EndOfConcat, ConcatProperties
  <2>5. PICK front \in Seq(NODE) : front = past \o lead
    BY <2>4
  <2>6. (front \o rest)[Len(front \o rest)] \in PAUSABLE_NODES
    BY <1>2, <2>3, <2>4, <2>5, EndOfConcat
  <2> QED  BY <2>1, <2>5, <2>6
<1>5. CASE plan[cursor] # AnalyzeIntent /\ plan[cursor] \notin LEAD_PLAN_NODES
  BY <1>2, <1>5 DEF ExpandPlanAfterNode
<1> QED  BY <1>3, <1>4, <1>5

\* So the user is told the truth: something is announced exactly when something is left.
LEMMA NextIsNoneAtTheEnd ==
  ASSUME NEW plan \in Seq(NODE), NEW cursor \in 0..Len(plan),
         plan # <<>> => plan[Len(plan)] \in PAUSABLE_NODES
  PROVE  cursor >= Len(plan) <=> FindNextPausable(plan, cursor) = NoNode
<1> DEFINE ahead == PausableAfter(plan, cursor)
<1>1. Len(plan) \in Nat /\ cursor \in Nat
  BY LenProperties
<1>2. CASE cursor >= Len(plan)
  <2>1. ahead = {}
    BY <1>1, <1>2 DEF PausableAfter
  <2> QED  BY <1>2, <2>1 DEF FindNextPausable
<1>3. CASE cursor < Len(plan)
  <2>1. plan # <<>>
    BY <1>1, <1>3, EmptySeq
  <2>2. Len(plan) \in ahead /\ ahead \subseteq Nat /\ \A i \in ahead : plan[i] \in PAUSABLE_NODES
    BY <1>1, <1>3, <2>1 DEF PausableAfter
  <2>3. \E i \in ahead : \A j \in ahead : i <= j
    <3> HIDE DEF ahead
    <3> QED  BY <2>2, LeastExists
  <2>4. FindNextPausable(plan, cursor) \in PAUSABLE_NODES
    <3> DEFINE least == CHOOSE i \in ahead : \A j \in ahead : i <= j
    <3>1. least \in ahead
      BY <2>3
    <3>2. FindNextPausable(plan, cursor) = plan[least]
      BY <2>2 DEF FindNextPausable
    <3> QED  BY <2>2, <3>1, <3>2
  <2> QED  BY <1>1, <1>3, <2>4, NodeKinds
<1> QED  BY <1>1, <1>2, <1>3

\* A plan of one node ends where it asks.
LEMMA InitialPlanEndsAsking ==
  ASSUME NEW mode, NEW target_agent
  PROVE  EndsAsking(ComputeInitialPlan(mode, target_agent))
<1>1. \A node : EndsAsking(<<node>>)
  BY DEF EndsAsking
<1> QED  BY <1>1 DEF ComputeInitialPlan

\* What is said after the truth.
LEMMA SaysTruthConcat ==
  ASSUME NEW body \in Seq(Event), NEW said \in Seq(Event), SaysTruth(body), SaysTruth(said)
  PROVE  SaysTruth(body \o said)
<1>1. /\ Len(body) \in Nat /\ Len(said) \in Nat /\ Len(body \o said) = Len(body) + Len(said)
      /\ \A i \in 1..(Len(body) + Len(said)) :
           (body \o said)[i] = IF i <= Len(body) THEN body[i] ELSE said[i - Len(body)]
  BY ConcatProperties, LenProperties
<1>2. ASSUME NEW i \in 1..Len(body \o said)  PROVE Truthful((body \o said)[i])
  <2>1. CASE i <= Len(body)
    BY <1>1, <2>1 DEF SaysTruth
  <2>2. CASE ~(i <= Len(body))
    <3>1. i - Len(body) \in 1..Len(said)
      BY <1>1, <2>2
    <3> QED  BY <1>1, <2>2, <3>1 DEF SaysTruth
  <2> QED  BY <2>1, <2>2
<1> QED  BY <1>2 DEF SaysTruth

\* A step of a task has this to show: the plans it leaves end asking, and what it says
\* is true.
LEMMA TaskAsks ==
  ASSUME StepInv, AsksInv, NEW t \in Requests, IsLive(t), NEW new, NEW data, NEW kept,
         NEW said \in Seq(Event), OnlyTask(t, new, data, kept, said),
         EndsAsking(new.plan), EndsAsking(data.execution_plan), SaysTruth(said)
  PROVE  AsksInv'
<1>1. /\ task'[t] = new /\ \A u \in Requests : u # t => task'[u] = task[u]
      /\ \A o \in Requests : o = task[t].obj => sessionData'[o] = data
      /\ \A o \in Requests : o # task[t].obj => sessionData'[o] = sessionData[o]
      /\ sse'[t] = sse[t] \o said /\ \A u \in Requests : u # t => sse'[u] = sse[u]
      /\ sse[t] \in Seq(Event)
  BY DEF OnlyTask, Emit, StepInv, Shape
<1>2. SaysTruth(sse'[t])
  BY <1>1, SaysTruthConcat DEF AsksInv
<1> QED  BY <1>1, <1>2 DEF AsksInv

\* Only a pause announces anything.
LEMMA TaskStepAsks ==
  ASSUME StepInv, AsksInv, NEW t \in Requests, IsLive(t), TaskStep(t),
         \A p \in SubPlans : EndKnown(p)
  PROVE  AsksInv'
<1>1. /\ task[t] \in Task /\ SessionOf(t) \in SessionData /\ task[t].plan \in Seq(NODE)
      /\ EndsAsking(task[t].plan) /\ EndsAsking(SessionOf(t).execution_plan)
      /\ task[t].cursor < Len(task[t].plan) => CurrentNode(t) \in NODE
      /\ StateOf(t) \in AgentState
  BY LiveTask DEF AsksInv, SessionOf
<1>2. /\ <<>> \in Seq(Event) /\ SaysTruth(<<>>)
      /\ \A node \in NODE : /\ <<Thinking(node)>> \in Seq(Event)
                            /\ SaysTruth(<<Thinking(node)>>)
                            /\ <<Thinking(node), Updated(node)>> \in Seq(Event)
                            /\ SaysTruth(<<Thinking(node), Updated(node)>>)
      /\ <<ErrorEvent, End>> \in Seq(Event) /\ SaysTruth(<<ErrorEvent, End>>)
      /\ <<Stopped, End>> \in Seq(Event) /\ SaysTruth(<<Stopped, End>>)
      /\ LET last == Final(LastReply(StateOf(t).messages))
         IN  <<last, End>> \in Seq(Event) /\ SaysTruth(<<last, End>>)
  <2>1. \A S : \A a, b \in S : <<a>> \in Seq(S) /\ <<a, b>> \in Seq(S)
    OBVIOUS
  <2>2. \A a, b : (Truthful(a) => SaysTruth(<<a>>))
                  /\ (Truthful(a) /\ Truthful(b) => SaysTruth(<<a, b>>))
    BY DEF SaysTruth
  <2>3. LastReply(StateOf(t).messages) \in Message \cup {NoReply}
    BY <1>1, LastReplyType DEF AgentState
  <2>4. /\ \A node : Truthful(Thinking(node)) /\ Truthful(Updated(node))
        /\ Truthful(ErrorEvent) /\ Truthful(Stopped) /\ Truthful(End)
        /\ \A reply : Truthful(Final(reply))
    BY DEF Truthful, Thinking, Updated, ErrorEvent, Stopped, End, Final
  <2>5. <<>> \in Seq(Event) /\ SaysTruth(<<>>)
    BY DEF SaysTruth
  <2>6. ASSUME NEW node \in NODE
        PROVE  /\ <<Thinking(node)>> \in Seq(Event) /\ SaysTruth(<<Thinking(node)>>)
               /\ <<Thinking(node), Updated(node)>> \in Seq(Event)
               /\ SaysTruth(<<Thinking(node), Updated(node)>>)
    BY <2>1, <2>2, <2>4, EventTypes
  <2>7. PICK last : last = Final(LastReply(StateOf(t).messages))
    OBVIOUS
  <2>8. last \in Event /\ Truthful(last) /\ End \in Event
    BY <2>3, <2>4, <2>7, EventTypes
  <2>9. /\ <<ErrorEvent, End>> \in Seq(Event) /\ <<Stopped, End>> \in Seq(Event)
        /\ <<last, End>> \in Seq(Event)
    BY <2>1, <2>8, EventTypes
  <2>10. SaysTruth(<<ErrorEvent, End>>) /\ SaysTruth(<<Stopped, End>>) /\ SaysTruth(<<last, End>>)
    BY <2>2, <2>4, <2>8
  <2> QED  BY <2>5, <2>6, <2>7, <2>9, <2>10
<1>3. CASE Begins(t)
  <2>1. [task[t] EXCEPT !.pc = "loop", !.plan = SessionOf(t).execution_plan,
                        !.cursor = SessionOf(t).cursor].plan = SessionOf(t).execution_plan
    BY <1>1 DEF Task
  <2> QED  BY <1>1, <1>2, <1>3, <2>1, TaskAsks DEF Begins
<1>4. CASE Passes(t)
  <2>1. PICK state \in AgentState,
             said \in {<<>>, <<Thinking(CurrentNode(t)), Updated(CurrentNode(t))>>} :
          OnlyTask(t, [task[t] EXCEPT !.cursor = @ + 1],
                   [SessionOf(t) EXCEPT !.state = state], Kept(t), said)
    BY <1>4 DEF Passes
  <2>2. /\ [task[t] EXCEPT !.cursor = @ + 1].plan = task[t].plan
        /\ [SessionOf(t) EXCEPT !.state = state].execution_plan = SessionOf(t).execution_plan
    BY <1>1 DEF Task, SessionData
  <2>3. said \in Seq(Event) /\ SaysTruth(said)
    BY <1>1, <1>2, <1>4 DEF Passes
  <2> QED  BY <1>1, <2>1, <2>2, <2>3, TaskAsks
<1>5. CASE Calls(t)
  <2>1. [task[t] EXCEPT !.pc = "calling", !.streamed = FALSE,
                        !.writer = SessionOf(t).stream_writer].plan = task[t].plan
    BY <1>1 DEF Task
  <2> QED  BY <1>1, <1>2, <1>5, <2>1, TaskAsks DEF Calls
<1>6. CASE IsAnswered(t)
  <2>1. [task[t] EXCEPT !.pc = "answered"].plan = task[t].plan
    BY <1>1 DEF Task
  <2> QED  BY <1>1, <1>2, <1>6, <2>1, TaskAsks DEF IsAnswered
<1>7. [task[t] EXCEPT !.pc = "done"].plan = task[t].plan
  BY <1>1 DEF Task
<1>8. CASE Pauses(t)
  <2>1. PICK state, node, cursor, plan :
          /\ state \in AgentState
          /\ node = CurrentNode(t) /\ node \in PAUSABLE_NODES
          /\ cursor = task[t].cursor + 1
          /\ plan = ExpandPlanAfterNode(state, task[t].plan, cursor, node)
          /\ node \in LEAD_PLAN_NODES => state.sub_plan \in LeadPlans
          /\ OnlyTask(t, [task[t] EXCEPT !.pc = "done"],
                      Paused(SessionOf(t), state, plan, cursor, node), task[t].obj,
                      <<Updated(node),
                        AwaitingConfirmation(node, FindNextPausable(plan, cursor),
                                             cursor >= Len(plan)),
                        End>>)
    BY <1>8 DEF Pauses
  <2>2. /\ task[t].cursor \in Nat /\ Len(task[t].plan) \in Nat
        /\ task[t].cursor < Len(task[t].plan)
    BY <1>8, LiveTask DEF Pauses, StepInv, TaskOK
  <2>3. /\ cursor \in 1..Len(task[t].plan) /\ cursor \in 0..Len(task[t].plan)
        /\ cursor \in Nat /\ node = task[t].plan[cursor] /\ node \in NODE
    BY <1>1, <2>1, <2>2 DEF CurrentNode
  <2>4. /\ plan \in Seq(NODE) /\ cursor <= Len(plan) /\ Len(plan) \in Nat
    <3>1. /\ state.plan \in Seq(Names) /\ state.sub_plan \in Seq(Names)
          /\ state.current_department \in Names
      BY <2>1 DEF AgentState
    <3> QED  BY <1>1, <2>1, <2>3, <3>1, ExpansionKeepsThePast, LenProperties
  <2>5. plan[Len(plan)] \in PAUSABLE_NODES
    <3>1. node \in LEAD_PLAN_NODES => EndKnown(state.sub_plan)
      BY <2>1, DefaultPlansEndKnown DEF LeadPlans
    <3> QED  BY <1>1, <2>1, <2>3, <3>1, ExpansionEndsAsking
  <2>6. cursor >= Len(plan) <=> FindNextPausable(plan, cursor) = NoNode
    BY <2>3, <2>4, <2>5, NextIsNoneAtTheEnd
  <2>7. PICK next \in NODE \cup {NoNode}, is_final \in BOOLEAN :
          /\ next = FindNextPausable(plan, cursor) /\ is_final = (cursor >= Len(plan))
    <3>1. FindNextPausable(plan, cursor) \in NODE \cup {NoNode}
      BY <2>3, <2>4, FindNextPausableType
    <3>2. (cursor >= Len(plan)) \in BOOLEAN
      OBVIOUS
    <3> QED  BY <3>1, <3>2, Zenon
  <2> DEFINE asks == AwaitingConfirmation(node, next, is_final)
             said == <<Updated(node), asks, End>>
  <2>8. said \in Seq(Event) /\ SaysTruth(said)
    <3>1. Truthful(asks) /\ Truthful(Updated(node)) /\ Truthful(End)
      BY <2>6, <2>7, Zenon DEF Truthful, AwaitingConfirmation, Updated, End
    <3>2. asks \in Event /\ Updated(node) \in Event /\ End \in Event
      BY <2>3, <2>7, EventTypes DEF AwaitingConfirmation
    <3> HIDE DEF asks
    <3> QED  BY <3>1, <3>2 DEF SaysTruth
  <2>9. /\ Paused(SessionOf(t), state, plan, cursor, node).execution_plan = plan
        /\ EndsAsking(plan)
    BY <1>1, <2>5 DEF Paused, SessionData, EndsAsking
  <2>10. OnlyTask(t, [task[t] EXCEPT !.pc = "done"],
                  Paused(SessionOf(t), state, plan, cursor, node), task[t].obj, said)
    BY <2>1, <2>7
  <2> HIDE DEF said
  <2> QED  BY <1>1, <1>7, <2>8, <2>9, <2>10, TaskAsks
<1>9. CASE Raises(t)
  BY <1>1, <1>2, <1>7, <1>9, TaskAsks DEF Raises
<1>10. CASE Stops(t)
  <2>1. [SessionOf(t) EXCEPT !.execution_plan = task[t].plan,
                             !.cursor = task[t].cursor].execution_plan = task[t].plan
    BY <1>1 DEF SessionData
  <2> QED  BY <1>1, <1>2, <1>7, <1>10, <2>1, TaskAsks DEF Stops
<1>11. CASE Finishes(t)
  BY <1>1, <1>2, <1>7, <1>11, TaskAsks DEF Finishes
<1> QED  BY <1>3, <1>4, <1>5, <1>6, <1>8, <1>9, <1>10, <1>11 DEF TaskStep

\* A request that is accepted brings a plan of one node, or leaves the session's as it is.
LEMMA BindingAsks ==
  ASSUME StepInv, AsksInv, NEW r \in Requests, NEW sid, NEW o \in Requests, NEW data,
         Binds(r, sid, o, data), EndsAsking(data.execution_plan)
  PROVE  AsksInv'
<1>1. task[r] \in Task
  BY DEF StepInv, Shape
<1>2. /\ \A t \in Requests : task'[t].plan = task[t].plan
      /\ sessionData'[o] = data
      /\ \A p \in Requests : p # o => sessionData'[p] = sessionData[p]
      /\ sse' = sse
  BY <1>1 DEF Binds, StepInv, Shape, Task
<1> QED  BY <1>2 DEF AsksInv

LEMMA HandledAsks ==
  ASSUME StepInv, AsksInv, NEW r \in Requests, NEW sid \in SessionIds, Handled(r, sid)
  PROVE  AsksInv'
<1>1. ASSUME NEW target, FreshRequest(r, sid, target)  PROVE AsksInv'
  <2>1. EndsAsking(Opened(r, target).execution_plan)
    BY InitialPlanEndsAsking DEF Opened
  <2> QED  BY <1>1, <2>1, FreshRequestBinds, BindingAsks
<1>2. store[sid] # None => /\ store[sid] \in Requests
                           /\ EndsAsking(sessionData[store[sid]].execution_plan)
  BY DEF AsksInv, StepInv, Shape, StoreOK
<1>3. ASSUME \/ ResumeWithMessage(r, sid)
             \/ \E action \in {"continue", "regenerate", "modify"} : Confirm(r, sid, action)
      PROVE  AsksInv'
  <2>1. PICK data : /\ Binds(r, sid, store[sid], data)
                    /\ Resumes(r, sessionData[store[sid]], data)
    BY <1>3, ResumptionBinds
  <2>2. store[sid] # None
    BY <1>3 DEF ResumeWithMessage, Confirm
  <2> QED  BY <1>2, <2>1, <2>2, BindingAsks DEF Resumes
<1>5. CASE ConfirmExpired(r, sid)
  <2>1. task[r] \in Task
    BY DEF StepInv, Shape
  <2>2. /\ \A t \in Requests : task'[t].plan = task[t].plan
        /\ sessionData' = sessionData
        /\ sse'[r] = <<End>> /\ \A u \in Requests : u # r => sse'[u] = sse[u]
    BY <1>5, <2>1 DEF ConfirmExpired, StepInv, Shape, Task
  <2>3. SaysTruth(<<End>>)
    BY DEF SaysTruth, Truthful, End
  <2> QED  BY <2>2, <2>3 DEF AsksInv
<1> QED  BY <1>1, <1>3, <1>5 DEF Handled

\* A token announces nothing.
LEMMA StreamChunkAsks ==
  ASSUME StepInv, AsksInv, NEW t \in Requests, StreamChunk(t)
  PROVE  AsksInv'
<1> DEFINE w == task[t].writer
           chunk == Chunk(CurrentNode(t), t)
<1>1. IsLive(t) /\ w \in Requests /\ task[t].cursor < Len(task[t].plan) /\ task[t] \in Task
  BY DEF StreamChunk, IsLive, StepInv, Shape, TaskOK
<1>2. (\A u \in Requests : task'[u].plan = task[u].plan) /\ sessionData' = sessionData
  BY <1>1 DEF StreamChunk, StepInv, Shape, Task
<1>3. chunk \in Event /\ Truthful(chunk) /\ sse[w] \in Seq(Event)
  BY <1>1, LiveTask, EventTypes DEF StepInv, Shape, Chunk, Truthful
<1>4. SaysTruth(Append(sse[w], chunk))
  <2>1. /\ Len(Append(sse[w], chunk)) = Len(sse[w]) + 1 /\ Len(sse[w]) \in Nat
        /\ \A i \in 1..Len(sse[w]) : Append(sse[w], chunk)[i] = sse[w][i]
        /\ Append(sse[w], chunk)[Len(sse[w]) + 1] = chunk
    <3> HIDE DEF chunk
    <3> QED  BY <1>3, AppendProperties, LenProperties
  <2>2. \A i \in 1..(Len(sse[w]) + 1) : i \in 1..Len(sse[w]) \/ i = Len(sse[w]) + 1
    BY <2>1
  <2> HIDE DEF chunk
  <2> QED  BY <1>1, <1>3, <2>1, <2>2 DEF SaysTruth, AsksInv
<1>5. \A u \in Requests : sse'[u] = sse[u] \/ (u = w /\ sse'[u] = Append(sse[w], chunk))
  BY <1>1 DEF StreamChunk, StepInv, Shape
<1> HIDE DEF chunk, w
<1> QED  BY <1>2, <1>4, <1>5 DEF AsksInv

LEMMA AsksInvInductive ==
  ASSUME \A p \in SubPlans : EndKnown(p)
  PROVE  StepInv /\ AsksInv /\ [Step]_vars => AsksInv'
<1> SUFFICES ASSUME StepInv, AsksInv, [Step]_vars  PROVE AsksInv'
  OBVIOUS
<1>1. ASSUME NEW sid \in SessionIds, StopChat(sid)  PROVE AsksInv'
  <2>1. store[sid] \in Requests /\ sessionData[store[sid]] \in SessionData
        /\ sessionData[store[sid]] # None
    BY <1>1 DEF StopChat, StepInv, Shape, StoreOK, SessionOK
  <2>2. /\ UNCHANGED <<task, sse>>
        /\ sessionData'[store[sid]].execution_plan = sessionData[store[sid]].execution_plan
        /\ \A o \in Requests : o # store[sid] => sessionData'[o] = sessionData[o]
    BY <1>1, <2>1 DEF StopChat, StepInv, Shape, SessionData
  <2> QED  BY <2>1, <2>2 DEF AsksInv
<1>2. CASE Restart
  <2>1. \A t \in Requests : task'[t].plan = task[t].plan
    BY <1>2 DEF Restart, StepInv, Shape, Task
  <2> QED  BY <1>2, <2>1 DEF Restart, AsksInv
<1>3. CASE UNCHANGED vars
  BY <1>3 DEF vars, AsksInv
<1>4. ASSUME NEW t \in Requests, Advance(t)  PROVE AsksInv'
  BY <1>4, AdvanceIsTaskStep, TaskStepAsks
<1> QED  BY <1>1, <1>2, <1>3, <1>4, HandledAsks, StreamChunkAsks DEF Step

LEMMA InitAsksInv == Init => AsksInv
BY DEF Init, NewTask, AsksInv, EndsAsking, SaysTruth

LEMMA AsksInvShows == StepInv /\ AsksInv => FinalMeansNothingNext
<1>1. ASSUME StepInv, AsksInv, NEW r \in Requests, NEW i \in DOMAIN sse[r]
      PROVE  Truthful(sse[r][i])
  <2>1. sse[r] \in Seq(Event)
    BY <1>1 DEF StepInv, Shape
  <2>2. i \in 1..Len(sse[r])
    BY <1>1, <2>1, LenProperties
  <2> QED  BY <1>1, <2>2 DEF AsksInv, SaysTruth
<1> QED  BY <1>1, Zenon DEF FinalMeansNothingNext, Truthful

\* The user is told that a node was the last one exactly when no node that would ask
\* again is left, through regeneration, stops, failures and overlapping requests,
\* provided the leads' models end their sub-plans with an agent the executor knows: after
\* a last agent it does not know, "continue" is offered and nobody answers.
THEOREM FinalIsTruthful ==
  ASSUME \A p \in SubPlans : p # <<>> => p[Len(p)] \in SubAgents
  PROVE  Spec => []FinalMeansNothingNext
<1>1. \A p \in SubPlans : EndKnown(p)
  BY DEF EndKnown
<1>2. StepInv /\ AsksInv => FinalMeansNothingNext
  BY AsksInvShows
<1> QED  BY <1>1, <1>2, InitAsksInv, AsksInvInductive, NextIsStep, StepInvariant, PTL DEF Spec

================================================================================

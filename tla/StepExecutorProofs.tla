-------------------------- MODULE StepExecutorProofs --------------------------
(***************************************************************************)
(* Theorems of PlanExpansion and StepExecutor.  What the functions of       *)
(* PlanExpansion return for every plan, cursor and answer of a model: a    *)
(* plan grows ahead of the cursor only.  And, for the executor: its        *)
(* variables keep their types and no cursor leaves its plan, however many  *)
(* requests work on however many sessions.                                 *)
(***************************************************************************)
EXTENDS StepExecutor, SequenceTheorems, WellFoundedInduction, TLAPS

----------------------------------------------------------------------------
(* Execution plans.                                                        *)

\* A set of naturals that is not empty has a least element.
LEMMA LeastExists ==
  ASSUME NEW S, S \subseteq Nat, S # {}
  PROVE  \E m \in S : \A n \in S : m <= n
<1>1. PICK m \in S : \A n \in S : ~ (<<n, m>> \in OpToRel(<, Nat))
  BY NatLessThanWellFounded, WFMin
<1>2. ASSUME NEW n \in S  PROVE m <= n
  <2>1. m \in Nat /\ n \in Nat
    OBVIOUS
  <2>2. (n < m) => <<n, m>> \in OpToRel(<, Nat)
    BY <2>1 DEF OpToRel
  <2>3. ~(n < m)
    BY <1>1, <2>2
  <2> QED  BY <2>1, <2>3
<1> QED  BY <1>2

\* A bounded set of positive naturals that is not empty has a greatest element.
LEMMA GreatestExists ==
  ASSUME NEW n \in Nat, NEW S, S \subseteq 1..n, S # {}
  PROVE  \E m \in S : \A k \in S : k <= m
<1> DEFINE D == {n - k : k \in S}
<1>0. \A k \in S : k \in Int /\ 1 <= k /\ k <= n
  OBVIOUS
<1>1. \A k \in S : n - k \in Nat
  BY <1>0
<1>2. D \subseteq Nat /\ D # {}
  BY <1>1
<1>3. PICK d \in D : \A e \in D : d <= e
  BY <1>2, LeastExists
<1>4. PICK m \in S : d = n - m
  OBVIOUS
<1>5. ASSUME NEW k \in S  PROVE k <= m
  <2>1. n - k \in D
    OBVIOUS
  <2>2. n - m <= n - k
    BY <1>3, <1>4, <2>1
  <2> HIDE DEF D
  <2> QED  BY <2>2, <1>0
<1> QED  BY <1>5

\* The departments of DEPARTMENT_CONFIGS, by name.
LEMMA DepartmentNames ==
  Departments = {"CS", "SALES", "REPAIR", "USER", "MARKET", "TECH"}
BY DEF Departments, DEPARTMENT_CONFIGS

\* The plan a lead falls back on is a sequence of names.
LEMMA DefaultSubPlanType ==
  \A d \in Departments : DEPARTMENT_CONFIGS[d].default_sub_plan \in Seq(Names)
<1>1. \A S : \A a, b, c, d \in S : /\ <<a>> \in Seq(S) /\ <<a, b>> \in Seq(S)
                                   /\ <<a, b, c>> \in Seq(S) /\ <<a, b, c, d>> \in Seq(S)
  OBVIOUS
<1>2. {"faq", "lead_gen", "quote", "cad", "manager", "master", "worker", "device",
       "analyze_industry", "generate_content", "product", "developer", "tester",
       "devops"} \subseteq Names
  BY NamesAssumption DEF SubAgents, SUB_AGENT_CONFIGS
<1>3. /\ <<"faq">> \in Seq(Names) /\ <<"device">> \in Seq(Names)
      /\ <<"lead_gen", "quote", "cad">> \in Seq(Names)
      /\ <<"manager", "master", "worker">> \in Seq(Names)
      /\ <<"analyze_industry", "generate_content">> \in Seq(Names)
      /\ <<"product", "developer", "tester", "devops">> \in Seq(Names)
  BY <1>1, <1>2
<1>4. /\ DEPARTMENT_CONFIGS["CS"].default_sub_plan = <<"faq">>
      /\ DEPARTMENT_CONFIGS["SALES"].default_sub_plan = <<"lead_gen", "quote", "cad">>
      /\ DEPARTMENT_CONFIGS["REPAIR"].default_sub_plan = <<"manager", "master", "worker">>
      /\ DEPARTMENT_CONFIGS["USER"].default_sub_plan = <<"device">>
      /\ DEPARTMENT_CONFIGS["MARKET"].default_sub_plan
           = <<"analyze_industry", "generate_content">>
      /\ DEPARTMENT_CONFIGS["TECH"].default_sub_plan
           = <<"product", "developer", "tester", "devops">>
  BY DEF DEPARTMENT_CONFIGS, Department
<1> QED  BY <1>3, <1>4, DepartmentNames

\* What a sub-agent writes are places of state["results"].
LEMMA WritesType ==
  \A a \in SubAgents : SUB_AGENT_CONFIGS[a].writes \subseteq ResultPlaces
BY DEF ResultPlaces

\* Every node the code names is a node.
LEMMA NodesType ==
  /\ \A d \in Names : DEPT_LEAD_PLAN(d) \in NODE /\ DEPT_DISPATCH(d) \in NODE
  /\ \A a \in Names : AgentNode(a) \in NODE
  /\ {AnalyzeIntent, DispatchToDepartment, TriggerActions, SummarizeResult} \subseteq NODE
<1>1. "CEO" \in Names
  BY NamesAssumption
<1> QED  BY <1>1 DEF NODE, DEPT_LEAD_PLAN, DEPT_DISPATCH, AgentNode, AnalyzeIntent,
       DispatchToDepartment, TriggerActions, SummarizeResult

\* What a lead's answer adds to a plan is a sequence of nodes.
LEMMA LeadExpansionType ==
  ASSUME NEW dept \in Names, NEW sub_plan \in Seq(Names)
  PROVE  LeadExpansion(dept, sub_plan) \in Seq(NODE)
<1> DEFINE f == [i \in 1..(2 * Len(sub_plan)) |->
          IF i % 2 = 1 THEN DEPT_DISPATCH(dept) ELSE AgentNode(sub_plan[i \div 2])]
           g == [i \in 1..Len(sub_plan) |-> AgentNode(sub_plan[i])]
<1>1. f \in [1..(2 * Len(sub_plan)) -> NODE]
  <2> SUFFICES ASSUME NEW i \in 1..(2 * Len(sub_plan)), i % 2 # 1
               PROVE  AgentNode(sub_plan[i \div 2]) \in NODE
    BY NodesType
  <2>1. i \div 2 \in 1..Len(sub_plan)
    OBVIOUS
  <2> QED  BY <2>1, NodesType, ElementOfSeq
<1>2. g \in [1..Len(sub_plan) -> NODE]
  BY NodesType, ElementOfSeq
<1>3. f \in Seq(NODE) /\ g \in Seq(NODE)
  BY <1>1, <1>2, SeqDef, LenProperties
<1> QED  BY <1>3 DEF LeadExpansion

\* What the loop over the departments builds, department by department.
LEMMA DepartmentSequenceUnfolds ==
  ASSUME NEW departments \in Seq(Names)
  PROVE  \E upTo \in [0..Len(departments) -> Seq(NODE)] :
           /\ upTo[0] = <<>> /\ DepartmentSequence(departments) = upTo[Len(departments)]
           /\ \A i \in 1..Len(departments) :
                upTo[i] = upTo[i - 1] \o DepartmentNodes(departments[i])
<1> DEFINE n == Len(departments)
           Unfolds(f, k) == f = [i \in 0..k |-> IF i = 0 THEN <<>>
                                    ELSE f[i - 1] \o DepartmentNodes(departments[i])]
<1>1. \A i \in 1..n : DepartmentNodes(departments[i]) \in Seq(NODE)
  <2> SUFFICES ASSUME NEW dept \in Names
               PROVE  DepartmentNodes(dept) \in Seq(NODE)
    BY ElementOfSeq
  <2> DispatchToDepartment \in NODE /\ DEPT_LEAD_PLAN(dept) \in NODE
    BY NodesType
  <2> QED  BY DEF DepartmentNodes
<1>n. n \in Nat
  BY LenProperties
<1> HIDE DEF n
<1>2. \E f : Unfolds(f, n)
  <2> HIDE DEF Unfolds
  <2> DEFINE S == {k \in 0..n : ~ \E f : Unfolds(f, k)}
  <2> SUFFICES ASSUME ~ \E f : Unfolds(f, n)  PROVE FALSE
    OBVIOUS
  <2>0. PICK k \in S : \A j \in S : k <= j
    <3>1. S \subseteq Nat /\ n \in S
      BY <1>n
    <3> HIDE DEF S
    <3> QED  BY <3>1, LeastExists
  <2>1. /\ k \in 0..n /\ ~ \E f : Unfolds(f, k)
        /\ \A j \in 0..n : (~ \E f : Unfolds(f, j)) => k <= j
    BY <2>0
  <2> USE DEF Unfolds
  <2>2. k # 0
    <3>1. Unfolds([i \in 0..0 |-> <<>>], 0)
      OBVIOUS
    <3> QED  BY <3>1, <2>1
  <2>3. k - 1 \in 0..n /\ ~(k <= k - 1)
    BY <2>1, <2>2, <1>n
  <2>4. PICK f : Unfolds(f, k - 1)
    BY <2>1, <2>3
  <2> DEFINE g == [i \in 0..k |-> IF i < k THEN f[i]
                                  ELSE f[k - 1] \o DepartmentNodes(departments[k])]
  <2>5. \A i \in 0..k : g[i] = IF i = 0 THEN <<>>
                               ELSE g[i - 1] \o DepartmentNodes(departments[i])
    <3> SUFFICES ASSUME NEW i \in 0..k
                 PROVE  g[i] = IF i = 0 THEN <<>>
                               ELSE g[i - 1] \o DepartmentNodes(departments[i])
      OBVIOUS
    <3>1. i \in 0..(k-1) => f[i] = IF i = 0 THEN <<>>
                               ELSE f[i - 1] \o DepartmentNodes(departments[i])
      BY <2>4
    <3>2. CASE i = 0  BY <3>1, <3>2, <2>2
    <3>3. CASE i # 0 /\ i < k  BY <3>1, <3>3
    <3>4. CASE i = k  BY <3>4, <2>2
    <3> QED  BY <3>2, <3>3, <3>4
  <2>6. Unfolds(g, k)
    BY <2>5
  <2> QED  BY <2>6, <2>1
<1> DEFINE F == CHOOSE f : Unfolds(f, n)
<1>3. Unfolds(F, n)
  BY <1>2
<1> HIDE DEF F
<1>4. \A i \in 0..n : F[i] \in Seq(NODE)
  <2> DEFINE S == {i \in 0..n : F[i] \notin Seq(NODE)}
  <2> SUFFICES ASSUME S # {}  PROVE FALSE
    OBVIOUS
  <2>1. PICK k \in S : \A j \in S : k <= j
    <3>1. S \subseteq Nat
      BY <1>n
    <3> HIDE DEF S
    <3> QED  BY <3>1, LeastExists
  <2>k. k \in 0..n /\ F[k] \notin Seq(NODE)
    OBVIOUS
  <2>2. F[k] = IF k = 0 THEN <<>> ELSE F[k - 1] \o DepartmentNodes(departments[k])
    BY <1>3, <2>k
  <2>3. k # 0
    <3>1. <<>> \in Seq(NODE)
      OBVIOUS
    <3> QED  BY <2>k, <2>2, <3>1
  <2>4. F[k - 1] \in Seq(NODE)
    <3>1. k - 1 \in 0..n /\ ~(k <= k - 1)
      BY <2>3, <2>k, <1>n
    <3>2. k - 1 \notin S
      BY <2>1, <3>1
    <3> QED  BY <3>1, <3>2
  <2>5. DepartmentNodes(departments[k]) \in Seq(NODE)
    BY <1>1, <2>3, <2>k, <1>n
  <2>6. F[k - 1] \o DepartmentNodes(departments[k]) \in Seq(NODE)
    BY <2>4, <2>5
  <2> QED  BY <2>k, <2>2, <2>3, <2>6
<1>5. DepartmentSequence(departments) = F[n]
  BY DEF DepartmentSequence, F, n
<1>6. F[0] = <<>> /\ \A i \in 1..n : F[i] = F[i - 1] \o DepartmentNodes(departments[i])
  BY <1>3, <1>n
<1>7. F \in [0..n -> Seq(NODE)]
  BY <1>3, <1>4
<1> QED  BY <1>5, <1>6, <1>7 DEF n

\* So it is a sequence of nodes.
LEMMA DepartmentSequenceType ==
  ASSUME NEW departments \in Seq(Names)
  PROVE  DepartmentSequence(departments) \in Seq(NODE)
<1>1. Len(departments) \in 0..Len(departments)
  BY LenProperties
<1>2. PICK upTo \in [0..Len(departments) -> Seq(NODE)] :
        DepartmentSequence(departments) = upTo[Len(departments)]
  BY DepartmentSequenceUnfolds
<1>3. upTo[Len(departments)] \in Seq(NODE)
  BY <1>1
<1> QED  BY <1>2, <1>3

\* The plan of a new session has one node, whatever the client addressed.
LEMMA ComputeInitialPlanType ==
  ASSUME NEW mode, NEW target_agent \in Names
  PROVE  ComputeInitialPlan(mode, target_agent) \in Seq(NODE)
<1>1. "CS" \in Names
  BY NamesAssumption, DepartmentNames
<1>2. AnalyzeIntent \in NODE /\ AgentNode(target_agent) \in NODE
  BY NodesType
<1>3. DEPT_LEAD_PLAN(IF target_agent \in Departments THEN target_agent ELSE "CS") \in NODE
  BY <1>1, NodesType
<1> QED  BY <1>2, <1>3 DEF ComputeInitialPlan

\* What the CEO's answer adds to a plan is a sequence of nodes.
LEMMA CeoExpansionType ==
  ASSUME NEW departments \in Seq(Names)
  PROVE  CeoExpansion(departments) \in Seq(NODE)
<1>1. <<TriggerActions, SummarizeResult>> \in Seq(NODE)
  <2>1. TriggerActions \in NODE /\ SummarizeResult \in NODE
    BY NodesType
  <2> QED  BY <2>1
<1> QED  BY <1>1, DepartmentSequenceType, ConcatProperties DEF CeoExpansion

\* The part of a plan behind the cursor: the first cursor nodes of it.
LEMMA PrefixProperties ==
  ASSUME NEW plan \in Seq(NODE), NEW cursor \in 0..Len(plan)
  PROVE  /\ Prefix(plan, cursor) \in Seq(NODE)
         /\ Len(Prefix(plan, cursor)) = cursor
         /\ \A i \in 1..cursor : Prefix(plan, cursor)[i] = plan[i]
<1>1. \A i \in 1..cursor : plan[i] \in NODE
  BY LenProperties, ElementOfSeq
<1>2. cursor \in Nat
  BY LenProperties
<1> QED  BY <1>1, <1>2, SubSeqProperties DEF Prefix

\* The part of a plan ahead of the cursor is a sequence of nodes.
LEMMA RemainingProperties ==
  ASSUME NEW plan \in Seq(NODE), NEW cursor \in 0..Len(plan)
  PROVE  Remaining(plan, cursor) \in Seq(NODE)
<1>1. \A i \in (cursor + 1)..Len(plan) : plan[i] \in NODE
  BY LenProperties, ElementOfSeq
<1>2. cursor \in Nat /\ Len(plan) \in Nat
  BY LenProperties
<1> QED  BY <1>1, <1>2, SubSeqProperties DEF Remaining

\* Expansion yields a plan, and never touches what is behind the cursor.
THEOREM ExpansionKeepsThePast ==
  ASSUME NEW plan \in Seq(NODE), NEW cursor \in 0..Len(plan), NEW last_node, NEW state,
         state.plan \in Seq(Names), state.sub_plan \in Seq(Names),
         state.current_department \in Names
  PROVE  LET expanded == ExpandPlanAfterNode(state, plan, cursor, last_node)
         IN  /\ expanded \in Seq(NODE)
             /\ cursor <= Len(expanded)
             /\ \A i \in 1..cursor : expanded[i] = plan[i]
<1>0. /\ cursor \in Nat /\ Len(plan) \in Nat /\ cursor <= Len(plan)
      /\ Prefix(plan, cursor) \in Seq(NODE) /\ Len(Prefix(plan, cursor)) = cursor
      /\ \A i \in 1..cursor : Prefix(plan, cursor)[i] = plan[i]
  <2>1. Len(plan) \in Nat
    BY LenProperties
  <2>2. cursor \in Nat /\ cursor <= Len(plan)
    BY <2>1
  <2> QED  BY <2>1, <2>2, PrefixProperties, Zenon
<1>1. ASSUME NEW tail \in Seq(NODE)
      PROVE  LET extended == Prefix(plan, cursor) \o tail
             IN  /\ extended \in Seq(NODE)
                 /\ cursor <= Len(extended)
                 /\ \A i \in 1..cursor : extended[i] = plan[i]
  <2>1. Len(tail) \in Nat
    BY LenProperties
  <2> DEFINE past == Prefix(plan, cursor)
  <2>2. /\ past \o tail \in Seq(NODE)
        /\ Len(past \o tail) = Len(past) + Len(tail)
        /\ \A i \in 1..(Len(past) + Len(tail)) :
             (past \o tail)[i] = IF i <= Len(past) THEN past[i] ELSE tail[i - Len(past)]
    <3>1. past \in Seq(NODE)
      BY <1>0
    <3> HIDE DEF past
    <3> QED  BY <3>1, ConcatProperties
  <2>3. \A i \in 1..cursor : i \in 1..(cursor + Len(tail)) /\ i <= cursor
    BY <1>0, <2>1
  <2> QED  BY <1>0, <2>1, <2>2, <2>3
<1>2. CASE last_node = AnalyzeIntent
  BY <1>1, <1>2, CeoExpansionType DEF ExpandPlanAfterNode
<1>3. CASE last_node # AnalyzeIntent /\ last_node \in LEAD_PLAN_NODES
  <2> DEFINE lead == LeadExpansion(state.current_department, state.sub_plan)
             tail == lead \o Remaining(plan, cursor)
  <2>1. lead \in Seq(NODE) /\ Remaining(plan, cursor) \in Seq(NODE)
    BY LeadExpansionType, RemainingProperties
  <2>2. tail \in Seq(NODE)
    BY <2>1, ConcatProperties
  <2>3. ExpandPlanAfterNode(state, plan, cursor, last_node)
          = Prefix(plan, cursor) \o tail
    <3> DEFINE past == Prefix(plan, cursor)
               rest == Remaining(plan, cursor)
    <3>1. (past \o lead) \o rest = past \o (lead \o rest)
      <4>1. past \in Seq(NODE) /\ lead \in Seq(NODE) /\ rest \in Seq(NODE)
        BY <1>0, <2>1
      <4> HIDE DEF past, lead, rest
      <4> QED  BY <4>1, ConcatAssociative
    <3> HIDE DEF lead
    <3> QED  BY <1>3, <3>1, Zenon DEF ExpandPlanAfterNode, lead
  <2> HIDE DEF tail
  <2> QED  BY <1>1, <2>2, <2>3
<1>4. CASE last_node # AnalyzeIntent /\ last_node \notin LEAD_PLAN_NODES
  BY <1>0, <1>4 DEF ExpandPlanAfterNode
<1> QED  BY <1>2, <1>3, <1>4

\* The node announced to the user is a node, or NoNode.
LEMMA FindNextPausableType ==
  ASSUME NEW plan \in Seq(NODE), NEW cursor \in Nat
  PROVE  FindNextPausable(plan, cursor) \in NODE \cup {NoNode}
<1> DEFINE ahead == PausableAfter(plan, cursor)
           next == CHOOSE i \in ahead : \A j \in ahead : i <= j
<1>1. ahead \subseteq 1..Len(plan)
  BY LenProperties DEF PausableAfter
<1>2. CASE ahead = {}
  BY <1>2 DEF FindNextPausable
<1>3. CASE ahead # {}
  <2>1. \E i \in ahead : \A j \in ahead : i <= j
    <3>1. ahead \subseteq Nat
      BY <1>1, LenProperties
    <3> HIDE DEF ahead
    <3> QED  BY <1>3, <3>1, LeastExists
  <2>2. next \in 1..Len(plan)
    BY <1>1, <2>1
  <2>3. plan[next] \in NODE
    BY <2>2, ElementOfSeq
  <2> QED  BY <1>3, <2>3 DEF FindNextPausable
<1> QED  BY <1>2, <1>3

----------------------------------------------------------------------------
(* The inductive invariant.                                                *)

Shape ==
  /\ store \in [SessionIds -> Requests \cup {None}]
  /\ DOMAIN sessionData = Requests /\ sessionData = [o \in Requests |-> sessionData[o]]
  /\ task \in [Requests -> Task]
  /\ sse \in [Requests -> Seq(Event)]
  /\ ready \in Seq(Requests)
  /\ running \in Requests \cup {None}

\* An object that was built is a session whose cursor is within its plan.
SessionOK(o) ==
  sessionData[o] # None =>
    /\ sessionData[o] \in SessionData
    /\ sessionData[o].cursor <= Len(sessionData[o].execution_plan)

\* A task works within its plan, a live one on an object that exists; one that is at
\* the model has a node to go on with and a stream to write to.
TaskOK(t) ==
  /\ task[t].cursor <= Len(task[t].plan)
  /\ IsLive(t) => /\ task[t].obj \in Requests /\ sessionData[task[t].obj] # None
                  /\ task[t].session_id \in SessionIds
  /\ task[t].pc \in {"calling", "answered"} =>
       task[t].cursor < Len(task[t].plan) /\ task[t].writer \in Requests

StoreOK == \A s \in SessionIds : store[s] # None => sessionData[store[s]] # None

\* Only a task in its loop has the event loop to itself.
RunningOK == running # None => task[running].pc = "loop"

StepInv ==
  /\ Shape
  /\ \A o \in Requests : SessionOK(o)
  /\ \A t \in Requests : TaskOK(t)
  /\ StoreOK
  /\ RunningOK

\* The invariant implies the properties of the runs.
LEMMA StepInvTypes == StepInv => TypeOK /\ CursorInPlan
<1> SUFFICES ASSUME StepInv  PROVE TypeOK /\ CursorInPlan
  OBVIOUS
<1>1. sessionData \in [Requests -> SessionData \cup {None}]
  BY DEF StepInv, Shape, SessionOK
<1>2. CursorInPlan
  BY DEF StepInv, SessionOK, TaskOK, CursorInPlan
<1> QED  BY <1>1, <1>2 DEF StepInv, Shape, TypeOK

----------------------------------------------------------------------------
(* Types of what the actions build.                                        *)

\* The names the code itself writes into the state.
LEMMA EmptyName == "" \in Names /\ "CS" \in Names /\ "CEO" \in Names
BY NamesAssumption, DepartmentNames

\* The state of a new session has its type.
LEMMA InitialStateType ==
  ASSUME NEW r \in Requests
  PROVE  InitialState(r) \in AgentState
<1>1. <<UserMessage(r)>> \in Seq(Message)
  BY DEF UserMessage, Message
<1>2. "" \in Names
  BY EmptyName
<1>3. <<>> \in Seq(Names)
  OBVIOUS
<1> QED  BY <1>1, <1>2, <1>3 DEF InitialState, AgentState

\* So has a state with one more answer.
LEMMA ReplyType ==
  ASSUME NEW state \in AgentState, NEW t \in Requests
  PROVE  /\ Reply(state, t) \in AgentState
         /\ Reply(state, t).messages = Append(state.messages, AIMessage(t))
         /\ Reply(state, t).plan = state.plan /\ Reply(state, t).plan_step = state.plan_step
<1>1. Append(state.messages, AIMessage(t)) \in Seq(Message)
  BY DEF AgentState, AIMessage, Message
<1> QED  BY <1>1 DEF AgentState, Reply

\* What a pause saves is a session with the given plan and cursor.
LEMMA PausedType ==
  ASSUME NEW data \in SessionData, NEW state \in AgentState, NEW plan \in Seq(NODE),
         NEW cursor \in Nat, NEW node \in NODE
  PROVE  /\ Paused(data, state, plan, cursor, node) \in SessionData
         /\ Paused(data, state, plan, cursor, node).cursor = cursor
         /\ Paused(data, state, plan, cursor, node).execution_plan = plan
BY DEF Paused, SessionData

\* A resumption changes neither state, plan nor cursor.
LEMMA ResumedType ==
  ASSUME NEW data \in SessionData, NEW r \in Requests
  PROVE  /\ Resumed(data, r) \in SessionData
         /\ Resumed(data, r).cursor = data.cursor
         /\ Resumed(data, r).execution_plan = data.execution_plan
         /\ Resumed(data, r).state = data.state
BY DEF Resumed, SessionData

\* A message of the user changes neither plan nor cursor.
LEMMA WithMessageType ==
  ASSUME NEW data \in SessionData, NEW r \in Requests
  PROVE  /\ WithMessage(data, r) \in SessionData
         /\ WithMessage(data, r).cursor = data.cursor
         /\ WithMessage(data, r).execution_plan = data.execution_plan
         /\ WithMessage(data, r).state.plan = data.state.plan
         /\ WithMessage(data, r).state.plan_step = data.state.plan_step
         /\ WithMessage(data, r).state.current_department = data.state.current_department
         /\ WithMessage(data, r).state.messages
              = Append(data.state.messages, UserMessage(r))
<1> DEFINE state == [data.state EXCEPT !.messages = Append(@, UserMessage(r))]
<1>1. Append(data.state.messages, UserMessage(r)) \in Seq(Message)
  BY AppendProperties DEF SessionData, AgentState, UserMessage, Message
<1>2. /\ state \in AgentState /\ state.plan = data.state.plan
      /\ state.plan_step = data.state.plan_step
      /\ state.current_department = data.state.current_department
      /\ state.messages = Append(data.state.messages, UserMessage(r))
  BY <1>1 DEF SessionData, AgentState
<1>3. WithMessage(data, r) = [data EXCEPT !.state = state]
  BY DEF WithMessage
<1> HIDE DEF state
<1> QED  BY <1>2, <1>3 DEF SessionData

\* A confirmation leaves the plan alone and never moves the cursor forward.
LEMMA ConfirmedType ==
  ASSUME NEW data \in SessionData, NEW r \in Requests,
         NEW action \in {"continue", "regenerate", "modify"},
         data.cursor <= Len(data.execution_plan)
  PROVE  /\ Confirmed(data, r, action) \in SessionData
         /\ Confirmed(data, r, action).cursor <= Len(data.execution_plan)
         /\ Confirmed(data, r, action).cursor \in Nat
         /\ Confirmed(data, r, action).cursor <= data.cursor
         /\ Confirmed(data, r, action).execution_plan = data.execution_plan
<1> DEFINE back == [data EXCEPT !.cursor = StepBack(@)]
<1>0. data.cursor \in Nat /\ Len(data.execution_plan) \in Nat
  BY LenProperties DEF SessionData
<1>1. /\ StepBack(data.cursor) \in Nat /\ StepBack(data.cursor) <= data.cursor
  BY <1>0 DEF StepBack
<1>2. /\ back \in SessionData /\ back.cursor = StepBack(data.cursor)
      /\ back.execution_plan = data.execution_plan
  BY <1>1 DEF SessionData
<1> HIDE DEF back
<1>3. /\ WithMessage(back, r) \in SessionData /\ WithMessage(back, r).cursor = back.cursor
      /\ WithMessage(back, r).execution_plan = back.execution_plan
  BY <1>2, WithMessageType
<1>4. CASE action = "continue"
  BY <1>0, <1>4 DEF Confirmed
<1>5. CASE action = "regenerate"
  <2>1. Confirmed(data, r, action) = back
    BY <1>5 DEF Confirmed, back
  <2> QED  BY <1>0, <1>1, <1>2, <2>1
<1>6. CASE action = "modify"
  <2>1. Confirmed(data, r, action) = WithMessage(back, r)
    BY <1>6 DEF Confirmed, back
  <2> QED  BY <1>0, <1>1, <1>2, <1>3, <2>1
<1> QED  BY <1>4, <1>5, <1>6

\* Every event the code sends has its type.
LEMMA EventTypes ==
  /\ \A node \in NODE : Thinking(node) \in Event /\ Updated(node) \in Event
  /\ \A node \in NODE, r \in Requests : Chunk(node, r) \in Event
  /\ \A node \in NODE, next \in NODE \cup {NoNode}, b \in BOOLEAN :
       AwaitingConfirmation(node, next, b) \in Event
  /\ \A m \in Message \cup {NoReply} : Final(m) \in Event
  /\ Stopped \in Event /\ ErrorEvent \in Event /\ End \in Event
BY DEF Event, Thinking, Updated, Chunk, AwaitingConfirmation, Final, Stopped, ErrorEvent, End

\* Bodies stay sequences of events.
LEMMA EmitType ==
  ASSUME sse \in [Requests -> Seq(Event)], NEW t \in Requests,
         NEW events \in Seq(Event), Emit(t, events)
  PROVE  sse' \in [Requests -> Seq(Event)]
BY ConcatProperties DEF Emit

\* The answer of a finished plan is a message, or NoReply.
LEMMA LastReplyType ==
  ASSUME NEW messages \in Seq(Message)
  PROVE  LastReply(messages) \in Message \cup {NoReply}
<1> DEFINE replies == {i \in DOMAIN messages : IsAI(messages[i])}
           last == CHOOSE i \in replies : \A j \in replies : j <= i
<1>1. Len(messages) \in Nat /\ replies \subseteq 1..Len(messages)
  BY LenProperties
<1>2. CASE replies = {}
  BY <1>2 DEF LastReply
<1>3. CASE replies # {}
  <2>1. \E i \in replies : \A j \in replies : j <= i
    <3> HIDE DEF replies
    <3> QED  BY <1>1, <1>3, GreatestExists
  <2>2. last \in 1..Len(messages)
    BY <1>1, <2>1
  <2>3. messages[last] \in Message
    BY <2>2, ElementOfSeq
  <2> QED  BY <1>3, <2>3 DEF LastReply
<1> QED  BY <1>2, <1>3

----------------------------------------------------------------------------
(* Each step keeps the invariant.                                          *)

\* The invariant holds initially.
LEMMA InitStepInv == Init => StepInv
<1> SUFFICES ASSUME Init  PROVE StepInv
  OBVIOUS
<1>1. NewTask \in Task /\ NewTask.pc = "none" /\ NewTask.cursor = 0 /\ Len(NewTask.plan) = 0
  <2>1. <<>> \in Seq(NODE) /\ Len(<<>>) = 0
    OBVIOUS
  <2> QED  BY <2>1 DEF NewTask, Task
<1>2. Shape
  <2>1. <<>> \in Seq(Event) /\ <<>> \in Seq(Requests)
    OBVIOUS
  <2> QED  BY <1>1, <2>1 DEF Init, Shape
<1>3. \A o \in Requests : SessionOK(o)
  BY DEF Init, SessionOK
<1>4. \A t \in Requests : TaskOK(t)
  BY <1>1 DEF Init, TaskOK, IsLive
<1>5. StoreOK /\ RunningOK
  BY DEF Init, StoreOK, RunningOK
<1> QED  BY <1>2, <1>3, <1>4, <1>5 DEF StepInv

\* A session in the place of what object o was.
Rebuilt(o, data) ==
  /\ data \in SessionData
  /\ data.cursor <= Len(data.execution_plan)
  /\ sessionData' = [sessionData EXCEPT ![o] = data]

\* What an action has to show: it changed one task at most, into one as good, and one
\* object at most, into a session.
LEMMA LocalChange ==
  ASSUME StepInv, NEW t \in Requests, NEW o \in Requests,
         \A u \in Requests : u # t => task'[u] = task[u],
         sessionData' = sessionData \/ \E data : Rebuilt(o, data),
         TaskOK(t)', Shape', StoreOK', RunningOK'
  PROVE  StepInv'
<1>1. \A p \in Requests : SessionOK(p)'
  BY DEF StepInv, Shape, SessionOK, Rebuilt
<1>2. \A p \in Requests : sessionData[p] # None => sessionData'[p] # None
  BY NoneAssumption DEF StepInv, Shape, Rebuilt
<1>3. ASSUME NEW u \in Requests  PROVE TaskOK(u)'
  <2>1. CASE u # t
    <3>1. task'[u] = task[u] /\ TaskOK(u)
      BY <2>1 DEF StepInv
    <3> QED  BY <1>2, <3>1 DEF TaskOK, IsLive
  <2> QED  BY <2>1
<1> QED  BY <1>1, <1>3 DEF StepInv

\* create_task, for an object that exists.
LEMMA CreateTaskKeeps ==
  ASSUME StepInv, NEW r \in Requests, NEW sid \in SessionIds, NEW o \in Requests,
         CreateTask(r, sid, o), sessionData'[o] # None, task[r].pc = "none"
  PROVE  /\ task' \in [Requests -> Task] /\ ready' \in Seq(Requests)
         /\ TaskOK(r)' /\ \A u \in Requests : u # r => task'[u] = task[u]
<1>1. /\ task' = [task EXCEPT ![r] =
                  [task[r] EXCEPT !.pc = "created", !.session_id = sid, !.obj = o]]
      /\ ready' = Append(ready, r)
  BY DEF CreateTask
<1>2. task[r] \in Task /\ task[r].cursor <= Len(task[r].plan)
  BY DEF StepInv, Shape, TaskOK
<1> DEFINE new == [task[r] EXCEPT !.pc = "created", !.session_id = sid, !.obj = o]
<1>3. /\ new \in Task /\ new.pc = "created" /\ new.session_id = sid /\ new.obj = o
      /\ new.plan = task[r].plan /\ new.cursor = task[r].cursor
  BY <1>2 DEF Task
<1>4. task' \in [Requests -> Task] /\ task'[r] = new
  BY <1>1, <1>3 DEF StepInv, Shape
<1>5. \A u \in Requests : u # r => task'[u] = task[u]
  BY <1>1 DEF StepInv, Shape
<1>6. ready' \in Seq(Requests)
  BY <1>1, AppendProperties DEF StepInv, Shape
<1> HIDE DEF new
<1>7. TaskOK(r)'
  BY <1>2, <1>3, <1>4 DEF TaskOK, IsLive
<1> QED  BY <1>4, <1>5, <1>6, <1>7

\* A new session replaces what its id held; objects in use are not touched.
LEMMA FreshRequestKeeps ==
  ASSUME StepInv, NEW r \in Requests, NEW sid \in SessionIds, NEW target \in Targets,
         FreshRequest(r, sid, target)
  PROVE  StepInv'
<1> DEFINE data == [state |-> InitialState(r),
                    execution_plan |-> ComputeInitialPlan(Mode(target), target.agent),
                    cursor |-> 0, last_node |-> NoNode, cancelled |-> FALSE,
                    stream_writer |-> r]
<1>1. Rebuilt(r, data)
  <2>1. InitialState(r) \in AgentState
    BY InitialStateType
  <2>2. /\ ComputeInitialPlan(Mode(target), target.agent) \in Seq(NODE)
        /\ Len(ComputeInitialPlan(Mode(target), target.agent)) \in Nat
    <3>1. target.agent \in Names
      BY TargetsAssumption
    <3>2. ComputeInitialPlan(Mode(target), target.agent) \in Seq(NODE)
      BY <3>1, ComputeInitialPlanType
    <3> QED  BY <3>2, LenProperties
  <2>3. data \in SessionData
    BY <2>1, <2>2 DEF SessionData
  <2> QED  BY <2>2, <2>3 DEF Rebuilt, FreshRequest
<1>2. sessionData'[r] # None
  BY <1>1, NoneAssumption DEF Rebuilt, StepInv, Shape
<1>3. /\ task' \in [Requests -> Task] /\ ready' \in Seq(Requests)
      /\ TaskOK(r)' /\ \A u \in Requests : u # r => task'[u] = task[u]
  BY <1>2, CreateTaskKeeps DEF FreshRequest
<1>4. Shape'
  BY <1>1, <1>3 DEF FreshRequest, StepInv, Shape, Rebuilt
<1>5. StoreOK' /\ RunningOK'
  BY <1>1, NoneAssumption DEF FreshRequest, StepInv, Shape, StoreOK, RunningOK, Rebuilt
<1> HIDE DEF data
<1> QED  BY <1>1, <1>3, <1>4, <1>5, LocalChange

\* The resumption of the session of sid, which has become data.
LEMMA ResumeKeeps ==
  ASSUME StepInv, NEW r \in Requests, NEW sid \in SessionIds, NEW data,
         running = None, task[r].pc = "none", store[sid] # None,
         data \in SessionData, data.cursor <= Len(data.execution_plan),
         sessionData' = [sessionData EXCEPT ![store[sid]] = data],
         CreateTask(r, sid, store[sid]), UNCHANGED <<store, sse, running>>
  PROVE  StepInv'
<1> DEFINE o == store[sid]
<1>1. o \in Requests /\ Rebuilt(o, data)
  BY DEF StepInv, Shape, Rebuilt
<1>2. sessionData'[o] # None
  BY <1>1, NoneAssumption DEF Rebuilt, StepInv, Shape
<1>3. /\ task' \in [Requests -> Task] /\ ready' \in Seq(Requests)
      /\ TaskOK(r)' /\ \A u \in Requests : u # r => task'[u] = task[u]
  BY <1>1, <1>2, CreateTaskKeeps
<1>4. Shape'
  BY <1>1, <1>3 DEF StepInv, Shape, Rebuilt
<1>5. StoreOK' /\ RunningOK'
  BY <1>1, NoneAssumption DEF StepInv, Shape, StoreOK, RunningOK, Rebuilt
<1> QED  BY <1>1, <1>3, <1>4, <1>5, LocalChange

\* The session a handler finds, as it resumes it.
LEMMA ResumedSession ==
  ASSUME StepInv, NEW r \in Requests, NEW sid \in SessionIds, store[sid] # None
  PROVE  /\ Resumed(sessionData[store[sid]], r) \in SessionData
         /\ Resumed(sessionData[store[sid]], r).cursor
              <= Len(Resumed(sessionData[store[sid]], r).execution_plan)
<1>1. /\ sessionData[store[sid]] \in SessionData
      /\ sessionData[store[sid]].cursor <= Len(sessionData[store[sid]].execution_plan)
  BY DEF StepInv, Shape, StoreOK, SessionOK
<1> QED  BY <1>1, ResumedType

\* A typed answer resumes the session the store holds.
LEMMA ResumeWithMessageKeeps ==
  ASSUME StepInv, NEW r \in Requests, NEW sid \in SessionIds, ResumeWithMessage(r, sid)
  PROVE  StepInv'
<1> DEFINE old == Resumed(sessionData[store[sid]], r)
           data == WithMessage(old, r)
<1>1. old \in SessionData /\ old.cursor <= Len(old.execution_plan)
  BY ResumedSession DEF ResumeWithMessage
<1>2. sessionData' = [sessionData EXCEPT ![store[sid]] = data]
  BY DEF ResumeWithMessage
<1> HIDE DEF old
<1>3. data \in SessionData /\ data.cursor <= Len(data.execution_plan)
  BY <1>1, WithMessageType
<1> QED  BY <1>2, <1>3, ResumeKeeps DEF ResumeWithMessage

\* A confirmation resumes it and may step its cursor back.
LEMMA ConfirmKeeps ==
  ASSUME StepInv, NEW r \in Requests, NEW sid \in SessionIds,
         NEW action \in {"continue", "regenerate", "modify"}, Confirm(r, sid, action)
  PROVE  StepInv'
<1> DEFINE old == Resumed(sessionData[store[sid]], r)
           data == Confirmed(old, r, action)
<1>1. old \in SessionData /\ old.cursor <= Len(old.execution_plan)
  BY ResumedSession DEF Confirm
<1>2. sessionData' = [sessionData EXCEPT ![store[sid]] = data]
  BY DEF Confirm
<1> HIDE DEF old
<1>3. data \in SessionData /\ data.cursor <= Len(data.execution_plan)
  BY <1>1, ConfirmedType
<1> QED  BY <1>2, <1>3, ResumeKeeps DEF Confirm

\* An expired confirmation only closes its own body.
LEMMA ConfirmExpiredKeeps ==
  ASSUME StepInv, NEW r \in Requests, NEW sid \in SessionIds, ConfirmExpired(r, sid)
  PROVE  StepInv'
<1> DEFINE new == [task[r] EXCEPT !.pc = "expired", !.session_id = sid]
<1>1. /\ task[r] \in Task /\ task[r].cursor <= Len(task[r].plan)
  BY DEF StepInv, Shape, TaskOK
<1>2. /\ new \in Task /\ new.pc = "expired"
      /\ new.plan = task[r].plan /\ new.cursor = task[r].cursor
  BY <1>1 DEF Task
<1>3. task' \in [Requests -> Task] /\ task'[r] = new
      /\ \A u \in Requests : u # r => task'[u] = task[u]
  BY <1>2 DEF ConfirmExpired, StepInv, Shape
<1> HIDE DEF new
<1>4. TaskOK(r)'
  BY <1>1, <1>2, <1>3 DEF TaskOK, IsLive
<1>5. Shape'
  <2>1. <<End>> \in Seq(Event)
    BY EventTypes
  <2> QED  BY <1>3, <2>1 DEF ConfirmExpired, StepInv, Shape
<1>6. StoreOK' /\ RunningOK'
  BY DEF ConfirmExpired, StepInv, StoreOK, RunningOK
<1> QED  BY <1>3, <1>4, <1>5, <1>6, LocalChange DEF ConfirmExpired

\* A stop only sets the flag of a session.
LEMMA StopChatKeeps ==
  ASSUME StepInv, NEW sid \in SessionIds, StopChat(sid)
  PROVE  StepInv'
<1> DEFINE o == store[sid]
           data == [sessionData[o] EXCEPT !.cancelled = TRUE]
<1>1. /\ o \in Requests /\ sessionData[o] \in SessionData
      /\ sessionData[o].cursor <= Len(sessionData[o].execution_plan)
  BY DEF StopChat, StepInv, Shape, StoreOK, SessionOK
<1>2. Rebuilt(o, data)
  <2>1. /\ data \in SessionData /\ data.cursor = sessionData[o].cursor
        /\ data.execution_plan = sessionData[o].execution_plan
    BY <1>1 DEF SessionData
  <2>2. sessionData' = [sessionData EXCEPT ![o] = data]
    BY DEF StopChat
  <2> QED  BY <1>1, <2>1, <2>2 DEF Rebuilt
<1>3. UNCHANGED <<store, task, sse, ready, running>>
  BY DEF StopChat
<1> HIDE DEF data
<1>4. \A p \in Requests : sessionData[p] # None => sessionData'[p] # None
  BY <1>1, <1>2, NoneAssumption DEF StepInv, Shape, Rebuilt
<1>5. Shape' /\ StoreOK' /\ RunningOK'
  BY <1>2, <1>3, <1>4 DEF StepInv, Shape, StoreOK, RunningOK, Rebuilt
<1>6. TaskOK(o)'
  BY <1>1, <1>3, <1>4 DEF StepInv, TaskOK, IsLive
<1> QED  BY <1>1, <1>2, <1>3, <1>5, <1>6, LocalChange

\* A live task that stays where it is in its plan, and what it works on.
LEMMA LiveTask ==
  ASSUME StepInv, NEW t \in Requests, IsLive(t)
  PROVE  /\ task[t] \in Task /\ task[t].plan \in Seq(NODE) /\ task[t].cursor \in Nat
         /\ task[t].cursor <= Len(task[t].plan) /\ Len(task[t].plan) \in Nat
         /\ task[t].obj \in Requests /\ task[t].session_id \in SessionIds
         /\ SessionOf(t) \in SessionData /\ SessionOf(t) # None
         /\ SessionOf(t).cursor <= Len(SessionOf(t).execution_plan)
         /\ StateOf(t) \in AgentState
         /\ task[t].cursor < Len(task[t].plan) => CurrentNode(t) \in NODE
<1>1. /\ task[t] \in Task /\ task[t].plan \in Seq(NODE) /\ task[t].cursor \in Nat
      /\ task[t].cursor <= Len(task[t].plan) /\ Len(task[t].plan) \in Nat
  BY LenProperties DEF StepInv, Shape, TaskOK, Task
<1>2. /\ task[t].obj \in Requests /\ task[t].session_id \in SessionIds
      /\ SessionOf(t) \in SessionData /\ SessionOf(t) # None
      /\ SessionOf(t).cursor <= Len(SessionOf(t).execution_plan)
  BY DEF StepInv, TaskOK, SessionOK, SessionOf
<1>3. StateOf(t) \in AgentState
  BY <1>2 DEF StateOf, SessionData
<1>4. task[t].cursor < Len(task[t].plan) => CurrentNode(t) \in NODE
  BY <1>1, ElementOfSeq DEF CurrentNode
<1> QED  BY <1>1, <1>2, <1>3, <1>4

\* The end of a task.
LEMMA EndTaskKeeps ==
  ASSUME StepInv, NEW t \in Requests, EndTask(t)
  PROVE  /\ task' \in [Requests -> Task] /\ TaskOK(t)' /\ RunningOK'
         /\ running' = None /\ \A u \in Requests : u # t => task'[u] = task[u]
<1> DEFINE new == [task[t] EXCEPT !.pc = "done"]
<1>1. /\ task[t] \in Task /\ task[t].cursor <= Len(task[t].plan)
  BY DEF StepInv, Shape, TaskOK
<1>2. /\ new \in Task /\ new.pc = "done"
      /\ new.plan = task[t].plan /\ new.cursor = task[t].cursor
  BY <1>1 DEF Task
<1>3. /\ task' \in [Requests -> Task] /\ task'[t] = new
      /\ \A u \in Requests : u # t => task'[u] = task[u]
  BY <1>2 DEF EndTask, StepInv, Shape
<1> HIDE DEF new
<1>4. TaskOK(t)'
  BY <1>1, <1>2, <1>3 DEF TaskOK, IsLive
<1> QED  BY <1>3, <1>4 DEF EndTask, RunningOK

\* A task starts with the plan and the cursor of its session.
LEMMA StartTaskKeeps ==
  ASSUME StepInv, NEW t \in Requests, StartTask(t)
  PROVE  StepInv'
<1> DEFINE plan == SessionOf(t).execution_plan
           cursor == SessionOf(t).cursor
           new == [task[t] EXCEPT !.pc = "loop", !.plan = plan, !.cursor = cursor]
<1>0. IsLive(t)
  BY DEF StartTask, Turn, IsLive
<1>1. /\ task[t] \in Task /\ task[t].obj \in Requests /\ task[t].session_id \in SessionIds
      /\ SessionOf(t) # None /\ plan \in Seq(NODE) /\ cursor \in Nat /\ cursor <= Len(plan)
  BY <1>0, LiveTask DEF SessionData
<1>2. /\ new \in Task /\ new.pc = "loop" /\ new.plan = plan /\ new.cursor = cursor
      /\ new.obj = task[t].obj /\ new.session_id = task[t].session_id
  <2> HIDE DEF plan, cursor
  <2> QED  BY <1>1 DEF Task
<1>3. /\ task' \in [Requests -> Task] /\ task'[t] = new
      /\ \A u \in Requests : u # t => task'[u] = task[u]
  BY <1>2 DEF StartTask, StepInv, Shape
<1>4. ready' \in Seq(Requests)
  BY HeadTailProperties DEF StartTask, Turn, StepInv, Shape
<1>5. sessionData' = sessionData
  BY DEF StartTask
<1> HIDE DEF new
<1>6. TaskOK(t)'
  BY <1>1, <1>2, <1>3, <1>5 DEF TaskOK, IsLive, SessionOf
<1>7. Shape'
  BY <1>3, <1>4 DEF StartTask, StepInv, Shape
<1>8. StoreOK' /\ RunningOK'
  BY <1>2, <1>3 DEF StartTask, StepInv, StoreOK, RunningOK
<1> QED  BY <1>3, <1>5, <1>6, <1>7, <1>8, LocalChange

\* save_session puts an object that exists under its id.
LEMMA SaveKeeps ==
  ASSUME StepInv, NEW o \in Requests, NEW data, Rebuilt(o, data), NEW sid \in SessionIds,
         store' = [store EXCEPT ![sid] = o]
  PROVE  StoreOK'
<1>1. sessionData'[o] # None
  BY NoneAssumption DEF Rebuilt, StepInv, Shape
<1>2. \A p \in Requests : sessionData[p] # None => sessionData'[p] # None
  BY <1>1 DEF StepInv, Shape, Rebuilt
<1>3. ASSUME NEW s \in SessionIds, store'[s] # None  PROVE sessionData'[store'[s]] # None
  <2>1. CASE s = sid
    BY <1>1, <2>1 DEF StepInv, Shape
  <2>2. CASE s # sid
    <3>1. store'[s] = store[s] /\ store[s] \in Requests
      BY <1>3, <2>2 DEF StepInv, Shape
    <3> QED  BY <1>2, <1>3, <3>1 DEF StepInv, StoreOK
  <2> QED  BY <2>1, <2>2
<1> QED  BY <1>3 DEF StoreOK

\* A cancelled task saves a plan and a cursor that fit each other.
LEMMA StopAtCheckKeeps ==
  ASSUME StepInv, NEW t \in Requests, StopAtCheck(t)
  PROVE  StepInv'
<1> DEFINE o == task[t].obj
           data == [sessionData[o] EXCEPT !.execution_plan = task[t].plan,
                                          !.cursor = task[t].cursor]
<1>0. IsLive(t)
  BY DEF StopAtCheck, AtLoopHead, IsLive
<1>1. /\ o \in Requests /\ sessionData[o] \in SessionData /\ task[t].session_id \in SessionIds
      /\ task[t].plan \in Seq(NODE) /\ task[t].cursor \in Nat
      /\ task[t].cursor <= Len(task[t].plan)
  BY <1>0, LiveTask DEF SessionOf
<1>2. Rebuilt(o, data)
  <2>1. /\ data \in SessionData /\ data.cursor = task[t].cursor
        /\ data.execution_plan = task[t].plan
    BY <1>1 DEF SessionData
  <2>2. sessionData' = [sessionData EXCEPT ![o] = data]
    BY DEF StopAtCheck
  <2> QED  BY <1>1, <2>1, <2>2 DEF Rebuilt
<1>3. /\ task' \in [Requests -> Task] /\ TaskOK(t)' /\ RunningOK'
      /\ running' = None /\ \A u \in Requests : u # t => task'[u] = task[u]
  BY EndTaskKeeps DEF StopAtCheck
<1>4. sse' \in [Requests -> Seq(Event)]
  <2>1. <<Stopped, End>> \in Seq(Event)
    BY EventTypes
  <2> QED  BY <2>1, EmitType DEF StopAtCheck, StepInv, Shape
<1> HIDE DEF data
<1>5. Shape'
  BY <1>1, <1>2, <1>3, <1>4 DEF StopAtCheck, StepInv, Shape, Rebuilt
<1>6. StoreOK'
  BY <1>1, <1>2, SaveKeeps DEF StopAtCheck
<1> QED  BY <1>1, <1>2, <1>3, <1>5, <1>6, LocalChange

\* Skipping a node does not take the cursor out of the plan.
LEMMA SkipUnknownNodeKeeps ==
  ASSUME StepInv, NEW t \in Requests, SkipUnknownNode(t)
  PROVE  StepInv'
<1> DEFINE new == [task[t] EXCEPT !.cursor = @ + 1]
<1>0. IsLive(t) /\ task[t].cursor < Len(task[t].plan) /\ task[t].pc = "loop"
  BY DEF SkipUnknownNode, AtLoopHead, IsLive
<1>1. /\ task[t] \in Task /\ task[t].obj \in Requests /\ task[t].session_id \in SessionIds
      /\ sessionData[task[t].obj] # None /\ task[t].cursor \in Nat /\ Len(task[t].plan) \in Nat
  BY <1>0, LiveTask DEF SessionOf
<1>2. /\ new \in Task /\ new.pc = "loop" /\ new.plan = task[t].plan
      /\ new.cursor = task[t].cursor + 1
      /\ new.obj = task[t].obj /\ new.session_id = task[t].session_id
  BY <1>0, <1>1 DEF Task
<1>3. /\ task' \in [Requests -> Task] /\ task'[t] = new
      /\ \A u \in Requests : u # t => task'[u] = task[u]
  BY <1>2 DEF SkipUnknownNode, StepInv, Shape
<1>4. UNCHANGED <<store, sessionData, sse, ready, running>>
  BY DEF SkipUnknownNode
<1> HIDE DEF new
<1>5. TaskOK(t)'
  BY <1>0, <1>1, <1>2, <1>3, <1>4 DEF TaskOK, IsLive
<1>6. Shape' /\ StoreOK'
  BY <1>3, <1>4 DEF StepInv, Shape, StoreOK
<1>7. RunningOK'
  BY <1>2, <1>3, <1>4 DEF StepInv, Shape, RunningOK
<1> QED  BY <1>3, <1>4, <1>5, <1>6, <1>7, LocalChange

\* The node of t has returned state: whatever the expansion, all stays in place.
LEMMA CompleteNodeKeeps ==
  ASSUME StepInv, NEW t \in Requests, IsLive(t), task[t].cursor < Len(task[t].plan),
         NEW state \in AgentState, NEW events \in Seq(Event),
         CompleteNode(t, state, events), ready' \in Seq(Requests)
  PROVE  StepInv'
<1> DEFINE node   == CurrentNode(t)
           cursor == task[t].cursor + 1
           plan   == ExpandPlanAfterNode(state, task[t].plan, cursor, node)
           o      == task[t].obj
<1>1. /\ task[t] \in Task /\ task[t].plan \in Seq(NODE) /\ o \in Requests
      /\ task[t].session_id \in SessionIds /\ node \in NODE
      /\ sessionData[o] \in SessionData /\ sessionData[o] # None
      /\ sessionData[o].cursor <= Len(sessionData[o].execution_plan)
      /\ cursor \in 0..Len(task[t].plan) /\ cursor \in Nat
  BY LiveTask DEF SessionOf
<1>2. plan \in Seq(NODE) /\ cursor <= Len(plan) /\ Len(plan) \in Nat
  <2>1. /\ state.plan \in Seq(Names) /\ state.sub_plan \in Seq(Names)
        /\ state.current_department \in Names
    BY DEF AgentState
  <2>2. plan \in Seq(NODE) /\ cursor <= Len(plan)
    <3> HIDE DEF cursor, node
    <3> QED  BY <1>1, <2>1, ExpansionKeepsThePast
  <2> QED  BY <2>2, LenProperties
<1>3. CASE /\ node \in PAUSABLE_NODES
           /\ sessionData' =
                [sessionData EXCEPT ![o] = Paused(@, state, plan, cursor, node)]
           /\ store' = [store EXCEPT ![task[t].session_id] = o]
           /\ Emit(t, events \o <<Updated(node),
                        AwaitingConfirmation(node, FindNextPausable(plan, cursor),
                                             cursor >= Len(plan)),
                        End>>)
           /\ EndTask(t)
  <2> DEFINE data == Paused(sessionData[o], state, plan, cursor, node)
             next == FindNextPausable(plan, cursor)
             said == <<Updated(node), AwaitingConfirmation(node, next, cursor >= Len(plan)), End>>
  <2>1. Rebuilt(o, data)
    <3>1. data \in SessionData /\ data.cursor = cursor /\ data.execution_plan = plan
      <4> HIDE DEF plan, cursor, node
      <4> QED  BY <1>1, <1>2, PausedType
    <3>2. sessionData' = [sessionData EXCEPT ![o] = data]
      BY <1>3
    <3> HIDE DEF data, plan, cursor
    <3> QED  BY <1>2, <3>1, <3>2 DEF Rebuilt
  <2>2. /\ task' \in [Requests -> Task] /\ TaskOK(t)' /\ RunningOK'
        /\ running' = None /\ \A u \in Requests : u # t => task'[u] = task[u]
    BY <1>3, EndTaskKeeps
  <2>3. sse' \in [Requests -> Seq(Event)]
    <3>1. next \in NODE \cup {NoNode}
      <4> HIDE DEF plan, cursor
      <4> QED  BY <1>1, <1>2, FindNextPausableType
    <3>2. said \in Seq(Event)
      <4>1. (cursor >= Len(plan)) \in BOOLEAN
        OBVIOUS
      <4> HIDE DEF next, plan, cursor, node
      <4>2. /\ Updated(node) \in Event /\ End \in Event
            /\ AwaitingConfirmation(node, next, cursor >= Len(plan)) \in Event
        BY <1>1, <3>1, <4>1, EventTypes
      <4> QED  BY <4>2
    <3>3. Emit(t, events \o said)
      BY <1>3
    <3> HIDE DEF said
    <3>4. events \o said \in Seq(Event)
      BY <3>2, ConcatProperties
    <3> QED  BY <3>3, <3>4, EmitType DEF StepInv, Shape
  <2>4. StoreOK'
    BY <1>1, <1>3, <2>1, SaveKeeps
  <2>5. Shape'
    <3> HIDE DEF data
    <3> QED  BY <1>1, <1>3, <2>1, <2>2, <2>3 DEF StepInv, Shape, Rebuilt
  <2> HIDE DEF data
  <2> QED  BY <1>1, <2>1, <2>2, <2>4, <2>5, LocalChange
<1>4. CASE /\ node \notin PAUSABLE_NODES
           /\ sessionData' = [sessionData EXCEPT ![o].state = state]
           /\ Emit(t, events \o <<Updated(node)>>)
           /\ task' = [task EXCEPT ![t].pc = "loop", ![t].plan = plan, ![t].cursor = cursor]
           /\ running' = t
           /\ UNCHANGED store
  <2> DEFINE data == [sessionData[o] EXCEPT !.state = state]
             new == [task[t] EXCEPT !.pc = "loop", !.plan = plan, !.cursor = cursor]
  <2>1. Rebuilt(o, data)
    <3>1. /\ data \in SessionData /\ data.cursor = sessionData[o].cursor
          /\ data.execution_plan = sessionData[o].execution_plan
      BY <1>1 DEF SessionData
    <3>2. sessionData' = [sessionData EXCEPT ![o] = data]
      BY <1>4
    <3> QED  BY <1>1, <3>1, <3>2 DEF Rebuilt
  <2>2. /\ new \in Task /\ new.pc = "loop" /\ new.plan = plan /\ new.cursor = cursor
        /\ new.obj = o /\ new.session_id = task[t].session_id
    <3> HIDE DEF plan, cursor
    <3> QED  BY <1>1, <1>2 DEF Task
  <2>3. /\ task' \in [Requests -> Task] /\ task'[t] = new
        /\ \A u \in Requests : u # t => task'[u] = task[u]
    <3>1. task' = [task EXCEPT ![t] = new]
      BY <1>4
    <3> HIDE DEF new
    <3> QED  BY <2>2, <3>1 DEF StepInv, Shape
  <2>4. \A p \in Requests : sessionData[p] # None => sessionData'[p] # None
    <3> HIDE DEF data
    <3> QED  BY <1>1, <2>1, NoneAssumption DEF StepInv, Shape, Rebuilt
  <2>5. sse' \in [Requests -> Seq(Event)]
    <3>1. <<Updated(node)>> \in Seq(Event)
      BY <1>1, EventTypes
    <3>2. events \o <<Updated(node)>> \in Seq(Event)
      BY <3>1, ConcatProperties
    <3> QED  BY <1>4, <3>2, EmitType DEF StepInv, Shape
  <2> HIDE DEF data, new, plan, cursor, node
  <2>6. TaskOK(t)'
    BY <1>1, <1>2, <2>2, <2>3, <2>4 DEF TaskOK, IsLive
  <2>7. Shape' /\ StoreOK'
    <3>1. UNCHANGED store /\ running' \in Requests \cup {None}
      BY <1>4
    <3>2. Shape'
      BY <2>1, <2>3, <2>5, <3>1 DEF StepInv, Shape, Rebuilt
    <3>3. StoreOK'
      BY <2>4, <3>1 DEF StepInv, Shape, StoreOK
    <3> QED  BY <3>2, <3>3
  <2>8. RunningOK'
    BY <1>4, <2>2, <2>3 DEF RunningOK
  <2> QED  BY <1>1, <2>1, <2>3, <2>6, <2>7, <2>8, LocalChange
<1> QED  BY <1>3, <1>4 DEF CompleteNode

\* Where a task is when it runs a silent node, or takes up the answer of the model.
LEMMA AtNodeFacts ==
  ASSUME StepInv, NEW t \in Requests, NEW node, AtNode(t, node)
  PROVE  IsLive(t) /\ task[t].cursor < Len(task[t].plan)
BY DEF AtNode, AtLoopHead, IsLive

\* A task that takes up an answer has a node to complete.
LEMMA AnsweredFacts ==
  ASSUME StepInv, NEW t \in Requests, NEW node, Answered(t, node)
  PROVE  IsLive(t) /\ task[t].cursor < Len(task[t].plan) /\ ready' \in Seq(Requests)
<1>1. IsLive(t) /\ task[t].cursor < Len(task[t].plan)
  BY DEF Answered, Turn, IsLive, StepInv, TaskOK
<1>2. ready' \in Seq(Requests)
  BY HeadTailProperties DEF Answered, Turn, StepInv, Shape
<1> QED  BY <1>1, <1>2

\* What the nodes that run at once, and those that return from the model, have in
\* common: CompleteNode of a state of the right type.
\* A node adds one message at most, its own.
Replies(state, t) ==
  \/ state.messages = StateOf(t).messages
  \/ state.messages = Append(StateOf(t).messages, AIMessage(t))

\* What a node does to the fields that steer the CEO's plan.
Steers(old, new, node) ==
  /\ node = DispatchToDepartment => new = DispatchedToDepartment(old)
  /\ node = AnalyzeIntent => new.plan_step = 0
  /\ node \notin {DispatchToDepartment, AnalyzeIntent} =>
       new.plan = old.plan /\ new.plan_step = old.plan_step
  /\ node \in LEAD_PLAN_NODES => node = DEPT_LEAD_PLAN(new.current_department)

SilentNode(t) ==
  \E node, state :
    /\ AtNode(t, node) /\ node \notin PAUSABLE_NODES
    /\ state \in AgentState /\ Replies(state, t) /\ UNCHANGED ready
    /\ Steers(StateOf(t), state, node)
    /\ CompleteNode(t, state, <<Thinking(CurrentNode(t))>>)

\* A lead's answer is a sub-plan of its model, or its default one.
LeadPlans ==
  SubPlans \cup {p \in {DEPARTMENT_CONFIGS[d].default_sub_plan : d \in Departments} :
                   "malformed" \in Moves}
ModelNode(t) ==
  \E node, state :
    /\ Answered(t, node) /\ node \in PAUSABLE_NODES
    /\ state \in AgentState /\ Replies(state, t) /\ Steers(StateOf(t), state, node)
    /\ node \in LEAD_PLAN_NODES => state.sub_plan \in LeadPlans
    /\ CompleteNode(t, state, <<>>)

\* Nodes of different kinds are different.
LEMMA NodeKinds ==
  /\ DispatchToDepartment \notin PAUSABLE_NODES /\ TriggerActions \notin PAUSABLE_NODES
  /\ \A d : DEPT_DISPATCH(d) \notin PAUSABLE_NODES
  /\ AnalyzeIntent \notin LEAD_PLAN_NODES /\ SummarizeResult \notin LEAD_PLAN_NODES
  /\ \A a : AgentNode(a) \notin LEAD_PLAN_NODES
  /\ AGENT_NODES \cap LEAD_PLAN_NODES = {} /\ NoNode \notin PAUSABLE_NODES
  /\ {DispatchToDepartment, TriggerActions} \cap LEAD_PLAN_NODES = {}
  /\ \A d : DEPT_DISPATCH(d) \notin LEAD_PLAN_NODES \cup {DispatchToDepartment, AnalyzeIntent}
  /\ \A a : AgentNode(a) \notin {DispatchToDepartment, AnalyzeIntent}
  /\ DispatchToDepartment \notin {TriggerActions, SummarizeResult, AnalyzeIntent}
  /\ AnalyzeIntent \notin {TriggerActions, SummarizeResult}
  /\ DispatchToDepartment \in NODE_REGISTRY
  /\ AnalyzeIntent \in PAUSABLE_NODES /\ SummarizeResult \in PAUSABLE_NODES
  /\ PAUSABLE_NODES \subseteq NODE_REGISTRY /\ PAUSABLE_NODES = ModelNodes
BY DEF PAUSABLE_NODES, ModelNodes, NODE_REGISTRY, AGENT_NODES, LEAD_PLAN_NODES, DISPATCH_NODES,
       DispatchToDepartment, TriggerActions, DEPT_DISPATCH, DEPT_LEAD_PLAN, AgentNode,
       AnalyzeIntent, SummarizeResult, NoNode

\* A node that runs without giving up the loop.
LEMMA SilentNodeKeeps ==
  ASSUME StepInv, NEW t \in Requests, SilentNode(t)
  PROVE  StepInv'
<1>0. PICK node, state :
        /\ AtNode(t, node) /\ state \in AgentState /\ UNCHANGED ready
        /\ CompleteNode(t, state, <<Thinking(CurrentNode(t))>>)
  BY DEF SilentNode
<1>1. IsLive(t) /\ task[t].cursor < Len(task[t].plan)
  BY <1>0, AtNodeFacts
<1>2. <<Thinking(CurrentNode(t))>> \in Seq(Event)
  BY <1>1, LiveTask, EventTypes
<1>3. ready' \in Seq(Requests)
  BY <1>0 DEF StepInv, Shape
<1> QED  BY <1>0, <1>1, <1>2, <1>3, CompleteNodeKeeps

\* A node that takes up the answer of the model.
LEMMA ModelNodeKeeps ==
  ASSUME StepInv, NEW t \in Requests, ModelNode(t)
  PROVE  StepInv'
<1>1. <<>> \in Seq(Event)
  OBVIOUS
<1> QED  BY <1>1, AnsweredFacts, CompleteNodeKeeps DEF ModelNode

\* The CEO's dispatch completes its node with a state of the right type.
LEMMA RunDispatchToDepartmentIsSilent ==
  ASSUME StepInv, NEW t \in Requests, RunDispatchToDepartment(t)
  PROVE  SilentNode(t)
<1> DEFINE old == StateOf(t)
           new == DispatchedToDepartment(old)
<1>1. old \in AgentState
  BY AtNodeFacts, LiveTask DEF RunDispatchToDepartment
<1>2. new \in AgentState /\ new.messages = old.messages
  <2> HIDE DEF old
  <2>1. /\ old.plan \in Seq(Names) /\ Len(old.plan) \in Nat /\ old.plan_step \in Nat
    BY <1>1, LenProperties DEF AgentState
  <2>2. CASE old.plan_step >= Len(old.plan)
    <3>1. new = [old EXCEPT !.current_department = "CEO"]
      BY <2>2 DEF DispatchedToDepartment
    <3> QED  BY <1>1, <3>1, EmptyName DEF AgentState
  <2>3. CASE ~(old.plan_step >= Len(old.plan))
    <3>1. old.plan[old.plan_step + 1] \in Names /\ old.plan_step + 1 \in Nat
      BY <2>1, <2>3, ElementOfSeq
    <3>2. new = [old EXCEPT !.plan_step = @ + 1,
                            !.current_department = old.plan[old.plan_step + 1]]
      BY <2>3 DEF DispatchedToDepartment
    <3> QED  BY <1>1, <3>1, <3>2 DEF AgentState
  <2> QED  BY <2>2, <2>3
<1>3. Steers(old, new, DispatchToDepartment)
  BY NodeKinds DEF Steers
<1> QED  BY <1>2, <1>3, NodeKinds DEF RunDispatchToDepartment, SilentNode, Replies

\* So does a lead's.
LEMMA RunDispatchIsSilent ==
  ASSUME StepInv, NEW t \in Requests, RunDispatch(t)
  PROVE  SilentNode(t)
<1>1. PICK d \in Departments :
        /\ AtNode(t, DEPT_DISPATCH(d))
        /\ CompleteNode(t, DispatchedToAgent(StateOf(t)), <<Thinking(CurrentNode(t))>>)
  BY DEF RunDispatch
<1> DEFINE old == StateOf(t)
<1>2. old \in AgentState
  BY <1>1, AtNodeFacts, LiveTask
<1> HIDE DEF old
<1>3. /\ DispatchedToAgent(old) \in AgentState
      /\ DispatchedToAgent(old).messages = old.messages
      /\ DispatchedToAgent(old).plan = old.plan
      /\ DispatchedToAgent(old).plan_step = old.plan_step
  <2>1. old.sub_plan_step + 1 \in Nat
    BY <1>2 DEF AgentState
  <2>2. /\ [old EXCEPT !.sub_plan_step = @ + 1] \in AgentState
        /\ [old EXCEPT !.sub_plan_step = @ + 1].messages = old.messages
        /\ [old EXCEPT !.sub_plan_step = @ + 1].plan = old.plan
        /\ [old EXCEPT !.sub_plan_step = @ + 1].plan_step = old.plan_step
    BY <1>2, <2>1 DEF AgentState
  <2> QED  BY <1>2, <2>2 DEF DispatchedToAgent
<1>4. Steers(old, DispatchedToAgent(old), DEPT_DISPATCH(d))
  BY <1>3, NodeKinds DEF Steers
<1> QED  BY <1>1, <1>3, <1>4, NodeKinds DEF RunDispatch, old, SilentNode, Replies

\* So do the CEO's triggers.
LEMMA RunTriggerActionsIsSilent ==
  ASSUME StepInv, NEW t \in Requests, RunTriggerActions(t)
  PROVE  SilentNode(t)
<1> DEFINE old == StateOf(t)
           new == ActionsTriggered(old, t)
<1>1. old \in AgentState /\ CurrentNode(t) = TriggerActions
  BY AtNodeFacts, LiveTask DEF RunTriggerActions, AtNode
<1>2. /\ new \in AgentState
      /\ new.messages = old.messages \/ new.messages = Append(old.messages, AIMessage(t))
      /\ new.plan = old.plan /\ new.plan_step = old.plan_step
  <2> HIDE DEF old
  <2>1. /\ Reply(old, t) \in AgentState
        /\ Reply(old, t).messages = Append(old.messages, AIMessage(t))
        /\ Reply(old, t).plan = old.plan /\ Reply(old, t).plan_step = old.plan_step
    BY <1>1, ReplyType
  <2>2. TopLevel("REPAIR_TRIGGERED") \in ResultPlaces
    BY DEF ResultPlaces
  <2> DEFINE replied == Reply(old, t)
             triggered == [replied EXCEPT !.results = @ \cup {TopLevel("REPAIR_TRIGGERED")}]
  <2>3. /\ triggered \in AgentState /\ triggered.messages = replied.messages
        /\ triggered.plan = replied.plan /\ triggered.plan_step = replied.plan_step
    <3> HIDE DEF replied
    <3> QED  BY <2>1, <2>2 DEF AgentState, replied
  <2>4. new = triggered \/ new = old
    BY DEF ActionsTriggered
  <2> HIDE DEF triggered, new
  <2> QED  BY <1>1, <2>1, <2>3, <2>4
<1>3. Steers(old, new, TriggerActions)
  BY <1>2, NodeKinds DEF Steers
<1> QED  BY <1>1, <1>2, <1>3, NodeKinds DEF RunTriggerActions, SilentNode, Replies

\* The CEO's plan, empty, malformed or good, is a sequence of names.
LEMMA AnalyzeIntentReturnsIsModelNode ==
  ASSUME StepInv, NEW t \in Requests, AnalyzeIntentReturns(t)
  PROVE  ModelNode(t)
<1>1. Answered(t, AnalyzeIntent) /\ StateOf(t) \in AgentState
  BY AnsweredFacts, LiveTask DEF AnalyzeIntentReturns
<1> DEFINE planned(state, plan) == [state EXCEPT !.plan = plan, !.plan_step = 0]
<1>2. ASSUME NEW state \in AgentState, NEW plan \in Seq(Names)
      PROVE  /\ planned(state, plan) \in AgentState
             /\ planned(state, plan).messages = state.messages
             /\ planned(state, plan).plan_step = 0
  BY <1>2 DEF AgentState
<1>s. ASSUME NEW state, state.plan_step = 0  PROVE Steers(StateOf(t), state, AnalyzeIntent)
  BY <1>s, NodeKinds DEF Steers
<1>3. <<"CS">> \in Seq(Names)
  <2>1. \A S : \A name \in S : <<name>> \in Seq(S)
    OBVIOUS
  <2> QED  BY <2>1, EmptyName
<1>4. ASSUME NEW plan \in CeoPlans,
             CompleteNode(t, planned(Reply(StateOf(t), t),
                                     IF plan = <<>> THEN <<"CS">> ELSE plan), <<>>)
      PROVE  ModelNode(t)
  <2>1. (IF plan = <<>> THEN <<"CS">> ELSE plan) \in Seq(Names)
    BY <1>3, PlansAssumption
  <2> DEFINE replied == Reply(StateOf(t), t)
  <2>2. replied \in AgentState /\ replied.messages = Append(StateOf(t).messages, AIMessage(t))
    BY <1>1, ReplyType
  <2>3. PICK answer : answer = (IF plan = <<>> THEN <<"CS">> ELSE plan)
    OBVIOUS
  <2>4. /\ planned(replied, answer) \in AgentState
        /\ planned(replied, answer).messages = replied.messages
        /\ planned(replied, answer).plan_step = 0
    <3> HIDE DEF replied, planned
    <3> QED  BY <1>2, <2>1, <2>2, <2>3
  <2> HIDE DEF planned
  <2> QED  BY <1>1, <1>4, <1>s, <2>2, <2>3, <2>4, NodeKinds DEF ModelNode, Replies
<1>5. ASSUME CompleteNode(t, planned(StateOf(t), <<"CS">>), <<>>)
      PROVE  ModelNode(t)
  <2>1. /\ planned(StateOf(t), <<"CS">>) \in AgentState
        /\ planned(StateOf(t), <<"CS">>).messages = StateOf(t).messages
        /\ planned(StateOf(t), <<"CS">>).plan_step = 0
    BY <1>1, <1>2, <1>3
  <2> HIDE DEF planned
  <2> QED  BY <1>1, <1>5, <1>s, <2>1, NodeKinds DEF ModelNode, Replies
<1> QED  BY <1>4, <1>5 DEF AnalyzeIntentReturns

\* So is a lead's.
LEMMA LeadPlanReturnsIsModelNode ==
  ASSUME StepInv, NEW t \in Requests, LeadPlanReturns(t)
  PROVE  ModelNode(t)
<1> DEFINE planned(sub_plan, d) == [Reply(StateOf(t), t) EXCEPT
             !.sub_plan = sub_plan, !.sub_plan_step = 0, !.current_department = d]
<1>1. PICK d \in Departments :
        /\ Answered(t, DEPT_LEAD_PLAN(d))
        /\ \E sub_plan \in SubPlans \cup
              {p \in {DEPARTMENT_CONFIGS[d].default_sub_plan} : "malformed" \in Moves} :
             CompleteNode(t, planned(sub_plan, d), <<>>)
  BY DEF LeadPlanReturns
<1>2. PICK sub_plan \in SubPlans \cup
              {p \in {DEPARTMENT_CONFIGS[d].default_sub_plan} : "malformed" \in Moves} :
        CompleteNode(t, planned(sub_plan, d), <<>>)
  BY <1>1
<1>3. sub_plan \in Seq(Names) /\ d \in Names
  BY DefaultSubPlanType, PlansAssumption, NamesAssumption
<1>4. /\ Reply(StateOf(t), t) \in AgentState
      /\ Reply(StateOf(t), t).messages = Append(StateOf(t).messages, AIMessage(t))
      /\ Reply(StateOf(t), t).plan = StateOf(t).plan
      /\ Reply(StateOf(t), t).plan_step = StateOf(t).plan_step
  BY <1>1, AnsweredFacts, LiveTask, ReplyType
<1>5. /\ planned(sub_plan, d) \in AgentState
      /\ planned(sub_plan, d).messages = Reply(StateOf(t), t).messages
      /\ planned(sub_plan, d).sub_plan = sub_plan
      /\ planned(sub_plan, d).current_department = d
      /\ planned(sub_plan, d).plan = Reply(StateOf(t), t).plan
      /\ planned(sub_plan, d).plan_step = Reply(StateOf(t), t).plan_step
  BY <1>3, <1>4 DEF AgentState
<1> HIDE DEF planned
<1>6. DEPT_LEAD_PLAN(d) \in PAUSABLE_NODES /\ sub_plan \in LeadPlans
  BY <1>2 DEF PAUSABLE_NODES, LEAD_PLAN_NODES, LeadPlans
<1>7. Steers(StateOf(t), planned(sub_plan, d), DEPT_LEAD_PLAN(d))
  <2>1. DEPT_LEAD_PLAN(d) \notin {DispatchToDepartment, AnalyzeIntent}
    BY DEF DEPT_LEAD_PLAN, DispatchToDepartment, AnalyzeIntent
  <2> QED  BY <1>4, <1>5, <2>1 DEF Steers
<1> QED  BY <1>1, <1>2, <1>4, <1>5, <1>6, <1>7 DEF ModelNode, Replies

\* An agent writes messages and places of results.
LEMMA AgentReturnsIsModelNode ==
  ASSUME StepInv, NEW t \in Requests, AgentReturns(t)
  PROVE  ModelNode(t)
<1>1. PICK a \in SubAgents :
        /\ Answered(t, AgentNode(a))
        /\ CompleteNode(t, [Reply(StateOf(t), t) EXCEPT
                              !.results = @ \cup SUB_AGENT_CONFIGS[a].writes], <<>>)
  BY DEF AgentReturns
<1> DEFINE replied == Reply(StateOf(t), t)
           written == [replied EXCEPT !.results = @ \cup SUB_AGENT_CONFIGS[a].writes]
<1>2. /\ replied \in AgentState
      /\ replied.messages = Append(StateOf(t).messages, AIMessage(t))
      /\ replied.plan = StateOf(t).plan /\ replied.plan_step = StateOf(t).plan_step
  BY <1>1, AnsweredFacts, LiveTask, ReplyType
<1>3. /\ written \in AgentState /\ written.messages = replied.messages
      /\ written.plan = replied.plan /\ written.plan_step = replied.plan_step
  <2> HIDE DEF replied
  <2> QED  BY <1>2, WritesType DEF AgentState, replied
<1>4. AgentNode(a) \in PAUSABLE_NODES
  BY DEF PAUSABLE_NODES, AGENT_NODES
<1>5. Steers(StateOf(t), written, AgentNode(a))
  BY <1>2, <1>3, NodeKinds DEF Steers
<1> QED  BY <1>1, <1>2, <1>3, <1>4, <1>5, NodeKinds DEF ModelNode, Replies

\* The summary adds a message.
LEMMA SummarizeReturnsIsModelNode ==
  ASSUME StepInv, NEW t \in Requests, SummarizeReturns(t)
  PROVE  ModelNode(t)
<1>1. /\ Reply(StateOf(t), t) \in AgentState
      /\ Reply(StateOf(t), t).messages = Append(StateOf(t).messages, AIMessage(t))
      /\ Reply(StateOf(t), t).plan = StateOf(t).plan
      /\ Reply(StateOf(t), t).plan_step = StateOf(t).plan_step
  BY AnsweredFacts, LiveTask, ReplyType DEF SummarizeReturns
<1>2. Steers(StateOf(t), Reply(StateOf(t), t), SummarizeResult)
  BY <1>1, NodeKinds DEF Steers
<1> QED  BY <1>1, <1>2, NodeKinds DEF SummarizeReturns, ModelNode, Replies

\* Every answer of the model completes its node with a state of the right type.
LEMMA NodeReturnsIsModelNode ==
  ASSUME StepInv, NEW t \in Requests, NodeReturns(t)
  PROVE  ModelNode(t)
BY AnalyzeIntentReturnsIsModelNode, LeadPlanReturnsIsModelNode, AgentReturnsIsModelNode,
   SummarizeReturnsIsModelNode DEF NodeReturns

\* A task that calls the model has a node to go on with and a stream to write to.
LEMMA CallNodeKeeps ==
  ASSUME StepInv, NEW t \in Requests, CallNode(t)
  PROVE  StepInv'
<1> DEFINE writer == SessionOf(t).stream_writer
           new == [task[t] EXCEPT !.pc = "calling", !.streamed = FALSE, !.writer = writer]
<1>0. IsLive(t) /\ task[t].cursor < Len(task[t].plan)
  BY DEF CallNode, AtLoopHead, IsLive
<1>1. /\ task[t] \in Task /\ task[t].obj \in Requests /\ task[t].session_id \in SessionIds
      /\ sessionData[task[t].obj] # None /\ writer \in Requests /\ CurrentNode(t) \in NODE
      /\ task[t].cursor <= Len(task[t].plan)
  BY <1>0, LiveTask DEF SessionOf, SessionData
<1>2. /\ new \in Task /\ new.pc = "calling" /\ new.plan = task[t].plan
      /\ new.cursor = task[t].cursor /\ new.writer = writer
      /\ new.obj = task[t].obj /\ new.session_id = task[t].session_id
  <2> HIDE DEF writer
  <2> QED  BY <1>1 DEF Task
<1>3. /\ task' \in [Requests -> Task] /\ task'[t] = new
      /\ \A u \in Requests : u # t => task'[u] = task[u]
  <2>1. task' = [task EXCEPT ![t] = new]
    BY DEF CallNode
  <2> HIDE DEF new
  <2> QED  BY <1>2, <2>1 DEF StepInv, Shape
<1>4. UNCHANGED <<store, sessionData, ready>> /\ running' = None
  BY DEF CallNode
<1>5. sse' \in [Requests -> Seq(Event)]
  <2>1. <<Thinking(CurrentNode(t))>> \in Seq(Event)
    BY <1>1, EventTypes
  <2> QED  BY <2>1, EmitType DEF CallNode, StepInv, Shape
<1> HIDE DEF new, writer
<1>6. TaskOK(t)'
  BY <1>0, <1>1, <1>2, <1>3, <1>4 DEF TaskOK, IsLive
<1>7. Shape' /\ StoreOK' /\ RunningOK'
  BY <1>3, <1>4, <1>5 DEF StepInv, Shape, StoreOK, RunningOK
<1> QED  BY <1>3, <1>4, <1>6, <1>7, LocalChange

\* A token reaches one body and no session.
LEMMA StreamChunkKeeps ==
  ASSUME StepInv, NEW t \in Requests, StreamChunk(t)
  PROVE  StepInv'
<1> DEFINE new == [task[t] EXCEPT !.streamed = TRUE]
<1>0. IsLive(t) /\ task[t].cursor < Len(task[t].plan) /\ task[t].writer \in Requests
  BY DEF StreamChunk, IsLive, StepInv, TaskOK
<1>1. /\ task[t] \in Task /\ task[t].obj \in Requests /\ task[t].session_id \in SessionIds
      /\ sessionData[task[t].obj] # None /\ CurrentNode(t) \in NODE
      /\ task[t].cursor <= Len(task[t].plan)
  BY <1>0, LiveTask DEF SessionOf
<1>2. /\ new \in Task /\ new.pc = task[t].pc /\ new.plan = task[t].plan
      /\ new.cursor = task[t].cursor /\ new.writer = task[t].writer
      /\ new.obj = task[t].obj /\ new.session_id = task[t].session_id
  BY <1>1 DEF Task
<1>3. /\ task' \in [Requests -> Task] /\ task'[t] = new
      /\ \A u \in Requests : u # t => task'[u] = task[u]
  <2>1. task' = [task EXCEPT ![t] = new]
    BY DEF StreamChunk
  <2> HIDE DEF new
  <2> QED  BY <1>2, <2>1 DEF StepInv, Shape
<1>4. UNCHANGED <<store, sessionData, ready, running>>
  BY DEF StreamChunk
<1>5. sse' \in [Requests -> Seq(Event)]
  <2>1. Chunk(CurrentNode(t), t) \in Event
    BY <1>1, EventTypes
  <2>2. Append(sse[task[t].writer], Chunk(CurrentNode(t), t)) \in Seq(Event)
    BY <1>0, <2>1, AppendProperties DEF StepInv, Shape
  <2> QED  BY <1>0, <2>2 DEF StreamChunk, StepInv, Shape
<1> HIDE DEF new
<1>6. TaskOK(t)'
  BY <1>0, <1>1, <1>2, <1>3, <1>4 DEF TaskOK, IsLive
<1>7. Shape' /\ StoreOK'
  BY <1>3, <1>4, <1>5 DEF StepInv, Shape, StoreOK
<1>8. RunningOK'
  BY <1>4 DEF StreamChunk, RunningOK
<1> QED  BY <1>3, <1>4, <1>6, <1>7, <1>8, LocalChange

\* An answer puts its task back in the queue.
LEMMA ModelAnswersKeeps ==
  ASSUME StepInv, NEW t \in Requests, ModelAnswers(t)
  PROVE  StepInv'
<1> DEFINE new == [task[t] EXCEPT !.pc = "answered"]
<1>0. IsLive(t) /\ task[t].cursor < Len(task[t].plan) /\ task[t].writer \in Requests
  BY DEF ModelAnswers, IsLive, StepInv, TaskOK
<1>1. /\ task[t] \in Task /\ task[t].obj \in Requests /\ task[t].session_id \in SessionIds
      /\ sessionData[task[t].obj] # None /\ task[t].cursor <= Len(task[t].plan)
  BY <1>0, LiveTask DEF SessionOf
<1>2. /\ new \in Task /\ new.pc = "answered" /\ new.plan = task[t].plan
      /\ new.cursor = task[t].cursor /\ new.writer = task[t].writer
      /\ new.obj = task[t].obj /\ new.session_id = task[t].session_id
  BY <1>1 DEF Task
<1>3. /\ task' \in [Requests -> Task] /\ task'[t] = new
      /\ \A u \in Requests : u # t => task'[u] = task[u]
  <2>1. task' = [task EXCEPT ![t] = new]
    BY DEF ModelAnswers
  <2> HIDE DEF new
  <2> QED  BY <1>2, <2>1 DEF StepInv, Shape
<1>4. UNCHANGED <<store, sessionData, sse, running>>
  BY DEF ModelAnswers
<1>5. ready' \in Seq(Requests)
  BY AppendProperties DEF ModelAnswers, StepInv, Shape
<1> HIDE DEF new
<1>6. TaskOK(t)'
  BY <1>0, <1>1, <1>2, <1>3, <1>4 DEF TaskOK, IsLive
<1>7. Shape' /\ StoreOK'
  BY <1>3, <1>4, <1>5 DEF StepInv, Shape, StoreOK
<1>8. RunningOK'
  BY <1>4 DEF ModelAnswers, RunningOK
<1> QED  BY <1>3, <1>4, <1>6, <1>7, <1>8, LocalChange

\* A failed call ends its task and saves nothing.
LEMMA NodeRaisesKeeps ==
  ASSUME StepInv, NEW t \in Requests, NodeRaises(t)
  PROVE  StepInv'
<1>1. /\ task' \in [Requests -> Task] /\ TaskOK(t)' /\ RunningOK'
      /\ running' = None /\ \A u \in Requests : u # t => task'[u] = task[u]
  BY EndTaskKeeps DEF NodeRaises
<1>2. sse' \in [Requests -> Seq(Event)] /\ ready' \in Seq(Requests)
  <2>1. <<ErrorEvent, End>> \in Seq(Event)
    BY EventTypes
  <2> QED  BY <2>1, EmitType, AnsweredFacts DEF NodeRaises, StepInv, Shape
<1>3. UNCHANGED <<store, sessionData>>
  BY DEF NodeRaises
<1>4. Shape' /\ StoreOK'
  BY <1>1, <1>2, <1>3 DEF StepInv, Shape, StoreOK
<1> QED  BY <1>1, <1>3, <1>4, LocalChange

\* A finished plan drops the id from the store and leaves the object alone.
LEMMA FinishPlanKeeps ==
  ASSUME StepInv, NEW t \in Requests, FinishPlan(t)
  PROVE  StepInv'
<1>0. IsLive(t)
  BY DEF FinishPlan, IsLive
<1>1. /\ task' \in [Requests -> Task] /\ TaskOK(t)' /\ RunningOK'
      /\ running' = None /\ \A u \in Requests : u # t => task'[u] = task[u]
  BY EndTaskKeeps DEF FinishPlan
<1>2. sse' \in [Requests -> Seq(Event)]
  <2>1. StateOf(t).messages \in Seq(Message)
    BY <1>0, LiveTask DEF AgentState
  <2>2. <<Final(LastReply(StateOf(t).messages)), End>> \in Seq(Event)
    <3>1. Final(LastReply(StateOf(t).messages)) \in Event /\ End \in Event
      BY <2>1, LastReplyType, EventTypes
    <3> QED  BY <3>1
  <2> QED  BY <2>2, EmitType DEF FinishPlan, StepInv, Shape
<1>3. UNCHANGED <<sessionData, ready>>
  BY DEF FinishPlan
<1>4. Shape' /\ StoreOK'
  BY <1>1, <1>2, <1>3 DEF FinishPlan, StepInv, Shape, StoreOK
<1> QED  BY <1>1, <1>3, <1>4, LocalChange

\* A restart empties the store and ends every task.
LEMMA RestartKeeps ==
  ASSUME StepInv, Restart
  PROVE  StepInv'
<1>1. ASSUME NEW t \in Requests
      PROVE  /\ task'[t] \in Task /\ TaskOK(t)'
  <2>1. /\ task[t] \in Task /\ task[t].cursor <= Len(task[t].plan)
        /\ task'[t] = IF IsLive(t) THEN [task[t] EXCEPT !.pc = "lost"] ELSE task[t]
    BY DEF Restart, StepInv, Shape, TaskOK
  <2>2. CASE IsLive(t)
    <3> DEFINE new == [task[t] EXCEPT !.pc = "lost"]
    <3>1. /\ new \in Task /\ new.pc = "lost" /\ new.plan = task[t].plan
          /\ new.cursor = task[t].cursor
      BY <2>1 DEF Task
    <3>2. task'[t] = new
      BY <2>1, <2>2
    <3> HIDE DEF new
    <3> QED  BY <2>1, <3>1, <3>2 DEF TaskOK, IsLive
  <2>3. CASE ~IsLive(t)
    BY <2>1, <2>3 DEF TaskOK, IsLive
  <2> QED  BY <2>2, <2>3
<1>2. Shape'
  <2>1. <<>> \in Seq(Requests)
    OBVIOUS
  <2> QED  BY <1>1, <2>1 DEF Restart, StepInv, Shape
<1>3. (\A o \in Requests : SessionOK(o)') /\ StoreOK' /\ RunningOK'
  BY DEF Restart, StepInv, SessionOK, StoreOK, RunningOK
<1> QED  BY <1>1, <1>2, <1>3 DEF StepInv

----------------------------------------------------------------------------
(* The theorems.                                                           *)

\* A step of a handler, of a task or of the operator, whatever the environment may do:
\* the steps of Next, and those a client makes.
Handled(r, sid) ==
  \/ \E target \in Targets : FreshRequest(r, sid, target)
  \/ ResumeWithMessage(r, sid)
  \/ \E action \in {"continue", "regenerate", "modify"} : Confirm(r, sid, action)
  \/ ConfirmExpired(r, sid)
Step ==
  \/ \E r \in Requests, sid \in SessionIds : Handled(r, sid)
  \/ \E sid \in SessionIds : StopChat(sid)
  \/ \E t \in Requests : Advance(t) \/ StreamChunk(t)
  \/ Restart

\* The environment of Next takes no other steps.
LEMMA NextIsStep == Next => Step
<1>1. ASSUME NEW r \in Requests, NEW sid \in SessionIds, Handle(r, sid)  PROVE Handled(r, sid)
  <2>1. {"continue"} \cup (Moves \cap {"regenerate", "modify"})
          \subseteq {"continue", "regenerate", "modify"}
    OBVIOUS
  <2> QED  BY <1>1, <2>1 DEF Handle, Handled
<1> QED  BY <1>1 DEF Next, Step

\* Every step keeps the invariant.
LEMMA StepInvInductive == StepInv /\ [Step]_vars => StepInv'
<1> SUFFICES ASSUME StepInv, [Step]_vars  PROVE StepInv'
  OBVIOUS
<1>1. ASSUME NEW r \in Requests, NEW sid \in SessionIds, Handled(r, sid)  PROVE StepInv'
  BY <1>1, ConfirmKeeps, FreshRequestKeeps, ResumeWithMessageKeeps, ConfirmExpiredKeeps
     DEF Handled
<1>2. ASSUME NEW sid \in SessionIds, StopChat(sid)  PROVE StepInv'
  BY <1>2, StopChatKeeps
<1>3. ASSUME NEW t \in Requests, Advance(t)  PROVE StepInv'
  <2>1. CASE StartTask(t)                BY <2>1, StartTaskKeeps
  <2>2. CASE StopAtCheck(t)              BY <2>2, StopAtCheckKeeps
  <2>3. CASE SkipUnknownNode(t)          BY <2>3, SkipUnknownNodeKeeps
  <2>4. CASE RunDispatchToDepartment(t) \/ RunDispatch(t) \/ RunTriggerActions(t)
    BY <2>4, SilentNodeKeeps, RunDispatchToDepartmentIsSilent, RunDispatchIsSilent,
       RunTriggerActionsIsSilent
  <2>5. CASE CallNode(t)                 BY <2>5, CallNodeKeeps
  <2>6. CASE ModelAnswers(t)             BY <2>6, ModelAnswersKeeps
  <2>7. CASE NodeReturns(t)
    BY <2>7, NodeReturnsIsModelNode, ModelNodeKeeps
  <2>8. CASE NodeRaises(t)              BY <2>8, NodeRaisesKeeps
  <2>9. CASE FinishPlan(t)              BY <2>9, FinishPlanKeeps
  <2> QED  BY <1>3, <2>1, <2>2, <2>3, <2>4, <2>5, <2>6, <2>7, <2>8, <2>9
           DEF Advance
<1>4. ASSUME NEW t \in Requests, StreamChunk(t)  PROVE StepInv'
  BY <1>4, StreamChunkKeeps
<1>5. CASE Restart
  BY <1>5, RestartKeeps
<1>6. CASE UNCHANGED vars
  BY <1>6 DEF vars, StepInv, Shape, SessionOK, TaskOK, IsLive, StoreOK, RunningOK
<1> QED  BY <1>1, <1>2, <1>3, <1>4, <1>5, <1>6 DEF Step

\* The inductive invariant holds always: a task at work has an object, a session has a
\* cursor within its plan, and only a task in its loop has the event loop to itself.
THEOREM StepInvariant == Spec => []StepInv
<1> QED  BY InitStepInv, StepInvInductive, NextIsStep, PTL DEF Spec

\* Every variable keeps its type: plans stay sequences of nodes, bodies of events,
\* whatever names the models answer with.
THEOREM TypeCorrect == Spec => []TypeOK
<1>1. StepInv => TypeOK
  BY StepInvTypes
<1> QED  BY <1>1, StepInvariant, PTL

\* No cursor, of a session or of a task, leaves the plan it goes with, for any number of
\* overlapping requests: the executor never reads past a plan.
THEOREM CursorsStayInPlans == Spec => []CursorInPlan
<1>1. StepInv => CursorInPlan
  BY StepInvTypes
<1> QED  BY <1>1, StepInvariant, PTL

----------------------------------------------------------------------------
(* What a step of a task does, case by case: to its own entry, to the object *)
(* it works on, to its body and to its place in the store.                  *)

\* Nothing else changes.
OnlyTask(t, new, data, kept, said) ==
  /\ task' = [task EXCEPT ![t] = new]
  /\ sessionData' = [sessionData EXCEPT ![task[t].obj] = data]
  /\ store' = [store EXCEPT ![task[t].session_id] = kept]
  /\ Emit(t, said)

Kept(t) == store[task[t].session_id]

\* The first run: plan and cursor of the session.
Begins(t) ==
  /\ task[t].pc = "created"
  /\ OnlyTask(t, [task[t] EXCEPT !.pc = "loop", !.plan = SessionOf(t).execution_plan,
                                 !.cursor = SessionOf(t).cursor],
              SessionOf(t), Kept(t), <<>>)

\* A node that does not ask the user: unknown, or run at once.
Passes(t) ==
  /\ task[t].pc = "loop" /\ task[t].cursor < Len(task[t].plan)
  /\ CurrentNode(t) \notin PAUSABLE_NODES
  /\ ~SessionOf(t).cancelled
  /\ \E state \in AgentState, said \in {<<>>, <<Thinking(CurrentNode(t)), Updated(CurrentNode(t))>>} :
       /\ Replies(state, t) /\ Steers(StateOf(t), state, CurrentNode(t))
       /\ OnlyTask(t, [task[t] EXCEPT !.cursor = @ + 1],
                   [SessionOf(t) EXCEPT !.state = state], Kept(t), said)

Calls(t) ==
  /\ task[t].pc = "loop" /\ task[t].cursor < Len(task[t].plan)
  /\ CurrentNode(t) \in PAUSABLE_NODES
  /\ OnlyTask(t, [task[t] EXCEPT !.pc = "calling", !.streamed = FALSE,
                                 !.writer = SessionOf(t).stream_writer],
              SessionOf(t), Kept(t), <<Thinking(CurrentNode(t))>>)

IsAnswered(t) ==
  /\ task[t].pc = "calling"
  /\ OnlyTask(t, [task[t] EXCEPT !.pc = "answered"], SessionOf(t), Kept(t), <<>>)

\* A node that asks the user: the session is saved and the task ends.
Pauses(t) ==
  /\ task[t].pc = "answered" /\ CurrentNode(t) \in PAUSABLE_NODES
  /\ \E state \in AgentState :
       LET cursor == task[t].cursor + 1
           plan   == ExpandPlanAfterNode(state, task[t].plan, cursor, CurrentNode(t))
       IN  /\ Replies(state, t) /\ Steers(StateOf(t), state, CurrentNode(t))
           /\ CurrentNode(t) \in LEAD_PLAN_NODES => state.sub_plan \in LeadPlans
           /\ OnlyTask(t, [task[t] EXCEPT !.pc = "done"],
                       Paused(SessionOf(t), state, plan, cursor, CurrentNode(t)),
                       task[t].obj,
                       <<Updated(CurrentNode(t)),
                         AwaitingConfirmation(CurrentNode(t), FindNextPausable(plan, cursor),
                                              cursor >= Len(plan)),
                         End>>)

Raises(t) ==
  /\ task[t].pc = "answered" /\ "raise" \in Moves
  /\ OnlyTask(t, [task[t] EXCEPT !.pc = "done"], SessionOf(t), Kept(t), <<ErrorEvent, End>>)

Stops(t) ==
  /\ task[t].pc = "loop" /\ SessionOf(t).cancelled
  /\ OnlyTask(t, [task[t] EXCEPT !.pc = "done"],
              [SessionOf(t) EXCEPT !.execution_plan = task[t].plan,
                                   !.cursor = task[t].cursor],
              task[t].obj, <<Stopped, End>>)

\* The plan is done: the session is dropped.
Finishes(t) ==
  /\ task[t].pc = "loop" /\ task[t].cursor >= Len(task[t].plan)
  /\ OnlyTask(t, [task[t] EXCEPT !.pc = "done"], SessionOf(t), None,
              <<Final(LastReply(StateOf(t).messages)), End>>)

TaskStep(t) ==
  \/ Begins(t) \/ Passes(t) \/ Calls(t) \/ IsAnswered(t)
  \/ Pauses(t) \/ Raises(t) \/ Stops(t) \/ Finishes(t)

\* Two events said in a row.
LEMMA TwoEvents == \A a, b \in Event : <<a>> \o <<b>> = <<a, b>>
<1> SUFFICES ASSUME NEW a \in Event, NEW b \in Event  PROVE <<a>> \o <<b>> = <<a, b>>
  OBVIOUS
<1>1. /\ <<a>> \in Seq(Event) /\ <<b>> \in Seq(Event) /\ <<a, b>> \in Seq(Event)
      /\ Len(<<a>>) = 1 /\ Len(<<b>>) = 1 /\ Len(<<a, b>>) = 2
  OBVIOUS
<1>2. PICK s \in Seq(Event) : s = <<a>>
  BY <1>1
<1>3. PICK u \in Seq(Event) : u = <<b>>
  BY <1>1
<1>4. /\ s \o u \in Seq(Event) /\ Len(s \o u) = 2
      /\ (s \o u)[1] = s[1] /\ (s \o u)[2] = u[1]
  BY <1>1, <1>2, <1>3, ConcatProperties
<1>5. \A i \in 1..Len(s \o u) : (s \o u)[i] = <<a, b>>[i]
  BY <1>2, <1>3, <1>4
<1> QED  BY <1>1, <1>2, <1>3, <1>4, <1>5, SeqEqual

\* What a step leaves as it is.
LEMMA Unchanging ==
  ASSUME StepInv, NEW t \in Requests, IsLive(t)
  PROVE  /\ sessionData = [sessionData EXCEPT ![task[t].obj] = SessionOf(t)]
         /\ store = [store EXCEPT ![task[t].session_id] = Kept(t)]
         /\ sse = [sse EXCEPT ![t] = sse[t] \o <<>>]
<1>1. task[t].obj \in Requests /\ task[t].session_id \in SessionIds /\ sse[t] \in Seq(Event)
  BY LiveTask DEF StepInv, Shape
<1>2. sse[t] \o <<>> = sse[t]
  BY <1>1
<1> QED  BY <1>1, <1>2 DEF StepInv, Shape, SessionOf, Kept

\* The node a task stands at completes, and asks the user or not.
LEMMA CompletesNode ==
  ASSUME StepInv, NEW t \in Requests, IsLive(t), NEW state, NEW events,
         CompleteNode(t, state, events)
  PROVE  LET node   == CurrentNode(t)
             cursor == task[t].cursor + 1
             plan   == ExpandPlanAfterNode(state, task[t].plan, cursor, node)
         IN  \/ /\ node \in PAUSABLE_NODES
                /\ OnlyTask(t, [task[t] EXCEPT !.pc = "done"],
                            Paused(SessionOf(t), state, plan, cursor, node), task[t].obj,
                            events \o <<Updated(node),
                              AwaitingConfirmation(node, FindNextPausable(plan, cursor),
                                                   cursor >= Len(plan)), End>>)
             \/ /\ node \notin PAUSABLE_NODES
                /\ OnlyTask(t, [task[t] EXCEPT !.pc = "loop", !.plan = plan,
                                               !.cursor = cursor],
                            [SessionOf(t) EXCEPT !.state = state], Kept(t),
                            events \o <<Updated(node)>>)
BY Unchanging DEF CompleteNode, OnlyTask, EndTask, SessionOf

\* Each step of a task is one of these.
LEMMA AdvanceIsTaskStep ==
  ASSUME StepInv, NEW t \in Requests, Advance(t)
  PROVE  IsLive(t) /\ TaskStep(t)
<1>1. CASE StartTask(t)
  <2>1. IsLive(t)
    BY <1>1 DEF StartTask, Turn, IsLive
  <2>2. Begins(t)
    BY <1>1, <2>1, Unchanging DEF StartTask, Turn, Begins, OnlyTask, Emit
  <2> QED  BY <2>1, <2>2 DEF TaskStep
<1>2. CASE StopAtCheck(t)
  <2>1. IsLive(t)
    BY <1>2 DEF StopAtCheck, AtLoopHead, IsLive
  <2>2. Stops(t)
    BY <1>2, <2>1, Unchanging DEF StopAtCheck, AtLoopHead, Stops, OnlyTask, EndTask, SessionOf
  <2> QED  BY <2>1, <2>2 DEF TaskStep
<1>3. CASE SkipUnknownNode(t)
  <2>1. IsLive(t)
    BY <1>3 DEF SkipUnknownNode, AtLoopHead, IsLive
  <2>2. /\ StateOf(t) \in AgentState /\ SessionOf(t) \in SessionData
        /\ Replies(StateOf(t), t)
    BY <2>1, LiveTask DEF Replies
  <2>s. Steers(StateOf(t), StateOf(t), CurrentNode(t))
    BY <1>3 DEF SkipUnknownNode, NODE_REGISTRY, Steers
  <2>3. [SessionOf(t) EXCEPT !.state = StateOf(t)] = SessionOf(t)
    BY <2>2 DEF StateOf, SessionData
  <2>4. /\ CurrentNode(t) \notin PAUSABLE_NODES /\ ~SessionOf(t).cancelled
        /\ task[t].pc = "loop" /\ task[t].cursor < Len(task[t].plan)
    BY <1>3, NodeKinds DEF SkipUnknownNode, AtLoopHead
  <2>5. OnlyTask(t, [task[t] EXCEPT !.cursor = @ + 1],
                 [SessionOf(t) EXCEPT !.state = StateOf(t)], Kept(t), <<>>)
    BY <1>3, <2>1, <2>3, Unchanging DEF SkipUnknownNode, OnlyTask, Emit
  <2>6. Passes(t)
    BY <2>2, <2>4, <2>5, <2>s DEF Passes
  <2> QED  BY <2>1, <2>6 DEF TaskStep
<1>4. CASE RunDispatchToDepartment(t) \/ RunDispatch(t) \/ RunTriggerActions(t)
  <2>1. SilentNode(t)
    BY <1>4, RunDispatchToDepartmentIsSilent, RunDispatchIsSilent, RunTriggerActionsIsSilent
  <2>2. PICK state \in AgentState :
          /\ AtNode(t, CurrentNode(t)) /\ CurrentNode(t) \notin PAUSABLE_NODES
          /\ Replies(state, t) /\ Steers(StateOf(t), state, CurrentNode(t))
          /\ CompleteNode(t, state, <<Thinking(CurrentNode(t))>>)
    BY <2>1 DEF SilentNode, AtNode
  <2>3. IsLive(t) /\ task[t].pc = "loop" /\ task[t].cursor < Len(task[t].plan)
        /\ ~SessionOf(t).cancelled
    BY <2>2 DEF AtNode, AtLoopHead, IsLive
  <2> DEFINE cursor == task[t].cursor + 1
             plan == ExpandPlanAfterNode(state, task[t].plan, cursor, CurrentNode(t))
             thought == <<Thinking(CurrentNode(t))>>
  <2>4. OnlyTask(t, [task[t] EXCEPT !.pc = "loop", !.plan = plan, !.cursor = cursor],
                 [SessionOf(t) EXCEPT !.state = state], Kept(t),
                 thought \o <<Updated(CurrentNode(t))>>)
    BY <2>2, <2>3, CompletesNode
  <2>5. plan = task[t].plan
    BY <2>2 DEF ExpandPlanAfterNode, PAUSABLE_NODES
  <2>6. [task[t] EXCEPT !.pc = "loop", !.plan = plan, !.cursor = cursor]
          = [task[t] EXCEPT !.cursor = @ + 1]
    <3>1. task[t] \in Task
      BY <2>3, LiveTask
    <3> HIDE DEF plan
    <3> QED  BY <2>3, <2>5, <3>1 DEF Task
  <2>7. thought \o <<Updated(CurrentNode(t))>>
          = <<Thinking(CurrentNode(t)), Updated(CurrentNode(t))>>
    BY <2>3, LiveTask, EventTypes, TwoEvents
  <2>8. OnlyTask(t, [task[t] EXCEPT !.cursor = @ + 1],
                 [SessionOf(t) EXCEPT !.state = state], Kept(t),
                 <<Thinking(CurrentNode(t)), Updated(CurrentNode(t))>>)
    BY <2>4, <2>6, <2>7
  <2>9. Passes(t)
    BY <2>2, <2>3, <2>8 DEF Passes
  <2> QED  BY <2>3, <2>9 DEF TaskStep
<1>5. CASE CallNode(t)
  <2>1. IsLive(t)
    BY <1>5 DEF CallNode, AtLoopHead, IsLive
  <2>2. Calls(t)
    BY <1>5, <2>1, Unchanging, NodeKinds DEF CallNode, AtLoopHead, Calls, OnlyTask
  <2> QED  BY <2>1, <2>2 DEF TaskStep
<1>6. CASE ModelAnswers(t)
  <2>1. IsLive(t)
    BY <1>6 DEF ModelAnswers, IsLive
  <2>2. IsAnswered(t)
    BY <1>6, <2>1, Unchanging DEF ModelAnswers, IsAnswered, OnlyTask, Emit
  <2> QED  BY <2>1, <2>2 DEF TaskStep
<1>7. CASE NodeReturns(t)
  <2>1. ModelNode(t)
    BY <1>7, NodeReturnsIsModelNode
  <2>2. PICK state \in AgentState :
          /\ Answered(t, CurrentNode(t)) /\ CurrentNode(t) \in PAUSABLE_NODES
          /\ Replies(state, t) /\ Steers(StateOf(t), state, CurrentNode(t))
          /\ CurrentNode(t) \in LEAD_PLAN_NODES => state.sub_plan \in LeadPlans
          /\ CompleteNode(t, state, <<>>)
    BY <2>1 DEF ModelNode, Answered
  <2>3. IsLive(t) /\ task[t].pc = "answered"
    BY <2>2 DEF Answered, Turn, IsLive
  <2> DEFINE cursor == task[t].cursor + 1
             plan == ExpandPlanAfterNode(state, task[t].plan, cursor, CurrentNode(t))
             said == <<Updated(CurrentNode(t)),
                       AwaitingConfirmation(CurrentNode(t), FindNextPausable(plan, cursor),
                                            cursor >= Len(plan)), End>>
  <2>4. OnlyTask(t, [task[t] EXCEPT !.pc = "done"],
                 Paused(SessionOf(t), state, plan, cursor, CurrentNode(t)), task[t].obj,
                 <<>> \o said)
    BY <2>2, <2>3, CompletesNode
  <2>5. <<>> \o said = said
    OBVIOUS
  <2>6. Pauses(t)
    BY <2>2, <2>3, <2>4, <2>5 DEF Pauses
  <2> QED  BY <2>3, <2>6 DEF TaskStep
<1>8. CASE NodeRaises(t)
  <2>1. IsLive(t)
    BY <1>8, AnsweredFacts DEF NodeRaises
  <2>2. Raises(t)
    BY <1>8, <2>1, Unchanging DEF NodeRaises, Answered, Turn, Raises, OnlyTask, EndTask
  <2> QED  BY <2>1, <2>2 DEF TaskStep
<1>9. CASE FinishPlan(t)
  <2>1. IsLive(t)
    BY <1>9 DEF FinishPlan, IsLive
  <2>2. Finishes(t)
    BY <1>9, <2>1, Unchanging DEF FinishPlan, Finishes, OnlyTask, EndTask
  <2> QED  BY <2>1, <2>2 DEF TaskStep
<1> QED  BY <1>1, <1>2, <1>3, <1>4, <1>5, <1>6, <1>7, <1>8, <1>9 DEF Advance

\* What a pause says and leaves, with the types it has.
Says(node, next, is_final) ==
  <<Updated(node), AwaitingConfirmation(node, next, is_final), End>>

PausesAt(t, node, state, plan, cursor, next, is_final) ==
  /\ task[t].pc = "answered" /\ node = CurrentNode(t) /\ node \in PAUSABLE_NODES /\ node \in NODE
  /\ cursor = task[t].cursor + 1 /\ cursor \in 1..Len(plan) /\ plan \in Seq(NODE)
  /\ plan[cursor] = node /\ next = FindNextPausable(plan, cursor)
  /\ plan = ExpandPlanAfterNode(state, task[t].plan, cursor, node)
  /\ state \in AgentState /\ Replies(state, t) /\ Steers(StateOf(t), state, node)
  /\ Says(node, next, is_final) \in Seq(Event)
  /\ OnlyTask(t, [task[t] EXCEPT !.pc = "done"],
              Paused(SessionOf(t), state, plan, cursor, node), task[t].obj,
              Says(node, next, is_final))

LEMMA PausesSomewhere ==
  ASSUME StepInv, NEW t \in Requests, IsLive(t), Pauses(t)
  PROVE  \E node, state, plan, cursor, next, is_final :
           PausesAt(t, node, state, plan, cursor, next, is_final)
<1>0. task[t].pc = "answered"
  BY DEF Pauses
<1>1. PICK state, node, cursor, plan :
        /\ state \in AgentState
        /\ node = CurrentNode(t) /\ node \in PAUSABLE_NODES
        /\ cursor = task[t].cursor + 1
        /\ plan = ExpandPlanAfterNode(state, task[t].plan, cursor, node)
        /\ Replies(state, t) /\ Steers(StateOf(t), state, node)
        /\ OnlyTask(t, [task[t] EXCEPT !.pc = "done"],
                    Paused(SessionOf(t), state, plan, cursor, node), task[t].obj,
                    <<Updated(node),
                      AwaitingConfirmation(node, FindNextPausable(plan, cursor),
                                           cursor >= Len(plan)),
                      End>>)
  BY DEF Pauses
<1>2. /\ task[t].cursor \in Nat /\ Len(task[t].plan) \in Nat
      /\ task[t].cursor < Len(task[t].plan) /\ task[t].plan \in Seq(NODE)
  BY LiveTask DEF Pauses, StepInv, TaskOK
<1>3. /\ cursor \in 1..Len(task[t].plan) /\ cursor \in 0..Len(task[t].plan)
      /\ cursor \in Nat /\ node = task[t].plan[cursor] /\ node \in NODE
  BY <1>1, <1>2, LiveTask DEF CurrentNode
<1>4. /\ plan \in Seq(NODE) /\ cursor <= Len(plan) /\ Len(plan) \in Nat
      /\ plan[cursor] = task[t].plan[cursor]
  <2>1. /\ state.plan \in Seq(Names) /\ state.sub_plan \in Seq(Names)
        /\ state.current_department \in Names
    BY <1>1 DEF AgentState
  <2>2. cursor \in 1..cursor
    BY <1>3
  <2> QED  BY <1>1, <1>2, <1>3, <2>1, <2>2, ExpansionKeepsThePast, LenProperties
<1>5. plan[cursor] = node
  BY <1>3, <1>4
<1>6. PICK next \in NODE \cup {NoNode}, is_final \in BOOLEAN :
        /\ next = FindNextPausable(plan, cursor) /\ is_final = (cursor >= Len(plan))
  <2>1. FindNextPausable(plan, cursor) \in NODE \cup {NoNode}
    BY <1>3, <1>4, FindNextPausableType
  <2>2. (cursor >= Len(plan)) \in BOOLEAN
    OBVIOUS
  <2> QED  BY <2>1, <2>2, Zenon
<1>7. Says(node, next, is_final) \in Seq(Event)
  <2>1. /\ Updated(node) \in Event /\ AwaitingConfirmation(node, next, is_final) \in Event
        /\ End \in Event
    BY <1>3, <1>6, EventTypes
  <2>2. \A a, b, c \in Event : <<a, b, c>> \in Seq(Event)
    OBVIOUS
  <2> QED  BY <2>1, <2>2 DEF Says
<1>8. OnlyTask(t, [task[t] EXCEPT !.pc = "done"],
               Paused(SessionOf(t), state, plan, cursor, node), task[t].obj,
               Says(node, next, is_final))
  BY <1>1, <1>6 DEF Says
<1>9. cursor \in 1..Len(plan)
  BY <1>3, <1>4
<1> QED  BY <1>0, <1>1, <1>3, <1>4, <1>5, <1>6, <1>7, <1>8, <1>9, Zenon DEF PausesAt

----------------------------------------------------------------------------
(* What a handler that accepts a request does.                             *)

\* The request gets a task on object o, which becomes data and is what sid holds.
Binds(r, sid, o, data) ==
  /\ task[r].pc = "none" /\ running = None
  /\ task' = [task EXCEPT ![r] = [task[r] EXCEPT !.pc = "created", !.session_id = sid,
                                                 !.obj = o]]
  /\ sessionData' = [sessionData EXCEPT ![o] = data]
  /\ store' = [store EXCEPT ![sid] = o]
  /\ UNCHANGED sse

Opened(r, target) ==
  [state |-> InitialState(r),
   execution_plan |-> ComputeInitialPlan(Mode(target), target.agent),
   cursor |-> 0, last_node |-> NoNode, cancelled |-> FALSE, stream_writer |-> r]

\* What a session that goes on keeps.
Resumes(r, old, data) ==
  /\ data \in SessionData /\ ~data.cancelled /\ data.stream_writer = r
  /\ data.execution_plan = old.execution_plan /\ data.last_node = old.last_node
  /\ data.cursor \in {old.cursor, StepBack(old.cursor)}
  /\ data.state.plan = old.state.plan /\ data.state.plan_step = old.state.plan_step
  /\ data.state.current_department = old.state.current_department
  /\ data.state.messages \in {old.state.messages,
                              Append(old.state.messages, UserMessage(r))}

\* A fresh request opens a session of its own.
LEMMA FreshRequestBinds ==
  ASSUME StepInv, NEW r \in Requests, NEW sid, NEW target, FreshRequest(r, sid, target)
  PROVE  Binds(r, sid, r, Opened(r, target))
BY DEF FreshRequest, CreateTask, Binds, Opened

\* A session that a stop or a pause left is resumed by a message or by a decision.
LEMMA ConfirmBinds ==
  ASSUME StepInv, NEW r \in Requests, NEW sid \in SessionIds,
         NEW action \in {"continue", "regenerate", "modify"}, Confirm(r, sid, action)
  PROVE  LET old  == sessionData[store[sid]]
             data == Confirmed(Resumed(old, r), r, action)
         IN  /\ store[sid] \in Requests /\ old \in SessionData
             /\ Binds(r, sid, store[sid], data) /\ Resumes(r, old, data)
             /\ data.cursor = IF action = "continue" THEN old.cursor ELSE StepBack(old.cursor)
             /\ data.state.messages = IF action = "modify"
                                      THEN Append(old.state.messages, UserMessage(r))
                                      ELSE old.state.messages
<1> DEFINE old == sessionData[store[sid]]
           woken == Resumed(old, r)
           back == [woken EXCEPT !.cursor = StepBack(@)]
<1>1. store[sid] \in Requests /\ old \in SessionData
  BY DEF Confirm, StepInv, Shape, StoreOK, SessionOK
<1>2. store = [store EXCEPT ![sid] = store[sid]]
  BY DEF StepInv, Shape
<1>3. Binds(r, sid, store[sid], Confirmed(woken, r, action))
  BY <1>2 DEF Confirm, CreateTask, Binds
<1>4. Resumes(r, old, woken) /\ woken.cursor = old.cursor /\ woken.state = old.state
  BY <1>1 DEF Resumed, Resumes, SessionData
<1>5. /\ Resumes(r, old, back) /\ back.cursor = StepBack(old.cursor)
      /\ back.state = old.state
  <2>1. StepBack(old.cursor) \in Nat
    BY <1>1 DEF StepBack, SessionData
  <2> HIDE DEF woken, old
  <2> QED  BY <1>4, <2>1 DEF Resumes, SessionData
<1>6. CASE action = "continue"
  BY <1>1, <1>3, <1>4, <1>6 DEF Confirmed
<1>7. CASE action = "regenerate"
  <2>1. Confirmed(woken, r, action) = back
    BY <1>7 DEF Confirmed
  <2> HIDE DEF back, woken
  <2> QED  BY <1>1, <1>3, <1>5, <1>7, <2>1 DEF woken
<1>8. CASE action = "modify"
  <2> DEFINE said == WithMessage(back, r)
  <2>1. /\ said \in SessionData /\ said.cursor = back.cursor
        /\ said.execution_plan = back.execution_plan
        /\ said.cancelled = back.cancelled /\ said.stream_writer = back.stream_writer
        /\ said.last_node = back.last_node
        /\ said.state.messages = Append(back.state.messages, UserMessage(r))
        /\ said.state.plan = back.state.plan /\ said.state.plan_step = back.state.plan_step
        /\ said.state.current_department = back.state.current_department
    <3> HIDE DEF back
    <3>1. back \in SessionData
      BY <1>5 DEF Resumes
    <3>2. said \in SessionData
      BY <3>1, WithMessageType
    <3> QED  BY <3>1, <3>2 DEF WithMessage, SessionData, AgentState
  <2>2. Confirmed(woken, r, action) = said
    BY <1>8 DEF Confirmed
  <2> HIDE DEF said, back, woken
  <2>3. Resumes(r, old, said)
    BY <1>5, <2>1 DEF Resumes
  <2> QED  BY <1>1, <1>3, <1>5, <1>8, <2>1, <2>2, <2>3 DEF woken
<1> QED  BY <1>6, <1>7, <1>8

\* So does a typed answer, whatever the session waits for.
LEMMA ResumeWithMessageBinds ==
  ASSUME StepInv, NEW r \in Requests, NEW sid \in SessionIds, ResumeWithMessage(r, sid)
  PROVE  LET old  == sessionData[store[sid]]
             data == WithMessage(Resumed(old, r), r)
         IN  /\ store[sid] \in Requests /\ old \in SessionData
             /\ Binds(r, sid, store[sid], data) /\ Resumes(r, old, data)
             /\ data.cursor = old.cursor
<1> DEFINE old == sessionData[store[sid]]
           woken == Resumed(old, r)
<1>1. store[sid] \in Requests /\ old \in SessionData
  BY DEF ResumeWithMessage, StepInv, Shape, StoreOK, SessionOK
<1>2. store = [store EXCEPT ![sid] = store[sid]]
  BY DEF StepInv, Shape
<1>3. Binds(r, sid, store[sid], WithMessage(woken, r))
  BY <1>2 DEF ResumeWithMessage, CreateTask, Binds
<1>4. Resumes(r, old, woken) /\ woken.cursor = old.cursor /\ woken.state = old.state
  BY <1>1 DEF Resumed, Resumes, SessionData
<1> HIDE DEF woken
<1>5. /\ Resumes(r, old, WithMessage(woken, r))
      /\ WithMessage(woken, r).cursor = woken.cursor
  <2>1. woken \in SessionData
    BY <1>4 DEF Resumes
  <2>2. PICK said : said = WithMessage(woken, r)
    OBVIOUS
  <2>3. /\ said.state.messages = Append(woken.state.messages, UserMessage(r))
        /\ said \in SessionData /\ said.cursor = woken.cursor
        /\ said.execution_plan = woken.execution_plan
        /\ said.state.plan = woken.state.plan /\ said.state.plan_step = woken.state.plan_step
        /\ said.state.current_department = woken.state.current_department
    BY <2>1, <2>2, WithMessageType
  <2>4. /\ said.cancelled = woken.cancelled /\ said.stream_writer = woken.stream_writer
        /\ said.last_node = woken.last_node
    BY <2>1, <2>2 DEF WithMessage, SessionData
  <2> QED  BY <1>4, <2>2, <2>3, <2>4 DEF Resumes
<1> QED  BY <1>1, <1>3, <1>4, <1>5 DEF woken

\* What any resumption does.
LEMMA ResumptionBinds ==
  ASSUME StepInv, NEW r \in Requests, NEW sid \in SessionIds,
         \/ ResumeWithMessage(r, sid)
         \/ \E action \in {"continue", "regenerate", "modify"} : Confirm(r, sid, action)
  PROVE  /\ store[sid] \in Requests /\ sessionData[store[sid]] \in SessionData
         /\ \E data : /\ Binds(r, sid, store[sid], data)
                      /\ Resumes(r, sessionData[store[sid]], data)
<1>1. CASE ResumeWithMessage(r, sid)
  <2> DEFINE data == WithMessage(Resumed(sessionData[store[sid]], r), r)
  <2>1. /\ store[sid] \in Requests /\ sessionData[store[sid]] \in SessionData
        /\ Binds(r, sid, store[sid], data) /\ Resumes(r, sessionData[store[sid]], data)
    BY <1>1, ResumeWithMessageBinds
  <2> QED  BY <2>1
<1>2. ASSUME NEW action \in {"continue", "regenerate", "modify"}, Confirm(r, sid, action)
      PROVE  /\ store[sid] \in Requests /\ sessionData[store[sid]] \in SessionData
             /\ \E data : /\ Binds(r, sid, store[sid], data)
                          /\ Resumes(r, sessionData[store[sid]], data)
  <2> DEFINE data == Confirmed(Resumed(sessionData[store[sid]], r), r, action)
  <2>1. /\ store[sid] \in Requests /\ sessionData[store[sid]] \in SessionData
        /\ Binds(r, sid, store[sid], data) /\ Resumes(r, sessionData[store[sid]], data)
    BY <1>2, ConfirmBinds
  <2> QED  BY <2>1
<1> QED  BY <1>1, <1>2

================================================================================

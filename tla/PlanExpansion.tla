----------------------------- MODULE PlanExpansion -----------------------------
(***************************************************************************)
(* The execution plan of a session: how it starts, how it grows after the  *)
(* CEO and after a department lead have answered, and which node the user  *)
(* is told comes next.  Pure functions of step_executor.py.                *)
(*                                                                         *)
(* A plan is a sequence of nodes; cursor is the number of nodes behind it, *)
(* so that the node to run is plan[cursor + 1] (plan[cursor] in Python).   *)
(***************************************************************************)
EXTENDS OrgChart, Integers

\* Any name a plan may hold, known to the executor or not.
NODE == {"analyze_intent", "dispatch_to_department", "trigger_actions",
         "summarize_result", "lead_plan", "dispatch", "agent"} \X Names

NoNode == <<"none", "">>

\* Mutant: off by one.
Prefix_Short(plan, cursor) == SubSeq(plan, 1, cursor - 1)

Prefix(plan, cursor) == SubSeq(plan, 1, cursor)
Remaining(plan, cursor) == SubSeq(plan, cursor + 1, Len(plan))

ComputeInitialPlan(mode, target_agent) ==
  CASE mode = "ceo"        -> <<AnalyzeIntent>>
    [] mode = "department" ->
         <<DEPT_LEAD_PLAN(IF target_agent \in Departments THEN target_agent ELSE "CS")>>
    [] OTHER               -> <<AgentNode(target_agent)>>

\* A department is dispatched to, and asked for a plan if it has a lead.
DepartmentNodes(dept) ==
  IF DEPT_LEAD_PLAN(dept) \in LEAD_PLAN_NODES
  THEN <<DispatchToDepartment, DEPT_LEAD_PLAN(dept)>>
  ELSE <<DispatchToDepartment>>

DepartmentSequence(departments) ==
  LET upTo[i \in 0..Len(departments)] ==
        IF i = 0 THEN <<>> ELSE upTo[i - 1] \o DepartmentNodes(departments[i])
  IN  upTo[Len(departments)]

\* Mutant: nothing is summarised.
CeoExpansion_WithoutSummary(departments) ==
  DepartmentSequence(departments) \o <<TriggerActions>>

CeoExpansion(departments) ==
  DepartmentSequence(departments) \o <<TriggerActions, SummarizeResult>>

LeadExpansion(dept, sub_plan) ==
  IF dept \in Departments
  THEN [i \in 1..(2 * Len(sub_plan)) |->
          IF i % 2 = 1 THEN DEPT_DISPATCH(dept) ELSE AgentNode(sub_plan[i \div 2])]
  ELSE [i \in 1..Len(sub_plan) |-> AgentNode(sub_plan[i])]

\* state needs the fields plan, sub_plan and current_department only.  After the
\* CEO what was left of the plan is dropped; after a lead it is kept.
ExpandPlanAfterNode(state, plan, cursor, last_node) ==
  IF last_node = AnalyzeIntent
  THEN Prefix(plan, cursor) \o CeoExpansion(state.plan)
  ELSE IF last_node \in LEAD_PLAN_NODES
  THEN Prefix(plan, cursor)
         \o LeadExpansion(state.current_department, state.sub_plan)
         \o Remaining(plan, cursor)
  ELSE plan

PausableAfter(plan, cursor) ==
  {i \in (cursor + 1)..Len(plan) : plan[i] \in PAUSABLE_NODES}

\* Mutant: silent nodes are announced.
FindNextPausable_AnyNode(plan, cursor) ==
  IF cursor < Len(plan) THEN plan[cursor + 1] ELSE NoNode

FindNextPausable(plan, cursor) ==
  LET ahead == PausableAfter(plan, cursor)
  IN  IF ahead = {} THEN NoNode
      ELSE plan[CHOOSE i \in ahead : \A j \in ahead : i <= j]

=============================================================================

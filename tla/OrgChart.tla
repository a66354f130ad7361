------------------------------- MODULE OrgChart -------------------------------
(***************************************************************************)
(* The organisation the backend serves: six departments, their sub-agents, *)
(* what each sub-agent reads and writes in state["results"], and the nodes  *)
(* (units of work) an execution plan is made of.                           *)
(*                                                                         *)
(* A node is a pair <<kind, who>>; the code names it by one string, e.g.   *)
(* <<"lead_plan", "TECH">> is "tech_lead_plan" and <<"agent", "faq">> is   *)
(* "faq".                                                                  *)
(***************************************************************************)
EXTENDS Sequences

CONSTANT Names  \* what the code, a client or a model may call a department or an agent

Department(sub_agents, default_sub_plan) ==
  [sub_agents |-> sub_agents, default_sub_plan |-> default_sub_plan]

DEPARTMENT_CONFIGS ==
  [CS     |-> Department({"faq", "emergency", "human"}, <<"faq">>),
   SALES  |-> Department({"lead_gen", "quote", "cad"},
                         <<"lead_gen", "quote", "cad">>),
   REPAIR |-> Department({"manager", "master", "worker"},
                         <<"manager", "master", "worker">>),
   USER   |-> Department({"device", "repair_portal"}, <<"device">>),
   MARKET |-> Department({"analyze_industry", "generate_content"},
                         <<"analyze_industry", "generate_content">>),
   TECH   |-> Department({"product", "developer", "tester", "devops"},
                         <<"product", "developer", "tester", "devops">>)]

Departments == DOMAIN DEPARTMENT_CONFIGS

\* A place in state["results"]: a top-level key, or a key of a nested dictionary.
TopLevel(key) == <<key, "">>
Nested(key, sub) == <<key, sub>>

NoInput == <<"", "">>

SubAgent(department, input_from, writes) ==
  [department |-> department, input_from |-> input_from, writes |-> writes]

\* input_from is the result a chained agent works on; NoInput: the last user
\* message.  writes is what its run puts in state["results"].
SUB_AGENT_CONFIGS ==
  [faq       |-> SubAgent("CS", NoInput, {TopLevel("faq_answer")}),
   emergency |-> SubAgent("CS", NoInput,
                          {TopLevel("rescue_status"), TopLevel("emergency_level")}),
   human     |-> SubAgent("CS", NoInput, {TopLevel("handover_id")}),
   lead_gen  |-> SubAgent("SALES", NoInput, {TopLevel("leads")}),
   quote     |-> SubAgent("SALES", TopLevel("leads"), {TopLevel("quote")}),
   cad       |-> SubAgent("SALES", TopLevel("quote"), {TopLevel("cad_drawing")}),
   manager   |-> SubAgent("REPAIR", NoInput, {TopLevel("worker"), TopLevel("assignment")}),
   master    |-> SubAgent("REPAIR", TopLevel("assignment"), {TopLevel("fault_analysis")}),
   worker    |-> SubAgent("REPAIR", TopLevel("fault_analysis"), {TopLevel("repair_log")}),
   device    |-> SubAgent("USER", NoInput, {TopLevel("device_status"), TopLevel("report")}),
   repair_portal    |-> SubAgent("USER", NoInput,
                                 {TopLevel("order_id"), TopLevel("confirmation")}),
   analyze_industry |-> SubAgent("MARKET", NoInput, {TopLevel("industry_analysis")}),
   generate_content |-> SubAgent("MARKET", TopLevel("industry_analysis"),
                                 {Nested("MARKET", "industry_analysis"),
                                  Nested("MARKET", "promotional_content")}),
   product   |-> SubAgent("TECH", NoInput, {TopLevel("product_output")}),
   developer |-> SubAgent("TECH", TopLevel("product_output"), {TopLevel("developer_output")}),
   tester    |-> SubAgent("TECH", TopLevel("developer_output"), {TopLevel("tester_output")}),
   devops    |-> SubAgent("TECH", TopLevel("tester_output"), {TopLevel("devops_output")})]

SubAgents == DOMAIN SUB_AGENT_CONFIGS

ASSUME NamesAssumption == Departments \cup SubAgents \cup {"", "CEO"} \subseteq Names

\* The places that are ever written.
ResultPlaces ==
  {TopLevel("REPAIR_TRIGGERED")} \cup UNION {SUB_AGENT_CONFIGS[a].writes : a \in SubAgents}

----------------------------------------------------------------------------
AnalyzeIntent        == <<"analyze_intent", "CEO">>
DispatchToDepartment == <<"dispatch_to_department", "CEO">>
TriggerActions       == <<"trigger_actions", "CEO">>
SummarizeResult      == <<"summarize_result", "CEO">>
DEPT_LEAD_PLAN(dept) == <<"lead_plan", dept>>
DEPT_DISPATCH(dept)  == <<"dispatch", dept>>
AgentNode(agent)     == <<"agent", agent>>

LEAD_PLAN_NODES == {DEPT_LEAD_PLAN(d) : d \in Departments}
AGENT_NODES == {AgentNode(a) : a \in SubAgents}
DISPATCH_NODES == {DEPT_DISPATCH(d) : d \in Departments}

\* The nodes the executor has a function for; any other name is skipped.
NODE_REGISTRY ==
  {AnalyzeIntent, DispatchToDepartment, TriggerActions, SummarizeResult}
    \cup LEAD_PLAN_NODES \cup DISPATCH_NODES \cup AGENT_NODES

\* Mutant: the agents are forgotten.
PAUSABLE_NODES_WithoutAgents == {AnalyzeIntent, SummarizeResult} \cup LEAD_PLAN_NODES

\* The nodes after which the executor stops and asks the user.
PAUSABLE_NODES ==
  {AnalyzeIntent, SummarizeResult} \cup LEAD_PLAN_NODES \cup AGENT_NODES

=============================================================================

------------------------------ MODULE AgentInputs ------------------------------
(***************************************************************************)
(* What a node that calls the model works on: utils/messages.py and the     *)
(* head of each node function.  A message, or the place of an earlier       *)
(* agent's result.                                                         *)
(***************************************************************************)
EXTENDS StepExecutor

UserPlaces(messages) == {i \in DOMAIN messages : messages[i].role = "user"}

get_first_user_message(messages) == messages[Min(UserPlaces(messages))]
get_last_user_message(messages) == messages[Max(UserPlaces(messages))]

DEFAULT_CONTEXT_TURNS == 3

\* A turn is a message of the user with the answers to it.  The last message of the
\* user is the question at hand, which leaves out the answers after it too.
get_history_messages(messages, max_turns) ==
  LET question == Max(UserPlaces(messages))
      asked == UserPlaces(messages) \ {question}
      kept  == {i \in asked : Cardinality({j \in asked : j >= i}) <= max_turns}
  IN  IF kept = {} THEN <<>> ELSE SubSeq(messages, Min(kept), question - 1)

ResultOf(place) == [role |-> "result", by |-> place]

\* create_sub_agent_node: a chained agent takes the result it is chained to, if there
\* is one, or else the first message.
AgentQuery(agent, state) ==
  LET input_from == SUB_AGENT_CONFIGS[agent].input_from IN
  IF input_from = NoInput THEN get_last_user_message(state.messages)
  ELSE IF input_from \in state.results THEN ResultOf(input_from)
  ELSE get_first_user_message(state.messages)

\* analyze_intent_node reads the last message, whoever wrote it.  (The summary reads
\* the plan and the intent, and no message.)
Query(node, state) ==
  CASE node = AnalyzeIntent        -> Last(state.messages)
    [] node \in LEAD_PLAN_NODES    -> get_last_user_message(state.messages)
    [] \E a \in SubAgents : node = AgentNode(a) ->
         AgentQuery(CHOOSE a \in SubAgents : node = AgentNode(a), state)

\* Everything of the dialogue that goes into the prompt.
Prompt(node, state) ==
  {Query(node, state)}
    \cup Range(get_history_messages(state.messages, DEFAULT_CONTEXT_TURNS))

Asking(t, node) == task[t].pc = "calling" /\ CurrentNode(t) = node
AskingNodes == ModelNodes \ {SummarizeResult}

=============================================================================

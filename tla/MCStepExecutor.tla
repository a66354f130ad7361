---------------------------- MODULE MCStepExecutor ----------------------------
(* Instances of StepExecutor for TLC. *)
EXTENDS StepExecutor

\* Everybody, and names a model may make up.
MCNames == Departments \cup SubAgents \cup {"", "CEO", "HR", "ghost", "nobody"}

\* The CEO, a department lead, an agent nobody has registered.
MCTargets == {[type |-> "orchestrator", agent |-> "CEO"],
              [type |-> "orchestrator", agent |-> "CS"],
              [type |-> "agent", agent |-> "nobody"]}

\* The fallback to CS; a department nobody leads, alone (no lead to ask: the summary is
\* next) and before a known one.
MCCeoPlans == {<<>>, <<"HR">>, <<"HR", "USER">>}

\* Nobody; one agent; two of them, with one nobody has registered in between.
MCSubPlans == {<<>>, <<"faq">>, <<"faq", "ghost", "human">>}
=============================================================================

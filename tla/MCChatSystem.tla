----------------------------- MODULE MCChatSystem -----------------------------
(* Instances of ChatSystem for TLC. *)
EXTENDS ChatClaims

\* Everybody, and names a model may make up.
MCNames == Departments \cup SubAgents \cup {"", "CEO", "HR"}

MCCeo   == {[type |-> "orchestrator", agent |-> "CEO"]}
MCAgent == {[type |-> "agent", agent |-> "faq"]}
MCLeadOrAgent == {[type |-> "orchestrator", agent |-> "CS"]} \cup MCAgent

\* Two departments; a department nobody leads before a known one.
MCCeoPlans == {<<"CS", "USER">>, <<"HR", "USER">>}

MCSalesLead == {[type |-> "orchestrator", agent |-> "SALES"]}
MCLeadsThenQuote == {<<"lead_gen", "quote">>}

\* Nobody, one agent, two agents.
MCSubPlans == {<<>>, <<"faq">>, <<"faq", "human">>}
MCOneAgent == {<<"faq">>}

=============================================================================

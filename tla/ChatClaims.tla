------------------------------- MODULE ChatClaims -------------------------------
(***************************************************************************)
(* What the repository's documents and comments say of a conversation and  *)
(* the code does not do.  Each property here is violated by a run of       *)
(* MCChatSystem; README.md tells the counterexamples.                      *)
(***************************************************************************)
EXTENDS ChatSystem

\* README.md:331, "sessions persist, multi-turn dialogue is supported": the answer to a
\* question was written for that question.
QuestionsAreAnswered ==
  \A r \in Requests : \A i \in DOMAIN sse[r] :
    (call[r].action = "query" /\ sse[r][i].type = "final") => sse[r][i].response.by = r

\* README.md:366, "talk to several agents at once": stopping one conversation does not
\* cut the answer of another.
StopIsLocal ==
  [][\A r \in Requests :
       (call[r].state = "sent" /\ call'[r].state = "aborted")
         => ui'[call[r].conversation].stopping = "sent"]_chatVars

=============================================================================

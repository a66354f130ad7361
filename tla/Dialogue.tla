-------------------------------- MODULE Dialogue --------------------------------
(***************************************************************************)
(* What a conversation promises its user as long as nothing goes wrong,     *)
(* whatever the client, the network, the server and its tasks do to keep    *)
(* it.  The user asks; one agent after the other answers; after each the    *)
(* user is told who has answered and who comes next, and decides.  The      *)
(* answer to a decision is that of the agent the decision named, and it     *)
(* comes.                                                                   *)
(***************************************************************************)
CONSTANTS
  Conversations,
  Nodes,   \* who may answer
  NoNode   \* nobody

VARIABLE dialogue  \* where each conversation stands

\* promised: who answers next, once the user has been told; said, next: who has
\* answered last, and who was announced to come after that.
Turn == [phase : {"idle", "working", "deciding"}, promised : Nodes \cup {NoNode},
         said : Nodes \cup {NoNode}, next : Nodes \cup {NoNode}]

Opening == [phase |-> "idle", promised |-> NoNode, said |-> NoNode, next |-> NoNode]

DialogueInit == dialogue = [c \in Conversations |-> Opening]

Asks(before, after) ==
  /\ before.phase = "idle"
  /\ after = [before EXCEPT !.phase = "working"]

\* A promise is kept.
Answers(before, after) ==
  /\ before.phase = "working"
  /\ after.phase = "deciding" /\ after.promised = NoNode
  /\ after.said \in Nodes /\ after.next \in Nodes \cup {NoNode}
  /\ before.promised # NoNode => after.said = before.promised

\* Nobody was promised, and nobody has anything to add.
Concludes(before, after) ==
  /\ before.phase = "working" /\ before.promised = NoNode
  /\ after = [before EXCEPT !.phase = "idle"]

\* The user lets the announced agent go on, or the last one answer again.
Decides(before, after) ==
  /\ before.phase = "deciding"
  /\ \E agent \in {before.next, before.said} \ {NoNode} :
       after = [before EXCEPT !.phase = "working", !.promised = agent]

Finishes(before, after) ==
  /\ before.phase = "deciding" /\ before.next = NoNode
  /\ after = [before EXCEPT !.phase = "idle"]

DialogueNext ==
  \E c \in Conversations :
    /\ \A other \in Conversations \ {c} : dialogue'[other] = dialogue[other]
    /\ \/ Asks(dialogue[c], dialogue'[c])
       \/ Answers(dialogue[c], dialogue'[c])
       \/ Concludes(dialogue[c], dialogue'[c])
       \/ Decides(dialogue[c], dialogue'[c])
       \/ Finishes(dialogue[c], dialogue'[c])

\* Nobody waits for an answer for ever.
AnswersCome ==
  \A c \in Conversations :
    dialogue[c].phase = "working" ~> dialogue[c].phase # "working"

\* Without it: what may happen, whether or not it does.
DialogueSafety == DialogueInit /\ [][DialogueNext]_dialogue

DialogueSpec == DialogueSafety /\ AnswersCome

=============================================================================

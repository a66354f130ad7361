------------------------------- MODULE ChatSystem -------------------------------
(***************************************************************************)
(* The web client (frontend/src/App.jsx) talking to the step executor.     *)
(*                                                                         *)
(* A conversation of the client is a session of the server: its id is the  *)
(* session_id of every request it makes.  The client shows either an input *)
(* box, or a spinner with a Stop button (loading), or the confirmation bar *)
(* (awaiting).  All conversations share one abortControllerRef.  A request *)
(* travels to the server, its response body travels back event by event,   *)
(* and /chat/stop travels on a connection of its own.  The user and the    *)
(* browser act when no task waits for the event loop (Quiet): a queue of   *)
(* callbacks is emptied before a click can have an effect on it, while     *)
(* messages already on their way (Deliver, StopArrives) may fall between.  *)
(***************************************************************************)
EXTENDS AgentInputs

VARIABLES
  ui,       \* what each conversation shows
  call,     \* the client's side of each request
  abortRef  \* the request abortControllerRef.current can abort, or None

clientVars == <<ui, call, abortRef>>
chatVars == <<vars, clientVars>>

Conversations == SessionIds

NewConversation(target) ==
  [target |-> target, loading |-> FALSE, awaiting |-> FALSE, completed |-> NoNode,
   next |-> NoNode, is_final |-> FALSE, stopping |-> "no"]

\* announced: the node the user was told this request would run, or NoNode;
\* shown: the client has processed the event that says how the body ended.
NewCall ==
  [state |-> "unsent", conversation |-> Anonymous, action |-> "query",
   announced |-> NoNode, shown |-> FALSE]

ChatInit ==
  /\ Init
  /\ ui \in {[c \in Conversations |-> NewConversation(target[c])] :
               target \in [Conversations -> Targets]}
  /\ call = [r \in Requests |-> NewCall]
  /\ abortRef = None

Quiet == running = None /\ ready = <<>>

----------------------------------------------------------------------------
(* The user.                                                               *)

\* Requests are named in the order the client makes them.
Unsent == {r \in Requests : call[r].state = "unsent"}
NextRequest == CHOOSE r \in Unsent : TRUE

\* Mutant: the confirmation bar stays.
Fetch_KeepsBar(c, action, announced) ==
  /\ Quiet /\ Unsent # {}
  /\ call' = [call EXCEPT ![NextRequest] = [state |-> "sent", conversation |-> c,
                action |-> action, announced |-> announced, shown |-> FALSE]]
  /\ ui' = [ui EXCEPT ![c].loading = TRUE]
  /\ abortRef' = NextRequest
  /\ UNCHANGED vars

Fetch(c, action, announced) ==
  /\ Quiet /\ Unsent # {}
  /\ call' = [call EXCEPT ![NextRequest] = [state |-> "sent", conversation |-> c,
                action |-> action, announced |-> announced, shown |-> FALSE]]
  /\ ui' = [ui EXCEPT ![c].loading = TRUE, ![c].awaiting = FALSE]
  /\ abortRef' = NextRequest
  /\ UNCHANGED vars

\* Mutant: the user may send while an answer is under way.
HandleSend_WhileLoading(c) ==
  /\ ~ui[c].awaiting
  /\ Fetch(c, "query", NoNode)

HandleSend(c) ==
  /\ ~ui[c].awaiting        \* the confirmation bar replaces the input box
  /\ ~ui[c].loading
  /\ Fetch(c, "query", NoNode)

HandleConfirmation(c, action) ==
  /\ ui[c].awaiting
  /\ \/ action = "continue" /\ ~ui[c].is_final
     \/ action \in Moves \cap {"regenerate", "modify"}
  /\ Fetch(c, action, IF action = "continue" THEN ui[c].next ELSE ui[c].completed)

\* "Done" on the last node: nothing is sent.
HandleDone(c) ==
  /\ Quiet
  /\ ui[c].awaiting /\ ui[c].is_final
  /\ ui' = [ui EXCEPT ![c].awaiting = FALSE]
  /\ UNCHANGED <<vars, call, abortRef>>

\* Stop: abort whatever the shared reference holds, then tell the server.
HandleStop(c) ==
  /\ "stop" \in Moves /\ Quiet
  /\ ui[c].loading /\ ~ui[c].awaiting /\ ui[c].stopping = "no"
  /\ call' = [r \in Requests |-> IF r = abortRef THEN [call[r] EXCEPT !.state = "aborted"]
                                 ELSE call[r]]
  /\ abortRef' = None
  /\ ui' = [ui EXCEPT ![c].stopping = "sent"]
  /\ UNCHANGED vars

StopReturns(c) ==
  /\ Quiet
  /\ ui[c].stopping = "answered"
  /\ ui' = [ui EXCEPT ![c].stopping = "no", ![c].loading = FALSE]
  /\ UNCHANGED <<vars, call, abortRef>>

----------------------------------------------------------------------------
(* The network and the server.                                             *)

StopArrives(c) ==
  /\ ui[c].stopping = "sent"
  /\ ui' = [ui EXCEPT ![c].stopping = "answered"]
  /\ IF store[c] # None THEN StopChat(c) ELSE UNCHANGED vars /\ running = None
  /\ UNCHANGED <<call, abortRef>>

\* An aborted request may still reach the server.
Deliver(r) ==
  LET c == call[r].conversation IN
  /\ call[r].state \in {"sent", "aborted"}
  /\ IF call[r].action = "query"
     THEN FreshRequest(r, c, ui[c].target) \/ ResumeWithMessage(r, c)
     ELSE Confirm(r, c, call[r].action) \/ ConfirmExpired(r, c)
  /\ UNCHANGED clientVars

\* Mutant: a final answer leaves the spinner.
Show_FinalKeepsSpinner(conversation, event) ==
  CASE event.type = "awaiting_confirmation" ->
         [conversation EXCEPT !.loading = FALSE, !.awaiting = TRUE,
            !.completed = event.node, !.next = event.next, !.is_final = event.is_final]
    [] event.type = "stopped" -> [conversation EXCEPT !.loading = FALSE]
    [] OTHER -> conversation

\* processSSEStream, the events that say how the body ended; the others only add to
\* texts and logs.  An error event is thrown inside the try that logs what it catches,
\* so it changes nothing.
Show(conversation, event) ==
  CASE event.type = "awaiting_confirmation" ->
         [conversation EXCEPT !.loading = FALSE, !.awaiting = TRUE,
            !.completed = event.node, !.next = event.next, !.is_final = event.is_final]
    [] event.type = "final"   -> [conversation EXCEPT !.loading = FALSE, !.awaiting = FALSE]
    [] event.type = "stopped" -> [conversation EXCEPT !.loading = FALSE]
    [] event.type = "error"   -> conversation

Reading(r) == call[r].state = "sent" /\ Quiet

ReadEnding(r) ==
  /\ Reading(r) /\ ~call[r].shown
  /\ \E i \in DOMAIN sse[r] :
       /\ sse[r][i].type \in Endings
       /\ ui' = [ui EXCEPT ![call[r].conversation] = Show(@, sse[r][i])]
  /\ call' = [call EXCEPT ![r].shown = TRUE]
  /\ UNCHANGED <<vars, abortRef>>

\* Mutant: no finally.
ReadEnd_KeepsRef(r) ==
  /\ Reading(r) /\ HasEnded(r)
  /\ call[r].shown \/ \A i \in DOMAIN sse[r] : sse[r][i].type \notin Endings
  /\ call' = [call EXCEPT ![r].state = "closed"]
  /\ UNCHANGED <<vars, ui, abortRef>>

\* The body ends: finally clears the shared reference.
ReadEnd(r) ==
  /\ Reading(r) /\ HasEnded(r)
  /\ call[r].shown \/ \A i \in DOMAIN sse[r] : sse[r][i].type \notin Endings
  /\ call' = [call EXCEPT ![r].state = "closed"]
  /\ abortRef' = None
  /\ UNCHANGED <<vars, ui>>

\* The connection breaks: the outer catch shows an apology.
ConnectionLost(r) ==
  /\ Reading(r)
  /\ task[r].pc = "lost" \/ "disconnect" \in Moves
  /\ call' = [call EXCEPT ![r].state = "closed"]
  /\ ui' = [ui EXCEPT ![call[r].conversation].loading = FALSE]
  /\ abortRef' = None
  /\ UNCHANGED vars

----------------------------------------------------------------------------
Network(r) == Deliver(r) \/ ReadEnding(r) \/ ReadEnd(r)
Stopping(c) == StopArrives(c) \/ StopReturns(c)

ChatNext ==
  \/ \E c \in Conversations :
       \/ HandleSend(c)
       \/ \E action \in {"continue", "regenerate", "modify"} : HandleConfirmation(c, action)
       \/ HandleDone(c)
       \/ HandleStop(c)
       \/ Stopping(c)
  \/ \E r \in Requests : Network(r) \/ ConnectionLost(r)
  \/ /\ \/ \E t \in Requests : Advance(t) \/ StreamChunk(t)
        \/ Restart
     /\ UNCHANGED clientVars

\* Requests that were not aborted arrive, answers arrive, and the server works; the
\* user may stop acting at any time.
ChatFairness ==
  /\ \A t \in Requests : WF_chatVars(Advance(t) /\ UNCHANGED clientVars)
  /\ \A r \in Requests : WF_chatVars(Network(r) /\ call[r].state = "sent")
  /\ \A r \in Requests : WF_chatVars(task[r].pc = "lost" /\ ConnectionLost(r))
  /\ \A c \in Conversations : WF_chatVars(Stopping(c))

ChatSpec == ChatInit /\ [][ChatNext]_chatVars /\ ChatFairness

----------------------------------------------------------------------------
(* What the client's discipline adds, as long as nothing goes wrong.        *)

\* The executor has no lock: that two tasks never work on one session rests on the
\* client not sending while it is loading.
OneTaskPerConversation ==
  \A c \in Conversations :
    Cardinality({t \in Requests : IsLive(t) /\ task[t].session_id = c}) <= 1

\* The node a request runs is the one the user was told of: after "continue" the
\* announced next node, after "regenerate" and "modify" the node just completed.
FirstModelNode(r) ==
  LET calls == {i \in DOMAIN sse[r] :
                  sse[r][i].type = "thinking" /\ sse[r][i].node \in ModelNodes}
  IN  IF calls = {} THEN NoNode ELSE sse[r][Min(calls)].node
AnnouncedNodeRuns ==
  \A r \in Requests :
    (call[r].action # "query" /\ HasEnded(r)) => FirstModelNode(r) = call[r].announced

\* While the confirmation bar is shown the server still holds the session, paused
\* where the bar says.
BarHasSession ==
  \A c \in Conversations : ui[c].awaiting =>
    /\ store[c] # None
    /\ sessionData[store[c]].last_node = ui[c].completed
    /\ FindNextPausable(sessionData[store[c]].execution_plan,
                        sessionData[store[c]].cursor) = ui[c].next

\* The department the CEO has just dispatched to is the one whose lead runs next.
JustRan(t, node) ==
  /\ running = t
  /\ task[t].cursor > 0 /\ task[t].plan[task[t].cursor] = node
DispatchedDepartmentIsNext ==
  \A t \in Requests :
    (JustRan(t, DispatchToDepartment) /\ CurrentNode(t) \in LEAD_PLAN_NODES) =>
      CurrentNode(t) = DEPT_LEAD_PLAN(StateOf(t).current_department)

\* What the model streams while it works for a request reaches that request's body.
TokensReachTheirRequest ==
  \A t \in Requests : task[t].streamed =>
    \E i \in DOMAIN sse[t] : sse[t][i].type = "stream" /\ sse[t][i].by = t

\* Who is asked to answer anew works on what the user has said: after "modify" the
\* suggestion is in the prompt, as the question or in the history; after "regenerate"
\* the question is not the answer that is to be replaced.
UserIsHeard ==
  \A t \in Requests : \A node \in AskingNodes : Asking(t, node) =>
    /\ call[t].action = "modify" => UserMessage(t) \in Prompt(node, StateOf(t))
    /\ call[t].action = "regenerate" => ~IsAI(Query(node, StateOf(t)))

----------------------------------------------------------------------------
(* What holds when requests are stopped, connections break, models fail and *)
(* the server restarts.                                                    *)

\* The confirmation bar and the spinner exclude each other, so that the Stop button is
\* there whenever the client waits.
BarOrSpinner == \A c \in Conversations : ~(ui[c].awaiting /\ ui[c].loading)

\* With one conversation, the request the shared reference can abort is open.
AbortRefIsOpen == abortRef # None => call[abortRef].state = "sent"

----------------------------------------------------------------------------
(* A conversation seen by its user: the client implements Dialogue.         *)

\* The request a spinning conversation waits for.
Awaited(c) ==
  {r \in Requests : call[r].conversation = c /\ call[r].state = "sent" /\ ~call[r].shown}
Promised(c) ==
  IF ui[c].loading /\ Awaited(c) # {} THEN call[CHOOSE r \in Awaited(c) : TRUE].announced
  ELSE NoNode

Seen == INSTANCE Dialogue WITH
  Nodes <- NODE,
  dialogue <- [c \in Conversations |->
    [phase |-> IF ui[c].loading THEN "working"
               ELSE IF ui[c].awaiting THEN "deciding" ELSE "idle",
     promised |-> Promised(c), said |-> ui[c].completed, next |-> ui[c].next]]

\* As long as nothing goes wrong: after each answer the confirmation bar names who has
\* answered and who comes next, the answer to "continue" is that of the announced
\* agent, to "regenerate" and "modify" that of the same one, and it comes.
ImplementsDialogue == Seen!DialogueSpec

=============================================================================

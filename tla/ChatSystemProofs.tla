----------------------------- MODULE ChatSystemProofs -----------------------------
(***************************************************************************)
(* Theorems of ChatSystem: what the client's discipline adds to what the    *)
(* executor guarantees by itself, for any number of conversations and       *)
(* requests, and that the whole keeps the promises of Dialogue.  Each       *)
(* section adds an invariant to those before it, and the hypotheses it      *)
(* needs: what must not go wrong, and who must not take part.               *)
(***************************************************************************)
EXTENDS ChatSystem, BodyProofs

----------------------------------------------------------------------------
(* The client, whatever goes wrong.                                        *)

Conversation ==
  [target : Targets, loading : BOOLEAN, awaiting : BOOLEAN, completed : NODE \cup {NoNode},
   next : NODE \cup {NoNode}, is_final : BOOLEAN, stopping : {"no", "sent", "answered"}]

Call ==
  [state : {"unsent", "sent", "aborted", "closed"}, conversation : SessionIds \cup {Anonymous},
   action : {"query", "continue", "regenerate", "modify"}, announced : NODE \cup {NoNode},
   shown : BOOLEAN]

ClientInv ==
  /\ ui \in [Conversations -> Conversation]
  /\ call \in [Requests -> Call]
  /\ abortRef \in Requests \cup {None}
  /\ \A r \in Requests : call[r].state # "unsent" => call[r].conversation \in Conversations
  /\ BarOrSpinner
  /\ AbortRefIsOpen

\* What a click that sends a request does.
Sends(c, r, action, announced) ==
  /\ Quiet /\ call[r].state = "unsent"
  /\ call' = [call EXCEPT ![r] = [state |-> "sent", conversation |-> c, action |-> action,
                                  announced |-> announced, shown |-> FALSE]]
  /\ ui' = [ui EXCEPT ![c] = [ui[c] EXCEPT !.loading = TRUE, !.awaiting = FALSE]]
  /\ abortRef' = r
  /\ UNCHANGED vars

LEMMA FetchSends ==
  ASSUME NEW c \in Conversations, NEW action, NEW announced, ClientInv,
         Fetch(c, action, announced)
  PROVE  \E r \in Requests : Sends(c, r, action, announced)
<1>1. NextRequest \in Requests /\ call[NextRequest].state = "unsent"
  BY DEF Fetch, NextRequest, Unsent
<1>2. ui' = [ui EXCEPT ![c] = [ui[c] EXCEPT !.loading = TRUE, !.awaiting = FALSE]]
  BY DEF Fetch, ClientInv
<1> QED  BY <1>1, <1>2 DEF Fetch, Sends

\* A sent request keeps the client in order.
LEMMA SendsKeeps ==
  ASSUME ClientInv, NEW c \in Conversations, NEW r \in Requests,
         NEW action \in {"query", "continue", "regenerate", "modify"},
         NEW announced \in NODE \cup {NoNode}, Sends(c, r, action, announced)
  PROVE  ClientInv'
<1> DEFINE new == [ui[c] EXCEPT !.loading = TRUE, !.awaiting = FALSE]
           sent == [state |-> "sent", conversation |-> c, action |-> action,
                    announced |-> announced, shown |-> FALSE]
<1>1. new \in Conversation /\ ~new.awaiting
  BY DEF ClientInv, Conversation
<1>2. sent \in Call /\ sent.state = "sent" /\ sent.conversation = c
  BY DEF Call, Conversations
<1>3. ui' = [ui EXCEPT ![c] = new] /\ call' = [call EXCEPT ![r] = sent] /\ abortRef' = r
  BY DEF Sends
<1> HIDE DEF new, sent
<1>4. /\ ui' \in [Conversations -> Conversation] /\ call' \in [Requests -> Call]
      /\ abortRef' \in Requests
  BY <1>1, <1>2, <1>3 DEF ClientInv
<1>5. /\ \A u \in Requests : call'[u].state # "unsent" => call'[u].conversation \in Conversations
      /\ BarOrSpinner' /\ AbortRefIsOpen'
  BY <1>1, <1>2, <1>3 DEF ClientInv, BarOrSpinner, AbortRefIsOpen
<1> QED  BY <1>4, <1>5 DEF ClientInv

\* What a change of one conversation, and one of a request that stays of its
\* conversation, has to show.
LEMMA ClientChange ==
  ASSUME ClientInv, NEW c \in Conversations, NEW new \in Conversation,
         ~(new.awaiting /\ new.loading),
         ui' = ui \/ ui' = [ui EXCEPT ![c] = new],
         call' \in [Requests -> Call],
         \A r \in Requests : /\ call'[r].conversation = call[r].conversation
                             /\ call'[r].state # "unsent" => call[r].state # "unsent",
         \/ abortRef' = None
         \/ abortRef' = abortRef /\ \A r \in Requests : call'[r].state = call[r].state
  PROVE  ClientInv'
<1>1. ui' \in [Conversations -> Conversation] /\ BarOrSpinner'
  BY DEF ClientInv, BarOrSpinner
<1>2. /\ abortRef' \in Requests \cup {None} /\ AbortRefIsOpen'
      /\ \A u \in Requests : call'[u].state # "unsent" => call'[u].conversation \in Conversations
  BY DEF ClientInv, AbortRefIsOpen
<1> QED  BY <1>1, <1>2 DEF ClientInv

\* An ending, as the client shows it.
LEMMA ShowType ==
  ASSUME NEW conversation \in Conversation, NEW event \in Event, event.type \in Endings,
         ~(conversation.awaiting /\ conversation.loading)
  PROVE  /\ Show(conversation, event) \in Conversation
         /\ ~(Show(conversation, event).awaiting /\ Show(conversation, event).loading)
         /\ Show(conversation, event).target = conversation.target
         /\ Show(conversation, event).stopping = conversation.stopping
<1>1. CASE event.type = "awaiting_confirmation"
  <2>1. /\ event.node \in NODE /\ event.next \in NODE \cup {NoNode}
        /\ event.is_final \in BOOLEAN
    BY <1>1 DEF Event
  <2> QED  BY <1>1, <2>1 DEF Show, Conversation
<1>2. CASE event.type = "final"
  BY <1>2 DEF Show, Conversation
<1>3. CASE event.type = "stopped"
  BY <1>3 DEF Show, Conversation
<1>4. CASE event.type = "error"
  BY <1>4 DEF Show, Conversation
<1> QED  BY <1>1, <1>2, <1>3, <1>4 DEF Endings

\* The ways a request's life goes on in the client.
LEMMA CallTypes ==
  ASSUME ClientInv, NEW r \in Requests
  PROVE  /\ [call EXCEPT ![r].shown = TRUE] \in [Requests -> Call]
         /\ [call EXCEPT ![r].state = "closed"] \in [Requests -> Call]
         /\ [call[r] EXCEPT !.state = "aborted"] \in Call
BY DEF ClientInv, Call

LEMMA InitClientInv == ChatInit => ClientInv
<1> SUFFICES ASSUME ChatInit  PROVE ClientInv
  OBVIOUS
<1>1. PICK target \in [Conversations -> Targets] :
        ui = [c \in Conversations |-> NewConversation(target[c])]
  BY DEF ChatInit
<1>2. \A c \in Conversations : /\ NewConversation(target[c]) \in Conversation
                               /\ ~NewConversation(target[c]).awaiting
  BY DEF NewConversation, Conversation
<1>3. NewCall \in Call /\ NewCall.state = "unsent"
  BY DEF NewCall, Call
<1> QED  BY <1>1, <1>2, <1>3, NoneAssumption
         DEF ChatInit, ClientInv, BarOrSpinner, AbortRefIsOpen

\* The client shows an event of the body.
Shows(r, event) ==
  /\ Reading(r) /\ ~call[r].shown
  /\ event \in Event /\ event.type \in Endings
  /\ \E i \in 1..Len(sse[r]) : sse[r][i] = event
  /\ call[r].conversation \in Conversations
  /\ ui' = [ui EXCEPT ![call[r].conversation] = Show(ui[call[r].conversation], event)]
  /\ call' = [call EXCEPT ![r].shown = TRUE]
  /\ UNCHANGED <<vars, abortRef>>

LEMMA ReadEndingShows ==
  ASSUME StepInv, ClientInv, NEW r \in Requests, ReadEnding(r)
  PROVE  \E event \in Event : Shows(r, event)
<1>1. PICK i \in DOMAIN sse[r] :
        /\ sse[r][i].type \in Endings
        /\ ui' = [ui EXCEPT ![call[r].conversation] = Show(@, sse[r][i])]
  BY DEF ReadEnding
<1>2. sse[r] \in Seq(Event)
  BY DEF StepInv, Shape
<1>3. i \in 1..Len(sse[r]) /\ sse[r][i] \in Event
  BY <1>1, <1>2, LenProperties, ElementOfSeq
<1>4. call[r].conversation \in Conversations
  BY DEF ReadEnding, Reading, ClientInv
<1>5. ui' = [ui EXCEPT ![call[r].conversation] = Show(ui[call[r].conversation], sse[r][i])]
  BY <1>1, <1>4 DEF ClientInv
<1> QED  BY <1>1, <1>3, <1>4, <1>5 DEF ReadEnding, Shows

\* The client's part of every step of the whole.
LEMMA ClientInvInductive == StepInv /\ ClientInv /\ [ChatNext]_chatVars => ClientInv'
<1> SUFFICES ASSUME StepInv, ClientInv, [ChatNext]_chatVars  PROVE ClientInv'
  OBVIOUS
<1>1. ASSUME NEW c \in Conversations, HandleSend(c)  PROVE ClientInv'
  <2>1. PICK r \in Requests : Sends(c, r, "query", NoNode)
    BY <1>1, FetchSends DEF HandleSend
  <2> QED  BY <2>1, SendsKeeps
<1>2. ASSUME NEW c \in Conversations, NEW action \in {"continue", "regenerate", "modify"},
             HandleConfirmation(c, action)
      PROVE  ClientInv'
  <2>1. PICK announced \in NODE \cup {NoNode} : Fetch(c, action, announced)
    BY <1>2 DEF HandleConfirmation, ClientInv, Conversation
  <2>2. PICK r \in Requests : Sends(c, r, action, announced)
    BY <2>1, FetchSends
  <2> QED  BY <2>2, SendsKeeps
<1>3. ASSUME NEW c \in Conversations, HandleDone(c)  PROVE ClientInv'
  <2> DEFINE new == [ui[c] EXCEPT !.awaiting = FALSE]
  <2>1. new \in Conversation /\ ~new.awaiting
    BY DEF ClientInv, Conversation
  <2>2. ui' = [ui EXCEPT ![c] = new] /\ UNCHANGED <<call, abortRef>>
    BY <1>3 DEF HandleDone
  <2> HIDE DEF new
  <2> QED  BY <2>1, <2>2, ClientChange DEF ClientInv
<1>4. ASSUME NEW c \in Conversations, HandleStop(c)  PROVE ClientInv'
  <2> DEFINE new == [ui[c] EXCEPT !.stopping = "sent"]
  <2>1. new \in Conversation /\ ~new.awaiting
    BY <1>4 DEF ClientInv, Conversation, HandleStop
  <2>2. /\ ui' = [ui EXCEPT ![c] = new] /\ abortRef' = None
    BY <1>4 DEF HandleStop
  <2>3. ASSUME NEW r \in Requests
        PROVE  /\ call'[r] \in Call
               /\ call'[r].conversation = call[r].conversation
               /\ call'[r].state # "unsent" => call[r].state # "unsent"
    <3>1. call[r] \in Call
      BY DEF ClientInv
    <3>2. CASE r = abortRef
      <4>1. call[r].state = "sent" /\ call'[r] = [call[r] EXCEPT !.state = "aborted"]
        BY <1>4, <3>2, NoneAssumption DEF HandleStop, ClientInv, AbortRefIsOpen
      <4> QED  BY <3>1, <4>1 DEF Call
    <3>3. CASE r # abortRef
      BY <1>4, <3>1, <3>3 DEF HandleStop
    <3> QED  BY <3>2, <3>3
  <2>4. call' \in [Requests -> Call]
    BY <1>4, <2>3 DEF HandleStop
  <2> HIDE DEF new
  <2> QED  BY <2>1, <2>2, <2>3, <2>4, ClientChange
<1>5. ASSUME NEW c \in Conversations, StopReturns(c)  PROVE ClientInv'
  <2> DEFINE new == [ui[c] EXCEPT !.stopping = "no", !.loading = FALSE]
  <2>1. new \in Conversation /\ ~new.loading
    BY DEF ClientInv, Conversation
  <2>2. ui' = [ui EXCEPT ![c] = new] /\ UNCHANGED <<call, abortRef>>
    BY <1>5 DEF StopReturns
  <2> HIDE DEF new
  <2> QED  BY <2>1, <2>2, ClientChange DEF ClientInv
<1>6. ASSUME NEW c \in Conversations, StopArrives(c)  PROVE ClientInv'
  <2> DEFINE new == [ui[c] EXCEPT !.stopping = "answered"]
  <2>1. new \in Conversation /\ ~(new.awaiting /\ new.loading)
    BY DEF ClientInv, Conversation, BarOrSpinner
  <2>2. ui' = [ui EXCEPT ![c] = new] /\ UNCHANGED <<call, abortRef>>
    BY <1>6 DEF StopArrives
  <2> HIDE DEF new
  <2> QED  BY <2>1, <2>2, ClientChange DEF ClientInv
<1>7. ASSUME NEW r \in Requests, ReadEnding(r)  PROVE ClientInv'
  <2>1. PICK event \in Event : Shows(r, event)
    BY <1>7, ReadEndingShows
  <2> DEFINE c == call[r].conversation
             new == Show(ui[c], event)
  <2>2. c \in Conversations /\ ui[c] \in Conversation /\ ~(ui[c].awaiting /\ ui[c].loading)
    BY <2>1 DEF Shows, ClientInv, BarOrSpinner
  <2>3. new \in Conversation /\ ~(new.awaiting /\ new.loading)
    BY <2>1, <2>2, ShowType DEF Shows
  <2>4. call' \in [Requests -> Call]
    BY <2>1, CallTypes DEF Shows
  <2>5. \A u \in Requests : /\ call'[u].conversation = call[u].conversation
                            /\ call'[u].state = call[u].state
    BY <2>1 DEF Shows, ClientInv, Call
  <2>6. ui' = [ui EXCEPT ![c] = new] /\ abortRef' = abortRef
    BY <2>1 DEF Shows
  <2> HIDE DEF new, c
  <2> QED  BY <2>2, <2>3, <2>4, <2>5, <2>6, ClientChange
<1>8. ASSUME NEW r \in Requests, ReadEnd(r)  PROVE ClientInv'
  <2>1. call[r].conversation \in Conversations
    BY <1>8 DEF ReadEnd, Reading, ClientInv
  <2>2. PICK c \in Conversations : c = call[r].conversation
    BY <2>1
  <2>3. ui[c] \in Conversation /\ ~(ui[c].awaiting /\ ui[c].loading)
    BY DEF ClientInv, BarOrSpinner
  <2>4. call' \in [Requests -> Call] /\ abortRef' = None /\ ui' = ui
    BY <1>8, CallTypes DEF ReadEnd
  <2>5. \A u \in Requests : /\ call'[u].conversation = call[u].conversation
                            /\ call'[u].state # "unsent" => call[u].state # "unsent"
    BY <1>8 DEF ReadEnd, Reading, ClientInv, Call
  <2> QED  BY <2>3, <2>4, <2>5, ClientChange
<1>9. ASSUME NEW r \in Requests, ConnectionLost(r)  PROVE ClientInv'
  <2>1. call[r].conversation \in Conversations
    BY <1>9 DEF ConnectionLost, Reading, ClientInv
  <2>2. PICK c \in Conversations : c = call[r].conversation
    BY <2>1
  <2> DEFINE new == [ui[c] EXCEPT !.loading = FALSE]
  <2>3. new \in Conversation /\ ~(new.awaiting /\ new.loading)
    BY DEF ClientInv, Conversation
  <2>4. /\ call' \in [Requests -> Call] /\ abortRef' = None
        /\ ui' = [ui EXCEPT ![c] = new]
    BY <1>9, <2>2, CallTypes DEF ConnectionLost
  <2>5. \A u \in Requests : /\ call'[u].conversation = call[u].conversation
                            /\ call'[u].state # "unsent" => call[u].state # "unsent"
    BY <1>9 DEF ConnectionLost, Reading, ClientInv, Call
  <2> HIDE DEF new
  <2> QED  BY <2>3, <2>4, <2>5, ClientChange
<1>10. CASE UNCHANGED clientVars
  BY <1>10 DEF clientVars, ClientInv, BarOrSpinner, AbortRefIsOpen
<1>11. UNCHANGED chatVars => UNCHANGED clientVars
  BY DEF chatVars
<1>12. ASSUME NEW r \in Requests, Deliver(r)  PROVE ClientInv'
  BY <1>10, <1>12 DEF Deliver
<1> QED  BY <1>1, <1>2, <1>3, <1>4, <1>5, <1>6, <1>7, <1>8, <1>9, <1>10, <1>11, <1>12
         DEF ChatNext, Stopping, Network

----------------------------------------------------------------------------
(* The executor under a client.                                            *)

\* A client makes no step but those of the executor: its requests and stops are handled,
\* its tasks advance.
LEMMA ChatStep ==
  ASSUME ClientInv, [ChatNext]_chatVars
  PROVE  [Step]_vars
<1>1. ASSUME NEW r \in Requests, Deliver(r)  PROVE Step
  <2>1. /\ call[r].conversation \in SessionIds /\ call[r].action \in
             {"query", "continue", "regenerate", "modify"}
        /\ ui[call[r].conversation].target \in Targets
    BY <1>1 DEF Deliver, ClientInv, Conversations, Call, Conversation
  <2>2. Handled(r, call[r].conversation)
    BY <1>1, <2>1 DEF Deliver, Handled
  <2> QED  BY <2>1, <2>2 DEF Step
<1>2. ASSUME NEW c \in Conversations, StopArrives(c)  PROVE Step \/ UNCHANGED vars
  BY <1>2 DEF StopArrives, Step, Conversations
<1> QED  BY <1>1, <1>2
         DEF ChatNext, HandleSend, HandleConfirmation, Fetch, HandleDone, HandleStop, Stopping,
             StopReturns, Network, ReadEnding, ReadEnd, ConnectionLost, chatVars, Step

\* So what the executor guarantees by itself, it guarantees to a client.
LEMMA ServerInductive ==
  StepInv /\ BodyInv /\ ClientInv /\ [ChatNext]_chatVars => StepInv' /\ BodyInv'
BY ChatStep, StepInvInductive, BodyInvInductive

Chat == StepInv /\ BodyInv /\ ClientInv

LEMMA ChatInvariant == ChatSpec => []Chat
<1>1. ChatInit => Chat
  BY InitStepInv, InitBodyInv, InitClientInv DEF ChatInit, Chat
<1>2. Chat /\ [ChatNext]_chatVars => Chat'
  BY ServerInductive, ClientInvInductive DEF Chat
<1> QED  BY <1>1, <1>2, PTL DEF ChatSpec

\* The Stop button is there whenever the client waits, and never beside the confirmation
\* bar, whatever is stopped, breaks, fails or restarts.
THEOREM NeverBoth == ChatSpec => []BarOrSpinner
<1>1. Chat => BarOrSpinner
  BY DEF Chat, ClientInv
<1> QED  BY <1>1, ChatInvariant, PTL

\* Stop never aborts a request that has been closed: every end of a request, in any
\* conversation, clears the shared reference.
THEOREM AbortsOpenRequests == ChatSpec => []AbortRefIsOpen
<1>1. Chat => AbortRefIsOpen
  BY DEF Chat, ClientInv
<1> QED  BY <1>1, ChatInvariant, PTL

\* What the executor promises about "final" holds when a client drives it.
THEOREM FinalIsTruthfulToClients ==
  ASSUME \A p \in SubPlans : p # <<>> => p[Len(p)] \in SubAgents
  PROVE  ChatSpec => []FinalMeansNothingNext
<1>1. \A p \in SubPlans : EndKnown(p)
  BY DEF EndKnown
<1>2. ChatInit => AsksInv
  BY InitAsksInv DEF ChatInit
<1>3. Chat /\ AsksInv /\ [ChatNext]_chatVars => AsksInv'
  BY <1>1, ChatStep, AsksInvInductive DEF Chat
<1>4. Chat /\ AsksInv => FinalMeansNothingNext
  BY AsksInvShows DEF Chat
<1> QED  BY <1>2, <1>3, <1>4, ChatInvariant, PTL DEF ChatSpec

----------------------------------------------------------------------------
(* Nobody stops an answer and no connection breaks: one request at a time.  *)

\* The client waits for what r will say.
IsAwaited(r) == call[r].state = "sent" /\ ~call[r].shown

\* Where the server is with a request, as far as the client can know.
InStep(r) ==
  /\ call[r].state \in {"unsent", "sent", "closed"}
  /\ call[r].state = "unsent" => task[r].pc = "none"
  /\ call[r].state = "closed" => task[r].pc \in {"done", "expired", "lost"}
  /\ call[r].shown => task[r].pc = "done"
  /\ task[r].pc # "none" => task[r].session_id = call[r].conversation
  /\ IsAwaited(r) => ui[call[r].conversation].loading

Disciplined ==
  /\ \A r \in Requests : InStep(r)
  /\ \A c \in Conversations : ui[c].stopping = "no"
  /\ \A q, r \in Requests :
       IsAwaited(q) /\ IsAwaited(r) /\ call[q].conversation = call[r].conversation => q = r

\* A request a task works for is awaited, so there is one of them.
LEMMA LiveIsAwaited ==
  ASSUME Disciplined, NEW r \in Requests, IsLive(r)
  PROVE  IsAwaited(r) /\ task[r].session_id = call[r].conversation
BY DEF Disciplined, InStep, IsAwaited, IsLive

LEMMA OneLive ==
  ASSUME Disciplined, NEW q \in Requests, NEW r \in Requests, IsLive(q),
         IsLive(r) \/ IsAwaited(r),
         task[q].session_id = call[r].conversation
  PROVE  q = r
BY LiveIsAwaited DEF Disciplined

\* Only a task that is done has said how it ended.
LEMMA EndingMeansDone ==
  ASSUME BodyInv, NEW r \in Requests, NEW i \in 1..Len(sse[r]), sse[r][i].type \in Endings
  PROVE  task[r].pc = "done"
<1>1. ~Open(sse[r])
  BY DEF Open, QuietEvent
<1>2. sse[r] # <<End>>
  <2>1. Len(<<End>>) = 1 /\ <<End>>[1] = End /\ End.type \notin Endings
    BY DEF End, Endings
  <2> QED  BY <2>1
<1> QED  BY <1>1, <1>2 DEF BodyInv, BodyOK

LEMMA EndedMeansShut ==
  ASSUME StepInv, BodyInv, NEW r \in Requests, HasEnded(r)
  PROVE  task[r].pc \in {"done", "expired"}
<1>1. sse[r] \in Seq(Event) /\ sse[r] # <<>> /\ sse[r][Len(sse[r])] = End
  BY DEF HasEnded, Last, StepInv, Shape
<1>2. Len(sse[r]) \in 1..Len(sse[r])
  BY <1>1, EmptySeq, LenProperties
<1>3. ~Open(sse[r])
  BY <1>1, <1>2 DEF Open, QuietEvent
<1> QED  BY <1>3 DEF BodyInv, BodyOK

\* What a step of the server has to show.
ServerKeeps(r) ==
  \/ task'[r].pc = task[r].pc /\ task'[r].session_id = task[r].session_id
  \/ IsLive(r) /\ task'[r].pc # "none" /\ task'[r].session_id = task[r].session_id
  \/ /\ task[r].pc = "none" /\ call[r].state = "sent"
     /\ task'[r].session_id = call[r].conversation

LEMMA ServerKeepsStep ==
  ASSUME Disciplined, UNCHANGED clientVars, \A r \in Requests : ServerKeeps(r)
  PROVE  Disciplined'
<1>1. UNCHANGED <<ui, call>>
  BY DEF clientVars
<1>2. ASSUME NEW r \in Requests  PROVE InStep(r)'
  <2>1. InStep(r) /\ ServerKeeps(r)
    BY DEF Disciplined
  <2>2. CASE task'[r].pc = task[r].pc /\ task'[r].session_id = task[r].session_id
    BY <1>1, <2>1, <2>2 DEF InStep, IsAwaited
  <2>3. CASE IsLive(r) /\ task'[r].pc # "none" /\ task'[r].session_id = task[r].session_id
    BY <1>1, <2>1, <2>3, LiveIsAwaited DEF InStep, IsAwaited
  <2>4. CASE task[r].pc = "none" /\ call[r].state = "sent"
             /\ task'[r].session_id = call[r].conversation
    BY <1>1, <2>1, <2>4 DEF InStep, IsAwaited
  <2> QED  BY <2>1, <2>2, <2>3, <2>4 DEF ServerKeeps
<1> QED  BY <1>1, <1>2 DEF Disciplined, IsAwaited

\* A task advances only while it is live, and keeps its session.
LEMMA AdvanceKeepsSession ==
  ASSUME StepInv, NEW t \in Requests, Advance(t)
  PROVE  /\ IsLive(t) /\ task'[t].session_id = task[t].session_id
         /\ task'[t].obj = task[t].obj /\ task'[t].pc # "none"
         /\ \A u \in Requests : u # t => task'[u] = task[u]
<1>1. IsLive(t) /\ TaskStep(t) /\ task[t] \in Task
  BY AdvanceIsTaskStep, LiveTask
<1>2. ASSUME NEW new, task' = [task EXCEPT ![t] = new]
      PROVE  task'[t] = new /\ \A u \in Requests : u # t => task'[u] = task[u]
  BY <1>2 DEF StepInv, Shape
<1>3. CASE Begins(t)
  BY <1>1, <1>2, <1>3 DEF Begins, OnlyTask, Task
<1>4. CASE Passes(t)
  BY <1>1, <1>2, <1>4 DEF Passes, OnlyTask, Task
<1>5. CASE Calls(t)
  BY <1>1, <1>2, <1>5 DEF Calls, OnlyTask, Task
<1>6. CASE IsAnswered(t)
  BY <1>1, <1>2, <1>6 DEF IsAnswered, OnlyTask, Task
<1>7. CASE Pauses(t)
  BY <1>1, <1>2, <1>7 DEF Pauses, OnlyTask, Task
<1>8. CASE Raises(t) \/ Stops(t) \/ Finishes(t)
  <2>1. task' = [task EXCEPT ![t] = [task[t] EXCEPT !.pc = "done"]]
    BY <1>8 DEF Raises, Stops, Finishes, OnlyTask
  <2> DEFINE new == [task[t] EXCEPT !.pc = "done"]
  <2>2. new.pc = "done" /\ new.session_id = task[t].session_id /\ new.obj = task[t].obj
    BY <1>1 DEF Task
  <2>3. task' = [task EXCEPT ![t] = new]
    BY <2>1
  <2> HIDE DEF new
  <2> QED  BY <1>1, <1>2, <2>2, <2>3
<1> QED  BY <1>1, <1>3, <1>4, <1>5, <1>6, <1>7, <1>8 DEF TaskStep

\* A request that reaches the server is put to work for its conversation.
LEMMA DeliverKeepsSession ==
  ASSUME StepInv, ClientInv, NEW r \in Requests, Deliver(r)
  PROVE  /\ task[r].pc = "none" /\ call[r].conversation \in SessionIds
         /\ task'[r].session_id = call[r].conversation
         /\ task'[r].pc \in {"created", "expired"}
         /\ \A u \in Requests : u # r => task'[u] = task[u]
<1>1. /\ call[r].conversation \in SessionIds
      /\ call[r].action \in {"query", "continue", "regenerate", "modify"}
      /\ task[r] \in Task
  BY DEF Deliver, ClientInv, Conversations, Call, StepInv, Shape
<1> DEFINE sid == call[r].conversation
<1>2. task[r].pc = "none"
  BY DEF Deliver, FreshRequest, ResumeWithMessage, Confirm, ConfirmExpired
<1>3. ConfirmExpired(r, sid) \/ \E o : CreateTask(r, sid, o)
  BY DEF Deliver, FreshRequest, ResumeWithMessage, Confirm
<1>4. ASSUME NEW o, CreateTask(r, sid, o)
      PROVE  /\ task'[r].session_id = sid /\ task'[r].pc \in {"created", "expired"}
             /\ \A u \in Requests : u # r => task'[u] = task[u]
  BY <1>1, <1>4 DEF CreateTask, StepInv, Shape, Task
<1>5. CASE ConfirmExpired(r, sid)
  BY <1>1, <1>5 DEF ConfirmExpired, StepInv, Shape, Task
<1> QED  BY <1>1, <1>2, <1>3, <1>4, <1>5

LEMMA DisciplinedInductive ==
  ASSUME Moves \cap {"stop", "disconnect"} = {}
  PROVE  Chat /\ Disciplined /\ [ChatNext]_chatVars => Disciplined'
<1> SUFFICES ASSUME StepInv, BodyInv, ClientInv, Disciplined, [ChatNext]_chatVars
             PROVE  Disciplined'
  BY DEF Chat
<1>1. ASSUME NEW c \in Conversations, NEW r \in Requests, NEW action, NEW announced,
             Sends(c, r, action, announced), ~ui[c].loading
      PROVE  Disciplined'
  <2>1. /\ call'[r].state = "sent" /\ ~call'[r].shown /\ call'[r].conversation = c
        /\ \A u \in Requests : u # r => call'[u] = call[u]
        /\ ui'[c].loading /\ ui'[c].stopping = ui[c].stopping
        /\ \A d \in Conversations : d # c => ui'[d] = ui[d]
        /\ task' = task /\ task[r].pc = "none"
    BY <1>1 DEF Sends, vars, ClientInv, Conversation, Disciplined, InStep
  <2>2. \A u \in Requests : IsAwaited(u) => call[u].conversation # c
    BY <1>1 DEF Disciplined, InStep
  <2>3. ASSUME NEW u \in Requests, u # r  PROVE InStep(u)'
    <3>1. InStep(u) /\ call'[u] = call[u] /\ task'[u] = task[u]
          /\ (IsAwaited(u) => call[u].conversation \in Conversations)
      BY <2>1, <2>3 DEF Disciplined, ClientInv, IsAwaited
    <3>2. IsAwaited(u) => ui'[call[u].conversation] = ui[call[u].conversation]
      BY <2>1, <2>2, <3>1
    <3> QED  BY <3>1, <3>2 DEF InStep, IsAwaited
  <2>4. InStep(r)'
    BY <2>1 DEF InStep, IsAwaited
  <2>5. ASSUME NEW q \in Requests, NEW u \in Requests, IsAwaited(q)', IsAwaited(u)',
               call'[q].conversation = call'[u].conversation
        PROVE  q = u
    BY <2>1, <2>2, <2>5 DEF Disciplined, IsAwaited
  <2>6. \A d \in Conversations : ui'[d].stopping = "no"
    BY <2>1 DEF Disciplined
  <2> QED  BY <2>3, <2>4, <2>5, <2>6 DEF Disciplined
<1>2. ASSUME NEW c \in Conversations, HandleSend(c)  PROVE Disciplined'
  <2>1. PICK r \in Requests : Sends(c, r, "query", NoNode)
    BY <1>2, FetchSends DEF HandleSend
  <2> QED  BY <1>1, <1>2, <2>1 DEF HandleSend
<1>3. ASSUME NEW c \in Conversations, NEW action \in {"continue", "regenerate", "modify"},
             HandleConfirmation(c, action)
      PROVE  Disciplined'
  <2>1. PICK announced : Fetch(c, action, announced)
    BY <1>3 DEF HandleConfirmation
  <2>2. PICK r \in Requests : Sends(c, r, action, announced)
    BY <2>1, FetchSends
  <2>3. ~ui[c].loading
    BY <1>3 DEF HandleConfirmation, ClientInv, BarOrSpinner
  <2> QED  BY <1>1, <2>2, <2>3
<1>4. ASSUME NEW c \in Conversations, HandleDone(c)  PROVE Disciplined'
  <2>1. /\ UNCHANGED <<call, task>>
        /\ ui'[c].loading = ui[c].loading /\ ui'[c].stopping = ui[c].stopping
        /\ \A d \in Conversations : d # c => ui'[d] = ui[d]
    BY <1>4 DEF HandleDone, vars, ClientInv, Conversation
  <2>2. \A d \in Conversations : ui'[d].loading = ui[d].loading /\ ui'[d].stopping = ui[d].stopping
    BY <2>1
  <2>3. \A u \in Requests : InStep(u)'
    BY <2>1, <2>2 DEF Disciplined, InStep, IsAwaited, ClientInv
  <2> QED  BY <2>1, <2>2, <2>3 DEF Disciplined, IsAwaited
<1>5. ASSUME NEW c \in Conversations, HandleStop(c) \/ StopArrives(c) \/ StopReturns(c)
      PROVE  Disciplined'
  BY <1>5 DEF HandleStop, StopArrives, StopReturns, Disciplined
\* What remains is the client dealing with request r, whose conversation may only stop
\* loading if it waits for no other.
<1>6. ASSUME NEW r \in Requests, UNCHANGED task, call[r].conversation \in Conversations,
             \A u \in Requests : u # r => call'[u] = call[u],
             call'[r].conversation = call[r].conversation,
             call'[r].state \in {"sent", "closed"}, ~IsAwaited(r)',
             call'[r].state = "closed" => task[r].pc \in {"done", "expired", "lost"},
             call'[r].shown => task[r].pc = "done", call[r].state = "sent",
             \A d \in Conversations : ui'[d].stopping = "no",
             \A d \in Conversations : d # call[r].conversation => ui'[d] = ui[d],
             IsAwaited(r) \/ UNCHANGED ui
      PROVE  Disciplined'
  <2>1. ASSUME NEW u \in Requests, u # r  PROVE InStep(u)'
    <3>1. InStep(u) /\ call'[u] = call[u] /\ task'[u] = task[u]
          /\ (IsAwaited(u) => call[u].conversation \in Conversations)
      BY <1>6, <2>1 DEF Disciplined, ClientInv, IsAwaited
    <3>2. IsAwaited(u) => ui'[call[u].conversation] = ui[call[u].conversation]
      BY <1>6, <2>1, <3>1 DEF Disciplined
    <3> QED  BY <3>1, <3>2 DEF InStep, IsAwaited
  <2>2. InStep(r)'
    BY <1>6 DEF Disciplined, InStep, IsAwaited
  <2>3. ASSUME NEW q \in Requests, NEW u \in Requests, IsAwaited(q)', IsAwaited(u)',
               call'[q].conversation = call'[u].conversation
        PROVE  q = u
    BY <1>6, <2>3 DEF Disciplined, IsAwaited
  <2> QED  BY <1>6, <2>1, <2>2, <2>3 DEF Disciplined
<1>7. ASSUME NEW r \in Requests, ReadEnding(r)  PROVE Disciplined'
  <2>1. PICK event \in Event : Shows(r, event)
    BY <1>7, ReadEndingShows
  <2> DEFINE c == call[r].conversation
  <2>2. c \in Conversations /\ ui[c] \in Conversation /\ ~(ui[c].awaiting /\ ui[c].loading)
    BY <2>1 DEF Shows, ClientInv, BarOrSpinner
  <2>3. Show(ui[c], event).stopping = ui[c].stopping
    BY <2>1, <2>2, ShowType DEF Shows
  <2>4. task[r].pc = "done"
    BY <2>1, EndingMeansDone DEF Shows
  <2>5. /\ call[r].state = "sent" /\ ~call[r].shown /\ task' = task
        /\ call'[r] = [call[r] EXCEPT !.shown = TRUE]
        /\ \A u \in Requests : u # r => call'[u] = call[u]
        /\ ui' = [ui EXCEPT ![c] = Show(ui[c], event)]
    BY <2>1 DEF Shows, Reading, ClientInv, vars
  <2>6. call'[r].shown /\ call'[r].state = "sent" /\ call'[r].conversation = c
    BY <2>5 DEF ClientInv, Call
  <2>7. /\ \A d \in Conversations : ui'[d].stopping = "no"
        /\ \A d \in Conversations : d # c => ui'[d] = ui[d]
    BY <2>2, <2>3, <2>5 DEF ClientInv, Disciplined
  <2> HIDE DEF c
  <2> QED  BY <1>6, <2>2, <2>4, <2>5, <2>6, <2>7 DEF IsAwaited, c
<1>8. ASSUME NEW r \in Requests, ReadEnd(r)  PROVE Disciplined'
  <2>1. task[r].pc \in {"done", "expired"}
    BY <1>8, EndedMeansShut DEF ReadEnd
  <2>2. /\ call[r].state = "sent" /\ call[r].conversation \in Conversations
        /\ task' = task /\ ui' = ui /\ call'[r] = [call[r] EXCEPT !.state = "closed"]
        /\ \A u \in Requests : u # r => call'[u] = call[u]
    BY <1>8 DEF ReadEnd, Reading, ClientInv, vars
  <2>3. /\ call'[r].state = "closed" /\ call'[r].conversation = call[r].conversation
        /\ call'[r].shown = call[r].shown
    BY <2>2 DEF ClientInv, Call
  <2>4. call[r].shown => task[r].pc = "done"
    BY DEF Disciplined, InStep
  <2> QED  BY <1>6, <2>1, <2>2, <2>3, <2>4 DEF IsAwaited, Disciplined
<1>9. ASSUME NEW r \in Requests, ConnectionLost(r)  PROVE Disciplined'
  <2>1. task[r].pc = "lost"
    BY <1>9 DEF ConnectionLost
  <2>2. /\ call[r].state = "sent" /\ call[r].conversation \in Conversations
        /\ task' = task /\ call'[r] = [call[r] EXCEPT !.state = "closed"]
        /\ \A u \in Requests : u # r => call'[u] = call[u]
        /\ ui' = [ui EXCEPT ![call[r].conversation].loading = FALSE]
    BY <1>9 DEF ConnectionLost, Reading, ClientInv, vars
  <2>3. /\ call'[r].state = "closed" /\ call'[r].conversation = call[r].conversation
        /\ call'[r].shown = call[r].shown
    BY <2>2 DEF ClientInv, Call
  <2>4. ~call[r].shown
    BY <2>1 DEF Disciplined, InStep
  <2>5. /\ \A d \in Conversations : ui'[d].stopping = "no"
        /\ \A d \in Conversations : d # call[r].conversation => ui'[d] = ui[d]
    BY <2>2 DEF ClientInv, Conversation, Disciplined
  <2> QED  BY <1>6, <2>1, <2>2, <2>3, <2>4, <2>5 DEF IsAwaited
<1>10. ASSUME NEW r \in Requests, Deliver(r)  PROVE Disciplined'
  <2>1. call[r].state = "sent"
    BY <1>10 DEF Deliver, Disciplined, InStep
  <2>2. \A u \in Requests : ServerKeeps(u)
    BY <1>10, <2>1, DeliverKeepsSession DEF ServerKeeps
  <2> QED  BY <1>10, <2>2, ServerKeepsStep DEF Deliver
<1>11. ASSUME NEW t \in Requests, Advance(t), UNCHANGED clientVars  PROVE Disciplined'
  BY <1>11, AdvanceKeepsSession, ServerKeepsStep DEF ServerKeeps
<1>12. ASSUME NEW t \in Requests, StreamChunk(t), UNCHANGED clientVars  PROVE Disciplined'
  <2>1. \A u \in Requests : ServerKeeps(u)
    BY <1>12 DEF StreamChunk, ServerKeeps, StepInv, Shape, Task
  <2> QED  BY <1>12, <2>1, ServerKeepsStep
<1>13. CASE Restart /\ UNCHANGED clientVars
  <2>1. \A u \in Requests : ServerKeeps(u)
    BY <1>13 DEF Restart, ServerKeeps, StepInv, Shape, Task
  <2> QED  BY <1>13, <2>1, ServerKeepsStep
<1>14. CASE UNCHANGED chatVars
  BY <1>14 DEF chatVars, clientVars, vars, Disciplined, InStep, IsAwaited
<1> QED  BY <1>2, <1>3, <1>4, <1>5, <1>7, <1>8, <1>9, <1>10, <1>11, <1>12, <1>13, <1>14
         DEF ChatNext, Stopping, Network

LEMMA InitDisciplined == ChatInit => Disciplined
<1> SUFFICES ASSUME ChatInit  PROVE Disciplined
  OBVIOUS
<1>1. PICK target : ui = [c \in Conversations |-> NewConversation(target[c])]
  BY DEF ChatInit
<1>2. \A r \in Requests : call[r] = NewCall /\ task[r] = NewTask
  BY DEF ChatInit, Init
<1> QED  BY <1>1, <1>2 DEF Disciplined, InStep, IsAwaited, NewConversation, NewCall, NewTask

\* The executor has no lock of its own: that two tasks never work on one session rests
\* on the client, which does not send while it is loading.  This holds while nobody
\* presses Stop and no connection breaks, models fail and the server restarts as they may.
THEOREM OneTaskAtATime ==
  ASSUME Moves \cap {"stop", "disconnect"} = {}
  PROVE  ChatSpec => []OneTaskPerConversation
<1>1. Disciplined => OneTaskPerConversation
  <2> SUFFICES ASSUME Disciplined, NEW c \in Conversations
               PROVE  Cardinality({t \in Requests : IsLive(t) /\ task[t].session_id = c}) <= 1
    BY DEF OneTaskPerConversation
  <2> DEFINE live == {t \in Requests : IsLive(t) /\ task[t].session_id = c}
  <2>1. \A q, r \in live : q = r
    BY LiveIsAwaited, OneLive
  <2>2. CASE live = {}
    BY <2>2, FS_EmptySet
  <2>3. CASE live # {}
    <3>1. PICK q : live = {q}
      BY <2>1, <2>3
    <3> HIDE DEF live
    <3>2. Cardinality({q}) = 1
      BY FS_Singleton
    <3> QED  BY <3>1, <3>2 DEF live
  <2> QED  BY <2>2, <2>3
<1>2. ChatInit => Disciplined
  BY InitDisciplined
<1>3. Chat /\ Disciplined /\ [ChatNext]_chatVars => Disciplined'
  BY DisciplinedInductive
<1> QED  BY <1>1, <1>2, <1>3, ChatInvariant, PTL DEF ChatSpec

----------------------------------------------------------------------------
(* A session belongs to one conversation, and its stream to the request     *)
(* that is served.                                                         *)

\* A session in the store was opened for the conversation it is stored under.
StoreOwned(c) ==
  store[c] # None => task[store[c]].pc # "none" /\ task[store[c]].session_id = c

\* A task works on a session of its conversation, which streams to it.
TaskOwned(t) ==
  IsLive(t) =>
    /\ task[task[t].obj].pc # "none"
    /\ task[task[t].obj].session_id = task[t].session_id
    /\ SessionOf(t).stream_writer = t
    /\ task[t].pc \in {"calling", "answered"} => task[t].writer = t

IsToken(e, t) == e.type = "stream" /\ e.by = t
TokensSaid(t) == task[t].streamed => \E i \in 1..Len(sse[t]) : IsToken(sse[t][i], t)

Owned ==
  /\ \A c \in Conversations : StoreOwned(c)
  /\ \A t \in Requests :
       TaskOwned(t) /\ TokensSaid(t) /\ (task[t].pc = "none" => ~task[t].streamed)
  /\ \A o \in Requests : sessionData[o] # None => ~sessionData[o].cancelled

\* What every step of a task leaves alone, and what it leaves to the task.
Works(t) ==
  /\ \A u \in Requests : u # t => task'[u] = task[u] /\ sse'[u] = sse[u]
  /\ \A o \in Requests : o # task[t].obj => sessionData'[o] = sessionData[o]
  /\ \A c \in Conversations : c # task[t].session_id => store'[c] = store[c]
  /\ store'[task[t].session_id] \in {store[task[t].session_id], task[t].obj, None}
  /\ \E said \in Seq(Event) : sse'[t] = sse[t] \o said
  /\ task'[t].session_id = task[t].session_id /\ task'[t].obj = task[t].obj
  /\ task'[t].pc # "none"
  /\ task'[t].streamed => task[t].streamed
  /\ task'[t].pc \in {"calling", "answered"} =>
       task'[t].writer = SessionOf(t).stream_writer
         \/ (task[t].pc = "calling" /\ task'[t].writer = task[t].writer)
  /\ sessionData'[task[t].obj].stream_writer = SessionOf(t).stream_writer
  /\ sessionData'[task[t].obj].cancelled = SessionOf(t).cancelled

LEMMA OnlyTaskWorks ==
  ASSUME StepInv, NEW t \in Requests, IsLive(t), NEW new, NEW data, NEW kept,
         NEW said \in Seq(Event), OnlyTask(t, new, data, kept, said),
         kept \in {store[task[t].session_id], task[t].obj, None},
         new.session_id = task[t].session_id, new.obj = task[t].obj, new.pc # "none",
         new.streamed => task[t].streamed,
         new.pc \in {"calling", "answered"} =>
           new.writer = SessionOf(t).stream_writer
             \/ (task[t].pc = "calling" /\ new.writer = task[t].writer),
         data.stream_writer = SessionOf(t).stream_writer,
         data.cancelled = SessionOf(t).cancelled
  PROVE  Works(t)
<1>1. /\ task'[t] = new /\ \A u \in Requests : u # t => task'[u] = task[u]
      /\ sse'[t] = sse[t] \o said /\ \A u \in Requests : u # t => sse'[u] = sse[u]
  BY DEF OnlyTask, Emit, StepInv, Shape
<1>2. /\ task[t].obj \in Requests /\ task[t].session_id \in Conversations
      /\ sessionData'[task[t].obj] = data /\ store'[task[t].session_id] = kept
      /\ \A o \in Requests : o # task[t].obj => sessionData'[o] = sessionData[o]
      /\ \A c \in Conversations : c # task[t].session_id => store'[c] = store[c]
  BY LiveTask DEF OnlyTask, StepInv, Shape, Conversations
<1> QED  BY <1>1, <1>2, Zenon DEF Works

LEMMA AdvanceWorks ==
  ASSUME StepInv, NEW t \in Requests, Advance(t)
  PROVE  IsLive(t) /\ Works(t)
<1>1. IsLive(t) /\ TaskStep(t) /\ task[t] \in Task /\ SessionOf(t) \in SessionData
  BY AdvanceIsTaskStep, LiveTask
<1>2. Kept(t) \in {store[task[t].session_id], task[t].obj, None}
  BY DEF Kept
<1> SUFFICES Works(t)
  BY <1>1
<1>3. /\ <<>> \in Seq(Event) /\ <<ErrorEvent, End>> \in Seq(Event)
      /\ <<Stopped, End>> \in Seq(Event)
  BY EventTypes
<1>4. CASE Begins(t)
  <2> DEFINE new == [task[t] EXCEPT !.pc = "loop", !.plan = SessionOf(t).execution_plan,
                                    !.cursor = SessionOf(t).cursor]
  <2>1. /\ new.session_id = task[t].session_id /\ new.obj = task[t].obj
        /\ new.pc = "loop" /\ new.streamed = task[t].streamed
    BY <1>1 DEF Task
  <2>2. OnlyTask(t, new, SessionOf(t), Kept(t), <<>>)
    BY <1>4 DEF Begins
  <2> HIDE DEF new
  <2> QED  BY <1>1, <1>2, <1>3, <2>1, <2>2, OnlyTaskWorks
<1>5. CASE Passes(t)
  <2>1. PICK state \in AgentState,
             said \in {<<>>, <<Thinking(CurrentNode(t)), Updated(CurrentNode(t))>>} :
          OnlyTask(t, [task[t] EXCEPT !.cursor = @ + 1],
                   [SessionOf(t) EXCEPT !.state = state], Kept(t), said)
    BY <1>5 DEF Passes
  <2>2. said \in Seq(Event)
    <3>1. CurrentNode(t) \in NODE
      BY <1>1, <1>5, LiveTask DEF Passes
    <3>2. \A a, b \in Event : <<a, b>> \in Seq(Event)
      OBVIOUS
    <3> QED  BY <1>3, <3>1, <3>2, EventTypes
  <2> DEFINE new == [task[t] EXCEPT !.cursor = @ + 1]
             data == [SessionOf(t) EXCEPT !.state = state]
  <2>3. /\ new.session_id = task[t].session_id /\ new.obj = task[t].obj
        /\ new.pc = "loop" /\ new.streamed = task[t].streamed
    BY <1>1, <1>5 DEF Task, Passes
  <2>4. data.stream_writer = SessionOf(t).stream_writer /\ data.cancelled = SessionOf(t).cancelled
    BY <1>1 DEF SessionData
  <2> HIDE DEF new, data
  <2> QED  BY <1>1, <1>2, <2>1, <2>2, <2>3, <2>4, OnlyTaskWorks DEF new, data
<1>6. CASE Calls(t)
  <2>1. PICK new : new = [task[t] EXCEPT !.pc = "calling", !.streamed = FALSE,
                                         !.writer = SessionOf(t).stream_writer]
    OBVIOUS
  <2>2. PICK said : said = <<Thinking(CurrentNode(t))>>
    OBVIOUS
  <2>3. /\ new.session_id = task[t].session_id /\ new.obj = task[t].obj
        /\ new.pc = "calling" /\ new.streamed = FALSE
        /\ new.writer = SessionOf(t).stream_writer
    BY <1>1, <2>1 DEF Task
  <2>4. OnlyTask(t, new, SessionOf(t), Kept(t), said)
    BY <1>6, <2>1, <2>2 DEF Calls
  <2>5. said \in Seq(Event)
    BY <1>1, <1>6, <2>2, LiveTask, EventTypes DEF Calls
  <2>6. /\ new.pc # "none"
        /\ new.streamed => task[t].streamed
        /\ new.pc \in {"calling", "answered"} =>
             new.writer = SessionOf(t).stream_writer
               \/ (task[t].pc = "calling" /\ new.writer = task[t].writer)
    BY <2>3
  <2> QED  BY <1>1, <1>2, <2>3, <2>4, <2>5, <2>6, OnlyTaskWorks
<1>7. CASE IsAnswered(t)
  <2> DEFINE new == [task[t] EXCEPT !.pc = "answered"]
  <2>1. /\ new.session_id = task[t].session_id /\ new.obj = task[t].obj
        /\ new.pc = "answered" /\ new.streamed = task[t].streamed
        /\ new.writer = task[t].writer /\ task[t].pc = "calling"
    BY <1>1, <1>7 DEF Task, IsAnswered
  <2>2. OnlyTask(t, new, SessionOf(t), Kept(t), <<>>)
    BY <1>7 DEF IsAnswered
  <2> HIDE DEF new
  <2> QED  BY <1>1, <1>2, <1>3, <2>1, <2>2, OnlyTaskWorks
<1> DEFINE over == [task[t] EXCEPT !.pc = "done"]
<1>8. /\ over.session_id = task[t].session_id /\ over.obj = task[t].obj
      /\ over.pc = "done" /\ over.streamed = task[t].streamed
  BY <1>1 DEF Task
<1>9. ASSUME NEW data, NEW kept \in {store[task[t].session_id], task[t].obj, None},
             NEW said \in Seq(Event), OnlyTask(t, over, data, kept, said),
             data.stream_writer = SessionOf(t).stream_writer,
             data.cancelled = SessionOf(t).cancelled
      PROVE  Works(t)
  <2> HIDE DEF over
  <2> QED  BY <1>1, <1>8, <1>9, OnlyTaskWorks
<1>10. CASE Pauses(t)
  <2>1. PICK node, state, plan, cursor, next, is_final :
          PausesAt(t, node, state, plan, cursor, next, is_final)
    BY <1>1, <1>10, PausesSomewhere
  <2> DEFINE data == Paused(SessionOf(t), state, plan, cursor, node)
  <2>2. data.stream_writer = SessionOf(t).stream_writer /\ data.cancelled = SessionOf(t).cancelled
    BY <1>1 DEF Paused, SessionData
  <2>3. /\ OnlyTask(t, over, data, task[t].obj, Says(node, next, is_final))
        /\ Says(node, next, is_final) \in Seq(Event)
    BY <2>1 DEF PausesAt
  <2> HIDE DEF over, data
  <2> QED  BY <1>9, <2>2, <2>3
<1>11. CASE Raises(t)
  <2>1. OnlyTask(t, over, SessionOf(t), Kept(t), <<ErrorEvent, End>>)
    BY <1>11 DEF Raises
  <2> HIDE DEF over
  <2> QED  BY <1>2, <1>3, <1>9, <2>1
<1>12. CASE Stops(t)
  <2> DEFINE data == [SessionOf(t) EXCEPT !.execution_plan = task[t].plan,
                                          !.cursor = task[t].cursor]
  <2>1. data.stream_writer = SessionOf(t).stream_writer /\ data.cancelled = SessionOf(t).cancelled
    BY <1>1 DEF SessionData
  <2>2. OnlyTask(t, over, data, task[t].obj, <<Stopped, End>>)
    BY <1>12 DEF Stops
  <2> HIDE DEF over, data
  <2> QED  BY <1>3, <1>9, <2>1, <2>2
<1>13. CASE Finishes(t)
  <2>1. <<Final(LastReply(StateOf(t).messages)), End>> \in Seq(Event)
    <3>1. LastReply(StateOf(t).messages) \in Message \cup {NoReply}
      BY <1>1, LiveTask, LastReplyType DEF AgentState
    <3> QED  BY <3>1, EventTypes
  <2>2. OnlyTask(t, over, SessionOf(t), None,
                 <<Final(LastReply(StateOf(t).messages)), End>>)
    BY <1>13 DEF Finishes
  <2> HIDE DEF over
  <2> QED  BY <1>9, <2>1, <2>2
<1> QED  BY <1>1, <1>4, <1>5, <1>6, <1>7, <1>10, <1>11, <1>12, <1>13 DEF TaskStep

\* How a request that arrives is received.
Receives(r, c, o, data) ==
  /\ Binds(r, c, o, data) /\ ~data.cancelled /\ data.stream_writer = r
  /\ \/ o = r /\ call[r].action = "query" /\ data = Opened(r, ui[c].target)
     \/ /\ o = store[c] /\ o \in Requests
        /\ sessionData[o] \in SessionData /\ Resumes(r, sessionData[o], data)

LEMMA DeliverReceives ==
  ASSUME StepInv, ClientInv, NEW r \in Requests, Deliver(r)
  PROVE  /\ call[r].conversation \in Conversations /\ UNCHANGED clientVars
         /\ \/ \E o, data : Receives(r, call[r].conversation, o, data)
            \/ call[r].action # "query" /\ ConfirmExpired(r, call[r].conversation)
<1>1. /\ call[r].conversation \in Conversations /\ UNCHANGED clientVars
      /\ call[r].action \in {"query", "continue", "regenerate", "modify"}
  BY DEF Deliver, ClientInv, Call
<1>2. PICK c \in SessionIds : c = call[r].conversation
  BY <1>1 DEF Conversations
<1>3. CASE call[r].action = "query" /\ FreshRequest(r, c, ui[c].target)
  <2>1. PICK data : data = Opened(r, ui[c].target)
    OBVIOUS
  <2>2. Binds(r, c, r, data) /\ ~data.cancelled /\ data.stream_writer = r
    BY <1>3, <2>1, FreshRequestBinds DEF Opened
  <2> QED  BY <1>1, <1>2, <1>3, <2>1, <2>2 DEF Receives
<1>4. CASE \/ ResumeWithMessage(r, c)
           \/ \E action \in {"continue", "regenerate", "modify"} : Confirm(r, c, action)
  <2>1. /\ store[c] \in Requests /\ sessionData[store[c]] \in SessionData
        /\ \E data : Binds(r, c, store[c], data) /\ Resumes(r, sessionData[store[c]], data)
    BY <1>4, ResumptionBinds
  <2> QED  BY <1>1, <1>2, <2>1 DEF Receives, Resumes
<1>5. CASE call[r].action # "query" /\ ConfirmExpired(r, c)
  BY <1>1, <1>2, <1>5
<1> QED  BY <1>1, <1>2, <1>3, <1>4, <1>5 DEF Deliver

\* What the server does while nobody stops it.
LEMMA ServerSteps ==
  ASSUME Disciplined, [ChatNext]_chatVars
  PROVE  \/ UNCHANGED vars
         \/ \E r \in Requests : Deliver(r)
         \/ UNCHANGED clientVars /\ \E t \in Requests : Advance(t) \/ StreamChunk(t)
         \/ UNCHANGED clientVars /\ Restart
<1>1. \A c \in Conversations : ~StopArrives(c)
  BY DEF StopArrives, Disciplined
<1> QED  BY <1>1
         DEF ChatNext, HandleSend, HandleConfirmation, Fetch, HandleDone, HandleStop, Stopping,
             StopReturns, Network, ReadEnding, ReadEnd, ConnectionLost, chatVars

\* A request on its way is awaited, and it is the only one of its conversation.
LEMMA ArrivesAlone ==
  ASSUME Disciplined, ClientInv, NEW r \in Requests, Deliver(r)
  PROVE  /\ IsAwaited(r) /\ task[r].pc = "none"
         /\ \A t \in Requests : IsLive(t) => task[t].session_id # call[r].conversation
<1>1. task[r].pc = "none" /\ call[r].state \in {"sent", "aborted"}
  BY DEF Deliver, FreshRequest, ResumeWithMessage, Confirm, ConfirmExpired
<1>2. IsAwaited(r)
  BY <1>1 DEF Disciplined, InStep, IsAwaited
<1> QED  BY <1>1, <1>2, OneLive DEF IsLive

LEMMA ReceivesKeepsOwned ==
  ASSUME StepInv, ClientInv, Disciplined, Owned, NEW r \in Requests, Deliver(r),
         NEW o, NEW data, Receives(r, call[r].conversation, o, data)
  PROVE  Owned'
<1>1. PICK c \in Conversations : c = call[r].conversation
  BY DeliverReceives
<1>2. /\ task[r].pc = "none" /\ \A t \in Requests : IsLive(t) => task[t].session_id # c
  BY <1>1, ArrivesAlone
<1>3. o \in Requests /\ (o # r => o = store[c])
  BY <1>1 DEF Receives
<1>4. /\ task'[r].pc = "created" /\ task'[r].session_id = c /\ task'[r].obj = o
      /\ task'[r].streamed = task[r].streamed
      /\ \A u \in Requests : u # r => task'[u] = task[u]
  BY <1>1 DEF Receives, Binds, StepInv, Shape, Task
<1>5. /\ sessionData'[o] = data /\ \A p \in Requests : p # o => sessionData'[p] = sessionData[p]
      /\ store'[c] = o /\ \A d \in Conversations : d # c => store'[d] = store[d]
      /\ sse' = sse
  BY <1>1, <1>3 DEF Receives, Binds, StepInv, Shape, Conversations
<1>6. o # r => task[o].pc # "none" /\ task[o].session_id = c
  BY <1>1, <1>3, NoneAssumption DEF Owned, StoreOwned
<1>7. ASSUME NEW d \in Conversations  PROVE StoreOwned(d)'
  <2>1. store[d] \in Requests \cup {None}
    BY DEF StepInv, Shape, Conversations
  <2> QED  BY <1>2, <1>3, <1>4, <1>5, <1>6, <2>1 DEF Owned, StoreOwned
<1>8. TaskOwned(r)'
  BY <1>1, <1>3, <1>4, <1>5, <1>6 DEF TaskOwned, SessionOf, Receives
<1>9. ASSUME NEW t \in Requests, t # r  PROVE TaskOwned(t)'
  <2> SUFFICES ASSUME IsLive(t)'  PROVE TaskOwned(t)'
    BY DEF TaskOwned
  <2>1. IsLive(t) /\ task'[t] = task[t] /\ task[t].obj \in Requests
    BY <1>4, <1>9, LiveTask DEF IsLive
  <2>2. task[t].obj # r /\ task[t].obj # o
    BY <1>2, <1>6, <2>1 DEF Owned, TaskOwned
  <2> QED  BY <1>4, <1>5, <2>1, <2>2 DEF Owned, TaskOwned, SessionOf
<1>10. ASSUME NEW t \in Requests  PROVE TokensSaid(t)' /\ (task'[t].pc = "none" => ~task'[t].streamed)
  BY <1>4, <1>5 DEF Owned, TokensSaid
<1>11. \A p \in Requests : sessionData'[p] # None => ~sessionData'[p].cancelled
  BY <1>5 DEF Owned, Receives
<1> QED  BY <1>7, <1>8, <1>9, <1>10, <1>11 DEF Owned

LEMMA ExpiredKeepsOwned ==
  ASSUME StepInv, Owned, NEW r \in Requests, NEW c, ConfirmExpired(r, c)
  PROVE  Owned'
<1>1. /\ task[r].pc = "none" /\ task'[r].pc = "expired" /\ task'[r].obj = task[r].obj
      /\ task'[r].streamed = task[r].streamed
      /\ \A u \in Requests : u # r => task'[u] = task[u] /\ sse'[u] = sse[u]
      /\ UNCHANGED <<store, sessionData>>
  BY DEF ConfirmExpired, StepInv, Shape, Task
<1>2. ASSUME NEW d \in Conversations  PROVE StoreOwned(d)'
  <2>1. store[d] \in Requests \cup {None}
    BY DEF StepInv, Shape, Conversations
  <2> QED  BY <1>1, <2>1 DEF Owned, StoreOwned
<1>3. ASSUME NEW t \in Requests  PROVE TaskOwned(t)'
  <2> SUFFICES ASSUME IsLive(t)'  PROVE TaskOwned(t)'
    BY DEF TaskOwned
  <2>1. IsLive(t) /\ task'[t] = task[t] /\ task[t].obj \in Requests
    BY <1>1, LiveTask DEF IsLive
  <2>2. task[t].obj # r
    BY <1>1, <2>1 DEF Owned, TaskOwned
  <2> QED  BY <1>1, <2>1, <2>2 DEF Owned, TaskOwned, SessionOf
<1>4. ASSUME NEW t \in Requests  PROVE TokensSaid(t)' /\ (task'[t].pc = "none" => ~task'[t].streamed)
  BY <1>1 DEF Owned, TokensSaid
<1> QED  BY <1>1, <1>2, <1>3, <1>4 DEF Owned

LEMMA WorksKeepsOwned ==
  ASSUME StepInv, Disciplined, Owned, NEW t \in Requests, IsLive(t), Works(t)
  PROVE  Owned'
<1>1. /\ task[t].obj \in Requests /\ task[t].session_id \in Conversations /\ sse[t] \in Seq(Event)
      /\ task[task[t].obj].pc # "none"
      /\ task[task[t].obj].session_id = task[t].session_id
      /\ SessionOf(t).stream_writer = t
  BY LiveTask DEF Owned, TaskOwned, StepInv, Shape, Conversations
<1>2. \A u \in Requests : /\ task'[u].session_id = task[u].session_id
                          /\ task[u].pc # "none" => task'[u].pc # "none"
  BY DEF Works
<1>3. ASSUME NEW c \in Conversations  PROVE StoreOwned(c)'
  <2>1. store[c] \in Requests \cup {None}
    BY DEF StepInv, Shape, Conversations
  <2>2. CASE c # task[t].session_id
    BY <1>2, <2>1, <2>2 DEF Owned, StoreOwned, Works
  <2>3. CASE c = task[t].session_id
    <3>1. store'[c] \in {store[c], task[t].obj, None}
      BY <2>3 DEF Works
    <3> QED  BY <1>1, <1>2, <2>1, <2>3, <3>1 DEF Owned, StoreOwned
  <2> QED  BY <2>2, <2>3
<1>4. TaskOwned(t)'
  <2> SUFFICES ASSUME IsLive(t)'  PROVE TaskOwned(t)'
    BY DEF TaskOwned
  <2>1. task'[t].obj = task[t].obj /\ SessionOf(t)'.stream_writer = t
    BY <1>1 DEF Works, SessionOf
  <2>2. task'[t].pc \in {"calling", "answered"} => task'[t].writer = t
    BY <1>1 DEF Works, Owned, TaskOwned
  <2> QED  BY <1>1, <1>2, <2>1, <2>2 DEF TaskOwned
<1>5. ASSUME NEW u \in Requests, u # t  PROVE TaskOwned(u)'
  <2> SUFFICES ASSUME IsLive(u)'  PROVE TaskOwned(u)'
    BY DEF TaskOwned
  <2>1. IsLive(u) /\ task'[u] = task[u] /\ task[u].obj \in Requests
    BY <1>5, LiveTask DEF IsLive, Works
  <2>2. task[u].obj # task[t].obj
    BY <1>1, <1>5, <2>1, LiveIsAwaited, OneLive DEF Owned, TaskOwned
  <2>3. sessionData'[task[u].obj] = sessionData[task[u].obj]
    BY <2>1, <2>2 DEF Works
  <2> QED  BY <1>2, <2>1, <2>3 DEF Owned, TaskOwned, SessionOf
<1>6. ASSUME NEW u \in Requests
      PROVE  TokensSaid(u)' /\ (task'[u].pc = "none" => ~task'[u].streamed)
  <2>1. CASE u # t
    BY <2>1 DEF Owned, TokensSaid, Works
  <2>2. CASE u = t
    <3>1. PICK said \in Seq(Event) : sse'[t] = sse[t] \o said
      BY DEF Works
    <3>2. /\ Len(sse[t]) \in Nat /\ Len(said) \in Nat
          /\ Len(sse'[t]) = Len(sse[t]) + Len(said)
          /\ \A i \in 1..Len(sse[t]) : sse'[t][i] = sse[t][i]
      BY <1>1, <3>1, ConcatProperties, LenProperties
    <3>3. \A i \in 1..Len(sse[t]) : i \in 1..Len(sse'[t])
      BY <3>2
    <3> QED  BY <2>2, <3>2, <3>3 DEF Owned, TokensSaid, Works
  <2> QED  BY <2>1, <2>2
<1>7. \A o \in Requests : sessionData'[o] # None => ~sessionData'[o].cancelled
  <2>1. SessionOf(t) # None /\ ~SessionOf(t).cancelled
    BY <1>1, LiveTask DEF Owned, SessionOf
  <2> QED  BY <2>1 DEF Owned, Works
<1> QED  BY <1>3, <1>4, <1>5, <1>6, <1>7 DEF Owned

\* A token goes to the body of the request it answers.
LEMMA ChunkIsOwn ==
  ASSUME StepInv, BodyInv, Owned, NEW t \in Requests, StreamChunk(t)
  PROVE  /\ IsLive(t) /\ task[t].pc = "calling" /\ UNCHANGED <<store, sessionData>>
         /\ task' = [task EXCEPT ![t] = [task[t] EXCEPT !.streamed = TRUE]]
         /\ Chunk(CurrentNode(t), t) \in Event
         /\ sse' = [sse EXCEPT ![t] = sse[t] \o <<Chunk(CurrentNode(t), t)>>]
<1>1. IsLive(t) /\ task[t].pc = "calling" /\ task[t].writer = t
  BY DEF StreamChunk, IsLive, Owned, TaskOwned
<1>2. ~HasEnded(t)
  BY <1>1, EndedMeansShut
<1>3. Chunk(CurrentNode(t), t) \in Event /\ sse[t] \in Seq(Event)
  BY <1>1, LiveTask, EventTypes DEF StepInv, Shape, TaskOK
<1>4. sse' = [sse EXCEPT ![t] = Append(sse[t], Chunk(CurrentNode(t), t))]
  BY <1>1, <1>2 DEF StreamChunk
<1>5. Append(sse[t], Chunk(CurrentNode(t), t)) = sse[t] \o <<Chunk(CurrentNode(t), t)>>
  <2>1. PICK e \in Event : e = Chunk(CurrentNode(t), t)
    BY <1>3
  <2> QED  BY <1>3, <2>1, AppendIsConcat
<1>6. task' = [task EXCEPT ![t] = [task[t] EXCEPT !.streamed = TRUE]]
  BY DEF StreamChunk
<1> QED  BY <1>1, <1>3, <1>4, <1>5, <1>6 DEF StreamChunk

LEMMA ChunkKeepsOwned ==
  ASSUME StepInv, BodyInv, Owned, NEW t \in Requests, StreamChunk(t)
  PROVE  Owned'
<1> DEFINE chunk == Chunk(CurrentNode(t), t)
           new == [task[t] EXCEPT !.streamed = TRUE]
<1>1. /\ IsLive(t) /\ task[t].pc = "calling" /\ UNCHANGED <<store, sessionData>>
      /\ task' = [task EXCEPT ![t] = new] /\ chunk \in Event /\ IsToken(chunk, t)
      /\ sse' = [sse EXCEPT ![t] = sse[t] \o <<chunk>>]
  BY ChunkIsOwn DEF Chunk, IsToken
<1>2. /\ new.pc = task[t].pc /\ new.session_id = task[t].session_id /\ new.obj = task[t].obj
      /\ new.writer = task[t].writer
  BY DEF StepInv, Shape, Task
<1> HIDE DEF chunk, new
<1>3. /\ task'[t] = new /\ \A u \in Requests : u # t => task'[u] = task[u] /\ sse'[u] = sse[u]
      /\ sse'[t] = sse[t] \o <<chunk>> /\ sse[t] \in Seq(Event)
  BY <1>1 DEF StepInv, Shape
<1>4. \E i \in 1..Len(sse'[t]) : IsToken(sse'[t][i], t)
  <2>1. /\ Len(sse[t]) \in Nat /\ Len(sse'[t]) = Len(sse[t]) + 1
        /\ sse'[t][Len(sse[t]) + 1] = chunk
    <3>1. <<chunk>> \in Seq(Event) /\ Len(<<chunk>>) = 1 /\ <<chunk>>[1] = chunk
      BY <1>1
    <3>2. PICK more : more = <<chunk>>
      OBVIOUS
    <3> QED  BY <1>3, <3>1, <3>2, ConcatProperties, LenProperties
  <2>2. Len(sse[t]) + 1 \in 1..Len(sse'[t])
    BY <2>1
  <2> QED  BY <1>1, <2>1, <2>2
<1>5. ASSUME NEW c \in Conversations  PROVE StoreOwned(c)'
  <2>1. store[c] \in Requests \cup {None}
    BY DEF StepInv, Shape, Conversations
  <2> QED  BY <1>1, <1>2, <1>3, <2>1 DEF Owned, StoreOwned
<1>6. ASSUME NEW u \in Requests  PROVE TaskOwned(u)'
  <2>1. /\ IsLive(u)' => IsLive(u) /\ task[u].obj \in Requests
        /\ task'[u].pc = task[u].pc /\ task'[u].session_id = task[u].session_id
        /\ task'[u].obj = task[u].obj /\ task'[u].writer = task[u].writer
    BY <1>2, <1>3, LiveTask DEF IsLive
  <2>2. \A v \in Requests : task'[v].pc = task[v].pc /\ task'[v].session_id = task[v].session_id
    BY <1>2, <1>3
  <2> QED  BY <1>1, <2>1, <2>2 DEF Owned, TaskOwned, SessionOf
<1>7. ASSUME NEW u \in Requests
      PROVE  TokensSaid(u)' /\ (task'[u].pc = "none" => ~task'[u].streamed)
  BY <1>1, <1>2, <1>3, <1>4 DEF Owned, TokensSaid
<1> QED  BY <1>1, <1>5, <1>6, <1>7 DEF Owned

LEMMA OwnedInductive ==
  Chat /\ Disciplined /\ Owned /\ [ChatNext]_chatVars => Owned'
<1> SUFFICES ASSUME StepInv, BodyInv, ClientInv, Disciplined, Owned, [ChatNext]_chatVars
             PROVE  Owned'
  BY DEF Chat
<1>1. CASE UNCHANGED vars
  BY <1>1 DEF vars, Owned, StoreOwned, TaskOwned, TokensSaid, IsLive, SessionOf
<1>2. ASSUME NEW r \in Requests, Deliver(r)  PROVE Owned'
  BY <1>2, DeliverReceives, ReceivesKeepsOwned, ExpiredKeepsOwned
<1>3. ASSUME NEW t \in Requests, Advance(t)  PROVE Owned'
  BY <1>3, AdvanceWorks, WorksKeepsOwned
<1>4. ASSUME NEW t \in Requests, StreamChunk(t)  PROVE Owned'
  BY <1>4, ChunkKeepsOwned
<1>5. CASE Restart
  <2>1. /\ \A c \in Conversations : store'[c] = None
        /\ \A t \in Requests : ~IsLive(t)' /\ task'[t].streamed = task[t].streamed
                               /\ (task'[t].pc = "none" => task[t].pc = "none")
        /\ UNCHANGED <<sse, sessionData>>
    BY <1>5 DEF Restart, Conversations, IsLive, StepInv, Shape, Task
  <2> QED  BY <2>1 DEF Owned, StoreOwned, TaskOwned, TokensSaid
<1> QED  BY <1>1, <1>2, <1>3, <1>4, <1>5, ServerSteps

LEMMA InitOwned == ChatInit => Owned
BY DEF ChatInit, Init, NewTask, Owned, StoreOwned, TaskOwned, TokensSaid, IsLive, Conversations

\* Every body gets the tokens of its own request: the shared writer of a session, which a
\* task reads when it calls the model, is the body of the request it serves.  That rests
\* on the client's one request at a time, through failures and restarts.
THEOREM TokensArrive ==
  ASSUME Moves \cap {"stop", "disconnect"} = {}
  PROVE  ChatSpec => []TokensReachTheirRequest
<1>1. Chat /\ Owned => TokensReachTheirRequest
  <2> SUFFICES ASSUME Chat, Owned, NEW t \in Requests, task[t].streamed
               PROVE  \E i \in DOMAIN sse[t] : sse[t][i].type = "stream" /\ sse[t][i].by = t
    BY DEF TokensReachTheirRequest
  <2>1. sse[t] \in Seq(Event)
    BY DEF Chat, StepInv, Shape
  <2>2. DOMAIN sse[t] = 1..Len(sse[t])
    BY <2>1, LenProperties
  <2> QED  BY <2>2 DEF Owned, TokensSaid, IsToken
<1>2. ChatInit => Disciplined /\ Owned
  BY InitDisciplined, InitOwned
<1>3. Chat /\ Disciplined /\ [ChatNext]_chatVars => Disciplined'
  BY DisciplinedInductive
<1>4. Chat /\ Disciplined /\ Owned /\ [ChatNext]_chatVars => Owned'
  BY OwnedInductive
<1> QED  BY <1>1, <1>2, <1>3, <1>4, ChatInvariant, PTL DEF ChatSpec

----------------------------------------------------------------------------
(* Nor does the server restart: a conversation rests while its user decides. *)

\* The session of c stays as it is.
Rests(c) ==
  /\ store'[c] = store[c]
  /\ store[c] # None => sessionData'[store[c]] = sessionData[store[c]]

LEMMA NoRestart == "restart" \notin Moves => ~Restart
BY DEF Restart

\* A step serves one conversation: the others rest.
LEMMA OthersRest ==
  ASSUME Chat, Disciplined, Owned, [ChatNext]_chatVars, ~Restart,
         NEW c \in Conversations
  PROVE  \/ Rests(c)
         \/ \E q \in Requests : /\ IsAwaited(q) /\ call[q].conversation = c
                                /\ Deliver(q) \/ Advance(q)
<1> USE DEF Chat
<1>1. store[c] # None => /\ store[c] \in Requests /\ task[store[c]].pc # "none"
                         /\ task[store[c]].session_id = c
  BY DEF Owned, StoreOwned, StepInv, Shape, Conversations
<1>2. CASE UNCHANGED vars
  BY <1>2 DEF vars, Rests
<1>3. ASSUME NEW q \in Requests, Deliver(q), call[q].conversation # c
      PROVE  Rests(c)
  <2>1. PICK d \in Conversations : d = call[q].conversation
    BY <1>3, DeliverReceives
  <2>2. task[q].pc = "none"
    BY <1>3, ArrivesAlone
  <2>3. ASSUME NEW o, NEW data, Receives(q, d, o, data)  PROVE Rests(c)
    <3>1. o = q \/ (o = store[d] /\ o \in Requests)
      BY <2>1, <2>3 DEF Receives
    <3>2. o = store[d] /\ o \in Requests => task[o].session_id = d
      BY <2>1, NoneAssumption DEF Owned, StoreOwned
    <3>3. /\ store'[c] = store[c]
          /\ \A p \in Requests : p # o => sessionData'[p] = sessionData[p]
      BY <1>3, <2>1, <2>3 DEF Receives, Binds, StepInv, Shape, Conversations
    <3> QED  BY <1>1, <1>3, <2>1, <2>2, <3>1, <3>2, <3>3 DEF Rests
  <2>4. CASE ConfirmExpired(q, d)
    BY <2>4 DEF ConfirmExpired, Rests
  <2> QED  BY <1>3, <2>1, <2>3, <2>4, DeliverReceives
<1>4. ASSUME NEW t \in Requests, Advance(t), task[t].session_id # c
      PROVE  Rests(c)
  <2>1. IsLive(t) /\ Works(t) /\ task[task[t].obj].session_id = task[t].session_id
    BY <1>4, AdvanceWorks DEF Owned, TaskOwned
  <2> QED  BY <1>1, <1>4, <2>1 DEF Works, Rests
<1>5. ASSUME NEW t \in Requests, StreamChunk(t)  PROVE Rests(c)
  BY <1>5, ChunkIsOwn DEF Rests
<1>6. \A t \in Requests : Advance(t) => IsAwaited(t) /\ task[t].session_id = call[t].conversation
  BY AdvanceWorks, LiveIsAwaited
<1>7. \A q \in Requests : Deliver(q) => IsAwaited(q)
  BY ArrivesAlone
<1> QED  BY <1>2, <1>3, <1>4, <1>5, <1>6, <1>7, ServerSteps

\* The step is not about r, nor about its conversation while r is awaited.
StepsAside(r) ==
  /\ task'[r] = task[r] /\ sse'[r] = sse[r]
  /\ IsLive(r) => SessionOf(r)' = SessionOf(r)
  /\ IsAwaited(r) => Rests(call[r].conversation)

LEMMA Bystander ==
  ASSUME Chat, Disciplined, Owned, [ChatNext]_chatVars, ~Restart,
         NEW r \in Requests, ~Deliver(r), ~Advance(r), ~StreamChunk(r)
  PROVE  StepsAside(r)
<1> USE DEF Chat
<1>1. IsAwaited(r) => Rests(call[r].conversation)
  <2>1. IsAwaited(r) => call[r].conversation \in Conversations
    BY DEF IsAwaited, ClientInv
  <2> QED  BY <2>1, OthersRest DEF Disciplined
<1>2. IsLive(r) => /\ task[r].obj \in Requests /\ task[task[r].obj].pc # "none"
                   /\ task[task[r].obj].session_id = task[r].session_id
  BY LiveTask DEF Owned, TaskOwned
<1>3. CASE UNCHANGED vars
  BY <1>1, <1>3 DEF vars, StepsAside, SessionOf
<1>4. ASSUME NEW q \in Requests, Deliver(q)  PROVE StepsAside(r)
  <2>1. PICK d \in Conversations : d = call[q].conversation
    BY <1>4, DeliverReceives
  <2>2. /\ task[q].pc = "none" /\ (IsLive(r) => task[r].session_id # d) /\ q # r
    BY <1>4, <2>1, ArrivesAlone
  <2>3. ASSUME NEW o, NEW data, Receives(q, d, o, data)  PROVE StepsAside(r)
    <3>1. o = q \/ (o = store[d] /\ o \in Requests)
      BY <2>1, <2>3 DEF Receives
    <3>2. o = store[d] /\ o \in Requests => task[o].session_id = d
      BY <2>1, NoneAssumption DEF Owned, StoreOwned
    <3>3. /\ task'[r] = task[r] /\ sse'[r] = sse[r]
          /\ \A p \in Requests : p # o => sessionData'[p] = sessionData[p]
      BY <2>2, <2>3 DEF Receives, Binds, StepInv, Shape
    <3> QED  BY <1>1, <1>2, <2>2, <3>1, <3>2, <3>3 DEF StepsAside, SessionOf
  <2>4. CASE ConfirmExpired(q, d)
    BY <1>1, <2>2, <2>4 DEF ConfirmExpired, StepsAside, SessionOf, StepInv, Shape
  <2> QED  BY <1>4, <2>1, <2>3, <2>4, DeliverReceives
<1>5. ASSUME NEW t \in Requests, Advance(t)  PROVE StepsAside(r)
  <2>1. /\ IsLive(t) /\ Works(t) /\ task[task[t].obj].session_id = task[t].session_id
        /\ t # r
    BY <1>5, AdvanceWorks DEF Owned, TaskOwned
  <2>2. IsLive(r) => task[r].obj # task[t].obj
    BY <1>2, <2>1, LiveIsAwaited, OneLive
  <2> QED  BY <1>1, <1>2, <2>1, <2>2 DEF Works, StepsAside, SessionOf
<1>6. ASSUME NEW t \in Requests, StreamChunk(t)  PROVE StepsAside(r)
  <2>1. /\ UNCHANGED sessionData /\ t # r
        /\ task' = [task EXCEPT ![t] = [task[t] EXCEPT !.streamed = TRUE]]
        /\ sse' = [sse EXCEPT ![t] = sse[t] \o <<Chunk(CurrentNode(t), t)>>]
    BY <1>6, ChunkIsOwn
  <2>2. task'[r] = task[r] /\ sse'[r] = sse[r]
    BY <2>1 DEF StepInv, Shape
  <2> QED  BY <1>1, <2>1, <2>2 DEF StepsAside, SessionOf
<1> QED  BY <1>3, <1>4, <1>5, <1>6, ServerSteps

\* A node that calls the model is reached.
Asks(e) == e.type = "thinking" /\ e.node \in ModelNodes

\* What a step of t may say, and why.
Utters(t, e) ==
  /\ Asks(e) => Calls(t) /\ e.node = CurrentNode(t)
  /\ e.type = "awaiting_confirmation" =>
       \E node, state, plan, cursor, next, is_final :
         /\ PausesAt(t, node, state, plan, cursor, next, is_final)
         /\ e.node = node /\ e.next = next
  /\ e.type = "final"   => Finishes(t)
  /\ e.type = "stopped" => Stops(t)
  /\ e.type = "error"   => Raises(t)

\* The body of a task that takes a step goes on with what the step says.
LEMMA TaskUtters ==
  ASSUME StepInv, NEW t \in Requests, IsLive(t), TaskStep(t)
  PROVE  \E said \in Seq(Event) : /\ sse'[t] = sse[t] \o said
                                  /\ \A i \in 1..Len(said) : Utters(t, said[i])
                                  /\ Calls(t) => \E i \in 1..Len(said) : Asks(said[i])
<1>1. ASSUME NEW said, NEW new, NEW data, NEW kept, OnlyTask(t, new, data, kept, said)
      PROVE  sse'[t] = sse[t] \o said
  BY <1>1 DEF OnlyTask, Emit, StepInv, Shape
<1>2. \A a, b \in Event : <<a>> \in Seq(Event) /\ <<a, b>> \in Seq(Event)
  OBVIOUS
<1>3. CASE Begins(t) \/ IsAnswered(t)
  <2>1. sse'[t] = sse[t] \o <<>> /\ ~Calls(t)
    BY <1>1, <1>3 DEF Begins, IsAnswered, Calls
  <2>0. <<>> \in Seq(Event)
    OBVIOUS
  <2>2. PICK said \in Seq(Event) : said = <<>>
    BY <2>0
  <2>3. \A i \in 1..Len(said) : Utters(t, said[i])
    BY <2>2
  <2> QED  BY <2>1, <2>2, <2>3
<1>4. CASE Passes(t)
  <2>1. PICK said \in {<<>>, <<Thinking(CurrentNode(t)), Updated(CurrentNode(t))>>} :
          sse'[t] = sse[t] \o said
    BY <1>1, <1>4 DEF Passes
  <2>2. ~Calls(t) /\ CurrentNode(t) \in NODE /\ CurrentNode(t) \notin ModelNodes
    BY <1>4, LiveTask, NodeKinds DEF Passes, Calls
  <2>3. /\ Utters(t, Thinking(CurrentNode(t))) /\ Utters(t, Updated(CurrentNode(t)))
    BY <2>2 DEF Utters, Asks, Thinking, Updated
  <2>4. /\ said \in Seq(Event)
        /\ \A i \in 1..Len(said) : \/ said[i] = Thinking(CurrentNode(t))
                                   \/ said[i] = Updated(CurrentNode(t))
    <3>1. CASE said = <<>>
      BY <3>1
    <3>2. CASE said = <<Thinking(CurrentNode(t)), Updated(CurrentNode(t))>>
      <4>1. Thinking(CurrentNode(t)) \in Event /\ Updated(CurrentNode(t)) \in Event
        BY <2>2, EventTypes
      <4>2. \A a, b \in Event : \A i \in 1..Len(<<a, b>>) : <<a, b>>[i] = a \/ <<a, b>>[i] = b
        OBVIOUS
      <4> QED  BY <1>2, <3>2, <4>1, <4>2
    <3> QED  BY <2>1, <3>1, <3>2
  <2> QED  BY <2>1, <2>2, <2>3, <2>4
<1>5. CASE Calls(t)
  <2>1. PICK e : e = Thinking(CurrentNode(t))
    OBVIOUS
  <2>2. sse'[t] = sse[t] \o <<e>>
    BY <1>1, <1>5, <2>1 DEF Calls
  <2>3. CurrentNode(t) \in NODE /\ CurrentNode(t) \in ModelNodes
    BY <1>5, LiveTask, NodeKinds DEF Calls
  <2>4. Utters(t, e) /\ Asks(e)
    BY <1>5, <2>1, <2>3 DEF Utters, Asks, Thinking
  <2>5. e \in Event
    BY <2>1, <2>3, EventTypes
  <2>6. /\ <<e>> \in Seq(Event) /\ 1 \in 1..Len(<<e>>) /\ \A i \in 1..Len(<<e>>) : <<e>>[i] = e
    BY <2>5
  <2> QED  BY <2>2, <2>4, <2>6
<1>6. CASE Pauses(t)
  <2>1. PICK node, state, plan, cursor, next, is_final :
          PausesAt(t, node, state, plan, cursor, next, is_final)
    BY <1>6, PausesSomewhere
  <2>2. PICK said \in Seq(Event) : said = Says(node, next, is_final)
    BY <2>1 DEF PausesAt
  <2>3. sse'[t] = sse[t] \o said /\ ~Calls(t)
    BY <1>1, <1>6, <2>1, <2>2 DEF PausesAt, Pauses, Calls
  <2>4. \A i \in 1..Len(said) : \/ said[i] = Updated(node) \/ said[i] = End
                                \/ said[i] = AwaitingConfirmation(node, next, is_final)
    BY <2>2 DEF Says
  <2>5. Utters(t, Updated(node)) /\ Utters(t, End)
    BY DEF Utters, Asks, Updated, End
  <2>6. Utters(t, AwaitingConfirmation(node, next, is_final))
    BY <2>1 DEF Utters, Asks, AwaitingConfirmation
  <2> QED  BY <2>3, <2>4, <2>5, <2>6
<1>7. ASSUME NEW e \in Event, Utters(t, e), sse'[t] = sse[t] \o <<e, End>>, ~Calls(t)
      PROVE  \E said \in Seq(Event) : /\ sse'[t] = sse[t] \o said
                                      /\ \A i \in 1..Len(said) : Utters(t, said[i])
                                      /\ Calls(t) => \E i \in 1..Len(said) : Asks(said[i])
  <2>1. <<e, End>> \in Seq(Event)
    BY <1>2, EventTypes
  <2>2. \A i \in 1..Len(<<e, End>>) : <<e, End>>[i] = e \/ <<e, End>>[i] = End
    OBVIOUS
  <2>3. Utters(t, End)
    BY DEF Utters, Asks, End
  <2> QED  BY <1>7, <2>1, <2>2, <2>3
<1>8. CASE Raises(t)
  <2>1. Utters(t, ErrorEvent) /\ ErrorEvent \in Event /\ ~Calls(t)
    BY <1>8, EventTypes DEF Utters, Asks, ErrorEvent, Raises, Calls
  <2> QED  BY <1>1, <1>7, <1>8, <2>1 DEF Raises
<1>9. CASE Stops(t)
  <2>1. Utters(t, Stopped) /\ Stopped \in Event
    BY <1>9, EventTypes DEF Utters, Asks, Stopped
  <2>2. task[t] \in Task
    BY LiveTask
  <2>3. ~Calls(t)
    <3>1. PICK calling : calling = [task[t] EXCEPT !.pc = "calling", !.streamed = FALSE,
                                                   !.writer = SessionOf(t).stream_writer]
      OBVIOUS
    <3>2. PICK over : over = [task[t] EXCEPT !.pc = "done"]
      OBVIOUS
    <3>3. calling.pc = "calling" /\ over.pc = "done"
      BY <2>2, <3>1, <3>2 DEF Task
    <3>4. task'[t] = over
      BY <1>9, <3>2 DEF Stops, OnlyTask, StepInv, Shape
    <3>5. Calls(t) => task'[t] = calling
      BY <3>1 DEF Calls, OnlyTask, StepInv, Shape
    <3> QED  BY <3>3, <3>4, <3>5
  <2> QED  BY <1>1, <1>7, <1>9, <2>1, <2>3 DEF Stops
<1>10. CASE Finishes(t)
  <2>1. PICK e : e = Final(LastReply(StateOf(t).messages))
    OBVIOUS
  <2>2. e \in Event
    <3>1. LastReply(StateOf(t).messages) \in Message \cup {NoReply}
      BY LiveTask, LastReplyType DEF AgentState
    <3> QED  BY <2>1, <3>1, EventTypes
  <2>3. Utters(t, e)
    BY <1>10, <2>1 DEF Utters, Asks, Final
  <2>4. ~Calls(t)
    BY <1>10, LiveTask DEF Calls, Finishes
  <2> QED  BY <1>1, <1>7, <1>10, <2>1, <2>2, <2>3, <2>4 DEF Finishes
<1> QED  BY <1>3, <1>4, <1>5, <1>6, <1>8, <1>9, <1>10 DEF TaskStep

\* Where the events of a body come from.
LEMMA NewEvents ==
  ASSUME Chat, Disciplined, Owned, [ChatNext]_chatVars, "restart" \notin Moves,
         NEW r \in Requests, NEW i \in 1..Len(sse'[r])
  PROVE  \/ i \in 1..Len(sse[r]) /\ sse'[r][i] = sse[r][i]
         \/ Advance(r) /\ Utters(r, sse'[r][i])
         \/ sse'[r][i].type \in {"stream", "end"}
<1> USE DEF Chat
<1>1. sse[r] \in Seq(Event)
  BY DEF StepInv, Shape
<1>2. ASSUME NEW said \in Seq(Event), sse'[r] = sse[r] \o said
      PROVE  \/ i \in 1..Len(sse[r]) /\ sse'[r][i] = sse[r][i]
             \/ \E j \in 1..Len(said) : sse'[r][i] = said[j]
  <2>1. /\ Len(sse[r]) \in Nat /\ Len(said) \in Nat /\ i \in 1..(Len(sse[r]) + Len(said))
        /\ sse'[r][i] = IF i <= Len(sse[r]) THEN sse[r][i] ELSE said[i - Len(sse[r])]
    BY <1>1, <1>2, ConcatProperties, LenProperties
  <2>2. CASE i <= Len(sse[r])
    BY <2>1, <2>2
  <2>3. CASE ~(i <= Len(sse[r]))
    <3>1. i - Len(sse[r]) \in 1..Len(said)
      BY <2>1, <2>3
    <3> QED  BY <2>1, <2>3, <3>1
  <2> QED  BY <2>2, <2>3
<1>3. CASE Advance(r)
  <2>1. PICK said \in Seq(Event) : /\ sse'[r] = sse[r] \o said
                                   /\ \A j \in 1..Len(said) : Utters(r, said[j])
    BY <1>3, AdvanceIsTaskStep, TaskUtters
  <2> QED  BY <1>2, <1>3, <2>1
<1>4. CASE StreamChunk(r)
  <2>1. PICK chunk \in Event : chunk = Chunk(CurrentNode(r), r)
    BY <1>4, ChunkIsOwn
  <2>2. chunk.type = "stream" /\ sse'[r] = sse[r] \o <<chunk>> /\ <<chunk>> \in Seq(Event)
    <3>1. sse' = [sse EXCEPT ![r] = sse[r] \o <<chunk>>]
      BY <1>4, <2>1, ChunkIsOwn
    <3>2. sse'[r] = sse[r] \o <<chunk>>
      BY <3>1 DEF StepInv, Shape
    <3>3. chunk.type = "stream"
      BY <2>1 DEF Chunk
    <3> QED  BY <3>2, <3>3
  <2>3. \A j \in 1..Len(<<chunk>>) : <<chunk>>[j] = chunk
    OBVIOUS
  <2> QED  BY <1>2, <2>2, <2>3
<1>5. CASE Deliver(r)
  <2>1. sse'[r] = sse[r] \/ sse'[r] = <<End>>
    BY <1>5, DeliverReceives DEF Receives, Binds, ConfirmExpired, StepInv, Shape
  <2>2. CASE sse'[r] = sse[r]
    BY <2>2
  <2>3. CASE sse'[r] = <<End>>
    <3>1. sse'[r][i] = End
      BY <2>3
    <3> QED  BY <3>1 DEF End
  <2> QED  BY <2>1, <2>2, <2>3
<1>6. CASE ~Deliver(r) /\ ~Advance(r) /\ ~StreamChunk(r)
  BY <1>6, NoRestart, Bystander DEF StepsAside
<1> QED  BY <1>3, <1>4, <1>5, <1>6

\* The session of c waits where the user was told: at node, with next to come.
WaitsAt(c, node, next) ==
  LET data == sessionData[store[c]] IN
  /\ store[c] # None
  /\ data.last_node = node /\ node \in PAUSABLE_NODES
  /\ data.cursor \in 1..Len(data.execution_plan) /\ data.execution_plan[data.cursor] = node
  /\ FindNextPausable(data.execution_plan, data.cursor) = next

\* It does from the moment the task pauses, through the client's reading of it, until
\* the user has decided.
BarInv ==
  /\ \A c \in Conversations : ui[c].awaiting => WaitsAt(c, ui[c].completed, ui[c].next)
  /\ \A r \in Requests : IsAwaited(r) =>
       \A i \in 1..Len(sse[r]) :
         sse[r][i].type = "awaiting_confirmation" =>
           WaitsAt(call[r].conversation, sse[r][i].node, sse[r][i].next)

\* A session that rests waits on.
LEMMA RestingWaits ==
  ASSUME NEW c, NEW node, NEW next, WaitsAt(c, node, next), Rests(c)
  PROVE  WaitsAt(c, node, next)'
BY DEF WaitsAt, Rests

LEMMA PauseWaits ==
  ASSUME StepInv, NEW t \in Requests, IsLive(t), NEW node, NEW state, NEW plan, NEW cursor,
         NEW next, NEW is_final, PausesAt(t, node, state, plan, cursor, next, is_final)
  PROVE  WaitsAt(task[t].session_id, node, next)'
<1>1. /\ task[t].obj \in Requests /\ task[t].session_id \in SessionIds
      /\ SessionOf(t) \in SessionData
  BY LiveTask
<1> DEFINE data == Paused(SessionOf(t), state, plan, cursor, node)
<1>2. /\ data.last_node = node /\ data.execution_plan = plan /\ data.cursor = cursor
  BY <1>1 DEF Paused, SessionData
<1>3. /\ sessionData'[task[t].obj] = data /\ store'[task[t].session_id] = task[t].obj
  BY <1>1 DEF PausesAt, OnlyTask, StepInv, Shape
<1>4. task'[t].session_id = task[t].session_id
  <2>1. task[t] \in Task /\ task'[t] = [task[t] EXCEPT !.pc = "done"]
    BY LiveTask DEF PausesAt, OnlyTask, StepInv, Shape
  <2> QED  BY <2>1 DEF Task
<1> HIDE DEF data
<1> QED  BY <1>1, <1>2, <1>3, <1>4, NoneAssumption DEF PausesAt, WaitsAt

\* What the client does while the server does nothing.
LEMMA ClientSteps ==
  ASSUME Chat, Disciplined, BarInv, [ChatNext]_chatVars, UNCHANGED vars, "stop" \notin Moves
  PROVE  BarInv'
<1> USE DEF Chat
<1>1. \A c, node, next : WaitsAt(c, node, next) => WaitsAt(c, node, next)'
  BY DEF WaitsAt, vars
<1>2. sse' = sse
  BY DEF vars
<1>3. ASSUME NEW c \in Conversations, NEW r \in Requests, NEW action, NEW announced,
             Sends(c, r, action, announced)
      PROVE  BarInv'
  <2>1. /\ ~ui'[c].awaiting /\ \A d \in Conversations : d # c => ui'[d] = ui[d]
        /\ \A u \in Requests : u # r => call'[u] = call[u]
    BY <1>3 DEF Sends, ClientInv, Conversation
  <2>2. \A i \in 1..Len(sse[r]) : sse[r][i].type # "awaiting_confirmation"
    BY <1>3, EndingMeansDone DEF Sends, Disciplined, InStep, Endings
  <2> QED  BY <1>1, <1>2, <2>1, <2>2 DEF BarInv, IsAwaited
<1>4. ASSUME NEW c \in Conversations, HandleSend(c)  PROVE BarInv'
  BY <1>3, <1>4, FetchSends DEF HandleSend
<1>5. ASSUME NEW c \in Conversations, NEW action \in {"continue", "regenerate", "modify"},
             HandleConfirmation(c, action)
      PROVE  BarInv'
  BY <1>3, <1>5, FetchSends DEF HandleConfirmation
<1>6. ASSUME NEW c \in Conversations, HandleDone(c)  PROVE BarInv'
  <2>1. /\ call' = call /\ ~ui'[c].awaiting
        /\ \A d \in Conversations : d # c => ui'[d] = ui[d]
    BY <1>6 DEF HandleDone, ClientInv, Conversation
  <2> QED  BY <1>1, <1>2, <2>1 DEF BarInv, IsAwaited
<1>7. ASSUME NEW c \in Conversations, HandleStop(c) \/ StopArrives(c) \/ StopReturns(c)
      PROVE  BarInv'
  BY <1>7 DEF HandleStop, StopArrives, StopReturns, Disciplined
<1>8. ASSUME NEW r \in Requests, ReadEnding(r)  PROVE BarInv'
  <2>1. PICK e \in Event : Shows(r, e)
    BY <1>8, ReadEndingShows
  <2>2. PICK c \in Conversations : c = call[r].conversation
    BY <2>1 DEF Shows
  <2>3. /\ ui'[c] = Show(ui[c], e) /\ \A d \in Conversations : d # c => ui'[d] = ui[d]
        /\ \A u \in Requests : IsAwaited(u)' => IsAwaited(u)
        /\ \A u \in Requests : call'[u].conversation = call[u].conversation
    BY <2>1, <2>2 DEF Shows, ClientInv, Call, IsAwaited
  <2>4. ui'[c].awaiting => WaitsAt(c, ui'[c].completed, ui'[c].next)
    <3>1. ui[c] \in Conversation /\ ~ui[c].awaiting
      BY <2>1, <2>2 DEF Shows, Reading, Disciplined, InStep, IsAwaited, ClientInv, BarOrSpinner
    <3>2. CASE e.type = "awaiting_confirmation"
      <4>1. ui'[c].completed = e.node /\ ui'[c].next = e.next
        BY <2>3, <3>1, <3>2 DEF Show, Conversation
      <4>2. WaitsAt(c, e.node, e.next)
        BY <2>1, <2>2, <3>2 DEF Shows, Reading, BarInv, IsAwaited
      <4> QED  BY <4>1, <4>2
    <3>3. CASE e.type # "awaiting_confirmation"
      <4>1. ~ui'[c].awaiting
        BY <2>1, <2>3, <3>1, <3>3 DEF Show, Conversation, Shows, Endings
      <4> QED  BY <4>1
    <3> QED  BY <3>2, <3>3
  <2> QED  BY <1>1, <1>2, <2>2, <2>3, <2>4 DEF BarInv
<1>9. ASSUME NEW r \in Requests, ReadEnd(r) \/ ConnectionLost(r)  PROVE BarInv'
  <2>1. /\ \A u \in Requests : IsAwaited(u)' => IsAwaited(u)
        /\ \A u \in Requests : call'[u].conversation = call[u].conversation
    BY <1>9 DEF ReadEnd, ConnectionLost, ClientInv, Call, IsAwaited
  <2>2. \A c \in Conversations : /\ ui'[c].awaiting = ui[c].awaiting
                                 /\ ui'[c].completed = ui[c].completed
                                 /\ ui'[c].next = ui[c].next
    BY <1>9 DEF ReadEnd, ConnectionLost, ClientInv, Conversation
  <2> QED  BY <1>1, <1>2, <2>1, <2>2 DEF BarInv
<1>10. CASE UNCHANGED clientVars
  BY <1>1, <1>2, <1>10 DEF clientVars, BarInv, IsAwaited
<1>11. UNCHANGED chatVars => UNCHANGED clientVars
  BY DEF chatVars
<1> QED  BY <1>4, <1>5, <1>6, <1>7, <1>8, <1>9, <1>10, <1>11
         DEF ChatNext, Stopping, Network, Deliver

LEMMA BarInvInductive ==
  ASSUME Moves \cap {"stop", "disconnect", "restart"} = {}
  PROVE  Chat /\ Disciplined /\ Owned /\ BarInv /\ [ChatNext]_chatVars => BarInv'
<1> SUFFICES ASSUME Chat, Disciplined, Owned, BarInv, [ChatNext]_chatVars  PROVE BarInv'
  OBVIOUS
<1>1. CASE UNCHANGED vars
  BY <1>1, ClientSteps
<1>2. CASE UNCHANGED clientVars
  <2>1. ui' = ui /\ call' = call
    BY <1>2 DEF clientVars
  <2>2. ASSUME NEW c \in Conversations, ui[c].awaiting
        PROVE  WaitsAt(c, ui[c].completed, ui[c].next)'
    <3>1. \A q \in Requests : IsAwaited(q) => call[q].conversation # c
      BY <2>2 DEF Disciplined, InStep, Chat, ClientInv, BarOrSpinner
    <3>2. Rests(c)
      BY <3>1, NoRestart, OthersRest
    <3>3. WaitsAt(c, ui[c].completed, ui[c].next)
      BY <2>2 DEF BarInv
    <3> QED  BY <2>1, <3>2, <3>3, RestingWaits
  <2>3. ASSUME NEW r \in Requests, IsAwaited(r), NEW i \in 1..Len(sse'[r]),
               NEW e, e = sse'[r][i], e.type = "awaiting_confirmation",
               NEW c, c = call[r].conversation
        PROVE  WaitsAt(c, e.node, e.next)'
    <3>1. CASE i \in 1..Len(sse[r]) /\ e = sse[r][i]
      <4>1. task[r].pc = "done"
        BY <2>3, <3>1, EndingMeansDone DEF Chat, Endings
      <4>2. ~Deliver(r) /\ ~Advance(r) /\ ~StreamChunk(r)
        BY <4>1, AdvanceWorks, ArrivesAlone DEF Chat, IsLive, StreamChunk
      <4>3. Rests(c)
        BY <2>3, <4>2, NoRestart, Bystander DEF StepsAside
      <4>4. WaitsAt(c, e.node, e.next)
        BY <2>3, <3>1 DEF BarInv
      <4> QED  BY <4>3, <4>4, RestingWaits
    <3>2. CASE Advance(r) /\ Utters(r, e)
      <4>1. PICK node, state, plan, cursor, next, is_final :
              /\ PausesAt(r, node, state, plan, cursor, next, is_final)
              /\ e.node = node /\ e.next = next
        BY <2>3, <3>2 DEF Utters
      <4>2. IsLive(r) /\ task[r].session_id = c
        BY <2>3, <3>2, AdvanceWorks, LiveIsAwaited DEF Chat
      <4>3. WaitsAt(task[r].session_id, node, next)'
        BY <4>1, <4>2, PauseWaits DEF Chat
      <4>4. task'[r].session_id = c
        BY <3>2, <4>2, AdvanceWorks DEF Chat, Works
      <4> QED  BY <4>1, <4>3, <4>4
    <3> QED  BY <2>3, <3>1, <3>2, NewEvents
  <2>4. ASSUME NEW r \in Requests, IsAwaited(r)', NEW i \in 1..Len(sse'[r]),
               sse'[r][i].type = "awaiting_confirmation"
        PROVE  WaitsAt(call[r].conversation, sse[r][i].node, sse[r][i].next)'
    <3>1. PICK e : e = sse'[r][i]
      OBVIOUS
    <3>2. PICK c : c = call[r].conversation
      OBVIOUS
    <3>3. WaitsAt(c, e.node, e.next)'
      BY <2>1, <2>3, <2>4, <3>1, <3>2 DEF IsAwaited
    <3>4. c = call'[r].conversation
      BY <2>1, <3>2
    <3> QED  BY <3>1, <3>3, <3>4
  <2> QED  BY <2>1, <2>2, <2>4 DEF BarInv
<1>3. (\E r \in Requests : Deliver(r)) => UNCHANGED clientVars
  BY DEF Deliver
<1> QED  BY <1>1, <1>2, <1>3, ServerSteps

LEMMA InitBarInv == ChatInit => BarInv
<1> SUFFICES ASSUME ChatInit  PROVE BarInv
  OBVIOUS
<1>1. PICK target : ui = [c \in Conversations |-> NewConversation(target[c])]
  BY DEF ChatInit
<1>2. \A r \in Requests : call[r] = NewCall
  BY DEF ChatInit
<1> QED  BY <1>1, <1>2 DEF BarInv, IsAwaited, NewConversation, NewCall

\* All of it together, as long as nobody stops, disconnects or restarts anything.
Undisturbed == Chat /\ Disciplined /\ Owned /\ BarInv

LEMMA UndisturbedInductive ==
  ASSUME Moves \cap {"stop", "disconnect", "restart"} = {}
  PROVE  (ChatInit => Disciplined /\ Owned /\ BarInv)
         /\ (Undisturbed /\ [ChatNext]_chatVars => (Disciplined /\ Owned /\ BarInv)')
BY InitDisciplined, InitOwned, InitBarInv, DisciplinedInductive, OwnedInductive, BarInvInductive
   DEF Undisturbed

LEMMA UndisturbedInvariant ==
  ASSUME Moves \cap {"stop", "disconnect", "restart"} = {}
  PROVE  ChatSpec => []Undisturbed
<1>1. ChatInit => Disciplined /\ Owned /\ BarInv
  BY UndisturbedInductive
<1>2. Undisturbed /\ [ChatNext]_chatVars => (Disciplined /\ Owned /\ BarInv)'
  BY UndisturbedInductive
<1>3. Undisturbed <=> Chat /\ (Disciplined /\ Owned /\ BarInv)
  BY DEF Undisturbed
<1> QED  BY <1>1, <1>2, <1>3, ChatInvariant, PTL DEF ChatSpec

\* While the confirmation bar is shown the server holds the session, paused where the
\* bar says: no other request can have moved it since the answer the bar reports.
THEOREM BarIsBacked ==
  ASSUME Moves \cap {"stop", "disconnect", "restart"} = {}
  PROVE  ChatSpec => []BarHasSession
<1>1. Undisturbed => BarHasSession
  BY DEF Undisturbed, BarInv, BarHasSession, WaitsAt
<1> QED  BY <1>1, UndisturbedInvariant, PTL

----------------------------------------------------------------------------
(* Who was announced is who answers.                                       *)

\* The announced node when the cursor stands before it, before a node that does not ask,
\* and at the end.
LEMMA FindNextPausableSteps ==
  ASSUME NEW plan \in Seq(NODE), NEW cursor \in Nat
  PROVE  /\ cursor >= Len(plan) => FindNextPausable(plan, cursor) = NoNode
         /\ (cursor < Len(plan) /\ plan[cursor + 1] \in PAUSABLE_NODES) =>
              FindNextPausable(plan, cursor) = plan[cursor + 1]
         /\ (cursor < Len(plan) /\ plan[cursor + 1] \notin PAUSABLE_NODES) =>
              FindNextPausable(plan, cursor) = FindNextPausable(plan, cursor + 1)
<1>1. Len(plan) \in Nat
  BY LenProperties
<1>2. CASE cursor >= Len(plan)
  <2>1. PausableAfter(plan, cursor) = {}
    BY <1>1, <1>2 DEF PausableAfter
  <2> QED  BY <1>1, <1>2, <2>1 DEF FindNextPausable
<1>3. CASE cursor < Len(plan) /\ plan[cursor + 1] \in PAUSABLE_NODES
  <2> DEFINE ahead == PausableAfter(plan, cursor)
             least == CHOOSE i \in ahead : \A j \in ahead : i <= j
  <2>1. cursor + 1 \in ahead /\ \A j \in ahead : cursor + 1 <= j /\ j \in Nat
    BY <1>1, <1>3 DEF PausableAfter
  <2>2. least = cursor + 1
    <3> HIDE DEF ahead
    <3>1. least \in ahead /\ \A j \in ahead : least <= j
      BY <2>1
    <3> HIDE DEF least
    <3> QED  BY <2>1, <3>1
  <2>3. FindNextPausable(plan, cursor) = plan[least]
    BY <2>1 DEF FindNextPausable
  <2> HIDE DEF ahead, least
  <2>4. FindNextPausable(plan, cursor) = plan[cursor + 1]
    BY <2>2, <2>3
  <2> QED  BY <1>1, <1>3, <2>4
<1>4. CASE cursor < Len(plan) /\ plan[cursor + 1] \notin PAUSABLE_NODES
  <2>1. PausableAfter(plan, cursor) = PausableAfter(plan, cursor + 1)
    <3>1. ASSUME NEW i \in (cursor + 1)..Len(plan), plan[i] \in PAUSABLE_NODES
          PROVE  i \in ((cursor + 1) + 1)..Len(plan)
      BY <1>1, <1>4, <3>1
    <3>2. \A i \in ((cursor + 1) + 1)..Len(plan) : i \in (cursor + 1)..Len(plan)
      BY <1>1
    <3> QED  BY <3>1, <3>2 DEF PausableAfter
  <2> QED  BY <1>1, <1>4, <2>1 DEF FindNextPausable
<1> QED  BY <1>1, <1>2, <1>3, <1>4

\* Where a step takes a task.
LEMMA TaskBecomes ==
  ASSUME StepInv, NEW t \in Requests, IsLive(t), TaskStep(t)
  PROVE  LET same == task'[t].plan = task[t].plan /\ task'[t].cursor = task[t].cursor IN
         \/ /\ Begins(t) /\ task'[t].pc = "loop"
            /\ task'[t].plan = SessionOf(t).execution_plan
            /\ task'[t].cursor = SessionOf(t).cursor
         \/ /\ Passes(t) /\ task'[t].pc = "loop" /\ task'[t].plan = task[t].plan
            /\ task'[t].cursor = task[t].cursor + 1
         \/ Calls(t) /\ task'[t].pc = "calling" /\ same
         \/ IsAnswered(t) /\ task'[t].pc = "answered" /\ same
         \/ /\ Pauses(t) \/ Raises(t) \/ Stops(t) \/ Finishes(t)
            /\ task'[t].pc = "done" /\ same
<1>1. task[t] \in Task
  BY LiveTask
<1>2. ASSUME NEW new, task' = [task EXCEPT ![t] = new]  PROVE task'[t] = new
  BY <1>2 DEF StepInv, Shape
<1>3. CASE Begins(t)
  <2>1. PICK new : new = [task[t] EXCEPT !.pc = "loop", !.plan = SessionOf(t).execution_plan,
                                         !.cursor = SessionOf(t).cursor]
    OBVIOUS
  <2>2. /\ new.pc = "loop" /\ new.plan = SessionOf(t).execution_plan
        /\ new.cursor = SessionOf(t).cursor
    BY <1>1, <2>1 DEF Task
  <2>3. task'[t] = new
    BY <1>2, <1>3, <2>1 DEF Begins, OnlyTask
  <2> QED  BY <1>3, <2>2, <2>3
<1>4. CASE Passes(t)
  <2>1. PICK new : new = [task[t] EXCEPT !.cursor = @ + 1]
    OBVIOUS
  <2>2. new.pc = "loop" /\ new.plan = task[t].plan /\ new.cursor = task[t].cursor + 1
    BY <1>1, <1>4, <2>1 DEF Task, Passes
  <2>3. task'[t] = new
    BY <1>2, <1>4, <2>1 DEF Passes, OnlyTask
  <2> QED  BY <1>4, <2>2, <2>3
<1>5. CASE Calls(t)
  <2>1. PICK new : new = [task[t] EXCEPT !.pc = "calling", !.streamed = FALSE,
                                         !.writer = SessionOf(t).stream_writer]
    OBVIOUS
  <2>2. new.pc = "calling" /\ new.plan = task[t].plan /\ new.cursor = task[t].cursor
    BY <1>1, <2>1 DEF Task
  <2>3. task'[t] = new
    BY <1>2, <1>5, <2>1 DEF Calls, OnlyTask
  <2> QED  BY <1>5, <2>2, <2>3
<1>6. CASE IsAnswered(t)
  <2>1. PICK new : new = [task[t] EXCEPT !.pc = "answered"]
    OBVIOUS
  <2>2. new.pc = "answered" /\ new.plan = task[t].plan /\ new.cursor = task[t].cursor
    BY <1>1, <2>1 DEF Task
  <2>3. task'[t] = new
    BY <1>2, <1>6, <2>1 DEF IsAnswered, OnlyTask
  <2> QED  BY <1>6, <2>2, <2>3
<1>7. CASE Pauses(t) \/ Raises(t) \/ Stops(t) \/ Finishes(t)
  <2>1. PICK new : new = [task[t] EXCEPT !.pc = "done"]
    OBVIOUS
  <2>2. new.pc = "done" /\ new.plan = task[t].plan /\ new.cursor = task[t].cursor
    BY <1>1, <2>1 DEF Task
  <2>3. task' = [task EXCEPT ![t] = [task[t] EXCEPT !.pc = "done"]]
    BY <1>7 DEF Pauses, Raises, Stops, Finishes, OnlyTask
  <2>4. task'[t] = new
    BY <1>2, <2>1, <2>3
  <2> QED  BY <1>7, <2>2, <2>4
<1> QED  BY <1>3, <1>4, <1>5, <1>6, <1>7 DEF TaskStep

\* Who was asked in a body.
Asked(body) == \E i \in 1..Len(body) : Asks(body[i])
AskedOnly(body, node) == \A i \in 1..Len(body) : Asks(body[i]) => body[i].node = node

LEMMA AskedConcat ==
  ASSUME NEW body \in Seq(Event), NEW said \in Seq(Event), NEW node
  PROVE  /\ Asked(body \o said) <=> Asked(body) \/ Asked(said)
         /\ AskedOnly(body \o said, node) <=> AskedOnly(body, node) /\ AskedOnly(said, node)
<1>1. PICK m \in Nat, n \in Nat : m = Len(body) /\ n = Len(said)
  BY LenProperties
<1>2. PICK all : all = body \o said
  OBVIOUS
<1>3. /\ Len(all) = m + n
      /\ \A i \in 1..(m + n) : all[i] = IF i <= m THEN body[i] ELSE said[i - m]
  BY <1>1, <1>2, ConcatProperties
<1>4. \A i \in 1..m : i \in 1..(m + n) /\ all[i] = body[i]
  BY <1>3
<1>5. \A i \in 1..n : m + i \in 1..(m + n) /\ all[m + i] = said[i]
  BY <1>3
<1>6. \A i \in 1..(m + n) : \/ i \in 1..m /\ all[i] = body[i]
                            \/ i - m \in 1..n /\ all[i] = said[i - m]
  BY <1>3
<1>7. Asked(all) <=> Asked(body) \/ Asked(said)
  BY <1>1, <1>3, <1>4, <1>5, <1>6 DEF Asked
<1>8. AskedOnly(all, node) <=> AskedOnly(body, node) /\ AskedOnly(said, node)
  <2>1. ASSUME AskedOnly(all, node)  PROVE AskedOnly(body, node)
    BY <1>1, <1>3, <1>4, <2>1 DEF AskedOnly
  <2>2. ASSUME AskedOnly(all, node)  PROVE AskedOnly(said, node)
    <3> SUFFICES ASSUME NEW i \in 1..n, Asks(said[i])  PROVE said[i].node = node
      BY <1>1 DEF AskedOnly
    <3>1. m + i \in 1..Len(all) /\ all[m + i] = said[i]
      BY <1>3, <1>5
    <3> QED  BY <2>2, <3>1 DEF AskedOnly
  <2>3. ASSUME AskedOnly(body, node), AskedOnly(said, node)  PROVE AskedOnly(all, node)
    BY <1>1, <1>3, <1>6, <2>3 DEF AskedOnly
  <2> QED  BY <2>1, <2>2, <2>3
<1> QED  BY <1>2, <1>7, <1>8

\* The session a decision finds when it arrives.
Ready(r) ==
  \E node \in NODE, next \in NODE \cup {NoNode} :
    /\ WaitsAt(call[r].conversation, node, next)
    /\ call[r].announced = IF call[r].action = "continue" THEN next ELSE node

\* How the end of a body fits the decision.
AsTold(r, e) ==
  /\ e.type = "awaiting_confirmation" /\ call[r].action # "query" => e.node = call[r].announced
  /\ e.type = "final" => call[r].announced = NoNode
  /\ e.type # "stopped"

\* From the user's decision to the end of the answer, what is ahead of the request is
\* the announced node.
OnItsWay(r) ==
  LET announced == call[r].announced IN
  CASE task[r].pc = "none"    -> call[r].state = "sent" => Ready(r)
    [] task[r].pc = "created" ->
         /\ ~Asked(sse[r])
         /\ FindNextPausable(SessionOf(r).execution_plan, SessionOf(r).cursor) = announced
    [] task[r].pc = "loop"    ->
         /\ ~Asked(sse[r])
         /\ FindNextPausable(task[r].plan, task[r].cursor) = announced
    [] task[r].pc \in {"calling", "answered"} ->
         /\ Asked(sse[r]) /\ AskedOnly(sse[r], announced)
         /\ CurrentNode(r) = announced
    [] task[r].pc = "done"    ->
         /\ AskedOnly(sse[r], announced)
         /\ Asked(sse[r]) \/ announced = NoNode
    [] OTHER -> FALSE

Told(r) ==
  /\ task[r].pc \notin {"expired", "lost"}
  /\ task[r].pc = "none" => ~Asked(sse[r])
  /\ \A i \in 1..Len(sse[r]) : AsTold(r, sse[r][i])
  /\ IF call[r].action = "query" THEN call[r].announced = NoNode ELSE OnItsWay(r)
ToldInv == \A r \in Requests : Told(r)

\* A step of a task brings the announced node nearer, calls it, or lets it end.
LEMMA TaskGoesOn ==
  ASSUME Chat, Disciplined, Owned, NEW r \in Requests, Advance(r), UNCHANGED clientVars,
         OnItsWay(r)
  PROVE  OnItsWay(r)'
<1> USE DEF Chat
<1>1. IsLive(r) /\ TaskStep(r)
  BY AdvanceIsTaskStep
<1>2. PICK said \in Seq(Event) : /\ sse'[r] = sse[r] \o said
                                 /\ \A i \in 1..Len(said) : Utters(r, said[i])
                                 /\ Calls(r) => \E i \in 1..Len(said) : Asks(said[i])
  BY <1>1, TaskUtters
<1>3. sse[r] \in Seq(Event)
  BY DEF StepInv, Shape
<1>4. PICK announced : announced = call[r].announced
  OBVIOUS
<1>5. call' = call
  BY DEF clientVars
<1>6. ~Calls(r) => ~Asked(said) /\ AskedOnly(said, announced)
  BY <1>2 DEF Utters, Asked, AskedOnly
<1>7. /\ Asked(sse'[r]) <=> Asked(sse[r]) \/ Asked(said)
      /\ AskedOnly(sse'[r], announced) <=>
           AskedOnly(sse[r], announced) /\ AskedOnly(said, announced)
  <2>1. PICK body \in Seq(Event) : body = sse[r]
    BY <1>3
  <2>2. /\ Asked(body \o said) <=> Asked(body) \/ Asked(said)
        /\ AskedOnly(body \o said, announced) <=>
             AskedOnly(body, announced) /\ AskedOnly(said, announced)
    BY AskedConcat
  <2>3. sse'[r] = body \o said
    BY <1>2, <2>1
  <2> QED  BY <2>1, <2>2, <2>3, Zenon
<1>8. ~Asked(sse[r]) => AskedOnly(sse[r], announced)
  BY DEF Asked, AskedOnly
<1>9. /\ task[r].plan \in Seq(NODE) /\ task[r].cursor \in Nat /\ Len(task[r].plan) \in Nat
      /\ task[r].pc \in {"created", "loop", "calling", "answered"}
  BY <1>1, LiveTask DEF IsLive
<1>10. CASE Begins(r) /\ task'[r].pc = "loop" /\ task'[r].plan = SessionOf(r).execution_plan
            /\ task'[r].cursor = SessionOf(r).cursor
  <2>1. task[r].pc = "created" /\ ~Calls(r)
    BY <1>10 DEF Begins, Calls
  <2>2. /\ ~Asked(sse[r])
        /\ FindNextPausable(SessionOf(r).execution_plan, SessionOf(r).cursor) = announced
    BY <1>4, <2>1 DEF OnItsWay
  <2>3. ~Asked(sse'[r]) /\ FindNextPausable(task'[r].plan, task'[r].cursor) = announced
    BY <1>6, <1>7, <1>10, <2>1, <2>2
  <2> QED  BY <1>4, <1>5, <1>10, <2>3 DEF OnItsWay
<1>11. CASE Passes(r) /\ task'[r].pc = "loop" /\ task'[r].plan = task[r].plan
            /\ task'[r].cursor = task[r].cursor + 1
  <2>1. /\ task[r].pc = "loop" /\ ~Calls(r) /\ task[r].cursor < Len(task[r].plan)
        /\ task[r].plan[task[r].cursor + 1] \notin PAUSABLE_NODES
    BY <1>11 DEF Passes, Calls, CurrentNode
  <2>2. ~Asked(sse[r]) /\ FindNextPausable(task[r].plan, task[r].cursor) = announced
    BY <1>4, <2>1 DEF OnItsWay
  <2>3. FindNextPausable(task[r].plan, task[r].cursor + 1) = announced
    BY <1>9, <2>1, <2>2, FindNextPausableSteps
  <2>4. ~Asked(sse'[r]) /\ FindNextPausable(task'[r].plan, task'[r].cursor) = announced
    BY <1>6, <1>7, <1>11, <2>1, <2>2, <2>3
  <2> QED  BY <1>4, <1>5, <1>11, <2>4 DEF OnItsWay
<1>12. CASE Calls(r) /\ task'[r].pc = "calling" /\ task'[r].plan = task[r].plan
            /\ task'[r].cursor = task[r].cursor
  <2>1. /\ task[r].pc = "loop" /\ task[r].cursor < Len(task[r].plan)
        /\ task[r].plan[task[r].cursor + 1] \in PAUSABLE_NODES
        /\ CurrentNode(r) = task[r].plan[task[r].cursor + 1]
    BY <1>12 DEF Calls, CurrentNode
  <2>2. ~Asked(sse[r]) /\ FindNextPausable(task[r].plan, task[r].cursor) = announced
    BY <1>4, <2>1 DEF OnItsWay
  <2>3. CurrentNode(r) = announced
    BY <1>9, <2>1, <2>2, FindNextPausableSteps
  <2>4. Asked(said) /\ AskedOnly(said, announced)
    BY <1>2, <1>12, <2>3 DEF Utters, Asked, AskedOnly
  <2>5. Asked(sse'[r]) /\ AskedOnly(sse'[r], announced)
    BY <1>7, <1>8, <2>2, <2>4
  <2>6. CurrentNode(r)' = announced
    BY <1>12, <2>3 DEF CurrentNode
  <2> QED  BY <1>4, <1>5, <1>12, <2>5, <2>6 DEF OnItsWay
<1>13. CASE IsAnswered(r) /\ task'[r].pc = "answered" /\ task'[r].plan = task[r].plan
            /\ task'[r].cursor = task[r].cursor
  <2>1. task[r].pc = "calling" /\ ~Calls(r)
    BY <1>13 DEF IsAnswered, Calls
  <2>2. Asked(sse[r]) /\ AskedOnly(sse[r], announced) /\ CurrentNode(r) = announced
    BY <1>4, <2>1 DEF OnItsWay
  <2>3. /\ Asked(sse'[r]) /\ AskedOnly(sse'[r], announced)
        /\ CurrentNode(r)' = announced
    BY <1>6, <1>7, <1>13, <2>1, <2>2 DEF CurrentNode
  <2> QED  BY <1>4, <1>5, <1>13, <2>3 DEF OnItsWay
<1>14. CASE (Pauses(r) \/ Raises(r) \/ Stops(r) \/ Finishes(r)) /\ task'[r].pc = "done"
  <2>1. ~Stops(r)
    <3>1. ~SessionOf(r).cancelled
      BY <1>1, LiveTask DEF Owned, SessionOf
    <3> QED  BY <3>1 DEF Stops
  <2>2. CASE task[r].pc = "answered"
    <3>1. Asked(sse[r]) /\ AskedOnly(sse[r], announced) /\ ~Calls(r)
      BY <1>4, <2>2 DEF OnItsWay, Calls
    <3>2. Asked(sse'[r]) /\ AskedOnly(sse'[r], announced)
      BY <1>6, <1>7, <3>1
    <3> QED  BY <1>4, <1>5, <1>14, <3>2 DEF OnItsWay
  <2>3. CASE Finishes(r)
    <3>1. task[r].pc = "loop" /\ task[r].cursor >= Len(task[r].plan) /\ ~Calls(r)
      BY <1>9, <2>3 DEF Finishes, Calls
    <3>2. ~Asked(sse[r]) /\ FindNextPausable(task[r].plan, task[r].cursor) = announced
      BY <1>4, <3>1 DEF OnItsWay
    <3>3. announced = NoNode
      BY <1>9, <3>1, <3>2, FindNextPausableSteps
    <3>4. AskedOnly(sse'[r], announced)
      BY <1>6, <1>7, <1>8, <3>1, <3>2
    <3> QED  BY <1>4, <1>5, <1>14, <3>3, <3>4 DEF OnItsWay
  <2> QED  BY <1>14, <2>1, <2>2, <2>3 DEF Pauses, Raises
<1> QED  BY <1>1, <1>10, <1>11, <1>12, <1>13, <1>14, TaskBecomes

\* What it says of its end fits the decision.
LEMMA TaskTells ==
  ASSUME Chat, Disciplined, Owned, NEW r \in Requests, Advance(r),
         IF call[r].action = "query" THEN call[r].announced = NoNode ELSE OnItsWay(r),
         NEW e, Utters(r, e)
  PROVE  AsTold(r, e)
<1> USE DEF Chat
<1>1. IsLive(r) /\ TaskStep(r)
  BY AdvanceIsTaskStep
<1>2. /\ task[r].plan \in Seq(NODE) /\ task[r].cursor \in Nat /\ Len(task[r].plan) \in Nat
  BY <1>1, LiveTask
<1>3. e.type # "stopped"
  <2>1. ~SessionOf(r).cancelled
    BY <1>1, LiveTask DEF Owned, SessionOf
  <2> QED  BY <2>1 DEF Utters, Stops
<1>4. ASSUME e.type = "awaiting_confirmation", call[r].action # "query"
      PROVE  e.node = call[r].announced
  <2>1. task[r].pc = "answered" /\ e.node = CurrentNode(r)
    BY <1>4 DEF Utters, PausesAt
  <2> QED  BY <1>4, <2>1 DEF OnItsWay
<1>5. ASSUME e.type = "final"  PROVE call[r].announced = NoNode
  <2>1. task[r].pc = "loop" /\ task[r].cursor >= Len(task[r].plan)
    BY <1>5 DEF Utters, Finishes
  <2>2. call[r].action # "query" =>
          FindNextPausable(task[r].plan, task[r].cursor) = call[r].announced
    BY <2>1 DEF OnItsWay
  <2> QED  BY <1>2, <2>1, <2>2, FindNextPausableSteps
<1> QED  BY <1>3, <1>4, <1>5 DEF AsTold

\* A request is made by a decision, or goes on as it was made.
SameCall(r) ==
  /\ call'[r].action = call[r].action /\ call'[r].announced = call[r].announced
  /\ call'[r].conversation = call[r].conversation
  /\ call'[r].state = "sent" => call[r].state = "sent"

Decided(r) ==
  /\ call[r].state = "unsent"
  /\ call'[r].conversation \in Conversations
  /\ IF call'[r].action = "query" THEN call'[r].announced = NoNode
     ELSE /\ ui[call'[r].conversation].awaiting
          /\ call'[r].announced = IF call'[r].action = "continue"
                                  THEN ui[call'[r].conversation].next
                                  ELSE ui[call'[r].conversation].completed

LEMMA CallSteps ==
  ASSUME ClientInv, [ChatNext]_chatVars, "stop" \notin Moves, NEW r \in Requests
  PROVE  SameCall(r) \/ (Decided(r) /\ UNCHANGED vars)
<1>1. ASSUME NEW c \in Conversations, NEW q \in Requests, NEW action, NEW announced,
             Sends(c, q, action, announced),
             IF action = "query" THEN announced = NoNode
             ELSE /\ ui[c].awaiting
                  /\ announced = IF action = "continue" THEN ui[c].next ELSE ui[c].completed
      PROVE  SameCall(r) \/ (Decided(r) /\ UNCHANGED vars)
  <2>1. CASE r = q
    <3>1. /\ call[r].state = "unsent" /\ call'[r].conversation = c
          /\ call'[r].action = action /\ call'[r].announced = announced /\ UNCHANGED vars
      BY <1>1, <2>1 DEF Sends, ClientInv
    <3> QED  BY <1>1, <3>1 DEF Decided
  <2>2. CASE r # q
    BY <1>1, <2>2 DEF Sends, ClientInv, SameCall
  <2> QED  BY <2>1, <2>2
<1>2. ASSUME NEW c \in Conversations, HandleSend(c)
      PROVE  SameCall(r) \/ (Decided(r) /\ UNCHANGED vars)
  BY <1>1, <1>2, FetchSends DEF HandleSend
<1>3. ASSUME NEW c \in Conversations, NEW action \in {"continue", "regenerate", "modify"},
             HandleConfirmation(c, action)
      PROVE  SameCall(r) \/ (Decided(r) /\ UNCHANGED vars)
  <2>1. PICK announced : announced = IF action = "continue" THEN ui[c].next ELSE ui[c].completed
    OBVIOUS
  <2>2. PICK q \in Requests : Sends(c, q, action, announced)
    BY <1>3, <2>1, FetchSends DEF HandleConfirmation
  <2> QED  BY <1>1, <1>3, <2>1, <2>2 DEF HandleConfirmation
<1>4. ASSUME NEW q \in Requests, ReadEnding(q)  PROVE SameCall(r)
  BY <1>4 DEF ReadEnding, ClientInv, Call, SameCall
<1>5. ASSUME NEW q \in Requests, ReadEnd(q) \/ ConnectionLost(q)  PROVE SameCall(r)
  BY <1>5 DEF ReadEnd, ConnectionLost, ClientInv, Call, SameCall
<1>6. call' = call => SameCall(r)
  BY DEF SameCall
<1>7. ASSUME NEW c \in Conversations, HandleDone(c) \/ HandleStop(c) \/ Stopping(c)
      PROVE  call' = call
  BY <1>7 DEF HandleDone, HandleStop, Stopping, StopArrives, StopReturns
<1> QED  BY <1>2, <1>3, <1>4, <1>5, <1>6, <1>7 DEF ChatNext, Network, Deliver, clientVars, chatVars

\* A request arrives where its user was told it would go on.
LEMMA ArrivesAsTold ==
  ASSUME Chat, Disciplined, Owned, NEW r \in Requests, Deliver(r), ~Asked(sse[r]),
         call[r].action # "query" => OnItsWay(r)
  PROVE  /\ task'[r].pc = "created"
         /\ call[r].action # "query" => OnItsWay(r)'
<1> USE DEF Chat
<1>1. PICK c \in Conversations : c = call[r].conversation
  BY DeliverReceives
<1>2. IsAwaited(r) /\ task[r].pc = "none" /\ UNCHANGED clientVars
  BY ArrivesAlone, DeliverReceives
<1>3. ASSUME NEW o, NEW data, Binds(r, c, o, data), o \in Requests
      PROVE  /\ task'[r].pc = "created" /\ task'[r].obj = o /\ sse' = sse
             /\ sessionData'[o] = data
  BY <1>3 DEF Binds, StepInv, Shape, Task
<1>4. CASE call[r].action = "query"
  BY <1>1, <1>3, <1>4, DeliverReceives DEF Receives
<1>5. CASE call[r].action # "query"
  <2>1. PICK action \in {"continue", "regenerate", "modify"} : action = call[r].action
    BY <1>5 DEF ClientInv, Call
  <2>2. PICK node \in NODE, next \in NODE \cup {NoNode} :
          /\ WaitsAt(c, node, next)
          /\ call[r].announced = IF action = "continue" THEN next ELSE node
    BY <1>1, <1>2, <1>5, <2>1 DEF OnItsWay, Ready, IsAwaited
  <2>3. Confirm(r, c, action) /\ c \in SessionIds
    BY <1>1, <1>5, <2>1, <2>2 DEF Deliver, ConfirmExpired, WaitsAt, Conversations
  <2>4. PICK old, data :
          /\ old = sessionData[store[c]] /\ old \in SessionData /\ store[c] \in Requests
          /\ Binds(r, c, store[c], data) /\ data.execution_plan = old.execution_plan
          /\ data.cursor = IF action = "continue" THEN old.cursor ELSE StepBack(old.cursor)
    BY <2>3, ConfirmBinds DEF Resumes
  <2>5. FindNextPausable(data.execution_plan, data.cursor) = call[r].announced
    <3>1. CASE action = "continue"
      BY <2>2, <2>4, <3>1 DEF WaitsAt
    <3>2. CASE action # "continue"
      <4>1. PICK plan \in Seq(NODE), cursor \in Nat :
              /\ plan = old.execution_plan /\ cursor = old.cursor - 1
              /\ cursor < Len(plan) /\ plan[cursor + 1] = node
              /\ cursor = StepBack(old.cursor)
        <5>1. /\ old.execution_plan \in Seq(NODE) /\ Len(old.execution_plan) \in Nat
              /\ old.cursor \in 1..Len(old.execution_plan)
              /\ old.execution_plan[old.cursor] = node
          BY <2>2, <2>4, LenProperties DEF WaitsAt, SessionData
        <5>2. /\ old.cursor - 1 \in Nat /\ (old.cursor - 1) + 1 = old.cursor
              /\ old.cursor - 1 < Len(old.execution_plan)
          BY <5>1
        <5> QED  BY <5>1, <5>2 DEF StepBack
      <4>2. node \in PAUSABLE_NODES
        BY <2>2 DEF WaitsAt
      <4>3. FindNextPausable(plan, cursor) = node
        BY <4>1, <4>2, FindNextPausableSteps
      <4> QED  BY <2>2, <2>4, <3>2, <4>1, <4>3
    <3> QED  BY <3>1, <3>2
  <2>6. /\ task'[r].pc = "created" /\ task'[r].obj = store[c] /\ sse' = sse
        /\ sessionData'[store[c]] = data
    BY <1>3, <2>4
  <2>7. /\ SessionOf(r)' = data /\ call' = call
    BY <1>2, <2>6 DEF SessionOf, clientVars
  <2> QED  BY <2>5, <2>6, <2>7 DEF OnItsWay
<1> QED  BY <1>4, <1>5

\* It waits for its turn, or for the model, as long as others have theirs.
LEMMA WaitsAsTold ==
  ASSUME Chat, Disciplined, NEW r \in Requests, StepsAside(r), UNCHANGED clientVars, OnItsWay(r)
  PROVE  OnItsWay(r)'
<1>1. call' = call /\ task'[r] = task[r] /\ sse'[r] = sse[r]
  BY DEF StepsAside, clientVars
<1>2. CASE task[r].pc = "none"
  <2> SUFFICES ASSUME call[r].state = "sent"  PROVE Ready(r)'
    BY <1>1, <1>2 DEF OnItsWay
  <2>1. IsAwaited(r)
    BY <1>2 DEF Disciplined, InStep, IsAwaited
  <2>0. PICK c : c = call[r].conversation
    OBVIOUS
  <2>2. PICK node \in NODE, next \in NODE \cup {NoNode} :
          /\ WaitsAt(c, node, next)
          /\ call[r].announced = IF call[r].action = "continue" THEN next ELSE node
    BY <1>2, <2>0 DEF OnItsWay, Ready
  <2>3. WaitsAt(c, node, next)'
    BY <2>0, <2>1, <2>2, RestingWaits DEF StepsAside
  <2>4. c = call'[r].conversation
    BY <1>1, <2>0
  <2> QED  BY <1>1, <2>2, <2>3, <2>4 DEF Ready
<1>3. CASE task[r].pc = "created"
  <2>1. SessionOf(r)' = SessionOf(r)
    BY <1>3 DEF StepsAside, IsLive
  <2> QED  BY <1>1, <1>3, <2>1 DEF OnItsWay
<1>4. CASE task[r].pc \notin {"none", "created"}
  BY <1>1, <1>4 DEF OnItsWay, CurrentNode
<1> QED  BY <1>2, <1>3, <1>4

\* A token says nothing of who was asked.
LEMMA StreamsAsTold ==
  ASSUME Chat, Owned, NEW r \in Requests, StreamChunk(r), UNCHANGED clientVars
  PROVE  /\ task'[r].pc = task[r].pc /\ task[r].pc = "calling"
         /\ OnItsWay(r) => OnItsWay(r)'
<1> USE DEF Chat
<1>1. PICK chunk \in Event : chunk = Chunk(CurrentNode(r), r)
  BY ChunkIsOwn
<1>2. /\ task[r].pc = "calling" /\ task' = [task EXCEPT ![r] = [task[r] EXCEPT !.streamed = TRUE]]
      /\ sse' = [sse EXCEPT ![r] = sse[r] \o <<chunk>>]
  BY <1>1, ChunkIsOwn
<1>3. /\ task'[r].pc = "calling" /\ task'[r].plan = task[r].plan
      /\ task'[r].cursor = task[r].cursor /\ sse'[r] = sse[r] \o <<chunk>>
      /\ sse[r] \in Seq(Event) /\ <<chunk>> \in Seq(Event) /\ call' = call
  BY <1>2 DEF StepInv, Shape, Task, clientVars
<1>4. ~Asks(chunk)
  BY <1>1 DEF Asks, Chunk
<1>5. \A i \in 1..Len(<<chunk>>) : <<chunk>>[i] = chunk
  OBVIOUS
<1>6. PICK announced, body, more :
        /\ announced = call[r].announced
        /\ body \in Seq(Event) /\ body = sse[r] /\ more \in Seq(Event) /\ more = <<chunk>>
  BY <1>3
<1>7. ~Asked(more) /\ AskedOnly(more, announced)
  BY <1>4, <1>5, <1>6 DEF Asked, AskedOnly
<1>8. /\ Asked(body \o more) <=> Asked(body)
      /\ AskedOnly(body \o more, announced) <=> AskedOnly(body, announced)
  BY <1>6, <1>7, AskedConcat
<1>9. sse'[r] = body \o more
  BY <1>3, <1>6
<1>10. ASSUME OnItsWay(r)  PROVE OnItsWay(r)'
  <2>1. Asked(body) /\ AskedOnly(body, announced) /\ CurrentNode(r) = announced
    BY <1>2, <1>6, <1>10 DEF OnItsWay
  <2>2. Asked(sse'[r]) /\ AskedOnly(sse'[r], announced)
    BY <1>8, <1>9, <2>1
  <2>3. CurrentNode(r)' = announced
    BY <1>3, <2>1 DEF CurrentNode
  <2> QED  BY <1>3, <1>6, <2>2, <2>3 DEF OnItsWay
<1> QED  BY <1>2, <1>3, <1>10

\* While the server does nothing, a decision is made from what the bar says.
LEMMA DecidesAsTold ==
  ASSUME Chat, Disciplined, BarInv, [ChatNext]_chatVars, "stop" \notin Moves, UNCHANGED vars,
         NEW r \in Requests, Told(r)
  PROVE  Told(r)'
<1> USE DEF Chat
<1>1. task' = task /\ sse' = sse /\ SessionOf(r)' = SessionOf(r)
  BY DEF vars, SessionOf
<1>2. \A c, node, next : WaitsAt(c, node, next) => WaitsAt(c, node, next)'
  BY DEF WaitsAt, vars
<1>3. CASE SameCall(r)
  <2>1. \A i \in 1..Len(sse'[r]) : AsTold(r, sse[r][i])'
    BY <1>1, <1>3 DEF Told, AsTold, SameCall
  <2>2. call'[r].action # "query" => OnItsWay(r)'
    <3> SUFFICES ASSUME call[r].action # "query"  PROVE OnItsWay(r)'
      BY <1>3 DEF SameCall
    <3>1. Ready(r) => Ready(r)'
      <4> SUFFICES ASSUME Ready(r)  PROVE Ready(r)'
        OBVIOUS
      <4>1. PICK node \in NODE, next \in NODE \cup {NoNode} :
              /\ WaitsAt(call[r].conversation, node, next)
              /\ call[r].announced = IF call[r].action = "continue" THEN next ELSE node
        BY DEF Ready
      <4>2. PICK c : c = call[r].conversation
        OBVIOUS
      <4>3. WaitsAt(c, node, next)' /\ c = call'[r].conversation
        BY <1>2, <1>3, <4>1, <4>2 DEF SameCall
      <4> QED  BY <1>3, <4>1, <4>3 DEF Ready, SameCall
    <3>2. OnItsWay(r) /\ CurrentNode(r)' = CurrentNode(r)
      BY <1>1 DEF Told, CurrentNode
    <3> QED  BY <1>1, <1>3, <3>1, <3>2 DEF OnItsWay, SameCall
  <2> QED  BY <1>1, <1>3, <2>1, <2>2 DEF Told, SameCall
<1>4. CASE Decided(r)
  <2>1. task[r].pc = "none"
    BY <1>4 DEF Decided, Disciplined, InStep
  <2>2. \A i \in 1..Len(sse'[r]) : AsTold(r, sse[r][i])'
    <3>1. \A i \in 1..Len(sse[r]) : sse[r][i].type \notin Endings
      BY <2>1, EndingMeansDone
    <3> QED  BY <1>1, <3>1 DEF AsTold, Endings
  <2>3. call'[r].action # "query" => Ready(r)'
    <3> SUFFICES ASSUME call'[r].action # "query"  PROVE Ready(r)'
      OBVIOUS
    <3>1. PICK c \in Conversations : c = call'[r].conversation
      BY <1>4 DEF Decided
    <3>2. PICK node, next : node = ui[c].completed /\ next = ui[c].next
      OBVIOUS
    <3>3. WaitsAt(c, node, next)'
      BY <1>2, <1>4, <3>1, <3>2 DEF Decided, BarInv
    <3>4. node \in NODE /\ next \in NODE \cup {NoNode}
      <4>1. ui[c] \in Conversation /\ node \in PAUSABLE_NODES
        BY <1>4, <3>1, <3>2 DEF Decided, BarInv, WaitsAt, ClientInv
      <4> QED  BY <3>2, <4>1, NodeKinds DEF Conversation
    <3>5. call'[r].announced = IF call'[r].action = "continue" THEN next ELSE node
      BY <1>4, <3>1, <3>2 DEF Decided
    <3> QED  BY <3>1, <3>3, <3>4, <3>5 DEF Ready
  <2> QED  BY <1>1, <1>4, <2>1, <2>2, <2>3 DEF Told, OnItsWay, Decided
<1> QED  BY <1>3, <1>4, CallSteps

LEMMA ToldInvInductive ==
  ASSUME Moves \cap {"stop", "disconnect", "restart"} = {}
  PROVE  Undisturbed /\ ToldInv /\ [ChatNext]_chatVars => ToldInv'
<1> SUFFICES ASSUME Undisturbed, ToldInv, [ChatNext]_chatVars, NEW r \in Requests
             PROVE  Told(r)'
  BY DEF ToldInv
<1> USE DEF Undisturbed
<1>1. Told(r)
  BY DEF ToldInv
<1>2. CASE UNCHANGED vars
  BY <1>1, <1>2, DecidesAsTold
<1>3. CASE UNCHANGED clientVars
  <2>1. call' = call
    BY <1>3 DEF clientVars
  <2>2. \A i \in 1..Len(sse'[r]) : AsTold(r, sse[r][i])'
    <3> SUFFICES ASSUME NEW i \in 1..Len(sse'[r])  PROVE AsTold(r, sse[r][i])'
      OBVIOUS
    <3>1. PICK e : e = sse'[r][i]
      OBVIOUS
    <3>2. AsTold(r, e)
      <4>1. e.type \in {"stream", "end"} => AsTold(r, e)
        BY DEF AsTold
      <4>2. Advance(r) /\ Utters(r, e) => AsTold(r, e)
        BY <1>1, TaskTells DEF Told
      <4>3. i \in 1..Len(sse[r]) /\ e = sse[r][i] => AsTold(r, e)
        BY <1>1 DEF Told
      <4> QED  BY <3>1, <4>1, <4>2, <4>3, NewEvents
    <3>3. AsTold(r, e)'
      BY <2>1, <3>2 DEF AsTold
    <3> QED  BY <3>1, <3>3
  <2>3. ASSUME task'[r].pc \notin {"none", "expired", "lost"},
               call[r].action # "query" => OnItsWay(r)'
        PROVE  Told(r)'
    BY <1>1, <2>1, <2>2, <2>3 DEF Told
  <2>4. CASE Deliver(r)
    <3>1. task[r].pc = "none"
      BY <2>4, ArrivesAlone DEF Chat
    <3> QED  BY <1>1, <2>3, <2>4, <3>1, ArrivesAsTold DEF Told
  <2>5. CASE Advance(r)
    <3>1. task'[r].pc \in {"loop", "calling", "answered", "done"}
      BY <2>5, AdvanceIsTaskStep, TaskBecomes DEF Chat
    <3> QED  BY <1>1, <1>3, <2>3, <2>5, <3>1, TaskGoesOn DEF Told
  <2>6. CASE StreamChunk(r)
    BY <1>1, <1>3, <2>3, <2>6, StreamsAsTold DEF Told
  <2>7. CASE ~Deliver(r) /\ ~Advance(r) /\ ~StreamChunk(r)
    <3>1. StepsAside(r)
      BY <2>7, NoRestart, Bystander
    <3> QED  BY <1>1, <1>3, <2>1, <2>2, <3>1, WaitsAsTold DEF Told, StepsAside
  <2> QED  BY <2>4, <2>5, <2>6, <2>7
<1>4. (\E q \in Requests : Deliver(q)) => UNCHANGED clientVars
  BY DEF Deliver
<1> QED  BY <1>2, <1>3, <1>4, ServerSteps

LEMMA InitToldInv == ChatInit => ToldInv
BY DEF ChatInit, Init, NewTask, NewCall, ToldInv, Told, Asked

LEMMA ToldInvariant ==
  ASSUME Moves \cap {"stop", "disconnect", "restart"} = {}
  PROVE  ChatSpec => []ToldInv
<1>1. Undisturbed /\ ToldInv /\ [ChatNext]_chatVars => ToldInv'
  BY ToldInvInductive
<1> QED  BY <1>1, InitToldInv, UndisturbedInvariant, PTL DEF ChatSpec

\* The agent that answers a decision is the one the decision named: the next one after
\* "continue", the same one after "regenerate" and "modify".  Nobody moves the session
\* between the answer that announced it and the request that asks for it.
THEOREM AnnouncedRuns ==
  ASSUME Moves \cap {"stop", "disconnect", "restart"} = {}
  PROVE  ChatSpec => []AnnouncedNodeRuns
<1>1. Undisturbed /\ ToldInv => AnnouncedNodeRuns
  <2> SUFFICES ASSUME Undisturbed, ToldInv, NEW r \in Requests, call[r].action # "query",
                      HasEnded(r)
               PROVE  FirstModelNode(r) = call[r].announced
    BY DEF AnnouncedNodeRuns
  <2>1. sse[r] \in Seq(Event) /\ DOMAIN sse[r] = 1..Len(sse[r]) /\ Len(sse[r]) \in Nat
    BY LenProperties DEF Undisturbed, Chat, StepInv, Shape
  <2>2. task[r].pc = "done" /\ OnItsWay(r)
    BY EndedMeansShut DEF Undisturbed, Chat, ToldInv, Told
  <2> DEFINE calls == {i \in DOMAIN sse[r] : sse[r][i].type = "thinking" /\ sse[r][i].node \in ModelNodes}
  <2>3. \A i : i \in calls <=> i \in 1..Len(sse[r]) /\ Asks(sse[r][i])
    BY <2>1 DEF Asks
  <2>4. \A i \in calls : sse[r][i].node = call[r].announced
    BY <2>2, <2>3 DEF OnItsWay, AskedOnly
  <2>5. calls = {} => call[r].announced = NoNode
    BY <2>2, <2>3 DEF OnItsWay, Asked
  <2>6. FirstModelNode(r) = IF calls = {} THEN NoNode ELSE sse[r][Min(calls)].node
    BY DEF FirstModelNode
  <2>7. calls # {} => Min(calls) \in calls
    <3>1. calls \subseteq Nat
      BY <2>1
    <3> HIDE DEF calls
    <3>2. calls # {} => \E m \in calls : \A n \in calls : m <= n
      BY <3>1, LeastExists
    <3> QED  BY <3>2 DEF Min
  <2> HIDE DEF calls
  <2> QED  BY <2>4, <2>5, <2>6, <2>7
<1> QED  BY <1>1, UndisturbedInvariant, ToldInvariant, PTL

----------------------------------------------------------------------------
(* The client keeps the promises of Dialogue.                              *)

\* A conversation as Dialogue sees it.
Standing(c) ==
  [phase |-> IF ui[c].loading THEN "working"
             ELSE IF ui[c].awaiting THEN "deciding" ELSE "idle",
   promised |-> Promised(c), said |-> ui[c].completed, next |-> ui[c].next]

LEMMA SeenInit ==
  ASSUME \A c \in Conversations : Standing(c) = Seen!Opening
  PROVE  Seen!DialogueInit
BY DEF Seen!DialogueInit, Standing

LEMMA SeenStutters ==
  ASSUME \A c \in Conversations : Standing(c)' = Standing(c)
  PROVE  UNCHANGED [c \in Conversations |->
    [phase |-> IF ui[c].loading THEN "working"
               ELSE IF ui[c].awaiting THEN "deciding" ELSE "idle",
     promised |-> Promised(c), said |-> ui[c].completed, next |-> ui[c].next]]
BY DEF Standing

LEMMA SeenStep ==
  ASSUME NEW c \in Conversations,
         \A other \in Conversations \ {c} : Standing(other)' = Standing(other),
         NEW before, NEW after, before = Standing(c), after = Standing(c)',
         \/ Seen!Asks(before, after) \/ Seen!Answers(before, after)
         \/ Seen!Concludes(before, after) \/ Seen!Decides(before, after)
         \/ Seen!Finishes(before, after)
  PROVE  Seen!DialogueNext
BY DEF Seen!DialogueNext, Standing

Stance(phase, promised, said, next) ==
  [phase |-> phase, promised |-> promised, said |-> said, next |-> next]

\* The steps of Dialogue.
LEMMA SeenAsks ==
  ASSUME NEW before, NEW after, NEW said, NEW next,
         before = Stance("idle", NoNode, said, next), after = Stance("working", NoNode, said, next)
  PROVE  Seen!Asks(before, after)
<1>1. before.phase = "idle"
  BY DEF Stance
<1>2. before \in [phase : {"idle"}, promised : {NoNode}, said : {said}, next : {next}]
  BY DEF Stance
<1>3. PICK turn : turn = [before EXCEPT !.phase = "working"]
  OBVIOUS
<1>4. turn \in [phase : {"working"}, promised : {NoNode}, said : {said}, next : {next}]
  BY <1>2, <1>3
<1>5. turn = after
  BY <1>4 DEF Stance
<1> QED  BY <1>1, <1>3, <1>5 DEF Seen!Asks

LEMMA SeenAnswers ==
  ASSUME NEW before, NEW after, NEW promised, NEW was_said, NEW was_next, NEW said \in NODE,
         NEW next \in NODE \cup {NoNode}, promised # NoNode => said = promised,
         before = Stance("working", promised, was_said, was_next),
         after = Stance("deciding", NoNode, said, next)
  PROVE  Seen!Answers(before, after)
BY DEF Seen!Answers, Stance

LEMMA SeenConcludes ==
  ASSUME NEW before, NEW after, NEW said, NEW next,
         before = Stance("working", NoNode, said, next), after = Stance("idle", NoNode, said, next)
  PROVE  Seen!Concludes(before, after)
<1>1. before.phase = "working" /\ before.promised = NoNode
  BY DEF Stance
<1>2. before \in [phase : {"working"}, promised : {NoNode}, said : {said}, next : {next}]
  BY DEF Stance
<1>3. PICK turn : turn = [before EXCEPT !.phase = "idle"]
  OBVIOUS
<1>4. turn \in [phase : {"idle"}, promised : {NoNode}, said : {said}, next : {next}]
  BY <1>2, <1>3
<1>5. turn = after
  BY <1>4 DEF Stance
<1> QED  BY <1>1, <1>3, <1>5 DEF Seen!Concludes

LEMMA SeenDecides ==
  ASSUME NEW before, NEW after, NEW said, NEW next, NEW promised \in {next, said} \ {NoNode},
         before = Stance("deciding", NoNode, said, next),
         after = Stance("working", promised, said, next)
  PROVE  Seen!Decides(before, after)
<1>1. before.phase = "deciding" /\ before.said = said /\ before.next = next
  BY DEF Stance
<1>2. before \in [phase : {"deciding"}, promised : {NoNode}, said : {said}, next : {next}]
  BY DEF Stance
<1>3. PICK turn : turn = [before EXCEPT !.phase = "working", !.promised = promised]
  OBVIOUS
<1>4. turn \in [phase : {"working"}, promised : {promised}, said : {said}, next : {next}]
  BY <1>2, <1>3
<1>5. turn = after
  BY <1>4 DEF Stance
<1> QED  BY <1>1, <1>3, <1>5 DEF Seen!Decides

LEMMA SeenFinishes ==
  ASSUME NEW before, NEW after, NEW said,
         before = Stance("deciding", NoNode, said, NoNode),
         after = Stance("idle", NoNode, said, NoNode)
  PROVE  Seen!Finishes(before, after)
<1>1. before.phase = "deciding" /\ before.next = NoNode
  BY DEF Stance
<1>2. before \in [phase : {"deciding"}, promised : {NoNode}, said : {said}, next : {NoNode}]
  BY DEF Stance
<1>3. PICK turn : turn = [before EXCEPT !.phase = "idle"]
  OBVIOUS
<1>4. turn \in [phase : {"idle"}, promised : {NoNode}, said : {said}, next : {NoNode}]
  BY <1>2, <1>3
<1>5. turn = after
  BY <1>4 DEF Stance
<1> QED  BY <1>1, <1>3, <1>5 DEF Seen!Finishes

\* What a conversation shows its user depends on its own requests only.
LEMMA OthersStand ==
  ASSUME NEW c \in Conversations, ui'[c] = ui[c],
         \A r \in Requests :
           \/ call'[r] = call[r]
           \/ ~(IsAwaited(r) /\ call[r].conversation = c)
              /\ ~(IsAwaited(r)' /\ call'[r].conversation = c)
  PROVE  Standing(c)' = Standing(c)
<1>1. Awaited(c)' = Awaited(c)
  BY DEF Awaited, IsAwaited
<1>2. \A r \in Awaited(c) : call'[r] = call[r]
  BY DEF Awaited, IsAwaited
<1>3. Promised(c)' = Promised(c)
  BY <1>1, <1>2 DEF Promised
<1> QED  BY <1>3 DEF Standing

\* Who does not wait was promised nobody; who does, the node its request announced.
LEMMA PromisedNobody ==
  ASSUME NEW c \in Conversations, ~ui[c].loading
  PROVE  Promised(c) = NoNode
BY DEF Promised

LEMMA PromisedAnnounced ==
  ASSUME Disciplined, NEW r \in Requests, IsAwaited(r), NEW c, c = call[r].conversation
  PROVE  ui[c].loading /\ Promised(c) = call[r].announced
<1>1. Awaited(c) = {r}
  BY DEF Awaited, Disciplined, IsAwaited
<1>2. (CHOOSE q \in Awaited(c) : TRUE) = r
  BY <1>1
<1>3. ui[c].loading
  BY DEF Disciplined, InStep
<1> QED  BY <1>1, <1>2, <1>3 DEF Promised

\* A decision makes the promise.
LEMMA SendsPromises ==
  ASSUME ClientInv, Disciplined, NEW c \in Conversations, NEW r \in Requests, NEW action,
         NEW announced, Sends(c, r, action, announced), ~ui[c].loading
  PROVE  /\ Standing(c)' = Stance("working", announced, ui[c].completed, ui[c].next)
         /\ \A other \in Conversations \ {c} : Standing(other)' = Standing(other)
<1>1. /\ call'[r].conversation = c /\ call'[r].state = "sent" /\ ~call'[r].shown
      /\ call'[r].announced = announced /\ call[r].state = "unsent"
      /\ \A q \in Requests : q # r => call'[q] = call[q]
  BY DEF Sends, ClientInv
<1>2. /\ ui'[c].loading /\ ui'[c].completed = ui[c].completed /\ ui'[c].next = ui[c].next
      /\ \A other \in Conversations : other # c => ui'[other] = ui[other]
  BY DEF Sends, ClientInv, Conversation
<1>3. Awaited(c)' = {r}
  <2>1. \A q \in Requests : ~(IsAwaited(q) /\ call[q].conversation = c)
    BY DEF Disciplined, InStep
  <2> QED  BY <1>1, <2>1 DEF Awaited, IsAwaited
<1>4. Promised(c)' = announced
  <2>1. (CHOOSE q \in Awaited(c)' : TRUE) = r
    BY <1>3
  <2> QED  BY <1>1, <1>2, <1>3, <2>1 DEF Promised
<1>5. Standing(c)' = Stance("working", announced, ui[c].completed, ui[c].next)
  BY <1>2, <1>4 DEF Standing, Stance
<1>6. ASSUME NEW other \in Conversations \ {c}  PROVE Standing(other)' = Standing(other)
  <2>1. ui'[other] = ui[other]
    BY <1>2
  <2>2. ~IsAwaited(r) /\ call'[r].conversation # other
    BY <1>1 DEF IsAwaited
  <2>3. \A q \in Requests : call'[q] = call[q] \/ q = r
    BY <1>1
  <2> QED  BY <2>1, <2>2, <2>3, OthersStand
<1> QED  BY <1>5, <1>6

\* What else a reader of Dialogue relies on: no answer fails, and the bar knows whether
\* anybody comes next.
NoErrors == \A r \in Requests : \A i \in 1..Len(sse[r]) : sse[r][i].type # "error"
BarTruthful == \A c \in Conversations : ui[c].awaiting => (ui[c].is_final <=> ui[c].next = NoNode)

Steady == Undisturbed /\ ToldInv /\ AsksInv /\ NoErrors /\ BarTruthful

LEMMA NoErrorsInductive ==
  ASSUME Moves \cap {"stop", "disconnect", "restart", "raise"} = {}
  PROVE  Undisturbed /\ NoErrors /\ [ChatNext]_chatVars => NoErrors'
<1> SUFFICES ASSUME Undisturbed, NoErrors, [ChatNext]_chatVars, NEW r \in Requests,
                    NEW i \in 1..Len(sse'[r])
             PROVE  sse'[r][i].type # "error"
  BY DEF NoErrors
<1>1. PICK e : e = sse'[r][i]
  OBVIOUS
<1>2. Utters(r, e) => e.type # "error"
  BY DEF Utters, Raises
<1>3. i \in 1..Len(sse[r]) /\ e = sse[r][i] => e.type # "error"
  BY DEF NoErrors
<1> QED  BY <1>1, <1>2, <1>3, NewEvents DEF Undisturbed

\* The bar that an answer brings up tells the truth.
LEMMA ShowsTruth ==
  ASSUME Chat, AsksInv, BarTruthful, [ChatNext]_chatVars, "stop" \notin Moves
  PROVE  BarTruthful'
<1> USE DEF Chat
<1>1. ASSUME NEW c \in Conversations, ~ui'[c].awaiting,
             \A other \in Conversations \ {c} : ui'[other] = ui[other]
      PROVE  BarTruthful'
  BY <1>1 DEF BarTruthful
<1>2. ASSUME NEW c \in Conversations, NEW r \in Requests, NEW action, NEW announced,
             Sends(c, r, action, announced)
      PROVE  BarTruthful'
  BY <1>1, <1>2 DEF Sends, ClientInv, Conversation
<1>3. ASSUME NEW c \in Conversations, HandleSend(c)  PROVE BarTruthful'
  BY <1>2, <1>3, FetchSends DEF HandleSend
<1>4. ASSUME NEW c \in Conversations, NEW action \in {"continue", "regenerate", "modify"},
             HandleConfirmation(c, action)
      PROVE  BarTruthful'
  BY <1>2, <1>4, FetchSends DEF HandleConfirmation
<1>5. ASSUME NEW c \in Conversations, HandleDone(c)  PROVE BarTruthful'
  BY <1>1, <1>5 DEF HandleDone, ClientInv, Conversation
<1>6. ASSUME \A c \in Conversations :
               /\ ui'[c].awaiting = ui[c].awaiting /\ ui'[c].next = ui[c].next
               /\ ui'[c].is_final = ui[c].is_final
      PROVE  BarTruthful'
  BY <1>6, Zenon DEF BarTruthful
<1>7. ASSUME NEW c \in Conversations, HandleStop(c) \/ StopArrives(c) \/ StopReturns(c)
      PROVE  BarTruthful'
  BY <1>6, <1>7 DEF HandleStop, StopArrives, StopReturns, ClientInv, Conversation
<1>8. ASSUME NEW r \in Requests, ReadEnding(r)  PROVE BarTruthful'
  <2>1. PICK e \in Event : Shows(r, e)
    BY <1>8, ReadEndingShows
  <2>2. PICK c \in Conversations : c = call[r].conversation
    BY <2>1 DEF Shows
  <2>3. /\ ui'[c] = Show(ui[c], e) /\ ui[c] \in Conversation
        /\ \A other \in Conversations \ {c} : ui'[other] = ui[other]
    BY <2>1, <2>2 DEF Shows, ClientInv
  <2>4. CASE e.type = "awaiting_confirmation"
    <3>1. e.is_final <=> e.next = NoNode
      BY <2>1, <2>4 DEF Shows, AsksInv, SaysTruth, Truthful
    <3>2. ui'[c].next = e.next /\ ui'[c].is_final = e.is_final
      BY <2>3, <2>4 DEF Show, Conversation
    <3>3. ui'[c].is_final <=> ui'[c].next = NoNode
      BY <3>1, <3>2, Zenon
    <3> QED  BY <2>3, <3>3 DEF BarTruthful
  <2>5. CASE e.type = "final"
    <3>1. ~ui'[c].awaiting
      BY <2>3, <2>5 DEF Show, Conversation
    <3> QED  BY <1>1, <2>3, <3>1
  <2>6. CASE e.type \in {"stopped", "error"}
    <3>1. /\ ui'[c].awaiting = ui[c].awaiting /\ ui'[c].next = ui[c].next
          /\ ui'[c].is_final = ui[c].is_final
      BY <2>3, <2>6 DEF Show, Conversation
    <3> QED  BY <1>6, <2>3, <3>1
  <2> QED  BY <2>1, <2>4, <2>5, <2>6 DEF Shows, Endings
<1>9. ASSUME NEW r \in Requests, ReadEnd(r) \/ ConnectionLost(r)  PROVE BarTruthful'
  BY <1>6, <1>9 DEF ReadEnd, ConnectionLost, ClientInv, Conversation
<1>10. CASE ui' = ui
  BY <1>6, <1>10
<1> QED  BY <1>3, <1>4, <1>5, <1>7, <1>8, <1>9, <1>10
         DEF ChatNext, Stopping, Network, Deliver, clientVars, chatVars

\* A decision of the user asks, or decides.
LEMMA ClickIsSeen ==
  ASSUME Steady, NEW c \in Conversations,
         \/ HandleSend(c) \/ HandleDone(c)
         \/ \E action \in {"continue", "regenerate", "modify"} : HandleConfirmation(c, action)
  PROVE  Seen!DialogueNext
<1> USE DEF Steady, Undisturbed, Chat
<1>1. PICK said, next : said = ui[c].completed /\ next = ui[c].next
  OBVIOUS
<1>2. PICK before, after : before = Standing(c) /\ after = Standing(c)'
  OBVIOUS
<1>3. CASE HandleSend(c)
  <2>1. ~ui[c].awaiting /\ ~ui[c].loading
    BY <1>3 DEF HandleSend
  <2>2. PICK r \in Requests : Sends(c, r, "query", NoNode)
    BY <1>3, FetchSends DEF HandleSend
  <2>3. before = Stance("idle", NoNode, said, next)
    BY <1>1, <1>2, <2>1, PromisedNobody DEF Standing, Stance
  <2>4. /\ after = Stance("working", NoNode, said, next)
        /\ \A other \in Conversations \ {c} : Standing(other)' = Standing(other)
    BY <1>1, <1>2, <2>1, <2>2, SendsPromises
  <2> QED  BY <1>2, <2>3, <2>4, SeenAsks, SeenStep
<1>4. ASSUME ui[c].awaiting
      PROVE  /\ before = Stance("deciding", NoNode, said, next) /\ said \in NODE
             /\ ~ui[c].loading /\ (ui[c].is_final <=> next = NoNode)
  <2>1. ~ui[c].loading
    BY <1>4 DEF ClientInv, BarOrSpinner
  <2>2. said \in NODE
    BY <1>1, <1>4, NodeKinds DEF BarInv, WaitsAt, ClientInv, Conversation
  <2>3. ui[c].is_final <=> next = NoNode
    BY <1>1, <1>4 DEF BarTruthful
  <2>4. before = Stance("deciding", NoNode, said, next)
    BY <1>1, <1>2, <1>4, <2>1, PromisedNobody DEF Standing, Stance
  <2> QED  BY <2>1, <2>2, <2>3, <2>4
<1>5. ASSUME NEW action \in {"continue", "regenerate", "modify"}, HandleConfirmation(c, action)
      PROVE  Seen!DialogueNext
  <2>1. PICK announced : announced = IF action = "continue" THEN next ELSE said
    OBVIOUS
  <2>2. ui[c].awaiting /\ \E r \in Requests : Sends(c, r, action, announced)
    BY <1>1, <1>5, <2>1, FetchSends DEF HandleConfirmation
  <2>3. announced \in {next, said} \ {NoNode}
    <3>1. NoNode \notin NODE
      BY DEF NoNode, NODE
    <3>2. action = "continue" => next # NoNode
      BY <1>4, <1>5, <2>2 DEF HandleConfirmation
    <3> QED  BY <1>4, <2>1, <2>2, <3>1, <3>2
  <2>4. /\ after = Stance("working", announced, said, next)
        /\ \A other \in Conversations \ {c} : Standing(other)' = Standing(other)
    BY <1>1, <1>2, <1>4, <2>2, SendsPromises
  <2>5. Seen!Decides(before, after)
    BY <1>4, <2>2, <2>3, <2>4, SeenDecides
  <2> QED  BY <1>2, <2>4, <2>5, SeenStep
<1>6. CASE HandleDone(c)
  <2>1. ui[c].awaiting /\ ui[c].is_final
    BY <1>6 DEF HandleDone
  <2>2. next = NoNode /\ before = Stance("deciding", NoNode, said, next) /\ ~ui[c].loading
    BY <1>4, <2>1
  <2>3. /\ ui'[c].completed = said /\ ui'[c].next = next /\ ~ui'[c].loading /\ ~ui'[c].awaiting
        /\ \A other \in Conversations \ {c} : ui'[other] = ui[other]
        /\ call' = call
    BY <1>1, <1>6, <2>2 DEF HandleDone, ClientInv, Conversation
  <2>4. Promised(c)' = NoNode
    BY <2>3 DEF Promised
  <2>5. after = Stance("idle", NoNode, said, next)
    BY <1>2, <2>3, <2>4 DEF Standing, Stance
  <2>6. ASSUME NEW other \in Conversations \ {c}  PROVE Standing(other)' = Standing(other)
    BY <2>3, OthersStand
  <2> QED  BY <1>2, <2>2, <2>5, <2>6, SeenFinishes, SeenStep
<1> QED  BY <1>3, <1>5, <1>6

\* The end of an answer keeps the promise.
LEMMA AnswerIsSeen ==
  ASSUME Steady, NEW r \in Requests, ReadEnding(r)
  PROVE  Seen!DialogueNext
<1> USE DEF Steady, Undisturbed, Chat
<1>1. PICK e \in Event : Shows(r, e)
  BY ReadEndingShows
<1>2. PICK c \in Conversations : c = call[r].conversation
  BY <1>1 DEF Shows
<1>3. PICK before, after : before = Standing(c) /\ after = Standing(c)'
  OBVIOUS
<1>4. PICK promised, said, next :
        promised = call[r].announced /\ said = ui[c].completed /\ next = ui[c].next
  OBVIOUS
<1>5. IsAwaited(r) /\ \E i \in 1..Len(sse[r]) : sse[r][i] = e
  BY <1>1 DEF Shows, Reading, IsAwaited
<1>6. before = Stance("working", promised, said, next)
  BY <1>2, <1>3, <1>4, <1>5, PromisedAnnounced DEF Standing, Stance
<1>7. AsTold(r, e) /\ e.type # "error"
  BY <1>5 DEF ToldInv, Told, NoErrors
<1>8. /\ ui'[c] = Show(ui[c], e) /\ ui[c] \in Conversation
      /\ \A other \in Conversations \ {c} : ui'[other] = ui[other]
      /\ \A q \in Requests : call'[q] = call[q] \/ q = r
      /\ call'[r].shown
  BY <1>1, <1>2 DEF Shows, ClientInv, Call
<1>9. ASSUME NEW other \in Conversations \ {c}  PROVE Standing(other)' = Standing(other)
  <2>1. ~(IsAwaited(r) /\ call[r].conversation = other)
    BY <1>2
  <2>2. ~(IsAwaited(r)' /\ call'[r].conversation = other)
    BY <1>8 DEF IsAwaited
  <2> QED  BY <1>8, <2>1, <2>2, OthersStand
<1>10. CASE e.type = "awaiting_confirmation"
  <2>1. e.node \in NODE /\ e.next \in NODE \cup {NoNode}
    BY <1>10 DEF Event
  <2>2. promised # NoNode => e.node = promised
    BY <1>4, <1>7, <1>10 DEF AsTold, ToldInv, Told
  <2>3. /\ ~ui'[c].loading /\ ui'[c].awaiting /\ ui'[c].completed = e.node
        /\ ui'[c].next = e.next
    <3>1. PICK shown : shown = Show(ui[c], e)
      OBVIOUS
    <3>2. ~shown.loading /\ shown.awaiting
      BY <1>8, <1>10, <3>1 DEF Show, Conversation
    <3>3. shown.completed = e.node /\ shown.next = e.next
      BY <1>8, <1>10, <3>1 DEF Show, Conversation
    <3> QED  BY <1>8, <3>1, <3>2, <3>3
  <2>4. Promised(c)' = NoNode
    BY <2>3 DEF Promised
  <2>5. after = Stance("deciding", NoNode, e.node, e.next)
    BY <1>3, <2>3, <2>4 DEF Standing, Stance
  <2>6. Seen!Answers(before, after)
    BY <1>6, <2>1, <2>2, <2>5, SeenAnswers
  <2> QED  BY <1>3, <1>9, <2>6, SeenStep
<1>11. CASE e.type = "final"
  <2>1. promised = NoNode
    BY <1>4, <1>7, <1>11 DEF AsTold
  <2>2. /\ ~ui'[c].loading /\ ~ui'[c].awaiting /\ ui'[c].completed = said
        /\ ui'[c].next = next
    BY <1>4, <1>8, <1>11 DEF Show, Conversation
  <2>3. Promised(c)' = NoNode
    BY <2>2 DEF Promised
  <2>4. after = Stance("idle", NoNode, said, next)
    BY <1>3, <2>2, <2>3 DEF Standing, Stance
  <2> QED  BY <1>3, <1>6, <1>9, <2>1, <2>4, SeenConcludes, SeenStep
<1>12. e.type # "stopped" /\ e.type \in Endings
  BY <1>1, <1>7 DEF AsTold, Shows
<1> QED  BY <1>7, <1>10, <1>11, <1>12 DEF Endings

\* Everything else happens behind the scene.
LEMMA EndIsUnseen ==
  ASSUME Steady, NEW r \in Requests, ReadEnd(r), NEW c \in Conversations
  PROVE  Standing(c)' = Standing(c)
<1> USE DEF Steady, Undisturbed, Chat
<1>1. task[r].pc = "done" /\ sse[r] \in Seq(Event)
  BY EndedMeansShut DEF ReadEnd, ToldInv, Told, StepInv, Shape
<1>2. \E i \in DOMAIN sse[r] : sse[r][i].type \in Endings
  <2>1. PICK n : n = Len(sse[r])
    OBVIOUS
  <2>2. n \in Nat /\ n > 1 /\ sse[r][n - 1].type \in Endings /\ DOMAIN sse[r] = 1..n
    BY <1>1, <2>1, LenProperties DEF BodyInv, BodyOK, Closed
  <2>3. n - 1 \in 1..n
    BY <2>2
  <2> QED  BY <2>2, <2>3
<1>3. /\ call[r].shown /\ call'[r].shown /\ ui' = ui
      /\ \A q \in Requests : call'[q] = call[q] \/ q = r
  BY <1>2 DEF ReadEnd, ClientInv, Call
<1>4. ~IsAwaited(r) /\ ~IsAwaited(r)'
  BY <1>3 DEF IsAwaited
<1> QED  BY <1>3, <1>4, OthersStand

LEMMA StepIsSeen ==
  ASSUME Moves \cap {"stop", "disconnect", "restart", "raise"} = {}, Steady, [ChatNext]_chatVars
  PROVE  Seen!DialogueNext \/ \A c \in Conversations : Standing(c)' = Standing(c)
<1> USE DEF Steady, Undisturbed, Chat
<1>1. ASSUME UNCHANGED clientVars  PROVE \A c \in Conversations : Standing(c)' = Standing(c)
  BY <1>1 DEF clientVars, Standing, Promised, Awaited
<1>2. \A c \in Conversations : ~HandleStop(c) /\ ~Stopping(c)
  BY DEF HandleStop, Stopping, StopArrives, StopReturns, Disciplined
<1>3. \A r \in Requests : ~ConnectionLost(r)
  BY DEF ConnectionLost, ToldInv, Told
<1> QED  BY <1>1, <1>2, <1>3, ClickIsSeen, AnswerIsSeen, EndIsUnseen
         DEF ChatNext, Network, Deliver, chatVars

\* What the user sees is a Dialogue, as long as nobody stops an answer, no connection
\* breaks, no model fails and the server does not restart: after each answer the bar
\* names who has answered and who comes next, and the decision the user takes there is
\* the one that is carried out.
THEOREM ClientKeepsPromises ==
  ASSUME Moves \cap {"stop", "disconnect", "restart", "raise"} = {},
         \A p \in SubPlans : p # <<>> => p[Len(p)] \in SubAgents
  PROVE  ChatSpec => Seen!DialogueSafety
<1>1. \A p \in SubPlans : EndKnown(p)
  BY DEF EndKnown
<1>2. ChatInit => AsksInv /\ NoErrors /\ BarTruthful
  <2> SUFFICES ASSUME ChatInit  PROVE AsksInv /\ NoErrors /\ BarTruthful
    OBVIOUS
  <2>1. PICK target : ui = [c \in Conversations |-> NewConversation(target[c])]
    BY DEF ChatInit
  <2> QED  BY <2>1, InitAsksInv DEF ChatInit, Init, NoErrors, BarTruthful, NewConversation
<1>3. Undisturbed /\ AsksInv /\ NoErrors /\ BarTruthful /\ [ChatNext]_chatVars
        => (AsksInv /\ NoErrors /\ BarTruthful)'
  BY <1>1, ChatStep, AsksInvInductive, NoErrorsInductive, ShowsTruth DEF Undisturbed, Chat
<1>4. ChatSpec => []Undisturbed /\ []ToldInv
  BY UndisturbedInvariant, ToldInvariant
<1>5. ChatSpec => []Steady
  BY <1>2, <1>3, <1>4, PTL DEF ChatSpec, Steady
<1>6. ChatInit => Seen!DialogueInit
  <2> SUFFICES ASSUME ChatInit, NEW c \in Conversations  PROVE Standing(c) = Seen!Opening
    BY SeenInit
  <2>1. PICK target : ui = [d \in Conversations |-> NewConversation(target[d])]
    BY DEF ChatInit
  <2>2. /\ ~ui[c].loading /\ ~ui[c].awaiting /\ ui[c].completed = NoNode
        /\ ui[c].next = NoNode
    BY <2>1 DEF NewConversation
  <2> QED  BY <2>2, PromisedNobody DEF Standing, Seen!Opening
<1>7. Steady /\ [ChatNext]_chatVars =>
        [Seen!DialogueNext]_([c \in Conversations |->
          [phase |-> IF ui[c].loading THEN "working"
                     ELSE IF ui[c].awaiting THEN "deciding" ELSE "idle",
           promised |-> Promised(c), said |-> ui[c].completed, next |-> ui[c].next]])
  BY StepIsSeen, SeenStutters
<1> QED  BY <1>5, <1>6, <1>7, PTL DEF ChatSpec, Seen!DialogueSafety

----------------------------------------------------------------------------
(* The department dispatched to is the one whose lead is asked.              *)

\* A dispatch at position i of a plan is the step[i]-th of departments, and the lead that
\* follows it, if one does, is the lead of that department; other nodes count nothing.
Counted(step, plan, i, departments) ==
  IF plan[i] = DispatchToDepartment
  THEN /\ step[i] = step[i - 1] + 1 /\ step[i] <= Len(departments)
       /\ i < Len(plan) /\ plan[i + 1] \in LEAD_PLAN_NODES =>
            plan[i + 1] = DEPT_LEAD_PLAN(departments[step[i]])
  ELSE step[i] = step[i - 1]

\* The dispatches ahead of cursor lead from the department before to the department after.
Counts(plan, cursor, departments, before, after) ==
  \E step \in [Nat -> Nat] :
    /\ step[cursor] = before /\ step[Len(plan)] = after
    /\ \A i \in (cursor + 1)..Len(plan) : Counted(step, plan, i, departments)

\* Without a dispatch there is nothing to count.
LEMMA NothingCounts ==
  ASSUME NEW plan \in Seq(NODE), NEW cursor \in Nat, NEW departments, NEW before \in Nat,
         \A i \in (cursor + 1)..Len(plan) : plan[i] # DispatchToDepartment
  PROVE  Counts(plan, cursor, departments, before, before)
<1>1. PICK step : step = [i \in Nat |-> before]
  OBVIOUS
<1>2. Len(plan) \in Nat /\ step \in [Nat -> Nat]
  BY <1>1, LenProperties
<1>3. ASSUME NEW i \in (cursor + 1)..Len(plan)  PROVE Counted(step, plan, i, departments)
  BY <1>1, <1>2, <1>3 DEF Counted
<1> QED  BY <1>1, <1>2, <1>3 DEF Counts

\* A node that is passed has been counted.
LEMMA CountsPassed ==
  ASSUME NEW plan \in Seq(NODE), NEW cursor \in Nat, NEW departments, NEW before, NEW after,
         cursor < Len(plan), Counts(plan, cursor, departments, before, after)
  PROVE  IF plan[cursor + 1] = DispatchToDepartment
         THEN /\ Counts(plan, cursor + 1, departments, before + 1, after)
              /\ before + 1 <= Len(departments) /\ before \in Nat
              /\ cursor + 1 < Len(plan) /\ plan[cursor + 2] \in LEAD_PLAN_NODES =>
                   plan[cursor + 2] = DEPT_LEAD_PLAN(departments[before + 1])
         ELSE Counts(plan, cursor + 1, departments, before, after)
<1>1. PICK step \in [Nat -> Nat] :
        /\ step[cursor] = before /\ step[Len(plan)] = after
        /\ \A i \in (cursor + 1)..Len(plan) : Counted(step, plan, i, departments)
  BY DEF Counts
<1>2. PICK n \in Nat : n = Len(plan)
  BY LenProperties
<1>3. /\ cursor + 1 \in (cursor + 1)..n /\ (cursor + 1) - 1 = cursor
      /\ (cursor + 1) + 1 = cursor + 2 /\ before \in Nat
      /\ \A i \in ((cursor + 1) + 1)..n : i \in (cursor + 1)..n
  BY <1>1, <1>2
<1>4. Counted(step, plan, cursor + 1, departments)
  BY <1>1, <1>2, <1>3
<1>5. Counts(plan, cursor + 1, departments, step[cursor + 1], after)
  BY <1>1, <1>2, <1>3 DEF Counts
<1> QED  BY <1>1, <1>2, <1>3, <1>4, <1>5 DEF Counted

\* A step back over a node that is no dispatch changes no count.
LEMMA CountsBack ==
  ASSUME NEW plan \in Seq(NODE), NEW cursor \in 1..Len(plan), NEW departments,
         NEW before, NEW after, plan[cursor] # DispatchToDepartment,
         Counts(plan, cursor, departments, before, after)
  PROVE  Counts(plan, cursor - 1, departments, before, after)
<1>1. PICK step \in [Nat -> Nat] :
        /\ step[cursor] = before /\ step[Len(plan)] = after
        /\ \A i \in (cursor + 1)..Len(plan) : Counted(step, plan, i, departments)
  BY DEF Counts
<1>2. PICK n \in Nat : n = Len(plan)
  BY LenProperties
<1>3. PICK new : new = [i \in Nat |-> IF i < cursor THEN before ELSE step[i]]
  OBVIOUS
<1>4. cursor \in Nat /\ cursor - 1 \in Nat /\ before \in Nat /\ cursor <= n /\ cursor >= 1
  BY <1>1, <1>2
<1>5. new \in [Nat -> Nat]
  BY <1>1, <1>3, <1>4
<1>6. /\ new[cursor - 1] = before /\ new[n] = after
  BY <1>1, <1>2, <1>3, <1>4
<1>7. ASSUME NEW i \in ((cursor - 1) + 1)..n  PROVE Counted(new, plan, i, departments)
  <2>1. CASE i = cursor
    <3>1. new[i] = before /\ new[i - 1] = before
      BY <1>1, <1>3, <1>4, <2>1
    <3> QED  BY <2>1, <3>1 DEF Counted
  <2>2. CASE i # cursor
    <3>1. i \in (cursor + 1)..n /\ i \in Nat /\ i - 1 \in Nat /\ ~(i < cursor) /\ ~(i - 1 < cursor)
      BY <1>4, <2>2
    <3>2. new[i] = step[i] /\ new[i - 1] = step[i - 1]
      BY <1>3, <3>1
    <3>3. Counted(step, plan, i, departments)
      BY <1>1, <1>2, <3>1
    <3> QED  BY <3>2, <3>3 DEF Counted
  <2> QED  BY <2>1, <2>2
<1> QED  BY <1>2, <1>5, <1>6, <1>7 DEF Counts

\* What is left of a plan, node by node.
LEMMA RemainingElements ==
  ASSUME NEW plan \in Seq(NODE), NEW cursor \in 0..Len(plan)
  PROVE  /\ Remaining(plan, cursor) \in Seq(NODE)
         /\ Len(Remaining(plan, cursor)) = Len(plan) - cursor
         /\ \A i \in 1..(Len(plan) - cursor) : Remaining(plan, cursor)[i] = plan[cursor + i]
<1>1. PICK n \in Nat : n = Len(plan)
  BY LenProperties
<1>2. cursor \in Nat /\ cursor <= n
  BY <1>1
<1>3. PICK rest : rest = Remaining(plan, cursor)
  OBVIOUS
<1>4. \A i \in (cursor + 1)..n : plan[i] \in NODE
  BY <1>1, <1>2, ElementOfSeq
<1>5. /\ rest = SubSeq(plan, cursor + 1, n) /\ cursor + 1 \in Int /\ n \in Int
  BY <1>1, <1>2, <1>3 DEF Remaining
<1>6. PICK first \in Int : first = cursor + 1
  BY <1>5
<1>7. /\ rest \in Seq(NODE) /\ Len(rest) = IF first <= n THEN n - first + 1 ELSE 0
      /\ \A i \in 1..(n - first + 1) : rest[i] = plan[first + i - 1]
  BY <1>4, <1>5, <1>6, SubSeqProperties
<1>8. rest \in Seq(NODE) /\ Len(rest) = n - cursor
      /\ \A i \in 1..(n - cursor) : rest[i] = plan[cursor + i]
  BY <1>2, <1>6, <1>7
<1> QED  BY <1>1, <1>3, <1>8

\* What is ahead counts the same when it is taken by itself.
LEMMA RemainingCounts ==
  ASSUME NEW plan \in Seq(NODE), NEW cursor \in 0..Len(plan), NEW departments,
         NEW before, NEW after, Counts(plan, cursor, departments, before, after)
  PROVE  Counts(Remaining(plan, cursor), 0, departments, before, after)
<1>1. PICK step \in [Nat -> Nat] :
        /\ step[cursor] = before /\ step[Len(plan)] = after
        /\ \A i \in (cursor + 1)..Len(plan) : Counted(step, plan, i, departments)
  BY DEF Counts
<1>2. PICK n \in Nat : n = Len(plan)
  BY LenProperties
<1>3. cursor \in Nat /\ cursor <= n
  BY <1>2
<1>4. PICK rest : rest = Remaining(plan, cursor)
  OBVIOUS
<1>5. /\ rest \in Seq(NODE) /\ Len(rest) = n - cursor
      /\ \A i \in 1..(n - cursor) : rest[i] = plan[cursor + i]
  BY <1>2, <1>4, RemainingElements
<1>6. PICK new : new = [i \in Nat |-> step[i + cursor]]
  OBVIOUS
<1>7. /\ new \in [Nat -> Nat] /\ new[0] = before /\ new[n - cursor] = after
  <2>1. 0 + cursor = cursor /\ n - cursor \in Nat /\ (n - cursor) + cursor = n
    BY <1>3
  <2>2. \A i \in Nat : i + cursor \in Nat
    BY <1>3
  <2> QED  BY <1>1, <1>2, <1>6, <2>1, <2>2
<1>8. ASSUME NEW i \in 1..(n - cursor)  PROVE Counted(new, rest, i, departments)
  <2>1. PICK j : j = cursor + i
    OBVIOUS
  <2>2. /\ j \in (cursor + 1)..n /\ j - 1 = (i - 1) + cursor /\ i - 1 \in Nat /\ i \in Nat
        /\ i < n - cursor <=> j < n
        /\ i < n - cursor => i + 1 \in 1..(n - cursor) /\ cursor + (i + 1) = j + 1
    BY <1>3, <2>1
  <2>3. new[i] = step[j] /\ new[i - 1] = step[j - 1]
    BY <1>6, <2>1, <2>2
  <2>4. rest[i] = plan[j] /\ (j < n => rest[i + 1] = plan[j + 1])
    BY <1>5, <2>1, <2>2
  <2>5. Counted(step, plan, j, departments)
    BY <1>1, <1>2, <2>2
  <2> QED  BY <1>2, <1>5, <2>2, <2>3, <2>4, <2>5 DEF Counted
<1>9. 0 + 1 = 1
  OBVIOUS
<1> QED  BY <1>4, <1>5, <1>7, <1>8, <1>9 DEF Counts

\* Parts of a plan count one after the other, where no lead is torn from its dispatch.
LEMMA CountsConcat ==
  ASSUME NEW plan \in Seq(NODE), NEW more \in Seq(NODE), NEW cursor \in 0..Len(plan),
         NEW departments, NEW before, NEW between, NEW after,
         Counts(plan, cursor, departments, before, between),
         Counts(more, 0, departments, between, after),
         \/ more = <<>> \/ more[1] \notin LEAD_PLAN_NODES
         \/ cursor = Len(plan) \/ plan[Len(plan)] # DispatchToDepartment
  PROVE  Counts(plan \o more, cursor, departments, before, after)
<1>1. PICK step \in [Nat -> Nat] :
        /\ step[cursor] = before /\ step[Len(plan)] = between
        /\ \A i \in (cursor + 1)..Len(plan) : Counted(step, plan, i, departments)
  BY DEF Counts
<1>2. PICK then \in [Nat -> Nat] :
        /\ then[0] = between /\ then[Len(more)] = after
        /\ \A i \in (0 + 1)..Len(more) : Counted(then, more, i, departments)
  BY DEF Counts
<1>3. PICK m \in Nat, n \in Nat : m = Len(plan) /\ n = Len(more)
  BY LenProperties
<1>4. cursor \in Nat /\ cursor <= m
  BY <1>3
<1>5. PICK all : all = plan \o more
  OBVIOUS
<1>6. /\ Len(all) = m + n
      /\ \A i \in 1..(m + n) : all[i] = IF i <= m THEN plan[i] ELSE more[i - m]
  BY <1>3, <1>5, ConcatProperties
<1>7. PICK new : new = [i \in Nat |-> IF i <= m THEN step[i] ELSE then[i - m]]
  OBVIOUS
<1>8. new \in [Nat -> Nat]
  <2>1. \A i \in Nat : i <= m \/ i - m \in Nat
    OBVIOUS
  <2> QED  BY <1>7, <2>1
<1>9. new[cursor] = before /\ new[m + n] = after
  <2>1. CASE n = 0
    BY <1>1, <1>2, <1>3, <1>4, <1>7, <2>1
  <2>2. CASE n # 0
    <3>1. m + n \in Nat /\ ~(m + n <= m) /\ (m + n) - m = n
      BY <2>2
    <3> QED  BY <1>1, <1>2, <1>3, <1>4, <1>7, <3>1
  <2> QED  BY <2>1, <2>2
<1>10. ASSUME NEW i \in (cursor + 1)..(m + n)  PROVE Counted(new, all, i, departments)
  <2>0. i \in Nat /\ i - 1 \in Nat /\ i \in 1..(m + n)
    BY <1>4
  <2>1. CASE i <= m
    <3>0. i - 1 <= m
      BY <2>0, <2>1
    <3>1. new[i] = step[i] /\ new[i - 1] = step[i - 1] /\ all[i] = plan[i]
      <4>1. all[i] = plan[i]
        BY <1>6, <2>0, <2>1
      <4> QED  BY <1>7, <2>0, <2>1, <3>0, <4>1
    <3>2. Counted(step, plan, i, departments)
      BY <1>1, <1>3, <1>4, <2>1
    <3>3. CASE i < m
      <4>1. all[i + 1] = plan[i + 1]
        <5>1. PICK next \in Nat : next = i + 1 /\ next \in 1..(m + n) /\ next <= m
          BY <2>0, <3>3
        <5> QED  BY <1>6, <5>1
      <4> QED  BY <1>3, <1>6, <2>0, <3>1, <3>2, <3>3, <4>1 DEF Counted
    <3>4. CASE i = m
      <4>1. i < m + n => more # <<>> /\ all[i + 1] = more[1]
        <5>1. ASSUME n # 0  PROVE more # <<>> /\ all[m + 1] = more[1]
          <6>1. m + 1 \in 1..(m + n) /\ ~(m + 1 <= m) /\ (m + 1) - m = 1
            BY <5>1
          <6>2. Len(<<>>) = 0
            OBVIOUS
          <6> QED  BY <1>3, <1>6, <5>1, <6>1, <6>2
        <5> QED  BY <3>4, <5>1
      <4>2. cursor # Len(plan)
        BY <1>3, <1>4, <3>4
      <4> QED  BY <1>3, <1>6, <3>1, <3>2, <3>4, <4>1, <4>2 DEF Counted
    <3> QED  BY <2>0, <2>1, <3>3, <3>4
  <2>2. CASE i > m
    <3>1. PICK j \in 1..n : j = i - m
      BY <2>0, <2>2
    <3>2. /\ ~(i <= m) /\ j - 1 = (i - 1) - m /\ j \in Nat
          /\ i < m + n <=> j < n
          /\ i < m + n => i + 1 \in 1..(m + n) /\ ~(i + 1 <= m) /\ (i + 1) - m = j + 1
      BY <2>0, <2>2, <3>1
    <3>3. new[i] = then[j] /\ all[i] = more[j] /\ (i < m + n => all[i + 1] = more[j + 1])
      BY <1>6, <1>7, <2>0, <3>1, <3>2
    <3>4. new[i - 1] = then[j - 1]
      <4>1. CASE i - 1 <= m
        <5>1. i - 1 = m /\ j - 1 = 0
          BY <2>0, <2>2, <3>1, <4>1
        <5> QED  BY <1>1, <1>2, <1>3, <1>7, <2>0, <5>1
      <4>2. CASE ~(i - 1 <= m)
        BY <1>7, <2>0, <3>2, <4>2
      <4> QED  BY <4>1, <4>2
    <3>5. Counted(then, more, j, departments)
      BY <1>2, <1>3, <3>1
    <3> QED  BY <1>3, <1>6, <3>2, <3>3, <3>4, <3>5 DEF Counted
  <2> QED  BY <2>0, <2>1, <2>2
<1> QED  BY <1>5, <1>6, <1>8, <1>9, <1>10 DEF Counts

\* The expansion of the CEO's answer leads through all its departments in order.
LEMMA CeoExpansionCounts ==
  ASSUME NEW departments \in Seq(Names)
  PROVE  Counts(CeoExpansion(departments), 0, departments, 0, Len(departments))
<1>1. PICK n \in Nat : n = Len(departments)
  BY LenProperties
<1>2. PICK upTo \in [0..n -> Seq(NODE)] :
        /\ upTo[0] = <<>> /\ DepartmentSequence(departments) = upTo[n]
        /\ \A i \in 1..n : upTo[i] = upTo[i - 1] \o DepartmentNodes(departments[i])
  BY <1>1, DepartmentSequenceUnfolds
<1>3. ASSUME NEW k \in 1..n
      PROVE  /\ DepartmentNodes(departments[k]) \in Seq(NODE)
             /\ DepartmentNodes(departments[k])[1] \notin LEAD_PLAN_NODES
             /\ Counts(DepartmentNodes(departments[k]), 0, departments, k - 1, k)
  <2>1. PICK dept \in Names : dept = departments[k]
    BY <1>1, ElementOfSeq
  <2>2. PICK nodes : nodes = DepartmentNodes(dept)
    OBVIOUS
  <2>3. DispatchToDepartment \in NODE /\ DEPT_LEAD_PLAN(dept) \in NODE
    BY NodesType
  <2>4. DEPT_LEAD_PLAN(dept) # DispatchToDepartment
    BY DEF DEPT_LEAD_PLAN, DispatchToDepartment
  <2>5. /\ nodes \in Seq(NODE) /\ nodes[1] = DispatchToDepartment /\ Len(nodes) \in {1, 2}
        /\ Len(nodes) = 2 => nodes[2] = DEPT_LEAD_PLAN(dept)
    BY <2>2, <2>3 DEF DepartmentNodes
  <2>6. PICK step : step = [i \in Nat |-> IF i = 0 THEN k - 1 ELSE k]
    OBVIOUS
  <2>7. step \in [Nat -> Nat] /\ step[0] = k - 1 /\ step[1] = k /\ step[2] = k
    BY <2>6
  <2>8. 1 - 1 = 0 /\ 1 + 1 = 2 /\ 2 - 1 = 1 /\ 0 + 1 = 1 /\ (k - 1) + 1 = k /\ k <= n
    OBVIOUS
  <2>9. Counted(step, nodes, 1, departments)
    <3>1. step[1] = step[1 - 1] + 1 /\ step[1] <= Len(departments)
      BY <1>1, <2>7, <2>8
    <3>2. 1 < Len(nodes) => nodes[1 + 1] = DEPT_LEAD_PLAN(departments[step[1]])
      <4>1. PICK m \in {1, 2} : m = Len(nodes)
        BY <2>5
      <4>2. 1 < m => m = 2
        OBVIOUS
      <4>3. 1 < Len(nodes) => Len(nodes) = 2
        BY <4>1, <4>2
      <4>4. nodes[1 + 1] = nodes[2] /\ step[1] = k
        BY <2>7, <2>8
      <4> QED  BY <2>1, <2>5, <4>3, <4>4
    <3> QED  BY <2>5, <3>1, <3>2 DEF Counted
  <2>10. Len(nodes) = 2 => Counted(step, nodes, 2, departments)
    BY <2>4, <2>5, <2>7, <2>8 DEF Counted
  <2>11. \A i \in (0 + 1)..Len(nodes) : i = 1 \/ (i = 2 /\ Len(nodes) = 2)
    <3>1. PICK m \in {1, 2} : m = Len(nodes)
      BY <2>5
    <3>2. \A i \in (0 + 1)..m : i = 1 \/ (i = 2 /\ m = 2)
      OBVIOUS
    <3> QED  BY <3>1, <3>2
  <2>12. step[Len(nodes)] = k /\ \A i \in (0 + 1)..Len(nodes) : Counted(step, nodes, i, departments)
    BY <2>5, <2>7, <2>9, <2>10, <2>11
  <2>13. Counts(nodes, 0, departments, k - 1, k)
    BY <2>7, <2>12 DEF Counts
  <2> QED  BY <2>1, <2>2, <2>5, <2>13, NodeKinds
<1>4. \A k \in 0..n : Counts(upTo[k], 0, departments, 0, k)
  <2> DEFINE S == {k \in 0..n : ~Counts(upTo[k], 0, departments, 0, k)}
  <2> SUFFICES ASSUME S # {}  PROVE FALSE
    OBVIOUS
  <2>1. PICK k \in S : \A j \in S : k <= j
    <3>1. S \subseteq Nat
      BY <1>1
    <3> HIDE DEF S
    <3> QED  BY <3>1, LeastExists
  <2>2. k \in 0..n /\ ~Counts(upTo[k], 0, departments, 0, k)
    OBVIOUS
  <2>3. k # 0
    <3>0. <<>> \in Seq(NODE) /\ Len(<<>>) = 0
      OBVIOUS
    <3>1. PICK nothing \in Seq(NODE) : nothing = <<>> /\ Len(nothing) = 0
      BY <3>0, Zenon
    <3>2. \A i \in (0 + 1)..Len(nothing) : nothing[i] # DispatchToDepartment
      BY <3>1
    <3>3. Counts(nothing, 0, departments, 0, 0)
      BY <3>2, NothingCounts
    <3> QED  BY <1>2, <2>2, <3>1, <3>3
  <2>4. k \in 1..n /\ k - 1 \in 0..n /\ ~(k <= k - 1)
    BY <2>2, <2>3
  <2>5. Counts(upTo[k - 1], 0, departments, 0, k - 1)
    BY <2>1, <2>4
  <2>6. PICK sofar \in Seq(NODE), nodes \in Seq(NODE) :
          sofar = upTo[k - 1] /\ nodes = DepartmentNodes(departments[k])
    BY <1>3, <2>4
  <2>7. /\ Counts(sofar, 0, departments, 0, k - 1) /\ Counts(nodes, 0, departments, k - 1, k)
        /\ nodes[1] \notin LEAD_PLAN_NODES /\ 0 \in 0..Len(sofar)
    BY <1>3, <2>4, <2>5, <2>6, LenProperties
  <2>8. Counts(sofar \o nodes, 0, departments, 0, k)
    BY <2>7, CountsConcat
  <2> QED  BY <1>2, <2>2, <2>4, <2>6, <2>8
<1>5. PICK tail : tail = <<TriggerActions, SummarizeResult>>
  OBVIOUS
<1>6. /\ tail \in Seq(NODE) /\ Len(tail) = 2 /\ tail[1] = TriggerActions
      /\ tail[2] = SummarizeResult
  BY <1>5, NodesType
<1>7. Counts(tail, 0, departments, n, n)
  <2>1. \A i \in (0 + 1)..Len(tail) : tail[i] # DispatchToDepartment
    BY <1>6, NodeKinds
  <2> QED  BY <1>6, <2>1, NothingCounts
<1>8. PICK sequence \in Seq(NODE) : sequence = upTo[n] /\ 0 \in 0..Len(sequence)
  <2>1. upTo[n] \in Seq(NODE)
    BY <1>2
  <2> QED  BY <2>1, LenProperties
<1>9. tail[1] \notin LEAD_PLAN_NODES /\ Counts(sequence, 0, departments, 0, n)
  BY <1>4, <1>6, <1>8, NodeKinds
<1>10. Counts(sequence \o tail, 0, departments, 0, n)
  BY <1>6, <1>7, <1>8, <1>9, CountsConcat
<1> QED  BY <1>1, <1>2, <1>5, <1>8, <1>10 DEF CeoExpansion

\* A plan ends in a node that may answer, so that every dispatch is followed by another node.
Ends(plan) == plan[Len(plan)] # DispatchToDepartment

LEMMA ConcatEnds ==
  ASSUME NEW plan \in Seq(NODE), NEW more \in Seq(NODE),
         IF Len(more) = 0 THEN Ends(plan) /\ Len(plan) > 0 ELSE Ends(more)
  PROVE  Ends(plan \o more)
<1>1. PICK m \in Nat : m = Len(plan)
  BY LenProperties
<1>2. PICK n \in Nat : n = Len(more)
  BY LenProperties
<1>3. PICK all : all = plan \o more
  OBVIOUS
<1>4. /\ Len(all) = m + n
      /\ \A i \in 1..(m + n) : all[i] = IF i <= m THEN plan[i] ELSE more[i - m]
  BY <1>1, <1>2, <1>3, ConcatProperties
<1>5. CASE n = 0
  <2>1. m \in 1..(m + n) /\ m <= m /\ m + n = m
    BY <1>1, <1>2, <1>5
  <2> QED  BY <1>1, <1>2, <1>3, <1>4, <1>5, <2>1 DEF Ends
<1>6. CASE n # 0
  <2>1. m + n \in 1..(m + n) /\ ~(m + n <= m) /\ (m + n) - m = n
    BY <1>6
  <2> QED  BY <1>1, <1>2, <1>3, <1>4, <1>6, <2>1 DEF Ends
<1> QED  BY <1>5, <1>6

LEMMA CeoExpansionEnds ==
  ASSUME NEW departments \in Seq(Names)
  PROVE  Ends(CeoExpansion(departments)) /\ Len(CeoExpansion(departments)) # 0
<1>1. PICK tail : tail = <<TriggerActions, SummarizeResult>>
  OBVIOUS
<1>2. tail \in Seq(NODE) /\ Len(tail) = 2 /\ tail[2] = SummarizeResult
  BY <1>1, NodesType
<1>3. PICK sequence \in Seq(NODE) : sequence = DepartmentSequence(departments)
  BY DepartmentSequenceType
<1>4. Ends(sequence \o tail)
  <2>1. Ends(tail) /\ Len(tail) # 0
    BY <1>2, NodeKinds DEF Ends
  <2> QED  BY <1>2, <2>1, ConcatEnds
<1>5. Len(sequence \o tail) # 0
  <2>1. PICK m \in Nat : m = Len(sequence)
    BY LenProperties
  <2>2. Len(sequence \o tail) = Len(sequence) + Len(tail)
    BY <1>2, ConcatProperties
  <2>3. m + 2 # 0
    OBVIOUS
  <2> QED  BY <1>2, <2>1, <2>2, <2>3
<1> QED  BY <1>1, <1>3, <1>4, <1>5 DEF CeoExpansion

\* The expansion of a lead's answer dispatches to no department.
LEMMA LeadExpansionDispatchesNobody ==
  ASSUME NEW dept \in Names, NEW sub_plan \in Seq(Names),
         NEW i \in 1..Len(LeadExpansion(dept, sub_plan))
  PROVE  LeadExpansion(dept, sub_plan)[i] # DispatchToDepartment
<1>1. PICK n \in Nat : n = Len(sub_plan)
  BY LenProperties
<1>2. CASE dept \in Departments
  <2> DEFINE f == [j \in 1..(2 * n) |->
                    IF j % 2 = 1 THEN DEPT_DISPATCH(dept) ELSE AgentNode(sub_plan[j \div 2])]
  <2>1. LeadExpansion(dept, sub_plan) = f /\ LeadExpansion(dept, sub_plan) \in Seq(NODE)
    BY <1>1, <1>2, LeadExpansionType DEF LeadExpansion
  <2>2. \A j \in 1..(2 * n) : f[j] # DispatchToDepartment
    BY NodeKinds
  <2>3. DOMAIN f = 1..(2 * n)
    OBVIOUS
  <2> HIDE DEF f
  <2> QED  BY <2>1, <2>2, <2>3, LenProperties
<1>3. CASE dept \notin Departments
  <2> DEFINE f == [j \in 1..n |-> AgentNode(sub_plan[j])]
  <2>1. LeadExpansion(dept, sub_plan) = f /\ LeadExpansion(dept, sub_plan) \in Seq(NODE)
    BY <1>1, <1>3, LeadExpansionType DEF LeadExpansion
  <2>2. \A j \in 1..n : f[j] # DispatchToDepartment
    BY NodeKinds
  <2>3. DOMAIN f = 1..n
    OBVIOUS
  <2> HIDE DEF f
  <2> QED  BY <2>1, <2>2, <2>3, LenProperties
<1> QED  BY <1>2, <1>3

\* The dispatches ahead name the departments the CEO's plan still holds.
Aligned(plan, cursor, state) ==
  \E after : Counts(plan, cursor, state.plan, state.plan_step, after)

\* A dispatch just made is followed by the lead of the department it was made to.
Led(plan, cursor, state) ==
  (/\ 0 < cursor /\ cursor < Len(plan)
   /\ plan[cursor] = DispatchToDepartment /\ plan[cursor + 1] \in LEAD_PLAN_NODES) =>
    plan[cursor + 1] = DEPT_LEAD_PLAN(state.current_department)

OnTrack(plan, cursor, state) ==
  Ends(plan) /\ Aligned(plan, cursor, state) /\ Led(plan, cursor, state)

\* A session at rest may be resumed, or have its last node run again.
RestsOnTrack(data) ==
  LET plan == data.execution_plan IN
  /\ Ends(plan)
  /\ Aligned(plan, data.cursor, data.state)
  /\ data.cursor > 0 =>
       /\ plan[data.cursor] # DispatchToDepartment
       /\ plan[data.cursor] \in LEAD_PLAN_NODES =>
            plan[data.cursor] = DEPT_LEAD_PLAN(data.state.current_department)

\* The plan a pause leaves is aligned with the state it leaves.
LEMMA ExpansionAligned ==
  ASSUME NEW plan \in Seq(NODE), NEW cursor \in 1..Len(plan), NEW state \in AgentState,
         NEW node, node = plan[cursor], node # DispatchToDepartment,
         node = AnalyzeIntent => state.plan_step = 0,
         node # AnalyzeIntent => Aligned(plan, cursor, state)
  PROVE  Aligned(ExpandPlanAfterNode(state, plan, cursor, node), cursor, state)
<1>1. PICK departments \in Seq(Names), sub_plan \in Seq(Names), dept \in Names, step \in Nat :
        /\ departments = state.plan /\ sub_plan = state.sub_plan
        /\ dept = state.current_department /\ step = state.plan_step
  BY DEF AgentState
<1>2. cursor \in 0..Len(plan) /\ cursor \in Nat /\ cursor \in 1..cursor
  BY LenProperties
<1>3. PICK past \in Seq(NODE) : /\ past = Prefix(plan, cursor) /\ Len(past) = cursor
                                /\ past[cursor] = node
  BY <1>2, PrefixProperties
<1>4. /\ cursor \in 0..Len(past) /\ Counts(past, cursor, departments, step, step)
  <2>1. \A i \in (cursor + 1)..Len(past) : past[i] # DispatchToDepartment
    BY <1>2, <1>3
  <2> QED  BY <1>2, <1>3, <2>1, NothingCounts
<1>5. CASE node = AnalyzeIntent
  <2>1. PICK more \in Seq(NODE) : more = CeoExpansion(departments)
    BY CeoExpansionType
  <2>2. Counts(more, 0, departments, 0, Len(departments)) /\ step = 0
    BY <1>1, <1>5, <2>1, CeoExpansionCounts
  <2>3. Counts(past \o more, cursor, departments, 0, Len(departments))
    BY <1>3, <1>4, <2>2, CountsConcat
  <2>4. ExpandPlanAfterNode(state, plan, cursor, node) = past \o more
    BY <1>1, <1>3, <1>5, <2>1 DEF ExpandPlanAfterNode
  <2> QED  BY <1>1, <2>2, <2>3, <2>4 DEF Aligned
<1>6. CASE node # AnalyzeIntent /\ node \in LEAD_PLAN_NODES
  <2>1. PICK after : Counts(plan, cursor, departments, step, after)
    BY <1>1, <1>6 DEF Aligned
  <2>2. PICK lead \in Seq(NODE), rest \in Seq(NODE) :
          lead = LeadExpansion(dept, sub_plan) /\ rest = Remaining(plan, cursor)
    BY <1>2, LeadExpansionType, RemainingProperties
  <2>3. \A i \in 1..Len(lead) : lead[i] # DispatchToDepartment
    BY <2>2, LeadExpansionDispatchesNobody
  <2>4. Counts(lead, 0, departments, step, step)
    <3>1. \A i \in (0 + 1)..Len(lead) : lead[i] # DispatchToDepartment
      BY <2>3
    <3> QED  BY <3>1, NothingCounts
  <2>5. Counts(rest, 0, departments, step, after)
    BY <1>2, <2>1, <2>2, RemainingCounts
  <2>6. PICK front : front = past \o lead
    OBVIOUS
  <2>7. Counts(front, cursor, departments, step, step)
    BY <1>3, <1>4, <2>4, <2>6, CountsConcat
  <2>8. /\ front \in Seq(NODE) /\ cursor \in 0..Len(front)
        /\ front[Len(front)] # DispatchToDepartment
    <3>1. PICK n \in Nat : n = Len(lead)
      BY LenProperties
    <3>2. front \in Seq(NODE) /\ Len(front) = cursor + n
      <4>1. front \in Seq(NODE) /\ Len(front) = Len(past) + Len(lead)
        BY <2>6, ConcatProperties
      <4> QED  BY <1>3, <3>1, <4>1
    <3>3. cursor \in 0..(cursor + n) /\ cursor > 0
      BY <1>2
    <3>4. Ends(past) /\ Len(past) > 0
      BY <1>3, <3>3 DEF Ends
    <3>5. Len(lead) # 0 => Ends(lead)
      <4>1. n # 0 => n \in 1..n
        OBVIOUS
      <4> QED  BY <2>3, <3>1, <4>1 DEF Ends
    <3>6. Ends(front)
      BY <2>6, <3>4, <3>5, ConcatEnds
    <3> QED  BY <3>2, <3>3, <3>6 DEF Ends
  <2>9. Counts(front \o rest, cursor, departments, step, after)
    BY <2>5, <2>7, <2>8, CountsConcat
  <2>10. ExpandPlanAfterNode(state, plan, cursor, node) = front \o rest
    BY <1>1, <1>3, <1>6, <2>2, <2>6 DEF ExpandPlanAfterNode
  <2> QED  BY <1>1, <2>9, <2>10 DEF Aligned
<1>7. CASE node # AnalyzeIntent /\ node \notin LEAD_PLAN_NODES
  BY <1>7 DEF ExpandPlanAfterNode
<1> QED  BY <1>5, <1>6, <1>7

\* And it still ends in a node that may answer.
LEMMA ExpansionEnds ==
  ASSUME NEW plan \in Seq(NODE), NEW cursor \in 1..Len(plan), NEW state \in AgentState,
         NEW node, node = plan[cursor], node # DispatchToDepartment, Ends(plan)
  PROVE  Ends(ExpandPlanAfterNode(state, plan, cursor, node))
<1>1. PICK departments \in Seq(Names), sub_plan \in Seq(Names) :
        departments = state.plan /\ sub_plan = state.sub_plan
  BY DEF AgentState
<1>2. PICK dept \in Names : dept = state.current_department
  BY DEF AgentState
<1>3. PICK n \in Nat : n = Len(plan)
  BY LenProperties
<1>4. cursor \in 0..Len(plan) /\ cursor \in 1..cursor /\ cursor \in 1..n /\ cursor > 0
  BY <1>3
<1>5. PICK past \in Seq(NODE) : /\ past = Prefix(plan, cursor) /\ Len(past) = cursor
                                /\ past[cursor] = node
  BY <1>4, PrefixProperties
<1>6. Ends(past) /\ Len(past) > 0
  BY <1>4, <1>5 DEF Ends
<1>7. CASE node = AnalyzeIntent
  BY <1>1, <1>5, <1>7, CeoExpansionType, CeoExpansionEnds, ConcatEnds DEF ExpandPlanAfterNode
<1>8. CASE node # AnalyzeIntent /\ node \in LEAD_PLAN_NODES
  <2>1. PICK lead \in Seq(NODE) : lead = LeadExpansion(dept, sub_plan)
    BY LeadExpansionType
  <2>2. Len(lead) # 0 => Ends(lead)
    <3>1. PICK m \in Nat : m = Len(lead)
      BY LenProperties
    <3>2. m # 0 => m \in 1..m
      OBVIOUS
    <3> QED  BY <2>1, <3>1, <3>2, LeadExpansionDispatchesNobody DEF Ends
  <2>3. PICK front : front = past \o lead
    OBVIOUS
  <2>4. Ends(front)
    BY <1>6, <2>2, <2>3, ConcatEnds
  <2>5. front \in Seq(NODE) /\ Len(front) > 0
    <3>1. PICK m \in Nat : m = Len(lead)
      BY LenProperties
    <3>2. front \in Seq(NODE) /\ Len(front) = Len(past) + Len(lead)
      BY <2>3, ConcatProperties
    <3>3. cursor + m > 0
      BY <1>4
    <3> QED  BY <1>5, <3>1, <3>2, <3>3
  <2>6. PICK rest \in Seq(NODE) : rest = Remaining(plan, cursor)
    BY <1>4, RemainingProperties
  <2>7. Len(rest) # 0 => Ends(rest)
    <3>1. Len(rest) = n - cursor /\ \A i \in 1..(n - cursor) : rest[i] = plan[cursor + i]
      BY <1>3, <1>4, <2>6, RemainingElements
    <3>2. n - cursor # 0 => n - cursor \in 1..(n - cursor) /\ cursor + (n - cursor) = n
      BY <1>4
    <3> QED  BY <1>3, <3>1, <3>2 DEF Ends
  <2>8. Ends(front \o rest)
    BY <2>4, <2>5, <2>7, ConcatEnds
  <2>9. ExpandPlanAfterNode(state, plan, cursor, node) = front \o rest
    BY <1>1, <1>2, <1>5, <1>8, <2>1, <2>3, <2>6 DEF ExpandPlanAfterNode
  <2> QED  BY <2>8, <2>9
<1>9. CASE node # AnalyzeIntent /\ node \notin LEAD_PLAN_NODES
  BY <1>9 DEF ExpandPlanAfterNode
<1> QED  BY <1>7, <1>8, <1>9

\* A new session has everything ahead of it and nothing to dispatch.
LEMMA OpenedOnTrack ==
  ASSUME NEW r \in Requests, NEW target \in Targets, NEW data, data = Opened(r, target)
  PROVE  OnTrack(data.execution_plan, data.cursor, data.state)
<1>0. PICK mode : mode = Mode(target)
  OBVIOUS
<1>1. PICK agent \in Names : agent = target.agent
  BY TargetsAssumption
<1>2. PICK plan \in Seq(NODE) : plan = ComputeInitialPlan(mode, agent)
  BY ComputeInitialPlanType
<1>3. Len(plan) = 1 /\ plan[1] # DispatchToDepartment
  <2>1. plan = <<AnalyzeIntent>> \/ (\E a : plan = <<AgentNode(a)>>) \/ \E d : plan = <<DEPT_LEAD_PLAN(d)>>
    BY <1>2 DEF ComputeInitialPlan
  <2>2. \A d : DEPT_LEAD_PLAN(d) # DispatchToDepartment
    BY DEF DEPT_LEAD_PLAN, DispatchToDepartment
  <2> QED  BY <2>1, <2>2, NodeKinds
<1>4. data.execution_plan = plan /\ data.cursor = 0 /\ data.state.plan_step = 0
  BY <1>0, <1>1, <1>2 DEF Opened, InitialState
<1>5. Aligned(plan, 0, data.state)
  <2>1. \A i \in (0 + 1)..Len(plan) : plan[i] # DispatchToDepartment
    BY <1>3
  <2>2. Counts(plan, 0, data.state.plan, 0, 0)
    BY <2>1, NothingCounts
  <2> QED  BY <1>4, <2>2 DEF Aligned
<1>6. Ends(plan)
  BY <1>3 DEF Ends
<1> QED  BY <1>4, <1>5, <1>6 DEF OnTrack, Led

\* Nor does a resumption lead astray, whether the session goes on or goes back.
LEMMA ResumedOnTrack ==
  ASSUME NEW r, NEW old \in SessionData, NEW data, old.cursor <= Len(old.execution_plan),
         RestsOnTrack(old), Resumes(r, old, data)
  PROVE  OnTrack(data.execution_plan, data.cursor, data.state)
<1>1. /\ \E plan \in Seq(NODE) : plan = old.execution_plan
      /\ \E cursor \in Nat : cursor = old.cursor
  BY DEF SessionData
<1> PICK plan \in Seq(NODE) : plan = old.execution_plan
  BY <1>1
<1> PICK cursor \in Nat : cursor = old.cursor
  BY <1>1
<1> PICK departments, step : departments = old.state.plan /\ step = old.state.plan_step
  OBVIOUS
<1>2. PICK dept : dept = old.state.current_department
  OBVIOUS
<1>0. Ends(plan)
  BY DEF RestsOnTrack
<1>3. PICK after : Counts(plan, cursor, departments, step, after)
  BY DEF RestsOnTrack, Aligned
<1>4. /\ data.execution_plan = plan /\ data.cursor \in {cursor, StepBack(cursor)}
      /\ data.state.plan = departments /\ data.state.plan_step = step
      /\ data.state.current_department = dept
  BY <1>1, <1>2 DEF Resumes
<1>5. cursor > 0 => /\ plan[cursor] # DispatchToDepartment
                    /\ plan[cursor] \in LEAD_PLAN_NODES => plan[cursor] = DEPT_LEAD_PLAN(dept)
  BY <1>1, <1>2 DEF RestsOnTrack
<1>6. CASE data.cursor = cursor
  BY <1>0, <1>3, <1>4, <1>5, <1>6 DEF OnTrack, Aligned, Led
<1>7. CASE data.cursor # cursor
  <2>1. /\ cursor > 0 /\ data.cursor = cursor - 1 /\ cursor \in 1..Len(plan)
        /\ (cursor - 1) + 1 = cursor
    <3>1. Len(plan) \in Nat /\ cursor <= Len(plan)
      BY <1>1, LenProperties
    <3> QED  BY <1>4, <1>7, <3>1 DEF StepBack
  <2>2. Counts(plan, cursor - 1, departments, step, after)
    BY <1>3, <1>5, <2>1, CountsBack
  <2> QED  BY <1>0, <1>4, <1>5, <2>1, <2>2 DEF OnTrack, Aligned, Led
<1> QED  BY <1>6, <1>7

\* A node that does not ask the user moves the task on, and a dispatch names its lead.
LEMMA PassesOnTrack ==
  ASSUME StepInv, NEW t \in Requests, IsLive(t), Passes(t),
         OnTrack(task[t].plan, task[t].cursor, StateOf(t))
  PROVE  OnTrack(task[t].plan, task[t].cursor + 1, StateOf(t)')
<1>1. PICK plan \in Seq(NODE), cursor \in Nat, old \in AgentState :
        /\ plan = task[t].plan /\ cursor = task[t].cursor /\ old = StateOf(t)
  BY LiveTask
<1>2. /\ cursor < Len(plan) /\ plan[cursor + 1] = CurrentNode(t)
      /\ CurrentNode(t) \notin PAUSABLE_NODES
  BY <1>1 DEF Passes, CurrentNode
<1>3. PICK new \in AgentState :
        /\ Steers(old, new, CurrentNode(t))
        /\ \E said : OnlyTask(t, [task[t] EXCEPT !.cursor = @ + 1],
                              [SessionOf(t) EXCEPT !.state = new], Kept(t), said)
  BY <1>1 DEF Passes
<1>4. StateOf(t)' = new
  <2>1. /\ task[t] \in Task /\ task[t].obj \in Requests /\ SessionOf(t) \in SessionData
    BY LiveTask
  <2>2. PICK entry : entry = [task[t] EXCEPT !.cursor = @ + 1]
    OBVIOUS
  <2>3. PICK data : data = [SessionOf(t) EXCEPT !.state = new]
    OBVIOUS
  <2>4. entry.obj = task[t].obj /\ data.state = new
    BY <2>1, <2>2, <2>3 DEF Task, SessionData
  <2>5. task'[t] = entry /\ sessionData'[task[t].obj] = data
    BY <1>3, <2>1, <2>2, <2>3 DEF OnlyTask, StepInv, Shape
  <2> QED  BY <2>4, <2>5 DEF StateOf, SessionOf
<1>5. PICK departments \in Seq(Names), step \in Nat : departments = old.plan /\ step = old.plan_step
  BY DEF AgentState
<1>6. PICK after : Counts(plan, cursor, departments, step, after)
  BY <1>1, <1>5 DEF OnTrack, Aligned
<1>7. CASE plan[cursor + 1] = DispatchToDepartment
  <2>1. /\ Counts(plan, cursor + 1, departments, step + 1, after)
        /\ step + 1 <= Len(departments)
        /\ cursor + 1 < Len(plan) /\ plan[cursor + 2] \in LEAD_PLAN_NODES =>
             plan[cursor + 2] = DEPT_LEAD_PLAN(departments[step + 1])
    BY <1>2, <1>6, <1>7, CountsPassed
  <2>2. new = DispatchedToDepartment(old) /\ ~(step >= Len(departments))
    <3>1. Len(departments) \in Nat
      BY LenProperties
    <3> QED  BY <1>2, <1>3, <1>7, <2>1, <3>1 DEF Steers
  <2>3. new = [old EXCEPT !.plan_step = step + 1, !.current_department = departments[step + 1]]
    BY <1>5, <2>2 DEF DispatchedToDepartment
  <2>4. /\ new.plan = departments /\ new.plan_step = step + 1
        /\ new.current_department = departments[step + 1]
    BY <1>5, <2>3 DEF AgentState
  <2>5. (cursor + 1) + 1 = cursor + 2
    OBVIOUS
  <2> QED  BY <1>1, <1>4, <2>1, <2>4, <2>5 DEF OnTrack, Aligned, Led
<1>8. CASE plan[cursor + 1] # DispatchToDepartment
  <2>1. Counts(plan, cursor + 1, departments, step, after)
    BY <1>2, <1>6, <1>8, CountsPassed
  <2>2. new.plan = departments /\ new.plan_step = step
    BY <1>2, <1>3, <1>5, <1>8, NodeKinds DEF Steers
  <2> QED  BY <1>1, <1>4, <1>8, <2>1, <2>2 DEF OnTrack, Aligned, Led
<1> QED  BY <1>7, <1>8

\* A pause leaves a session that may be resumed.
LEMMA PauseRestsOnTrack ==
  ASSUME StepInv, NEW t \in Requests, IsLive(t), Pauses(t),
         OnTrack(task[t].plan, task[t].cursor, StateOf(t))
  PROVE  /\ store'[task[t].session_id] = task[t].obj
         /\ RestsOnTrack(sessionData'[task[t].obj])
<1>1. PICK node, state, plan, cursor, next, is_final :
        PausesAt(t, node, state, plan, cursor, next, is_final)
  BY PausesSomewhere
<1>2. PICK old \in Seq(NODE), at \in Nat, before \in AgentState :
        /\ old = task[t].plan /\ at = task[t].cursor /\ before = StateOf(t)
  BY LiveTask
<1>3. /\ cursor = at + 1 /\ at < Len(old) /\ cursor \in 1..Len(old)
      /\ node = old[cursor] /\ node \in PAUSABLE_NODES
      /\ plan = ExpandPlanAfterNode(state, old, cursor, node)
      /\ state \in AgentState /\ Steers(before, state, node)
      /\ plan[cursor] = node
  <2>1. at < Len(old) /\ Len(old) \in Nat
    BY <1>1, <1>2, LenProperties DEF PausesAt, StepInv, TaskOK
  <2>2. cursor = at + 1
    BY <1>1, <1>2 DEF PausesAt
  <2>3. cursor \in 1..Len(old)
    BY <2>1, <2>2
  <2> QED  BY <1>1, <1>2, <2>1, <2>2, <2>3 DEF PausesAt, CurrentNode
<1>4. node # DispatchToDepartment
  BY <1>3, NodeKinds
<1>5. node # AnalyzeIntent => Aligned(old, cursor, state)
  <2> SUFFICES ASSUME node # AnalyzeIntent  PROVE Aligned(old, cursor, state)
    OBVIOUS
  <2>1. PICK after : Counts(old, at, before.plan, before.plan_step, after)
    BY <1>2 DEF OnTrack, Aligned
  <2>2. Counts(old, at + 1, before.plan, before.plan_step, after)
    BY <1>3, <1>4, <2>1, CountsPassed
  <2>3. state.plan = before.plan /\ state.plan_step = before.plan_step
    BY <1>3, <1>4 DEF Steers
  <2> QED  BY <1>3, <2>2, <2>3 DEF Aligned
<1>6. Aligned(plan, cursor, state) /\ Ends(plan)
  <2>1. Ends(old)
    BY <1>2 DEF OnTrack
  <2>2. Ends(plan)
    BY <1>3, <1>4, <2>1, ExpansionEnds
  <2>3. Aligned(plan, cursor, state)
    BY <1>3, <1>4, <1>5, ExpansionAligned DEF Steers
  <2> QED  BY <2>2, <2>3
<1>7. /\ task[t].obj \in Requests /\ SessionOf(t) \in SessionData
      /\ task[t].session_id \in SessionIds
  BY LiveTask
<1>8. PICK data : data = Paused(SessionOf(t), state, plan, cursor, node)
  OBVIOUS
<1>9. data.state = state /\ data.execution_plan = plan /\ data.cursor = cursor
  BY <1>7, <1>8 DEF Paused, SessionData
<1>10. RestsOnTrack(data)
  BY <1>3, <1>4, <1>6, <1>9 DEF RestsOnTrack, Steers
<1>11. sessionData'[task[t].obj] = data /\ store'[task[t].session_id] = task[t].obj
  BY <1>1, <1>7, <1>8 DEF PausesAt, OnlyTask, StepInv, Shape
<1> QED  BY <1>10, <1>11

\* A task whose model has failed: its conversation waits in vain, and asks no more.
SaysError(body) == \E i \in 1..Len(body) : body[i].type = "error"
Wrecked(t) ==
  LET c == task[t].session_id IN
  /\ task[t].pc = "done" /\ SaysError(sse[t]) /\ c \in Conversations /\ ui[c].loading
  /\ \A r \in Requests : IsAwaited(r) /\ call[r].conversation = c => r = t

\* A session is where it can be resumed, or a task is at it, or it is lost to its user.
SessionLed(c) ==
  store[c] # None =>
    \/ RestsOnTrack(sessionData[store[c]])
    \/ \E t \in Requests : task[t].session_id = c /\ (IsLive(t) \/ Wrecked(t))

TaskLed(t) ==
  IsLive(t) =>
    IF task[t].pc = "created"
    THEN OnTrack(SessionOf(t).execution_plan, SessionOf(t).cursor, StateOf(t))
    ELSE OnTrack(task[t].plan, task[t].cursor, StateOf(t))

LedInv ==
  /\ \A c \in Conversations : SessionLed(c)
  /\ \A t \in Requests : TaskLed(t)

\* The body of a failed task says nothing else of its end.
LEMMA ErrorIsTheEnd ==
  ASSUME StepInv, BodyInv, NEW t \in Requests, task[t].pc = "done", SaysError(sse[t]),
         NEW i \in 1..Len(sse[t]), sse[t][i].type \in Endings
  PROVE  sse[t][i].type = "error"
<1>1. PICK n \in Nat : n = Len(sse[t]) /\ n > 1
  <2>1. sse[t] \in Seq(Event)
    BY DEF StepInv, Shape
  <2> QED  BY <2>1, LenProperties DEF BodyInv, BodyOK, Closed
<1>2. /\ sse[t][n] = End
      /\ \A j \in 1..(n - 2) : sse[t][j].type \notin Endings
  BY <1>1 DEF BodyInv, BodyOK, Closed
<1>3. \A j \in 1..n : sse[t][j].type \in Endings => j = n - 1
  <2>1. End.type \notin Endings
    BY DEF End, Endings
  <2>2. \A j \in 1..n : j = n \/ j = n - 1 \/ j \in 1..(n - 2)
    OBVIOUS
  <2> QED  BY <1>2, <2>1, <2>2
<1>4. PICK j \in 1..n : sse[t][j].type = "error"
  BY <1>1 DEF SaysError
<1>5. j = n - 1 /\ i = n - 1
  BY <1>1, <1>3, <1>4 DEF Endings
<1> QED  BY <1>4, <1>5

\* While the server does nothing, a lost conversation stays lost.
LEMMA WreckedStays ==
  ASSUME Moves \cap {"stop", "disconnect"} = {}, Chat, Disciplined, [ChatNext]_chatVars,
         UNCHANGED vars, NEW t \in Requests, Wrecked(t)
  PROVE  Wrecked(t)'
<1> USE DEF Chat
<1>1. PICK c \in Conversations :
        /\ c = task[t].session_id /\ ui[c].loading /\ ~ui[c].awaiting
        /\ \A r \in Requests : IsAwaited(r) /\ call[r].conversation = c => r = t
  BY DEF Wrecked, ClientInv, BarOrSpinner
<1>2. ASSUME ui'[c].loading,
             \A r \in Requests : IsAwaited(r)' /\ call'[r].conversation = c =>
                                   IsAwaited(r) /\ call[r].conversation = c
      PROVE  Wrecked(t)'
  BY <1>1, <1>2 DEF Wrecked, vars
<1>3. ASSUME NEW d \in Conversations, d # c, NEW q \in Requests, NEW action, NEW announced,
             Sends(d, q, action, announced)
      PROVE  Wrecked(t)'
  <2>1. /\ ui'[c] = ui[c] /\ call'[q].conversation = d
        /\ \A r \in Requests : r # q => call'[r] = call[r]
    BY <1>3 DEF Sends, ClientInv
  <2> QED  BY <1>1, <1>2, <1>3, <2>1 DEF IsAwaited
<1>4. ASSUME NEW d \in Conversations, HandleSend(d)  PROVE Wrecked(t)'
  BY <1>1, <1>3, <1>4, FetchSends DEF HandleSend
<1>5. ASSUME NEW d \in Conversations, NEW action \in {"continue", "regenerate", "modify"},
             HandleConfirmation(d, action)
      PROVE  Wrecked(t)'
  BY <1>1, <1>3, <1>5, FetchSends DEF HandleConfirmation
<1>6. ASSUME NEW d \in Conversations, HandleDone(d)  PROVE Wrecked(t)'
  <2>1. call' = call /\ ui'[c] = ui[c]
    BY <1>1, <1>6 DEF HandleDone, ClientInv
  <2> QED  BY <1>1, <1>2, <2>1 DEF IsAwaited
<1>7. ASSUME NEW d \in Conversations, HandleStop(d) \/ Stopping(d)  PROVE FALSE
  BY <1>7 DEF HandleStop, Stopping, StopArrives, StopReturns, Disciplined
<1>8. ASSUME NEW r \in Requests, ReadEnding(r)  PROVE Wrecked(t)'
  <2>1. PICK e \in Event : Shows(r, e)
    BY <1>8, ReadEndingShows
  <2>2. /\ \A q \in Requests : IsAwaited(q)' => IsAwaited(q)
        /\ \A q \in Requests : call'[q].conversation = call[q].conversation
    BY <2>1 DEF Shows, ClientInv, Call, IsAwaited
  <2>3. ui'[c].loading
    <3>1. CASE call[r].conversation # c
      BY <1>1, <2>1, <3>1 DEF Shows, ClientInv
    <3>2. CASE call[r].conversation = c
      <4>1. r = t
        BY <1>1, <2>1, <3>2 DEF Shows, Reading, IsAwaited
      <4>2. e.type = "error"
        BY <2>1, <4>1, ErrorIsTheEnd DEF Shows, Wrecked
      <4>3. Show(ui[c], e) = ui[c]
        BY <4>2 DEF Show
      <4> QED  BY <1>1, <2>1, <3>2, <4>3 DEF Shows, ClientInv
    <3> QED  BY <3>1, <3>2
  <2> QED  BY <1>2, <2>2, <2>3
<1>9. ASSUME NEW r \in Requests, ReadEnd(r) \/ ConnectionLost(r)  PROVE Wrecked(t)'
  <2>1. /\ \A q \in Requests : IsAwaited(q)' => IsAwaited(q)
        /\ \A q \in Requests : call'[q].conversation = call[q].conversation
    BY <1>9 DEF ReadEnd, ConnectionLost, ClientInv, Call, IsAwaited
  <2>2. ui'[c].loading
    <3>1. CASE ReadEnd(r)
      BY <1>1, <3>1 DEF ReadEnd
    <3>2. CASE ConnectionLost(r)
      <4>1. task[r].pc = "lost" /\ call[r].state = "sent"
        BY <3>2 DEF ConnectionLost, Reading
      <4>2. call[r].conversation # c
        BY <1>1, <4>1 DEF Disciplined, InStep, IsAwaited, Wrecked
      <4> QED  BY <1>1, <3>2, <4>2 DEF ConnectionLost, ClientInv
    <3> QED  BY <1>9, <3>1, <3>2
  <2> QED  BY <1>2, <2>1, <2>2
<1>10. CASE UNCHANGED clientVars
  BY <1>1, <1>2, <1>10 DEF clientVars, IsAwaited
<1>11. UNCHANGED chatVars => UNCHANGED clientVars
  BY DEF chatVars
<1> QED  BY <1>4, <1>5, <1>6, <1>7, <1>8, <1>9, <1>10, <1>11
         DEF ChatNext, Stopping, Network, Deliver

\* A request that arrives finds its session where it can go on.
LEMMA ArrivesLed ==
  ASSUME Chat, Disciplined, LedInv, NEW r \in Requests, Deliver(r),
         NEW c \in Conversations, c = call[r].conversation
  PROVE  \/ IsLive(r)' /\ task'[r].session_id = c /\ TaskLed(r)'
         \/ ~IsLive(r)' /\ store'[c] = None
<1> USE DEF Chat
<1>1. /\ IsAwaited(r) /\ task[r].pc = "none"
      /\ \A t \in Requests : IsLive(t) => task[t].session_id # c
  BY ArrivesAlone
<1>2. ASSUME NEW o, NEW data, Receives(r, c, o, data)
      PROVE  /\ IsLive(r)' /\ task'[r].session_id = c /\ task'[r].pc = "created"
             /\ SessionOf(r)' = data
  <2>1. task'[r].pc = "created" /\ task'[r].session_id = c /\ task'[r].obj = o
    BY <1>2 DEF Receives, Binds, StepInv, Shape, Task
  <2>2. sessionData'[o] = data
    BY <1>2 DEF Receives, Binds, StepInv, Shape
  <2> QED  BY <2>1, <2>2 DEF IsLive, SessionOf
<1>3. ASSUME NEW o, NEW data, Receives(r, c, o, data)
      PROVE  OnTrack(data.execution_plan, data.cursor, data.state)
  <2>1. CASE data = Opened(r, ui[c].target)
    <3>1. ui[c].target \in Targets
      BY DEF ClientInv, Conversation
    <3> QED  BY <2>1, <3>1, OpenedOnTrack
  <2>2. CASE /\ o = store[c] /\ o \in Requests
             /\ sessionData[o] \in SessionData /\ Resumes(r, sessionData[o], data)
    <3>1. RestsOnTrack(sessionData[o])
      <4>1. store[c] # None
        BY <2>2, NoneAssumption
      <4>2. ASSUME NEW t \in Requests, task[t].session_id = c, Wrecked(t)  PROVE FALSE
        BY <1>1, <4>2 DEF Wrecked
      <4> QED  BY <1>1, <2>2, <4>1, <4>2 DEF LedInv, SessionLed
    <3>2. sessionData[o].cursor <= Len(sessionData[o].execution_plan)
      BY <2>2, NoneAssumption DEF StepInv, SessionOK
    <3> QED  BY <2>2, <3>1, <3>2, ResumedOnTrack
  <2> QED  BY <1>3, <2>1, <2>2 DEF Receives
<1>4. ASSUME NEW o, NEW data, Receives(r, c, o, data)
      PROVE  IsLive(r)' /\ task'[r].session_id = c /\ TaskLed(r)'
  BY <1>2, <1>3, <1>4 DEF TaskLed, StateOf
<1>5. CASE ConfirmExpired(r, c)
  <2>1. task'[r].pc = "expired" /\ store'[c] = None
    BY <1>5 DEF ConfirmExpired, StepInv, Shape, Task
  <2> QED  BY <2>1 DEF IsLive
<1> QED  BY <1>4, <1>5, DeliverReceives

\* What a step of a task leaves of the task itself.
LEMMA OnlyTaskOwn ==
  ASSUME StepInv, NEW t \in Requests, IsLive(t), NEW new, NEW data, NEW kept, NEW said,
         OnlyTask(t, new, data, kept, said)
  PROVE  /\ task'[t] = new /\ sessionData'[task[t].obj] = data
         /\ store'[task[t].session_id] = kept
<1>1. task[t].obj \in Requests /\ task[t].session_id \in SessionIds
  BY LiveTask
<1> QED  BY <1>1 DEF OnlyTask, StepInv, Shape

\* A task that takes a step stays on its track, or leaves its session at rest, or fails
\* with nobody to go on.
LEMMA AdvancesLed ==
  ASSUME Chat, Disciplined, Owned, LedInv, NEW t \in Requests, Advance(t),
         UNCHANGED clientVars, NEW c \in Conversations, c = task[t].session_id
  PROVE  TaskLed(t)' /\ SessionLed(c)'
<1> USE DEF Chat
<1>1. /\ IsLive(t) /\ Works(t) /\ TaskStep(t) /\ task[t] \in Task
      /\ task[t].obj \in Requests /\ SessionOf(t) \in SessionData
  BY AdvanceWorks, AdvanceIsTaskStep, LiveTask
<1>2. task'[t].session_id = c /\ task'[t].obj = task[t].obj
  BY <1>1 DEF Works
<1>3. ASSUME IsLive(t)', TaskLed(t)'  PROVE TaskLed(t)' /\ SessionLed(c)'
  BY <1>2, <1>3 DEF SessionLed
<1>4. ASSUME NEW new, NEW said, OnlyTask(t, new, SessionOf(t), Kept(t), said)
      PROVE  SessionOf(t)' = SessionOf(t)
  BY <1>1, <1>2, <1>4 DEF OnlyTask, SessionOf, StepInv, Shape
<1>a. task'[t] = [task[t] EXCEPT !.pc = "done"] => task'[t].pc = "done"
  BY <1>1 DEF Task
<1>5. CASE Begins(t)
  <2>1. /\ task[t].pc = "created" /\ task'[t].pc = "loop"
        /\ task'[t].plan = SessionOf(t).execution_plan /\ task'[t].cursor = SessionOf(t).cursor
    <3>1. PICK new : new = [task[t] EXCEPT !.pc = "loop", !.plan = SessionOf(t).execution_plan,
                                           !.cursor = SessionOf(t).cursor]
      OBVIOUS
    <3>2. /\ new.pc = "loop" /\ new.plan = SessionOf(t).execution_plan
          /\ new.cursor = SessionOf(t).cursor
      BY <1>1, <3>1 DEF Task
    <3>3. task'[t] = new
      BY <1>1, <1>5, <3>1, OnlyTaskOwn DEF Begins
    <3> QED  BY <1>5, <3>2, <3>3 DEF Begins
  <2>2. SessionOf(t)' = SessionOf(t)
    BY <1>4, <1>5 DEF Begins
  <2>3. OnTrack(SessionOf(t).execution_plan, SessionOf(t).cursor, StateOf(t))
    BY <1>1, <2>1 DEF LedInv, TaskLed
  <2>4. StateOf(t)' = StateOf(t)
    BY <2>2 DEF StateOf
  <2> QED  BY <1>3, <2>1, <2>3, <2>4 DEF TaskLed, IsLive
<1>6. ASSUME task[t].pc # "created"  PROVE OnTrack(task[t].plan, task[t].cursor, StateOf(t))
  BY <1>1, <1>6 DEF LedInv, TaskLed
<1>7. CASE Passes(t)
  <2>1. /\ task'[t].pc = "loop" /\ task'[t].plan = task[t].plan
        /\ task'[t].cursor = task[t].cursor + 1
    <3>1. PICK new : new = [task[t] EXCEPT !.cursor = @ + 1]
      OBVIOUS
    <3>2. new.pc = "loop" /\ new.plan = task[t].plan /\ new.cursor = task[t].cursor + 1
      BY <1>1, <1>7, <3>1 DEF Task, Passes
    <3>3. task'[t] = new
      BY <1>7, <3>1 DEF Passes, OnlyTask, StepInv, Shape
    <3> QED  BY <3>2, <3>3
  <2>2. OnTrack(task[t].plan, task[t].cursor + 1, StateOf(t)')
    BY <1>1, <1>6, <1>7, PassesOnTrack DEF Passes
  <2> QED  BY <1>3, <2>1, <2>2 DEF TaskLed, IsLive
<1>8. CASE Calls(t) \/ IsAnswered(t)
  <2>1. /\ task[t].pc # "created" /\ task'[t].pc \in {"calling", "answered"}
        /\ task'[t].plan = task[t].plan /\ task'[t].cursor = task[t].cursor
    <3>1. CASE Calls(t)
      <4>1. PICK new : new = [task[t] EXCEPT !.pc = "calling", !.streamed = FALSE,
                                             !.writer = SessionOf(t).stream_writer]
        OBVIOUS
      <4>2. new.pc = "calling" /\ new.plan = task[t].plan /\ new.cursor = task[t].cursor
        BY <1>1, <4>1 DEF Task
      <4>3. task'[t] = new
        BY <1>1, <3>1, <4>1, OnlyTaskOwn DEF Calls
      <4> QED  BY <3>1, <4>2, <4>3 DEF Calls
    <3>2. CASE IsAnswered(t)
      <4>1. PICK new : new = [task[t] EXCEPT !.pc = "answered"]
        OBVIOUS
      <4>2. new.pc = "answered" /\ new.plan = task[t].plan /\ new.cursor = task[t].cursor
        BY <1>1, <4>1 DEF Task
      <4>3. task'[t] = new
        BY <1>1, <3>2, <4>1, OnlyTaskOwn DEF IsAnswered
      <4> QED  BY <3>2, <4>2, <4>3 DEF IsAnswered
    <3> QED  BY <1>8, <3>1, <3>2
  <2>2. StateOf(t)' = StateOf(t)
    BY <1>4, <1>8 DEF Calls, IsAnswered, StateOf
  <2> QED  BY <1>3, <1>6, <2>1, <2>2 DEF TaskLed, IsLive
<1>9. CASE Pauses(t)
  <2>1. ~IsLive(t)'
    <3>1. task'[t] = [task[t] EXCEPT !.pc = "done"]
      BY <1>1, <1>9, OnlyTaskOwn DEF Pauses
    <3> QED  BY <1>1, <1>a, <3>1 DEF IsLive
  <2>2. /\ store'[c] = task[t].obj /\ RestsOnTrack(sessionData'[task[t].obj])
    BY <1>1, <1>6, <1>9, PauseRestsOnTrack DEF Pauses
  <2>3. RestsOnTrack(sessionData[store[c]])'
    BY <2>2
  <2> QED  BY <2>1, <2>3 DEF TaskLed, SessionLed
<1>10. CASE Raises(t)
  <2>1. task'[t].pc = "done"
    <3>1. task'[t] = [task[t] EXCEPT !.pc = "done"]
      BY <1>1, <1>10, OnlyTaskOwn DEF Raises
    <3> QED  BY <1>a, <3>1
  <2>2. SaysError(sse'[t])
    <3>1. sse'[t] = sse[t] \o <<ErrorEvent, End>> /\ sse[t] \in Seq(Event)
      BY <1>10 DEF Raises, OnlyTask, Emit, StepInv, Shape
    <3>2. PICK said \in Seq(Event) : said = <<ErrorEvent, End>>
      <4>1. ErrorEvent \in Event /\ End \in Event
        BY EventTypes
      <4>2. <<ErrorEvent, End>> \in Seq(Event)
        BY <4>1
      <4> QED  BY <4>2
    <3>3. Len(said) = 2 /\ said[1].type = "error"
      BY <3>2 DEF ErrorEvent
    <3>4. PICK n \in Nat : n = Len(sse[t])
      BY <3>1, LenProperties
    <3>5. /\ Len(sse'[t]) = n + 2
          /\ \A i \in 1..(n + 2) : sse'[t][i] = IF i <= n THEN sse[t][i] ELSE said[i - n]
      <4>1. /\ Len(sse'[t]) = Len(sse[t]) + Len(said)
            /\ \A i \in 1..(Len(sse[t]) + Len(said)) :
                 sse'[t][i] = IF i <= Len(sse[t]) THEN sse[t][i] ELSE said[i - Len(sse[t])]
        BY <3>1, <3>2, ConcatProperties
      <4> QED  BY <3>3, <3>4, <4>1
    <3>6. n + 1 \in 1..(n + 2) /\ ~(n + 1 <= n) /\ (n + 1) - n = 1
      OBVIOUS
    <3>7. sse'[t][n + 1].type = "error" /\ n + 1 \in 1..Len(sse'[t])
      BY <3>3, <3>5, <3>6
    <3> QED  BY <3>7 DEF SaysError
  <2>3. /\ IsAwaited(t) /\ call[t].conversation = c /\ ui[c].loading
    BY <1>1, LiveIsAwaited DEF Disciplined, InStep
  <2>4. \A r \in Requests : IsAwaited(r) /\ call[r].conversation = c => r = t
    BY <2>3 DEF Disciplined
  <2>5. ui' = ui /\ call' = call
    BY DEF clientVars
  <2>6. Wrecked(t)'
    BY <1>2, <2>1, <2>2, <2>3, <2>4, <2>5 DEF Wrecked, IsAwaited
  <2> QED  BY <1>2, <2>1, <2>6 DEF TaskLed, SessionLed, IsLive
<1>11. CASE Stops(t)
  <2>1. ~SessionOf(t).cancelled
    BY <1>1, LiveTask DEF Owned, SessionOf
  <2> QED  BY <1>11, <2>1 DEF Stops
<1>12. CASE Finishes(t)
  <2>1. ~IsLive(t)'
    <3>1. task'[t] = [task[t] EXCEPT !.pc = "done"]
      BY <1>1, <1>12, OnlyTaskOwn DEF Finishes
    <3> QED  BY <1>a, <3>1 DEF IsLive
  <2>2. store'[c] = None
    BY <1>1, <1>12, OnlyTaskOwn DEF Finishes
  <2> QED  BY <2>1, <2>2 DEF TaskLed, SessionLed
<1> QED  BY <1>1, <1>5, <1>7, <1>8, <1>9, <1>10, <1>11, <1>12 DEF TaskStep

\* Steps that are not about a task leave it where it is.
LEMMA OthersLed ==
  ASSUME Chat, Disciplined, Owned, [ChatNext]_chatVars, ~Restart,
         NEW t \in Requests, ~Deliver(t), ~Advance(t)
  PROVE  /\ IsLive(t)' <=> IsLive(t)
         /\ IsLive(t) => task'[t].session_id = task[t].session_id
         /\ TaskLed(t) => TaskLed(t)'
<1> USE DEF Chat
<1>1. CASE StreamChunk(t)
  <2>1. task[t] \in Task /\ IsLive(t) /\ task'[t] = [task[t] EXCEPT !.streamed = TRUE]
    BY <1>1, ChunkIsOwn, LiveTask DEF StepInv, Shape
  <2>2. /\ task'[t].pc = task[t].pc /\ task'[t].plan = task[t].plan
        /\ task'[t].cursor = task[t].cursor /\ task'[t].obj = task[t].obj
        /\ task'[t].session_id = task[t].session_id
    BY <2>1 DEF Task
  <2>3. SessionOf(t)' = SessionOf(t)
    BY <1>1, <2>2, ChunkIsOwn DEF SessionOf
  <2> QED  BY <2>2, <2>3 DEF TaskLed, IsLive, StateOf
<1>2. CASE ~StreamChunk(t)
  <2>1. task'[t] = task[t] /\ (IsLive(t) => SessionOf(t)' = SessionOf(t))
    BY <1>2, Bystander DEF StepsAside
  <2> QED  BY <2>1 DEF TaskLed, IsLive, StateOf
<1> QED  BY <1>1, <1>2

\* What the server does keeps every session where it can go on.
LEMMA ServerLeads ==
  ASSUME Moves \cap {"stop", "disconnect"} = {}, Chat, Disciplined, Owned, LedInv,
         [ChatNext]_chatVars, UNCHANGED clientVars, ~Restart
  PROVE  LedInv'
<1> USE DEF Chat
<1>1. ASSUME NEW r \in Requests, Deliver(r)
      PROVE  /\ TaskLed(r)'
             /\ \A c \in Conversations : c = call[r].conversation => SessionLed(c)'
  <2>1. PICK c \in Conversations : c = call[r].conversation
    BY <1>1, DeliverReceives
  <2> QED  BY <1>1, <2>1, ArrivesLed DEF TaskLed, SessionLed
<1>2. ASSUME NEW t \in Requests, Advance(t)
      PROVE  /\ TaskLed(t)'
             /\ \A c \in Conversations : c = task[t].session_id => SessionLed(c)'
  <2>1. PICK c \in Conversations : c = task[t].session_id
    BY <1>2, AdvanceWorks, LiveTask DEF Conversations
  <2> QED  BY <1>2, <2>1, AdvancesLed
<1>3. ASSUME NEW t \in Requests  PROVE TaskLed(t)'
  BY <1>1, <1>2, <1>3, OthersLed DEF LedInv
<1>4. ASSUME NEW t \in Requests, Wrecked(t)  PROVE Wrecked(t)'
  <2>1. ~Deliver(t) /\ ~Advance(t) /\ ~StreamChunk(t)
    BY <1>4, ArrivesAlone, AdvanceWorks DEF Wrecked, StreamChunk, IsLive
  <2>2. task'[t] = task[t] /\ sse'[t] = sse[t]
    BY <2>1, Bystander DEF StepsAside
  <2>3. ui' = ui /\ call' = call
    BY DEF clientVars
  <2> QED  BY <1>4, <2>2, <2>3 DEF Wrecked, IsAwaited
<1>5. ASSUME NEW c \in Conversations, Rests(c)  PROVE SessionLed(c)'
  <2>1. CASE store[c] = None
    BY <1>5, <2>1 DEF Rests, SessionLed
  <2>2. CASE store[c] # None /\ RestsOnTrack(sessionData[store[c]])
    <3>1. store'[c] = store[c] /\ sessionData'[store[c]] = sessionData[store[c]]
      BY <1>5, <2>2 DEF Rests
    <3>2. RestsOnTrack(sessionData'[store'[c]])
      BY <2>2, <3>1
    <3> QED  BY <3>2 DEF SessionLed
  <2>3. ASSUME NEW t \in Requests, task[t].session_id = c, IsLive(t)  PROVE SessionLed(c)'
    <3>1. CASE Advance(t)
      BY <1>2, <2>3, <3>1
    <3>2. CASE ~Advance(t)
      <4>1. ~Deliver(t)
        BY <2>3, ArrivesAlone DEF IsLive
      <4> QED  BY <2>3, <3>2, <4>1, OthersLed DEF SessionLed
    <3> QED  BY <3>1, <3>2
  <2>4. ASSUME NEW t \in Requests, task[t].session_id = c, Wrecked(t)  PROVE SessionLed(c)'
    <3>1. ~Deliver(t) /\ ~Advance(t) /\ ~StreamChunk(t)
      BY <2>4, ArrivesAlone, AdvanceWorks DEF Wrecked, StreamChunk, IsLive
    <3>2. task'[t] = task[t]
      BY <3>1, Bystander DEF StepsAside
    <3> QED  BY <1>4, <2>4, <3>2 DEF SessionLed
  <2> QED  BY <2>1, <2>2, <2>3, <2>4 DEF LedInv, SessionLed
<1>6. ASSUME NEW c \in Conversations, NEW q \in Requests,
             call[q].conversation = c, Deliver(q) \/ Advance(q)
      PROVE  SessionLed(c)'
  <2>1. Advance(q) => task[q].session_id = c
    BY <1>6, AdvanceWorks, LiveIsAwaited
  <2> QED  BY <1>1, <1>2, <1>6, <2>1
<1>7. ASSUME NEW c \in Conversations  PROVE SessionLed(c)'
  BY <1>5, <1>6, <1>7, OthersRest
<1> QED  BY <1>3, <1>7 DEF LedInv

LEMMA LedInvInductive ==
  ASSUME Moves \cap {"stop", "disconnect"} = {}
  PROVE  Chat /\ Disciplined /\ Owned /\ LedInv /\ [ChatNext]_chatVars => LedInv'
<1> SUFFICES ASSUME Chat, Disciplined, Owned, LedInv, [ChatNext]_chatVars  PROVE LedInv'
  OBVIOUS
<1>1. CASE UNCHANGED vars
  <2>1. ASSUME NEW t \in Requests  PROVE TaskLed(t)'
    <3>1. TaskLed(t)
      BY DEF LedInv
    <3> QED  BY <1>1, <3>1 DEF vars, TaskLed, IsLive, SessionOf, StateOf
  <2>2. ASSUME NEW c \in Conversations  PROVE SessionLed(c)'
    <3>1. SessionLed(c) /\ \A t \in Requests : Wrecked(t) => Wrecked(t)'
      BY <1>1, WreckedStays DEF LedInv
    <3> QED  BY <1>1, <3>1 DEF vars, SessionLed, IsLive
  <2> QED  BY <2>1, <2>2 DEF LedInv
<1>2. CASE Restart
  <2>1. \A c \in Conversations : store'[c] = None
    BY <1>2 DEF Restart, Conversations
  <2>2. ASSUME NEW t \in Requests  PROVE ~IsLive(t)'
    <3>1. task[t] \in Task
      BY DEF Chat, StepInv, Shape
    <3>2. task'[t] = IF IsLive(t) THEN [task[t] EXCEPT !.pc = "lost"] ELSE task[t]
      BY <1>2 DEF Restart
    <3>3. IsLive(t) => task'[t].pc = "lost"
      BY <3>1, <3>2 DEF Task
    <3> QED  BY <3>2, <3>3 DEF IsLive
  <2> QED  BY <2>1, <2>2 DEF LedInv, SessionLed, TaskLed
<1>3. CASE UNCHANGED clientVars /\ ~Restart
  BY <1>3, ServerLeads
<1>4. \A r \in Requests : Deliver(r) => UNCHANGED clientVars
  BY DEF Deliver
<1> QED  BY <1>1, <1>2, <1>3, <1>4, ServerSteps

LEMMA InitLedInv == ChatInit => LedInv
<1> SUFFICES ASSUME ChatInit  PROVE LedInv
  OBVIOUS
<1>1. \A c \in Conversations : store[c] = None
  BY DEF ChatInit, Init, Conversations
<1>2. \A t \in Requests : task[t].pc = "none"
  BY DEF ChatInit, Init, NewTask
<1> QED  BY <1>1, <1>2 DEF LedInv, SessionLed, TaskLed, IsLive

\* The department the CEO has just dispatched to is the one whose lead runs next, whatever
\* is regenerated or modified, and even when models fail and the server restarts.  Nobody
\* presses Stop and no connection breaks.
THEOREM DispatchedLeadRuns ==
  ASSUME Moves \cap {"stop", "disconnect"} = {}
  PROVE  ChatSpec => []DispatchedDepartmentIsNext
<1>1. Chat /\ LedInv => DispatchedDepartmentIsNext
  <2> SUFFICES ASSUME Chat, LedInv, NEW t \in Requests, JustRan(t, DispatchToDepartment),
                      CurrentNode(t) \in LEAD_PLAN_NODES
               PROVE  CurrentNode(t) = DEPT_LEAD_PLAN(StateOf(t).current_department)
    BY DEF DispatchedDepartmentIsNext
  <2>1. IsLive(t) /\ task[t].pc = "loop"
    BY NoneAssumption DEF JustRan, Chat, StepInv, RunningOK, IsLive
  <2>2. OnTrack(task[t].plan, task[t].cursor, StateOf(t))
    BY <2>1 DEF LedInv, TaskLed
  <2>3. PICK plan \in Seq(NODE) : plan = task[t].plan
    BY <2>1, LiveTask DEF Chat
  <2>4. PICK cursor \in Nat : cursor = task[t].cursor /\ cursor <= Len(plan)
    BY <2>1, <2>3, LiveTask DEF Chat
  <2>5. 0 < cursor /\ plan[cursor] = DispatchToDepartment
    BY <2>3, <2>4 DEF JustRan
  <2>6. cursor # Len(plan)
    BY <2>2, <2>3, <2>5 DEF OnTrack, Ends
  <2>7. cursor < Len(plan)
    <3>1. Len(plan) \in Nat
      BY LenProperties
    <3> QED  BY <2>4, <2>6, <3>1
  <2> QED  BY <2>2, <2>3, <2>4, <2>5, <2>7 DEF OnTrack, Led, CurrentNode
<1>2. ChatInit => Disciplined /\ Owned /\ LedInv
  BY InitDisciplined, InitOwned, InitLedInv
<1>3. Chat /\ Disciplined /\ [ChatNext]_chatVars => Disciplined'
  BY DisciplinedInductive
<1>4. Chat /\ Disciplined /\ Owned /\ [ChatNext]_chatVars => Owned'
  BY OwnedInductive
<1>5. Chat /\ Disciplined /\ Owned /\ LedInv /\ [ChatNext]_chatVars => LedInv'
  BY LedInvInductive
<1> QED  BY <1>1, <1>2, <1>3, <1>4, <1>5, ChatInvariant, PTL DEF ChatSpec

----------------------------------------------------------------------------
(* What those who answer anew work on: the user's words.                    *)

\* An agent that works on what the user has said, not on what another agent has found.
Unchained(a) == a \in SubAgents => SUB_AGENT_CONFIGS[a].input_from = NoInput

\* The nodes that ask the model about the last message of the user, and those that ask nothing.
Listening == {node \in NODE : /\ node # AnalyzeIntent
                              /\ \A a \in SubAgents : node = AgentNode(a) => Unchained(a)}

\* Nobody addresses the CEO or a chained agent, and no lead plans for one.
NobodyIsChained ==
  /\ \A target \in Targets : /\ Mode(target) # "ceo"
                             /\ target.type = "agent" => Unchained(target.agent)
  /\ \A p \in LeadPlans : \A i \in 1..Len(p) : Unchained(p[i])

LEMMA ListeningNodes ==
  /\ Listening \subseteq NODE
  /\ \A d \in Names : DEPT_LEAD_PLAN(d) \in Listening /\ DEPT_DISPATCH(d) \in Listening
  /\ \A a \in Names : Unchained(a) => AgentNode(a) \in Listening
<1>1. \A d \in Names : /\ DEPT_LEAD_PLAN(d) # AnalyzeIntent /\ DEPT_DISPATCH(d) # AnalyzeIntent
                       /\ \A a : DEPT_LEAD_PLAN(d) # AgentNode(a) /\ DEPT_DISPATCH(d) # AgentNode(a)
  BY DEF DEPT_LEAD_PLAN, DEPT_DISPATCH, AnalyzeIntent, AgentNode
<1>2. \A a, b : AgentNode(a) = AgentNode(b) => a = b
  BY DEF AgentNode
<1> QED  BY <1>1, <1>2, NodesType, NodeKinds DEF Listening

\* A plan that listens still listens when a lead's answer has been put into it.
LEMMA ExpansionListens ==
  ASSUME NEW plan \in Seq(Listening), NEW cursor \in 0..Len(plan), NEW state \in AgentState,
         NEW node \in Listening,
         node \in LEAD_PLAN_NODES => \A i \in 1..Len(state.sub_plan) : Unchained(state.sub_plan[i])
  PROVE  ExpandPlanAfterNode(state, plan, cursor, node) \in Seq(Listening)
<1>1. PICK n \in Nat : n = Len(plan)
  BY LenProperties
<1>2. cursor \in Nat /\ cursor <= n
  BY <1>1
<1>3. \A i \in 1..n : plan[i] \in Listening
  BY <1>1, ElementOfSeq
<1>4. PICK dept \in Names, sub_plan \in Seq(Names) :
        dept = state.current_department /\ sub_plan = state.sub_plan
  BY DEF AgentState
<1>5. CASE node \in LEAD_PLAN_NODES
  <2>1. PICK m \in Nat : m = Len(sub_plan)
    BY LenProperties
  <2>2. \A i \in 1..m : AgentNode(sub_plan[i]) \in Listening
    BY <1>4, <1>5, <2>1, ListeningNodes, ElementOfSeq
  <2>3. LeadExpansion(dept, sub_plan) \in Seq(Listening)
    <3> DEFINE f == [i \in 1..(2 * m) |->
                       IF i % 2 = 1 THEN DEPT_DISPATCH(dept) ELSE AgentNode(sub_plan[i \div 2])]
               g == [i \in 1..m |-> AgentNode(sub_plan[i])]
    <3>1. f \in [1..(2 * m) -> Listening]
      <4> SUFFICES ASSUME NEW i \in 1..(2 * m), i % 2 # 1
                   PROVE  AgentNode(sub_plan[i \div 2]) \in Listening
        BY ListeningNodes
      <4>1. i \div 2 \in 1..m
        OBVIOUS
      <4> QED  BY <2>2, <4>1
    <3>2. g \in [1..m -> Listening]
      BY <2>2
    <3>3. LeadExpansion(dept, sub_plan) \in {f, g}
      BY <2>1 DEF LeadExpansion
    <3>4. 2 * m \in Nat
      OBVIOUS
    <3> HIDE DEF f, g
    <3>5. f \in Seq(Listening) /\ g \in Seq(Listening)
      BY <3>1, <3>2, <3>4, SeqDef
    <3> QED  BY <3>3, <3>5
  <2>4. Prefix(plan, cursor) \in Seq(Listening)
    <3>1. \A i \in 1..cursor : plan[i] \in Listening
      BY <1>2, <1>3
    <3> QED  BY <1>2, <3>1, SubSeqProperties DEF Prefix
  <2>5. Remaining(plan, cursor) \in Seq(Listening)
    <3>1. \A i \in (cursor + 1)..n : plan[i] \in Listening
      BY <1>2, <1>3
    <3> QED  BY <1>1, <1>2, <3>1, SubSeqProperties DEF Remaining
  <2> QED  BY <1>4, <1>5, <2>3, <2>4, <2>5, ConcatProperties, NodeKinds DEF ExpandPlanAfterNode
<1>6. CASE node \notin LEAD_PLAN_NODES
  BY <1>6 DEF ExpandPlanAfterNode, Listening
<1> QED  BY <1>5, <1>6

LEMMA InitialPlanListens ==
  ASSUME NobodyIsChained, NEW target \in Targets
  PROVE  ComputeInitialPlan(Mode(target), target.agent) \in Seq(Listening)
<1>1. \A node \in Listening : <<node>> \in Seq(Listening)
  OBVIOUS
<1>2. target.agent \in Names /\ "CS" \in Names /\ \A d \in Departments : d \in Names
  BY TargetsAssumption, NamesAssumption, DepartmentNames
<1>3. CASE target.type = "agent"
  <2>1. AgentNode(target.agent) \in Listening
    BY <1>2, <1>3, ListeningNodes DEF NobodyIsChained
  <2> QED  BY <1>1, <1>3, <2>1 DEF ComputeInitialPlan, Mode
<1>4. CASE target.type # "agent"
  <2>1. target.agent \in Departments /\ Mode(target) = "department"
    BY <1>4 DEF NobodyIsChained, Mode
  <2>2. DEPT_LEAD_PLAN(target.agent) \in Listening
    BY <1>2, ListeningNodes
  <2> QED  BY <1>1, <2>1, <2>2 DEF ComputeInitialPlan
<1> QED  BY <1>3, <1>4

\* The user has said something; what was said last is said by r.
HasQuestion(messages) == \E i \in 1..Len(messages) : ~IsAI(messages[i])
SaidLast(messages, r) ==
  \E i \in 1..Len(messages) : /\ messages[i] = UserMessage(r)
                              /\ \A j \in (i + 1)..Len(messages) : IsAI(messages[j])

\* An answer takes nothing back.
LEMMA RepliesKeep ==
  ASSUME NEW messages \in Seq(Message), NEW m \in Message
  PROVE  /\ HasQuestion(messages) => HasQuestion(Append(messages, m))
         /\ \A r : SaidLast(messages, r) /\ IsAI(m) => SaidLast(Append(messages, m), r)
         /\ \A r : m = UserMessage(r) => SaidLast(Append(messages, m), r)
<1>1. PICK n \in Nat : n = Len(messages)
  BY LenProperties
<1>2. PICK all : all = Append(messages, m)
  OBVIOUS
<1>3. /\ Len(all) = n + 1 /\ all[n + 1] = m
      /\ \A i \in 1..n : all[i] = messages[i]
  BY <1>1, <1>2, AppendProperties
<1>4. \A i \in 1..n : i \in 1..(n + 1)
  OBVIOUS
<1>5. HasQuestion(messages) => HasQuestion(all)
  BY <1>1, <1>3, <1>4 DEF HasQuestion
<1>6. ASSUME NEW r, SaidLast(messages, r), IsAI(m)  PROVE SaidLast(all, r)
  <2>1. PICK i \in 1..n : /\ messages[i] = UserMessage(r)
                          /\ \A j \in (i + 1)..n : IsAI(messages[j])
    BY <1>1, <1>6 DEF SaidLast
  <2>2. ASSUME NEW j \in (i + 1)..(n + 1)  PROVE IsAI(all[j])
    <3>1. j = n + 1 \/ (j \in 1..n /\ j \in (i + 1)..n)
      OBVIOUS
    <3> QED  BY <1>3, <1>6, <2>1, <3>1
  <2> QED  BY <1>3, <1>4, <2>1, <2>2 DEF SaidLast
<1>7. ASSUME NEW r, m = UserMessage(r)  PROVE SaidLast(all, r)
  <2>1. n + 1 \in 1..(n + 1) /\ \A j \in ((n + 1) + 1)..(n + 1) : FALSE
    OBVIOUS
  <2> QED  BY <1>3, <1>7, <2>1 DEF SaidLast
<1> QED  BY <1>2, <1>5, <1>6, <1>7

\* What is asked about is a message of the user, and the last one.
LEMMA LastOfUser ==
  ASSUME NEW messages \in Seq(Message), HasQuestion(messages)
  PROVE  /\ ~IsAI(get_last_user_message(messages))
         /\ \A r : SaidLast(messages, r) => get_last_user_message(messages) = UserMessage(r)
<1>1. PICK n \in Nat : n = Len(messages) /\ DOMAIN messages = 1..n
  BY LenProperties
<1>2. PICK places : places = UserPlaces(messages)
  OBVIOUS
<1>3. \A i \in 1..n : i \in places <=> ~IsAI(messages[i])
  <2>1. \A i \in 1..n : messages[i].role \in {"user", "ai"}
    <3>1. \A i \in 1..n : messages[i] \in Message
      BY <1>1, ElementOfSeq
    <3> QED  BY <3>1 DEF Message
  <2> QED  BY <1>1, <1>2, <2>1 DEF UserPlaces, IsAI
<1>4. places \subseteq 1..n /\ places # {}
  BY <1>1, <1>2, <1>3 DEF UserPlaces, HasQuestion
<1>5. \E m \in places : \A k \in places : m >= k
  BY <1>1, <1>4, GreatestExists
<1>6. PICK last \in places : /\ last = Max(places) /\ \A k \in places : last >= k
  BY <1>5 DEF Max
<1>7. get_last_user_message(messages) = messages[last] /\ ~IsAI(messages[last])
  BY <1>2, <1>3, <1>4, <1>6 DEF get_last_user_message
<1>8. ASSUME NEW r, SaidLast(messages, r)  PROVE messages[last] = UserMessage(r)
  <2>1. PICK i \in 1..n : /\ messages[i] = UserMessage(r)
                          /\ \A j \in (i + 1)..n : IsAI(messages[j])
    BY <1>1, <1>8 DEF SaidLast
  <2>2. i \in places
    BY <1>3, <2>1 DEF UserMessage, IsAI
  <2>3. ~(last \in (i + 1)..n) /\ last >= i /\ last \in 1..n
    BY <1>4, <1>6, <1>7, <2>1, <2>2
  <2>4. last = i
    BY <2>3
  <2> QED  BY <2>1, <2>4
<1> QED  BY <1>7, <1>8

----------------------------------------------------------------------------
(* So every session listens, and every task that was asked to modify has been told how. *)

Hears(plan, state) == plan \in Seq(Listening) /\ HasQuestion(state.messages)

SessionHears(o) ==
  sessionData[o] # None => Hears(sessionData[o].execution_plan, sessionData[o].state)

TaskHears(t) ==
  IsLive(t) =>
    /\ task[t].pc # "created" => task[t].plan \in Seq(Listening)
    /\ call[t].action = "modify" => SaidLast(StateOf(t).messages, t)

HeardInv ==
  /\ \A o \in Requests : SessionHears(o)
  /\ \A t \in Requests : TaskHears(t)

\* A new session starts with a question.
LEMMA OpenedHears ==
  ASSUME NobodyIsChained, NEW r \in Requests, NEW target \in Targets,
         NEW data, data = Opened(r, target)
  PROVE  Hears(data.execution_plan, data.state)
<1>1. PICK mode, agent : mode = Mode(target) /\ agent = target.agent
  OBVIOUS
<1>2. PICK plan \in Seq(Listening) : plan = ComputeInitialPlan(mode, agent)
  BY <1>1, InitialPlanListens
<1>3. PICK state : state = InitialState(r)
  OBVIOUS
<1>4. data.execution_plan = plan /\ data.state = state
  BY <1>1, <1>2, <1>3 DEF Opened
<1>5. HasQuestion(state.messages)
  <2>1. state.messages = <<UserMessage(r)>>
    BY <1>3 DEF InitialState
  <2>2. Len(<<UserMessage(r)>>) = 1 /\ <<UserMessage(r)>>[1] = UserMessage(r)
    OBVIOUS
  <2>3. ~IsAI(UserMessage(r)) /\ 1 \in 1..1
    BY DEF IsAI, UserMessage
  <2> QED  BY <2>1, <2>2, <2>3 DEF HasQuestion
<1> QED  BY <1>4, <1>5 DEF Hears

\* A session that goes on forgets no question.
LEMMA ResumedHears ==
  ASSUME NEW r \in Requests, NEW old \in SessionData, NEW data, Resumes(r, old, data),
         Hears(old.execution_plan, old.state)
  PROVE  Hears(data.execution_plan, data.state)
<1>1. PICK messages \in Seq(Message) : messages = old.state.messages
  BY DEF SessionData, AgentState
<1>2. UserMessage(r) \in Message
  BY DEF UserMessage, Message
<1>3. HasQuestion(Append(messages, UserMessage(r)))
  BY <1>1, <1>2, RepliesKeep DEF Hears
<1>4. /\ data.execution_plan = old.execution_plan
      /\ data.state.messages \in {messages, Append(messages, UserMessage(r))}
  BY <1>1 DEF Resumes
<1> QED  BY <1>1, <1>3, <1>4 DEF Hears

\* The suggestion of a modification is the last message of its session.
LEMMA ModifyIsSaid ==
  ASSUME StepInv, ClientInv, NEW r \in Requests, Deliver(r), call[r].action = "modify",
         IsLive(r)'
  PROVE  SaidLast(StateOf(r)'.messages, r)
<1>1. PICK c \in SessionIds : c = call[r].conversation
  BY DeliverReceives DEF Conversations
<1>2. ~ConfirmExpired(r, c)
  BY DEF ConfirmExpired, IsLive, StepInv, Shape, Task
<1>3. Confirm(r, c, "modify")
  BY <1>1, <1>2 DEF Deliver
<1>4. PICK old, data :
        /\ store[c] \in Requests /\ old \in SessionData
        /\ Binds(r, c, store[c], data)
        /\ data.state.messages = Append(old.state.messages, UserMessage(r))
  BY <1>3, ConfirmBinds
<1>5. task'[r].obj = store[c] /\ sessionData'[store[c]] = data
  BY <1>4 DEF Binds, StepInv, Shape, Task
<1>6. StateOf(r)' = data.state
  BY <1>5 DEF StateOf, SessionOf
<1>7. old.state.messages \in Seq(Message) /\ UserMessage(r) \in Message
  BY <1>4 DEF SessionData, AgentState, UserMessage, Message
<1>8. SaidLast(Append(old.state.messages, UserMessage(r)), r)
  BY <1>7, RepliesKeep
<1> QED  BY <1>4, <1>6, <1>8

\* What a node adds to the dialogue takes nothing back.
LEMMA NodesKeepWords ==
  ASSUME StepInv, NEW t \in Requests, IsLive(t), NEW state, Replies(state, t)
  PROVE  /\ HasQuestion(StateOf(t).messages) => HasQuestion(state.messages)
         /\ SaidLast(StateOf(t).messages, t) => SaidLast(state.messages, t)
<1>1. PICK messages \in Seq(Message) : messages = StateOf(t).messages
  BY LiveTask DEF AgentState
<1>2. AIMessage(t) \in Message /\ IsAI(AIMessage(t))
  BY DEF AIMessage, Message, IsAI
<1>3. state.messages \in {messages, Append(messages, AIMessage(t))}
  BY <1>1 DEF Replies
<1> QED  BY <1>1, <1>2, <1>3, RepliesKeep

\* A request that arrives is heard.
LEMMA ArrivesHeard ==
  ASSUME NobodyIsChained, Chat, HeardInv, NEW r \in Requests, Deliver(r)
  PROVE  TaskHears(r)' /\ \A o \in Requests : SessionHears(o)'
<1> USE DEF Chat
<1>1. PICK c \in Conversations : c = call[r].conversation /\ call' = call
  BY DeliverReceives DEF clientVars
<1>2. IsLive(r)' => (call'[r].action = "modify" => SaidLast(StateOf(r)'.messages, r))
  BY <1>1, ModifyIsSaid
<1>3. ASSUME NEW o, NEW data, Receives(r, c, o, data)
      PROVE  task'[r].pc = "created" /\ \A p \in Requests : SessionHears(p)'
  <2>1. o \in Requests /\ task'[r].pc = "created" /\ sessionData'[o] = data
    BY <1>3, NoneAssumption DEF Receives, Binds, StepInv, Shape, Task
  <2>2. \A p \in Requests : p # o => sessionData'[p] = sessionData[p]
    BY <1>3 DEF Receives, Binds, StepInv, Shape
  <2>3. Hears(data.execution_plan, data.state)
    <3>1. CASE data = Opened(r, ui[c].target)
      <4>1. ui[c].target \in Targets
        BY DEF ClientInv, Conversation
      <4> QED  BY <3>1, <4>1, OpenedHears
    <3>2. CASE o = store[c] /\ sessionData[o] \in SessionData /\ Resumes(r, sessionData[o], data)
      <4>1. Hears(sessionData[o].execution_plan, sessionData[o].state)
        BY <2>1, <3>2, NoneAssumption DEF HeardInv, SessionHears
      <4> QED  BY <3>2, <4>1, ResumedHears
    <3> QED  BY <1>1, <1>3, <3>1, <3>2 DEF Receives
  <2> QED  BY <2>1, <2>2, <2>3 DEF HeardInv, SessionHears
<1>4. CASE ConfirmExpired(r, c)
  <2>1. task'[r].pc = "expired" /\ sessionData' = sessionData
    BY <1>4 DEF ConfirmExpired, StepInv, Shape, Task
  <2> QED  BY <2>1 DEF HeardInv, SessionHears, TaskHears, IsLive
<1> QED  BY <1>1, <1>2, <1>3, <1>4, DeliverReceives DEF TaskHears

\* A task that takes a step keeps what it has been told.
LEMMA AdvanceHeard ==
  ASSUME NobodyIsChained, Chat, Owned, HeardInv, NEW t \in Requests, Advance(t),
         UNCHANGED clientVars
  PROVE  TaskHears(t)' /\ SessionHears(task[t].obj)'
<1> USE DEF Chat
<1>1. /\ IsLive(t) /\ TaskStep(t) /\ task[t] \in Task /\ Works(t)
      /\ task[t].obj \in Requests /\ SessionOf(t) \in SessionData
      /\ SessionOf(t) = sessionData[task[t].obj]
  BY AdvanceWorks, AdvanceIsTaskStep, LiveTask DEF SessionOf
<1>2. PICK o \in Requests : o = task[t].obj
  BY <1>1
<1>3. SessionOf(t) = sessionData[o] /\ SessionOf(t) # None /\ StateOf(t) = SessionOf(t).state
  BY <1>1, <1>2, LiveTask DEF StateOf
<1>4. Hears(SessionOf(t).execution_plan, SessionOf(t).state)
  BY <1>2, <1>3 DEF HeardInv, SessionHears
<1>5. TaskHears(t) /\ call' = call
  BY DEF HeardInv, clientVars
<1>6. ASSUME NEW new, NEW data, NEW kept, NEW said, OnlyTask(t, new, data, kept, said),
             Hears(data.execution_plan, data.state),
             new.obj = o,
             \/ new.pc \notin {"created", "loop", "calling", "answered"}
             \/ /\ new.plan \in Seq(Listening)
                /\ SaidLast(StateOf(t).messages, t) => SaidLast(data.state.messages, t)
      PROVE  TaskHears(t)' /\ SessionHears(task[t].obj)'
  <2>1. task'[t] = new /\ sessionData'[o] = data
    BY <1>1, <1>2, <1>6, OnlyTaskOwn
  <2>2. StateOf(t)' = data.state
    BY <1>6, <2>1 DEF StateOf, SessionOf
  <2>3. SessionHears(task[t].obj)'
    BY <1>6, <2>1 DEF SessionHears
  <2>4. TaskHears(t)'
    BY <1>1, <1>5, <1>6, <2>1, <2>2 DEF TaskHears, IsLive
  <2> QED  BY <2>3, <2>4
<1>7. PICK done : done = [task[t] EXCEPT !.pc = "done"]
  OBVIOUS
<1>8. done.pc = "done" /\ done.obj = o
  BY <1>1, <1>2, <1>7 DEF Task
<1>9. CASE Begins(t)
  <2>1. PICK new : new = [task[t] EXCEPT !.pc = "loop", !.plan = SessionOf(t).execution_plan,
                                         !.cursor = SessionOf(t).cursor]
    OBVIOUS
  <2>2. new.pc = "loop" /\ new.plan = SessionOf(t).execution_plan /\ new.obj = o
    BY <1>1, <1>2, <2>1 DEF Task
  <2>3. OnlyTask(t, new, SessionOf(t), Kept(t), <<>>)
    BY <1>9, <2>1 DEF Begins
  <2>4. new.plan \in Seq(Listening)
    BY <1>4, <2>2 DEF Hears
  <2> QED  BY <1>3, <1>4, <1>6, <2>2, <2>3, <2>4
<1>10. task[t].pc # "created" => task[t].plan \in Seq(Listening)
  BY <1>1, <1>5 DEF TaskHears
<1>11. CASE Passes(t)
  <2>1. PICK state \in AgentState :
          /\ Replies(state, t)
          /\ \E said : OnlyTask(t, [task[t] EXCEPT !.cursor = @ + 1],
                                 [SessionOf(t) EXCEPT !.state = state], Kept(t), said)
    BY <1>11 DEF Passes
  <2>2. PICK new : new = [task[t] EXCEPT !.cursor = @ + 1]
    OBVIOUS
  <2>3. PICK data : data = [SessionOf(t) EXCEPT !.state = state]
    OBVIOUS
  <2>4. new.plan = task[t].plan /\ new.obj = o /\ task[t].pc # "created"
    BY <1>1, <1>2, <1>11, <2>2 DEF Task, Passes
  <2>5. data.execution_plan = SessionOf(t).execution_plan /\ data.state = state
    BY <1>1, <2>3 DEF SessionData
  <2>6. Hears(data.execution_plan, data.state)
    BY <1>1, <1>3, <1>4, <2>1, <2>5, NodesKeepWords DEF Hears
  <2>7. SaidLast(StateOf(t).messages, t) => SaidLast(data.state.messages, t)
    BY <1>1, <2>1, <2>5, NodesKeepWords
  <2>8. \E said : OnlyTask(t, new, data, Kept(t), said)
    BY <2>1, <2>2, <2>3
  <2> QED  BY <1>6, <1>10, <2>4, <2>6, <2>7, <2>8
<1>12. CASE Calls(t)
  <2>1. PICK new : new = [task[t] EXCEPT !.pc = "calling", !.streamed = FALSE,
                                         !.writer = SessionOf(t).stream_writer]
    OBVIOUS
  <2>2. new.plan = task[t].plan /\ new.obj = o /\ task[t].pc # "created"
    BY <1>1, <1>2, <1>12, <2>1 DEF Task, Calls
  <2>3. \E said : OnlyTask(t, new, SessionOf(t), Kept(t), said)
    BY <1>12, <2>1 DEF Calls
  <2> QED  BY <1>3, <1>4, <1>6, <1>10, <2>2, <2>3
<1>13. CASE IsAnswered(t)
  <2>1. PICK new : new = [task[t] EXCEPT !.pc = "answered"]
    OBVIOUS
  <2>2. new.plan = task[t].plan /\ new.obj = o /\ task[t].pc # "created"
    BY <1>1, <1>2, <1>13, <2>1 DEF Task, IsAnswered
  <2>3. OnlyTask(t, new, SessionOf(t), Kept(t), <<>>)
    BY <1>13, <2>1 DEF IsAnswered
  <2> QED  BY <1>3, <1>4, <1>6, <1>10, <2>2, <2>3
<1>14. CASE Pauses(t)
  <2>1. PICK state \in AgentState :
          LET cursor == task[t].cursor + 1
              plan   == ExpandPlanAfterNode(state, task[t].plan, cursor, CurrentNode(t))
          IN  /\ Replies(state, t)
              /\ CurrentNode(t) \in LEAD_PLAN_NODES => state.sub_plan \in LeadPlans
              /\ \E said :
                   OnlyTask(t, [task[t] EXCEPT !.pc = "done"],
                            Paused(SessionOf(t), state, plan, cursor, CurrentNode(t)),
                            task[t].obj, said)
    BY <1>14 DEF Pauses
  <2>2. PICK old \in Seq(Listening) : old = task[t].plan
    BY <1>10, <1>14 DEF Pauses
  <2>3. PICK at \in Nat : at = task[t].cursor /\ at < Len(old)
    BY <1>1, <1>14, <2>2, LiveTask DEF Pauses, StepInv, TaskOK
  <2>4. at + 1 \in 1..Len(old) /\ at + 1 \in 0..Len(old)
    BY <2>2, <2>3, LenProperties
  <2>5. PICK node \in Listening : node = CurrentNode(t)
    BY <2>2, <2>3, <2>4, ElementOfSeq DEF CurrentNode
  <2>6. node \in LEAD_PLAN_NODES => \A i \in 1..Len(state.sub_plan) : Unchained(state.sub_plan[i])
    BY <2>1, <2>5 DEF NobodyIsChained
  <2>7. PICK plan \in Seq(Listening) : plan = ExpandPlanAfterNode(state, old, at + 1, node)
    BY <2>4, <2>6, ExpansionListens
  <2>8. PICK data : data = Paused(SessionOf(t), state, plan, at + 1, node)
    OBVIOUS
  <2>9. data.execution_plan = plan /\ data.state = state
    BY <1>1, <2>8 DEF Paused, SessionData
  <2>10. \E said : OnlyTask(t, done, data, task[t].obj, said)
    BY <1>7, <2>1, <2>2, <2>3, <2>5, <2>7, <2>8
  <2>11. Hears(data.execution_plan, data.state)
    BY <1>1, <1>3, <1>4, <2>1, <2>9, NodesKeepWords DEF Hears
  <2> QED  BY <1>6, <1>8, <2>10, <2>11
<1>15. CASE Raises(t) \/ Finishes(t)
  <2>1. \E kept, said : OnlyTask(t, done, SessionOf(t), kept, said)
    BY <1>7, <1>15 DEF Raises, Finishes
  <2> QED  BY <1>3, <1>4, <1>6, <1>8, <2>1
<1>16. CASE Stops(t)
  BY <1>2, <1>3, <1>16 DEF Stops, Owned
<1> QED  BY <1>1, <1>9, <1>11, <1>12, <1>13, <1>14, <1>15, <1>16 DEF TaskStep

LEMMA HeardInvInductive ==
  ASSUME Moves \cap {"stop", "disconnect"} = {}, NobodyIsChained
  PROVE  Chat /\ Disciplined /\ Owned /\ HeardInv /\ [ChatNext]_chatVars => HeardInv'
<1> SUFFICES ASSUME Chat, Disciplined, Owned, HeardInv, [ChatNext]_chatVars  PROVE HeardInv'
  OBVIOUS
<1> USE DEF Chat
<1>1. ASSUME NEW t \in Requests, IsLive(t)  PROVE call'[t].action = call[t].action
  <2>1. SameCall(t) \/ Decided(t)
    BY CallSteps
  <2>2. call[t].state = "sent"
    BY <1>1, LiveIsAwaited DEF IsAwaited
  <2> QED  BY <2>1, <2>2 DEF SameCall, Decided
<1>2. CASE UNCHANGED vars
  <2>1. ASSUME NEW t \in Requests  PROVE TaskHears(t)'
    <3>1. TaskHears(t) /\ (IsLive(t)' => IsLive(t))
      BY <1>2 DEF HeardInv, vars, IsLive
    <3>2. task'[t] = task[t] /\ StateOf(t)' = StateOf(t)
      BY <1>2 DEF vars, StateOf, SessionOf
    <3> QED  BY <1>1, <3>1, <3>2 DEF TaskHears
  <2>2. \A o \in Requests : SessionHears(o)'
    BY <1>2 DEF HeardInv, vars, SessionHears
  <2> QED  BY <2>1, <2>2 DEF HeardInv
<1>3. CASE Restart
  <2>1. sessionData' = sessionData
    BY <1>3 DEF Restart
  <2>2. ASSUME NEW t \in Requests  PROVE ~IsLive(t)'
    <3>1. task[t] \in Task
      BY DEF StepInv, Shape
    <3>2. task'[t] = IF IsLive(t) THEN [task[t] EXCEPT !.pc = "lost"] ELSE task[t]
      BY <1>3 DEF Restart
    <3>3. IsLive(t) => task'[t].pc = "lost"
      BY <3>1, <3>2 DEF Task
    <3> QED  BY <3>2, <3>3 DEF IsLive
  <2> QED  BY <2>1, <2>2 DEF HeardInv, SessionHears, TaskHears
<1>4. CASE ~Restart /\ UNCHANGED clientVars
  <2>1. ASSUME NEW t \in Requests, ~Deliver(t), ~Advance(t)  PROVE TaskHears(t)'
    <3>1. TaskHears(t) /\ (IsLive(t)' <=> IsLive(t))
      BY <1>4, <2>1, OthersLed DEF HeardInv
    <3>2. CASE StreamChunk(t)
      <4>1. task[t] \in Task /\ IsLive(t) /\ task'[t] = [task[t] EXCEPT !.streamed = TRUE]
        <5>1. /\ IsLive(t) /\ task' = [task EXCEPT ![t] = [task[t] EXCEPT !.streamed = TRUE]]
          BY <3>2, ChunkIsOwn
        <5> QED  BY <5>1 DEF StepInv, Shape
      <4>2. task'[t].pc = task[t].pc /\ task'[t].plan = task[t].plan /\ task'[t].obj = task[t].obj
        BY <4>1 DEF Task
      <4>3. StateOf(t)' = StateOf(t)
        BY <3>2, <4>2, ChunkIsOwn DEF SessionOf, StateOf
      <4> QED  BY <1>1, <3>1, <4>1, <4>2, <4>3 DEF TaskHears
    <3>3. CASE ~StreamChunk(t)
      <4>1. task'[t] = task[t] /\ (IsLive(t) => SessionOf(t)' = SessionOf(t))
        BY <1>4, <2>1, <3>3, Bystander DEF StepsAside
      <4> QED  BY <1>1, <3>1, <4>1 DEF TaskHears, StateOf
    <3> QED  BY <3>2, <3>3
  <2>2. ASSUME NEW t \in Requests  PROVE TaskHears(t)'
    BY <1>4, <2>1, ArrivesHeard, AdvanceHeard
  <2>3. ASSUME NEW t \in Requests, Advance(t)  PROVE \A o \in Requests : SessionHears(o)'
    <3>1. Works(t) /\ SessionHears(task[t].obj)'
      BY <1>4, <2>3, AdvanceWorks, AdvanceHeard
    <3> QED  BY <3>1 DEF Works, HeardInv, SessionHears
  <2>4. ASSUME NEW t \in Requests, StreamChunk(t)  PROVE \A o \in Requests : SessionHears(o)'
    BY <2>4, ChunkIsOwn DEF HeardInv, SessionHears
  <2>5. UNCHANGED vars => \A o \in Requests : SessionHears(o)'
    BY DEF vars, HeardInv, SessionHears
  <2>6. \A o \in Requests : SessionHears(o)'
    BY <1>4, <2>3, <2>4, <2>5, ArrivesHeard, ServerSteps
  <2> QED  BY <2>2, <2>6 DEF HeardInv
<1>5. \A r \in Requests : Deliver(r) => UNCHANGED clientVars /\ ~Restart
  <2>1. ASSUME NEW r \in Requests, Deliver(r), Restart  PROVE FALSE
    <3>1. task'[r].pc \in {"created", "expired"} /\ task[r].pc = "none"
      BY <2>1, DeliverKeepsSession
    <3>2. task'[r] = task[r]
      BY <2>1, <3>1 DEF Restart, IsLive
    <3> QED  BY <3>1, <3>2
  <2> QED  BY <2>1 DEF Deliver
<1> QED  BY <1>2, <1>3, <1>4, <1>5, ServerSteps

LEMMA InitHeardInv == ChatInit => HeardInv
BY DEF ChatInit, Init, NewTask, HeardInv, SessionHears, TaskHears, IsLive

\* Who is asked to answer anew works on what the user has said: after "modify" on the
\* suggestion, after "regenerate" on a message of the user.  Nobody presses Stop, no
\* connection breaks, and nobody is the CEO or works on the result of another agent.
THEOREM ModificationsAreHeard ==
  ASSUME Moves \cap {"stop", "disconnect"} = {}, NobodyIsChained
  PROVE  ChatSpec => []UserIsHeard
<1>1. Chat /\ HeardInv => UserIsHeard
  <2> SUFFICES ASSUME Chat, HeardInv, NEW t \in Requests, NEW node \in AskingNodes,
                      Asking(t, node)
               PROVE  /\ call[t].action = "modify" => UserMessage(t) \in Prompt(node, StateOf(t))
                      /\ call[t].action = "regenerate" => ~IsAI(Query(node, StateOf(t)))
    BY DEF UserIsHeard
  <2> USE DEF Chat
  <2>1. IsLive(t) /\ task[t].pc = "calling" /\ node = CurrentNode(t)
    BY DEF Asking, IsLive
  <2>2. PICK plan \in Seq(Listening) : plan = task[t].plan
    BY <2>1 DEF HeardInv, TaskHears
  <2>3. PICK cursor \in Nat : cursor = task[t].cursor /\ cursor < Len(plan)
    BY <2>1, <2>2, LiveTask DEF StepInv, TaskOK
  <2>4. node \in Listening
    <3>1. cursor + 1 \in 1..Len(plan)
      BY <2>2, <2>3, LenProperties
    <3> QED  BY <2>1, <2>2, <2>3, <3>1, ElementOfSeq DEF CurrentNode
  <2>5. PICK state : state = StateOf(t)
    OBVIOUS
  <2>6. PICK messages \in Seq(Message) : messages = state.messages
    BY <2>1, <2>5, LiveTask DEF AgentState
  <2>7. HasQuestion(messages)
    <3>1. task[t].obj \in Requests /\ SessionOf(t) # None
      BY <2>1, LiveTask
    <3> QED  BY <2>5, <2>6, <3>1 DEF HeardInv, SessionHears, Hears, StateOf, SessionOf
  <2>8. call[t].action = "modify" => SaidLast(messages, t)
    BY <2>1, <2>5, <2>6 DEF HeardInv, TaskHears
  <2>9. Query(node, state) = get_last_user_message(messages)
    <3>1. node # AnalyzeIntent /\ node # SummarizeResult /\ node \in ModelNodes
      BY <2>4 DEF Listening, AskingNodes
    <3>2. CASE node \in LEAD_PLAN_NODES
      <4>1. ~\E a \in SubAgents : node = AgentNode(a)
        BY <3>2, NodeKinds
      <4>2. Query(node, state) = get_last_user_message(state.messages)
        BY <3>1, <3>2, <4>1, Zenon DEF Query
      <4> QED  BY <2>6, <4>2
    <3>3. CASE node \notin LEAD_PLAN_NODES
      <4>1. \E a \in SubAgents : node = AgentNode(a)
        BY <3>1, <3>3 DEF ModelNodes, AGENT_NODES
      <4>2. PICK a \in SubAgents : a = CHOOSE b \in SubAgents : node = AgentNode(b)
        BY <4>1
      <4>3. node = AgentNode(a)
        BY <4>1, <4>2
      <4>4. SUB_AGENT_CONFIGS[a].input_from = NoInput
        BY <2>4, <4>3 DEF Listening, Unchained
      <4>5. Query(node, state) = AgentQuery(a, state)
        BY <3>1, <3>3, <4>1, <4>2 DEF Query
      <4> QED  BY <2>6, <4>4, <4>5 DEF AgentQuery
    <3> QED  BY <3>2, <3>3
  <2>10. /\ ~IsAI(get_last_user_message(messages))
         /\ SaidLast(messages, t) => get_last_user_message(messages) = UserMessage(t)
    BY <2>7, LastOfUser
  <2>11. Query(node, state) \in Prompt(node, state)
    BY DEF Prompt
  <2> QED  BY <2>5, <2>8, <2>9, <2>10, <2>11
<1>2. ChatInit => Disciplined /\ Owned /\ HeardInv
  BY InitDisciplined, InitOwned, InitHeardInv
<1>3. Chat /\ Disciplined /\ [ChatNext]_chatVars => Disciplined'
  BY DisciplinedInductive
<1>4. Chat /\ Disciplined /\ Owned /\ [ChatNext]_chatVars => Owned'
  BY OwnedInductive
<1>5. Chat /\ Disciplined /\ Owned /\ HeardInv /\ [ChatNext]_chatVars => HeardInv'
  BY HeardInvInductive
<1> QED  BY <1>1, <1>2, <1>3, <1>4, <1>5, ChatInvariant, PTL DEF ChatSpec

================================================================================

---------------------------- MODULE PromptAction ----------------------------
(***************************************************************************)
(* Attachment prompt actions: the Agent's idempotency registry of one PTY  *)
(* session (internal/promptaction/registry.go, called from                 *)
(* internal/server/server.go) and the browser's AttachmentPromptActionClient*)
(* (web/src/lib/attachment-prompt-action.ts), over connections that drop   *)
(* requests and replies.                                                   *)
(*                                                                         *)
(* Sequence numbers and acknowledgements are those of one connection; the  *)
(* Agent acknowledges a request only after applying it.  The content of an *)
(* action is a function of its id: the client draws a new id per action    *)
(* and resends the request unchanged.                                      *)
(*                                                                         *)
(* A definition named ..._Slip is the one after it with a mistake the code *)
(* could contain; it is not part of the specification.                     *)
(***************************************************************************)
EXTENDS Naturals, Sequences, FiniteSets

CONSTANTS
  ActionId,       \* ids the client may draw
  None,           \* no action
  MaxTracked,     \* defaultMaxTrackedActions
  MaxPending,     \* defaultMaxPendingActions
  MaxGeneration   \* bound: sessions; the last one does not end

ASSUME NoneAssumption == None \notin ActionId
ASSUME LimitAssumption == MaxTracked \in Nat /\ MaxPending \in Nat
ASSUME BoundAssumption == MaxGeneration \in Nat

VARIABLES
  entries,     \* Registry.entries by state; "absent" when there is none
  pending,     \* Registry.pending
  generation,  \* the session's generation
  live,        \* the session accepts prompt actions
  attached,    \* a handler serves the browser's connection
  reply,       \* the reply the handler is about to write, or NoReply
  applied,     \* AgentStream.highestInbound of that connection
  stream,      \* AttachmentPromptActionClient.stream is set
  nextSeq,     \* the connection's next client sequence
  highestAck,  \* highestAcknowledgedClientSequence
  action,      \* ActiveAction.actionId, or None
  phase,       \* ActiveAction.phase
  pendingSeq,  \* ActiveAction.pendingSequence; 0 for null
  session,     \* the generation the browser last saw in a SessionStatus
  toAgent,     \* requests on their way
  toClient,    \* replies on their way
  written,     \* how often each action's bytes were written to the PTY (auxiliary)
  voided,      \* actions cancelled, or failed half way (auxiliary)
  confirmed,   \* actions the user confirmed (auxiliary)
  told         \* how each action's promise settled (auxiliary)

registryVars == <<entries, pending, generation, live>>
agentVars == <<attached, reply, applied>>
clientVars == <<stream, nextSeq, highestAck, action, phase, pendingSeq, session>>
wireVars == <<toAgent, toClient>>
auxVars == <<written, voided, confirmed, told>>
vars == <<registryVars, agentVars, clientVars, wireVars, auxVars>>

NoReply == [kind |-> "none", id |-> None, seq |-> 0]

Init ==
  /\ entries = [a \in ActionId |-> "absent"]
  /\ pending = 0
  /\ generation = 1
  /\ live = TRUE
  /\ attached = FALSE
  /\ reply = NoReply
  /\ applied = 1
  /\ stream = FALSE
  /\ nextSeq = 2
  /\ highestAck = 1
  /\ action = None
  /\ phase = "none"
  /\ pendingSeq = 0
  /\ session = 0
  /\ toAgent = <<>>
  /\ toClient = <<>>
  /\ written = [a \in ActionId |-> 0]
  /\ voided = {}
  /\ confirmed = {}
  /\ told = [a \in ActionId |-> "nothing"]

-----------------------------------------------------------------------------
(* The registry. *)

Tracked == {a \in ActionId : entries[a] # "absent"}

\* finalizeEntry: the bytes are dropped, the tombstone stays.
Finalize(a, state) ==
  /\ entries' = [entries EXCEPT ![a] = state]
  /\ pending' = IF pending > 0 THEN pending - 1 ELSE 0

\* Registry.Prepare succeeds: a matching action that is prepared or committed is
\* answered as it is, a new one is tracked within both limits.
Prepares(a) ==
  \/ entries[a] \in {"prepared", "committed"}
  \/ /\ entries[a] = "absent"
     /\ Cardinality(Tracked) < MaxTracked
     /\ pending < MaxPending

-----------------------------------------------------------------------------
(* The handler of the attached connection. *)

Send(kind, a, ack) ==
  toClient' = IF stream THEN Append(toClient, [kind |-> kind, id |-> a, ack |-> ack])
              ELSE toClient

Request == Head(toAgent)
HasRequest(op) == attached /\ reply = NoReply /\ toAgent # <<>> /\ Request.op = op

\* The operation returned; its reply is written later, under the writer's lock.
Return(kind) ==
  /\ reply' = [kind |-> kind, id |-> Request.id, seq |-> Request.seq]
  /\ toAgent' = Tail(toAgent)
  /\ UNCHANGED <<attached, applied, toClient>>

\* CommitClientMessage, and the preview or acknowledgement that carries it, in one
\* critical section of the writer: output sent later acknowledges nothing new.
Answer ==
  /\ attached /\ reply.kind \in {"preview", "committed", "ack"}
  /\ applied' = reply.seq
  /\ Send(reply.kind, reply.id, reply.seq)
  /\ reply' = NoReply
  /\ UNCHANGED <<registryVars, attached, clientVars, toAgent, auxVars>>

\* ATTACHMENT_PROMPT_ACTION_FAILED acknowledges nothing, and the handler returns.
AnswerError ==
  /\ attached /\ reply.kind = "error"
  /\ Send("error", reply.id, applied)
  /\ reply' = NoReply
  /\ attached' = FALSE
  /\ toAgent' = <<>>
  /\ UNCHANGED <<registryVars, applied, clientVars, auxVars>>

\* prepareAttachmentPrompt.  The preview's disposition is COMMITTED for an action
\* that already was, and PREPARED otherwise.
HandlePrepare ==
  /\ HasRequest("prepare")
  /\ LET a == Request.id
     IN  /\ live /\ Prepares(a)
         /\ entries' = [entries EXCEPT ![a] = IF @ = "absent" THEN "prepared" ELSE @]
         /\ pending' = IF entries[a] = "absent" THEN pending + 1 ELSE pending
         /\ Return(IF entries[a] = "committed" THEN "committed" ELSE "preview")
  /\ UNCHANGED <<generation, live, clientVars, auxVars>>

\* The transfers are not all completed, the adapter or the registry refuses.
RefusePrepare ==
  /\ HasRequest("prepare")
  /\ Return("error")
  /\ UNCHANGED <<registryVars, clientVars, auxVars>>

HandleCommit_Slip ==
  /\ HasRequest("commit")
  /\ LET a == Request.id
     IN  /\ live
         /\ entries[a] \in {"prepared", "committed"}
         /\ Finalize(a, "committed")
         /\ written' = [written EXCEPT ![a] = @ + 1]
         /\ Return("ack")
  /\ UNCHANGED <<generation, live, clientVars, voided, confirmed, told>>

\* commitAttachmentPrompt, Registry.Commit: the bytes are written, or were before.
HandleCommit ==
  /\ HasRequest("commit")
  /\ LET a == Request.id
     IN  /\ live
         /\ \/ /\ entries[a] = "prepared"
               /\ Finalize(a, "committed")
               /\ written' = [written EXCEPT ![a] = @ + 1]
            \/ /\ entries[a] = "committed"
               /\ UNCHANGED <<entries, pending, written>>
         /\ Return("ack")
  /\ UNCHANGED <<generation, live, clientVars, voided, confirmed, told>>

\* The PTY write fails, with any part of the bytes written: a tombstone.
CommitFails ==
  /\ HasRequest("commit")
  /\ live
  /\ entries[Request.id] = "prepared"
  /\ Finalize(Request.id, "failed")
  /\ Return("error")
  /\ voided' = voided \cup {Request.id}
  /\ UNCHANGED <<generation, live, clientVars, written, confirmed, told>>

\* The session is ending, or the action is unknown here, cancelled or failed.
RefuseCommit ==
  /\ HasRequest("commit")
  /\ ~live \/ entries[Request.id] \in {"absent", "cancelled", "failed"}
  /\ Return("error")
  /\ UNCHANGED <<registryVars, clientVars, auxVars>>

\* cancelAttachmentPrompt, Registry.Cancel.
HandleCancel ==
  /\ HasRequest("cancel")
  /\ LET a == Request.id
     IN  /\ live
         /\ \/ entries[a] = "prepared" /\ Finalize(a, "cancelled")
            \/ entries[a] = "cancelled" /\ UNCHANGED <<entries, pending>>
         /\ voided' = voided \cup {a}
         /\ Return("ack")
  /\ UNCHANGED <<generation, live, clientVars, written, confirmed, told>>

RefuseCancel ==
  /\ HasRequest("cancel")
  /\ ~live \/ entries[Request.id] \notin {"prepared", "cancelled"}
  /\ Return("error")
  /\ UNCHANGED <<registryVars, clientVars, auxVars>>

\* The handler notices that the connection is gone: a read or a write fails.
Detach ==
  /\ attached
  /\ attached' = FALSE
  /\ reply' = NoReply
  /\ toAgent' = <<>>
  /\ UNCHANGED <<registryVars, applied, clientVars, toClient, auxVars>>

\* waitForExit: the browser is told, the registry is closed.  A reply the handler has
\* ready may still follow the exit.  The next session has a registry of its own; a
\* write that reaches the PTY of an exited process does not count as written.
SessionEnds ==
  /\ live /\ generation < MaxGeneration
  /\ live' = FALSE
  /\ entries' = [a \in ActionId |-> "absent"]
  /\ pending' = 0
  /\ IF attached THEN Send("exit", None, applied) ELSE UNCHANGED toClient
  /\ UNCHANGED <<generation, agentVars, clientVars, toAgent, auxVars>>

-----------------------------------------------------------------------------
(* The browser. *)

\* sendCurrentOperation on a connected stream.
SendOperation(a, op) ==
  /\ pendingSeq' = nextSeq
  /\ nextSeq' = nextSeq + 1
  /\ toAgent' = Append(toAgent, [op |-> op, id |-> a, seq |-> nextSeq])

Operation == [preparing |-> "prepare", committing |-> "commit", cancelling |-> "cancel"]

Settle(a, outcome) == told' = [told EXCEPT ![a] = outcome]

NoAction == action' = None /\ phase' = "none" /\ pendingSeq' = 0

Resumes_Slip == FALSE

\* connect resends the unfinished operation of the same session.
Resumes == action # None /\ session = generation' /\ phase # "prepared"

\* A new connection attaches and its SessionStatus arrives.  A changed session
\* fails the active action before the transport is connected; otherwise the
\* unfinished operation is sent again, with this connection's numbering.  An attempt
\* that fails, or that the Agent refuses because the last connection is still
\* attached, changes nothing here: the client has no stream and ignores the error.
\* The page stops after a refusal and after reconnectMaxAttempts, until the user
\* asks for a retry: those are the behaviours in which Connect is not taken again.
Connect ==
  /\ ~stream /\ ~attached
  /\ attached' = TRUE
  /\ applied' = 1
  /\ generation' = IF live THEN generation ELSE generation + 1
  /\ live' = TRUE
  /\ session' = generation'
  /\ stream' = TRUE
  /\ highestAck' = 1
  /\ toClient' = <<>>
  /\ \/ /\ action # None /\ session # generation'
        /\ Settle(action, "failed")
        /\ NoAction
        /\ nextSeq' = 2
        /\ toAgent' = <<>>
     \/ /\ Resumes
        /\ pendingSeq' = 2
        /\ nextSeq' = 3
        /\ toAgent' = <<[op |-> Operation[phase], id |-> action, seq |-> 2]>>
        /\ UNCHANGED <<action, phase, told>>
     \/ /\ ~Resumes /\ (action = None \/ session = generation')
        /\ nextSeq' = 2
        /\ toAgent' = <<>>
        /\ UNCHANGED <<action, phase, pendingSeq, told>>
  /\ UNCHANGED <<entries, pending, reply, written, voided, confirmed>>

\* disconnect: requests already sent may still reach the Agent.
Disconnect ==
  /\ stream
  /\ stream' = FALSE
  /\ pendingSeq' = 0
  /\ toClient' = <<>>
  /\ UNCHANGED <<registryVars, agentVars, nextSeq, highestAck, action, phase, session,
                 toAgent, auxVars>>

Prepare_Slip(a) ==
  /\ stream
  /\ told[a] = "nothing"
  /\ action' = a
  /\ phase' = "preparing"
  /\ SendOperation(a, "prepare")
  /\ UNCHANGED <<registryVars, agentVars, stream, highestAck, session, toClient, auxVars>>

\* prepare: a new action with a new id.
Prepare(a) ==
  /\ stream
  /\ action = None
  /\ told[a] = "nothing"
  /\ action' = a
  /\ phase' = "preparing"
  /\ SendOperation(a, "prepare")
  /\ UNCHANGED <<registryVars, agentVars, stream, highestAck, session, toClient, auxVars>>

\* startCompletion: the user confirms or cancels the preview.
Complete(next) ==
  /\ action # None
  /\ phase = "prepared"
  /\ phase' = next
  /\ confirmed' = IF next = "committing" THEN confirmed \cup {action} ELSE confirmed
  /\ IF stream THEN SendOperation(action, Operation[next])
     ELSE UNCHANGED <<pendingSeq, nextSeq, toAgent>>
  /\ UNCHANGED <<registryVars, agentVars, stream, highestAck, action, session,
                 toClient, written, voided, told>>

\* The unacknowledged completion of the action is covered by this message.
Completed(ack) == phase \in {"committing", "cancelling"} /\ pendingSeq > 0 /\ ack >= pendingSeq

IsPreview(m) == m.kind \in {"preview", "committed"}

\* The preview answers the prepare that is out.
Expected(m) ==
  phase = "preparing" /\ m.id = action /\ pendingSeq > 0 /\ m.ack >= pendingSeq

\* acceptAgentMessage.
Receive ==
  /\ stream
  /\ toClient # <<>>
  /\ toClient' = Tail(toClient)
  /\ LET m == Head(toClient)
     IN  /\ highestAck' = m.ack
         /\ \/ /\ m.kind = "error" \/ (m.kind = "exit" /\ ~Completed(m.ack))
               /\ action # None
               /\ Settle(action, "failed")
               /\ NoAction
            \/ /\ m.kind # "error" /\ Completed(m.ack)
               /\ Settle(action, IF phase = "committing" THEN "committed" ELSE "cancelled")
               /\ NoAction
            \/ /\ IsPreview(m) /\ action # None /\ ~Completed(m.ack)
               /\ IF Expected(m) /\ m.kind = "preview"
                  THEN phase' = "prepared" /\ pendingSeq' = 0 /\ UNCHANGED <<action, told>>
                  ELSE NoAction /\ Settle(action, IF Expected(m) THEN "committed" ELSE "failed")
            \/ /\ m.kind = "ack" \/ action = None
               /\ ~Completed(m.ack)
               /\ UNCHANGED <<action, phase, pendingSeq, told>>
  /\ UNCHANGED <<registryVars, agentVars, stream, nextSeq, session, toAgent,
                 written, voided, confirmed>>

Next ==
  \/ HandlePrepare \/ RefusePrepare \/ HandleCommit \/ CommitFails \/ RefuseCommit
  \/ HandleCancel \/ RefuseCancel \/ Answer \/ AnswerError \/ Detach \/ SessionEnds
  \/ Connect \/ Disconnect \/ Receive
  \/ \E a \in ActionId : Prepare(a)
  \/ \E next \in {"committing", "cancelling"} : Complete(next)

Spec == Init /\ [][Next]_vars

\* The browser notices that its connection was closed, and connections do not drop
\* before every request, nor before every reply, for ever.  No connection has to
\* be made: the page gives up.
Fairness ==
  /\ WF_vars(~attached /\ Disconnect)
  /\ SF_vars(stream /\ (HandlePrepare \/ RefusePrepare \/ HandleCommit \/ CommitFails
                         \/ RefuseCommit \/ HandleCancel \/ RefuseCancel))
  /\ SF_vars(stream /\ (Answer \/ AnswerError))
  /\ SF_vars(Receive)

FairSpec == Spec /\ Fairness

-----------------------------------------------------------------------------
(* Properties. *)

\* While the session lives, a preview always answers the prepare the client is
\* waiting for: resent prepares and late replies never trigger the client's
\* mismatch recovery.
PreviewExpected ==
  live => \A i \in 1..Len(toClient) :
    stream /\ IsPreview(toClient[i]) =>
      /\ action = toClient[i].id
      /\ i = 1 => Expected(toClient[i])

\* The written bytes, as the abstract specification sees them.
Fate(a) ==
  IF written[a] = 1 THEN "written"
  ELSE IF written[a] > 1 THEN "written twice"
  ELSE IF a \in voided THEN "void"
  ELSE "open"

Once == INSTANCE PromptOnce WITH fate <- [a \in ActionId |-> Fate(a)]

\* Registry and client together keep the promise of PromptOnce: written at most
\* once, only after confirmation, and the user is told the truth.
Promise == Once!Spec

\* An operation the client has started is settled, over any number of lost
\* connections and with the session ending in between; it stays open only when the
\* page is never connected again (connect, sendCurrentOperation, failAction,
\* scheduleReconnect).
OperationsSettle ==
  \A p \in {"preparing", "committing", "cancelling"} : phase = p ~> phase # p \/ []~stream
=============================================================================

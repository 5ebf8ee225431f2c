------------------------- MODULE PromptActionProofs -------------------------
(***************************************************************************)
(* Proofs about attachment prompt actions for any number of actions,       *)
(* sessions, connections and limits: a preview always answers the prepare  *)
(* the client is waiting for, and registry and client keep the promise of  *)
(* PromptOnce.  After the types and what a message does to the client come *)
(* Registered, which relates the registry of the current session to the    *)
(* bytes ever written, and what is under way between client and handler:   *)
(* Numbered orders the sequence numbers of one connection, Outstanding is  *)
(* what an acknowledgement that reaches a completion means, Truthful what  *)
(* a preview says of the bytes, and Awaited that every prepare and preview *)
(* under way is the one the client waits for.  Together they are the       *)
(* inductive invariant IInv; every step keeps them, and the theorems       *)
(* follow.                                                                 *)
(***************************************************************************)
EXTENDS PromptAction, TLAPS

\* A leaf is tried with Zenon, then with SMT, for at most so many seconds.
USE ZenonT(5), SMTT(20)

Requests == [op : {"prepare", "commit", "cancel"}, id : ActionId, seq : Nat]
Answers == {"preview", "committed", "ack"}
Messages == [kind : Answers \cup {"error", "exit"}, id : ActionId \cup {None}, ack : Nat]
Replies == [kind : Answers \cup {"error"}, id : ActionId, seq : Nat] \cup {NoReply}

TypeInv ==
  /\ entries \in [ActionId -> {"absent", "prepared", "committed", "cancelled", "failed"}]
  /\ pending \in Nat /\ generation \in Nat /\ live \in BOOLEAN
  /\ attached \in BOOLEAN /\ reply \in Replies /\ applied \in Nat
  /\ stream \in BOOLEAN /\ nextSeq \in Nat /\ pendingSeq \in Nat /\ session \in Nat
  /\ action \in ActionId \cup {None}
  /\ phase \in {"none", "preparing", "prepared", "committing", "cancelling"}
  /\ action = None <=> phase = "none"
  /\ toAgent \in Seq(Requests) /\ toClient \in Seq(Messages)
  /\ written \in [ActionId -> {0, 1}]
  /\ voided \in SUBSET ActionId /\ confirmed \in SUBSET ActionId
  /\ told \in [ActionId -> {"nothing", "committed", "cancelled", "failed"}]

-----------------------------------------------------------------------------
(* The registry.                                                           *)

\* Nothing of the action was ever written, and it can still be.
Fresh(a) == written[a] = 0 /\ a \notin voided

\* A request for the action is on its way.
Requested(a) == \E i \in 1..Len(toAgent) : toAgent[i].id = a

\* What one action's entry means, and when it can be without one: an action the
\* client is not done with, or has never begun, was not written in an earlier session.
EntryMeans(a) ==
  /\ entries[a] = "prepared" => Fresh(a)
  /\ entries[a] = "committed" => written[a] = 1
  /\ entries[a] = "cancelled" => a \in voided
  /\ a \in voided => written[a] = 0
  /\ live /\ entries[a] = "absent" /\ (a = action \/ Requested(a)) => Fresh(a)
  /\ told[a] = "nothing" /\ a # action => Fresh(a) /\ entries[a] = "absent" /\ ~Requested(a)

\* A commit is under way only after the user confirmed, and the client's action
\* belongs to the session it last saw, which is over when the next one begins.
Registered ==
  /\ \A a \in ActionId : EntryMeans(a)
  /\ \A i \in 1..Len(toAgent) : toAgent[i].op = "commit" => toAgent[i].id \in confirmed
  /\ phase = "committing" => action \in confirmed
  /\ action # None => told[action] = "nothing" /\ session = generation
  /\ stream => session = generation

-----------------------------------------------------------------------------
(* Queues.                                                                 *)

\* What the first message of a queue is, and where the others are after it is taken.
LEMMA Taken ==
  ASSUME NEW T, NEW s \in Seq(T), s # <<>>
  PROVE  /\ Head(s) = s[1] /\ s[1] \in T /\ Len(s) \in Nat /\ 1 \in 1..Len(s)
         /\ Tail(s) \in Seq(T) /\ Len(Tail(s)) = Len(s) - 1
         /\ \A i \in 1..Len(Tail(s)) : i + 1 \in 1..Len(s) /\ Tail(s)[i] = s[i + 1]
<1>1. Len(s) \in Nat \ {0}
  OBVIOUS
<1>2. Head(s) = s[1] /\ s[1] \in T
  BY <1>1
<1>. QED
  BY <1>1, <1>2

\* Where the messages of a queue are after one is put in.
LEMMA Put ==
  ASSUME NEW T, NEW s \in Seq(T), NEW e \in T
  PROVE  /\ Append(s, e) \in Seq(T) /\ Len(s) \in Nat /\ Len(Append(s, e)) = Len(s) + 1
         /\ Append(s, e)[Len(s) + 1] = e
         /\ \A i \in 1..Len(s) : Append(s, e)[i] = s[i]
         /\ \A i \in 1..Len(Append(s, e)) : i = Len(s) + 1 \/ i \in 1..Len(s)
  OBVIOUS

\* A queue with one message.
LEMMA Single ==
  ASSUME NEW T, NEW e \in T
  PROVE  /\ <<e>> \in Seq(T) /\ Len(<<e>>) = 1 /\ \A i \in 1..1 : <<e>>[i] = e
  OBVIOUS

-----------------------------------------------------------------------------
(* Types.                                                                  *)

LEMMA InitTypes == Init => TypeInv
<1>1. <<>> \in Seq(Requests) /\ <<>> \in Seq(Messages)
  OBVIOUS
<1>. SUFFICES ASSUME Init PROVE TypeInv
  OBVIOUS
<1>2. /\ entries \in [ActionId -> {"absent", "prepared", "committed", "cancelled", "failed"}]
      /\ written \in [ActionId -> {0, 1}]
      /\ told \in [ActionId -> {"nothing", "committed", "cancelled", "failed"}]
  BY DEF Init
<1>3. /\ reply \in Replies /\ toAgent \in Seq(Requests) /\ toClient \in Seq(Messages)
  BY <1>1 DEF Init, Replies
<1>. QED
  BY <1>2, <1>3 DEF Init, TypeInv

\* What the operation the handler runs has in hand, and what its reply is.
LEMMA RequestType ==
  ASSUME TypeInv, NEW op, HasRequest(op)
  PROVE  /\ Request \in Requests /\ Request = toAgent[1] /\ Request.op = op
         /\ Request.id \in ActionId /\ Request.seq \in Nat /\ attached /\ reply = NoReply
         /\ 1 \in 1..Len(toAgent) /\ Requested(Request.id)
         /\ Tail(toAgent) \in Seq(Requests)
<1>1. toAgent \in Seq(Requests) /\ toAgent # <<>>
  BY DEF TypeInv, HasRequest
<1>2. /\ Request = toAgent[1] /\ Request \in Requests /\ 1 \in 1..Len(toAgent)
      /\ Tail(toAgent) \in Seq(Requests)
  BY <1>1, Taken DEF Request
<1>3. Request.op = op /\ attached /\ reply = NoReply
  BY DEF HasRequest
<1>4. Request.id \in ActionId /\ Request.seq \in Nat
  BY <1>2 DEF Requests
<1>. QED
  BY <1>2, <1>3, <1>4 DEF Requested

LEMMA ReturnType ==
  ASSUME TypeInv, NEW op, HasRequest(op), NEW kind \in Answers \cup {"error"}, Return(kind)
  PROVE  /\ reply' \in Replies /\ toAgent' \in Seq(Requests)
         /\ reply' # NoReply /\ reply'.kind = kind
         /\ reply'.id = Request.id /\ reply'.seq = Request.seq
         /\ UNCHANGED <<attached, applied, toClient>>
<1>1. Request.id \in ActionId /\ Request.seq \in Nat /\ Tail(toAgent) \in Seq(Requests)
  BY RequestType
<1>2. kind # "none"
  BY DEF Answers
<1>. QED
  BY <1>1, <1>2 DEF Return, Replies, NoReply

LEMMA SendType ==
  ASSUME TypeInv, NEW kind \in Answers \cup {"error", "exit"}, NEW a \in ActionId \cup {None},
         NEW n \in Nat, Send(kind, a, n)
  PROVE  toClient' \in Seq(Messages)
<1>1. [kind |-> kind, id |-> a, ack |-> n] \in Messages
  BY DEF Messages
<1>2. toClient \in Seq(Messages)
  BY DEF TypeInv
<1>. QED
  BY <1>1, <1>2, Put DEF Send

LEMMA OperationType ==
  ASSUME TypeInv, NEW a \in ActionId, NEW op \in {"prepare", "commit", "cancel"}, SendOperation(a, op)
  PROVE  /\ toAgent' \in Seq(Requests) /\ pendingSeq' \in Nat /\ nextSeq' \in Nat
         /\ [op |-> op, id |-> a, seq |-> nextSeq] \in Requests
<1>1. [op |-> op, id |-> a, seq |-> nextSeq] \in Requests
  BY DEF Requests, TypeInv
<1>2. toAgent \in Seq(Requests)
  BY DEF TypeInv
<1>. QED
  BY <1>1, <1>2, Put DEF SendOperation, TypeInv

\* A handler's operation changes the registry and the reply, and nothing else.
LEMMA HandlerTypes ==
  ASSUME TypeInv, NEW op, HasRequest(op), NEW kind \in Answers \cup {"error"}, Return(kind),
         entries' \in [ActionId -> {"absent", "prepared", "committed", "cancelled", "failed"}],
         pending' \in Nat, written' \in [ActionId -> {0, 1}], voided' \in SUBSET ActionId,
         UNCHANGED <<generation, live, clientVars, confirmed, told>>
  PROVE  TypeInv'
  BY ReturnType DEF TypeInv, clientVars

\* The registry of a session and the bytes ever written.
LEMMA HandleTypes ==
  ASSUME TypeInv, Registered,
         \/ HandlePrepare \/ RefusePrepare \/ HandleCommit \/ CommitFails \/ RefuseCommit
         \/ HandleCancel \/ RefuseCancel
  PROVE  TypeInv'
<1>. DEFINE a == Request.id
<1>1. /\ entries \in [ActionId -> {"absent", "prepared", "committed", "cancelled", "failed"}]
      /\ pending \in Nat /\ written \in [ActionId -> {0, 1}] /\ voided \in SUBSET ActionId
  BY DEF TypeInv
<1>2. CASE HandlePrepare
  <2>1. HasRequest("prepare") /\ Return(IF entries[a] = "committed" THEN "committed" ELSE "preview")
    BY <1>2 DEF HandlePrepare
  <2>2. a \in ActionId
    BY <2>1, RequestType
  <2>3. /\ entries' \in [ActionId -> {"absent", "prepared", "committed", "cancelled", "failed"}]
        /\ pending' \in Nat /\ written' = written /\ voided' = voided
        /\ UNCHANGED <<generation, live, clientVars, confirmed, told>>
    BY <1>1, <1>2, <2>2 DEF HandlePrepare, auxVars
  <2>. QED
    BY <1>1, <2>1, <2>3, HandlerTypes DEF Answers
<1>3. CASE HandleCommit
  <2>1. HasRequest("commit") /\ Return("ack")
    BY <1>3 DEF HandleCommit
  <2>2. a \in ActionId
    BY <2>1, RequestType
  <2>3. entries[a] = "prepared" => written[a] = 0
    BY <2>2 DEF Registered, EntryMeans, Fresh
  <2>4. /\ entries' \in [ActionId -> {"absent", "prepared", "committed", "cancelled", "failed"}]
        /\ pending' \in Nat /\ written' \in [ActionId -> {0, 1}] /\ voided' = voided
        /\ UNCHANGED <<generation, live, clientVars, confirmed, told>>
    BY <1>1, <1>3, <2>2, <2>3 DEF HandleCommit, Finalize
  <2>. QED
    BY <1>1, <2>1, <2>4, HandlerTypes DEF Answers
<1>4. CASE CommitFails \/ HandleCancel
  <2>1. PICK op \in {"commit", "cancel"}, kind \in Answers \cup {"error"} :
          HasRequest(op) /\ Return(kind)
    BY <1>4 DEF CommitFails, HandleCancel, Answers
  <2>2. a \in ActionId
    BY <2>1, RequestType
  <2>3. /\ entries' \in [ActionId -> {"absent", "prepared", "committed", "cancelled", "failed"}]
        /\ pending' \in Nat /\ written' = written /\ voided' \in SUBSET ActionId
        /\ UNCHANGED <<generation, live, clientVars, confirmed, told>>
    BY <1>1, <1>4, <2>2 DEF CommitFails, HandleCancel, Finalize
  <2>. QED
    BY <1>1, <2>1, <2>3, HandlerTypes
<1>5. CASE RefusePrepare \/ RefuseCommit \/ RefuseCancel
  <2>1. PICK op : HasRequest(op) /\ Return("error")
    BY <1>5 DEF RefusePrepare, RefuseCommit, RefuseCancel
  <2>2. UNCHANGED <<entries, pending, written, voided, generation, live, clientVars, confirmed, told>>
    BY <1>5 DEF RefusePrepare, RefuseCommit, RefuseCancel, registryVars, auxVars
  <2>. QED
    BY <1>1, <2>1, <2>2, HandlerTypes
<1>. QED
  BY <1>2, <1>3, <1>4, <1>5

\* The answers, and the ends of connections and sessions.
LEMMA LinkTypes ==
  ASSUME TypeInv, Answer \/ AnswerError \/ Detach \/ SessionEnds \/ Disconnect
  PROVE  TypeInv'
<1>1. <<>> \in Seq(Requests) /\ <<>> \in Seq(Messages) /\ NoReply \in Replies /\ applied \in Nat
  BY DEF Replies, TypeInv
<1>2. reply # NoReply => reply.id \in ActionId /\ reply.seq \in Nat
  BY DEF TypeInv, Replies
<1>3. CASE Answer
  <2>1. /\ reply.kind \in Answers /\ Send(reply.kind, reply.id, reply.seq) /\ reply # NoReply
    BY <1>3 DEF Answer, Answers, NoReply
  <2>2. toClient' \in Seq(Messages)
    BY <1>2, <2>1, SendType
  <2>. QED
    BY <1>1, <1>2, <1>3, <2>1, <2>2 DEF Answer, TypeInv, registryVars, clientVars, auxVars
<1>4. CASE AnswerError
  <2>1. Send("error", reply.id, applied) /\ reply # NoReply
    BY <1>4 DEF AnswerError, NoReply
  <2>2. toClient' \in Seq(Messages)
    BY <1>1, <1>2, <2>1, SendType
  <2>. QED
    BY <1>1, <1>4, <2>2 DEF AnswerError, TypeInv, registryVars, clientVars, auxVars
<1>5. CASE Detach
  BY <1>1, <1>5 DEF Detach, TypeInv, registryVars, clientVars, auxVars
<1>6. CASE SessionEnds
  <2>1. toClient' \in Seq(Messages)
    <3>1. CASE attached
      BY <1>1, <1>6, <3>1, SendType DEF SessionEnds
    <3>. QED
      BY <1>6, <3>1 DEF SessionEnds, TypeInv
  <2>2. entries' \in [ActionId -> {"absent", "prepared", "committed", "cancelled", "failed"}]
    BY <1>6 DEF SessionEnds
  <2>. QED
    BY <1>6, <2>1, <2>2 DEF SessionEnds, TypeInv, agentVars, clientVars, auxVars
<1>7. CASE Disconnect
  BY <1>1, <1>7 DEF Disconnect, TypeInv, registryVars, agentVars, auxVars
<1>. QED
  BY <1>3, <1>4, <1>5, <1>6, <1>7

\* The browser.
LEMMA BrowserTypes ==
  ASSUME TypeInv, Registered,
         \/ Connect \/ Receive
         \/ \E a \in ActionId : Prepare(a)
         \/ \E next \in {"committing", "cancelling"} : Complete(next)
  PROVE  TypeInv'
<1>1. <<>> \in Seq(Requests) /\ <<>> \in Seq(Messages)
  OBVIOUS
<1>2. /\ action = None <=> phase = "none"
      /\ action \in ActionId \cup {None}
      /\ phase \in {"none", "preparing", "prepared", "committing", "cancelling"}
      /\ told \in [ActionId -> {"nothing", "committed", "cancelled", "failed"}]
      /\ generation \in Nat /\ session \in Nat
  BY DEF TypeInv
<1>3. CASE Connect
  <2>1. /\ generation' \in Nat /\ session' \in Nat /\ live' \in BOOLEAN /\ attached' \in BOOLEAN
        /\ stream' \in BOOLEAN /\ applied' \in Nat /\ toClient' \in Seq(Messages)
        /\ UNCHANGED <<entries, pending, reply, written, voided, confirmed>>
    BY <1>1, <1>2, <1>3 DEF Connect
  <2>2. /\ action' \in ActionId \cup {None}
        /\ phase' \in {"none", "preparing", "prepared", "committing", "cancelling"}
        /\ action' = None <=> phase' = "none"
        /\ pendingSeq' \in Nat /\ nextSeq' \in Nat
        /\ told' \in [ActionId -> {"nothing", "committed", "cancelled", "failed"}]
    BY <1>2, <1>3 DEF Connect, NoAction, Settle, TypeInv
  <2>3. toAgent' \in Seq(Requests)
    <3>1. CASE Resumes /\ toAgent' = <<[op |-> Operation[phase], id |-> action, seq |-> 2]>>
      <4>1. phase \in {"preparing", "committing", "cancelling"} /\ action \in ActionId
        BY <1>2, <3>1 DEF Resumes
      <4>2. [op |-> Operation[phase], id |-> action, seq |-> 2] \in Requests
        BY <4>1 DEF Operation, Requests
      <4>. QED
        BY <3>1, <4>2, Single
    <3>. QED
      BY <1>1, <1>3, <3>1 DEF Connect
  <2>. QED
    BY <2>1, <2>2, <2>3 DEF TypeInv
<1>4. CASE Receive
  <2>1. /\ action' \in ActionId \cup {None}
        /\ phase' \in {"none", "preparing", "prepared", "committing", "cancelling"}
        /\ action' = None <=> phase' = "none"
        /\ pendingSeq' \in Nat
        /\ told' \in [ActionId -> {"nothing", "committed", "cancelled", "failed"}]
    BY <1>2, <1>4 DEF Receive, NoAction, Settle, TypeInv, Completed, Expected
  <2>2. toClient' \in Seq(Messages)
    BY <1>4, Taken DEF Receive, TypeInv
  <2>. QED
    BY <1>4, <2>1, <2>2 DEF Receive, TypeInv, registryVars, agentVars
<1>5. ASSUME NEW a \in ActionId, Prepare(a) PROVE TypeInv'
  <2>1. toAgent' \in Seq(Requests) /\ pendingSeq' \in Nat /\ nextSeq' \in Nat
    BY <1>5, OperationType DEF Prepare
  <2>. QED
    BY <1>5, <2>1, NoneAssumption DEF Prepare, TypeInv, registryVars, agentVars, auxVars
<1>6. ASSUME NEW next \in {"committing", "cancelling"}, Complete(next) PROVE TypeInv'
  <2>1. action \in ActionId /\ Operation[next] \in {"prepare", "commit", "cancel"}
    BY <1>2, <1>6 DEF Complete, Operation
  <2>2. toAgent' \in Seq(Requests) /\ pendingSeq' \in Nat /\ nextSeq' \in Nat
    BY <1>6, <2>1, OperationType DEF Complete, TypeInv
  <2>. QED
    BY <1>6, <2>1, <2>2, NoneAssumption DEF Complete, TypeInv, registryVars, agentVars
<1>. QED
  BY <1>3, <1>4, <1>5, <1>6

LEMMA NextTypes == TypeInv /\ Registered /\ [Next]_vars => TypeInv'
<1>1. ASSUME TypeInv, UNCHANGED vars PROVE TypeInv'
  BY <1>1 DEF TypeInv, vars, registryVars, agentVars, clientVars, wireVars, auxVars
<1>. QED
  BY <1>1, HandleTypes, LinkTypes, BrowserTypes DEF Next

\* What a message does to the client: the action fails, its completion is settled,
\* its preview says that it was committed before, the preview is shown, or nothing.
Fails(m) ==
  /\ action # None /\ NoAction /\ Settle(action, "failed")
  /\ m.kind \in {"error", "exit"} \/ (IsPreview(m) /\ ~Expected(m))
Completes(m) ==
  /\ Completed(m.ack) /\ NoAction
  /\ Settle(action, IF phase = "committing" THEN "committed" ELSE "cancelled")
WasCommitted(m) ==
  /\ m.kind = "committed" /\ Expected(m) /\ action # None /\ NoAction /\ Settle(action, "committed")
Shown(m) ==
  /\ m.kind = "preview" /\ Expected(m)
  /\ phase' = "prepared" /\ pendingSeq' = 0 /\ UNCHANGED <<action, told>>
Ignored(m) ==
  /\ m.kind = "ack" \/ action = None
  /\ UNCHANGED <<action, phase, pendingSeq, told>>

LEMMA ReceiveCases ==
  ASSUME TypeInv, Receive
  PROVE  /\ stream /\ toClient # <<>> /\ toClient' = Tail(toClient)
         /\ UNCHANGED <<registryVars, agentVars, stream, nextSeq, session, toAgent, written, voided, confirmed>>
         /\ \E m \in Messages :
              /\ m = toClient[1]
              /\ Fails(m) \/ Completes(m) \/ WasCommitted(m) \/ Shown(m) \/ Ignored(m)
<1>1. /\ stream /\ toClient # <<>> /\ toClient' = Tail(toClient)
      /\ UNCHANGED <<registryVars, agentVars, stream, nextSeq, session, toAgent, written, voided, confirmed>>
  BY DEF Receive
<1>2. PICK m \in Messages : m = toClient[1] /\ m = Head(toClient)
  BY <1>1, Taken DEF TypeInv
<1>3. CASE (m.kind = "error" \/ (m.kind = "exit" /\ ~Completed(m.ack)))
           /\ action # None /\ Settle(action, "failed") /\ NoAction
  BY <1>1, <1>2, <1>3 DEF Fails
<1>4. CASE m.kind # "error" /\ Completed(m.ack) /\ NoAction
           /\ Settle(action, IF phase = "committing" THEN "committed" ELSE "cancelled")
  BY <1>1, <1>2, <1>4 DEF Completes
<1>5. CASE /\ IsPreview(m) /\ action # None /\ ~Completed(m.ack)
           /\ IF Expected(m) /\ m.kind = "preview"
              THEN phase' = "prepared" /\ pendingSeq' = 0 /\ UNCHANGED <<action, told>>
              ELSE NoAction /\ Settle(action, IF Expected(m) THEN "committed" ELSE "failed")
  BY <1>1, <1>2, <1>5 DEF Fails, WasCommitted, Shown, IsPreview
<1>6. CASE (m.kind = "ack" \/ action = None) /\ UNCHANGED <<action, phase, pendingSeq, told>>
  BY <1>1, <1>2, <1>6 DEF Ignored
<1>. QED
  BY <1>2, <1>3, <1>4, <1>5, <1>6 DEF Receive

-----------------------------------------------------------------------------
(* The registry and the bytes.                                             *)

LEMMA InitRegistered == Init => Registered
  BY DEF Init, Registered, EntryMeans, Fresh, Requested

\* A step that makes no request.
NoNewRequest == \A i \in 1..Len(toAgent') : \E j \in 1..Len(toAgent) : toAgent'[i] = toAgent[j]

LEMMA TakesRequest ==
  ASSUME TypeInv, NEW op, HasRequest(op), NEW kind, Return(kind)
  PROVE  NoNewRequest
<1>1. toAgent \in Seq(Requests) /\ toAgent # <<>> /\ toAgent' = Tail(toAgent)
  BY DEF TypeInv, HasRequest, Return
<1>. QED
  BY <1>1, Taken DEF NoNewRequest

\* An entry means what it did when nothing of the action changes.
LEMMA EntryStays ==
  ASSUME Registered, NoNewRequest, action' \in {action, None}, NEW b \in ActionId,
         live' => live, told'[b] = "nothing" => told[b] = "nothing" /\ (b = action => b = action'),
         entries'[b] = entries[b], written'[b] = written[b], b \in voided' <=> b \in voided
  PROVE  EntryMeans(b)'
<1>1. EntryMeans(b)
  BY DEF Registered
<1>2. Requested(b)' => Requested(b)
  BY DEF Requested, NoNewRequest
<1>3. Fresh(b)' <=> Fresh(b)
  BY DEF Fresh
<1>4. b = action' => b = action
  BY NoneAssumption
<1>. QED
  BY <1>1, <1>2, <1>3, <1>4 DEF EntryMeans

LEMMA HandleRegistered ==
  ASSUME TypeInv, Registered,
         \/ HandlePrepare \/ RefusePrepare \/ HandleCommit \/ CommitFails \/ RefuseCommit
         \/ HandleCancel \/ RefuseCancel
  PROVE  Registered'
<1>1. PICK op \in {"prepare", "commit", "cancel"}, kind \in Answers \cup {"error"} :
        HasRequest(op) /\ Return(kind)
  BY DEF HandlePrepare, RefusePrepare, HandleCommit, CommitFails, RefuseCommit, HandleCancel, RefuseCancel,
     Answers
<1>2. PICK a \in ActionId : a = Request.id /\ Requested(a) /\ EntryMeans(a)
  BY <1>1, RequestType DEF Registered
<1>3. NoNewRequest
  BY <1>1, TakesRequest
<1>4. UNCHANGED <<action, phase, told, session, generation, confirmed, stream, live>>
  BY DEF HandlePrepare, RefusePrepare, HandleCommit, CommitFails, RefuseCommit, HandleCancel, RefuseCancel,
     clientVars, auxVars, registryVars
<1>5. /\ \A b \in ActionId \ {a} :
           entries'[b] = entries[b] /\ written'[b] = written[b] /\ (b \in voided' <=> b \in voided)
      /\ \/ entries'[a] = entries[a] /\ written'[a] = written[a] /\ (a \in voided' <=> a \in voided)
         \/ live /\ entries[a] = "absent" /\ entries'[a] = "prepared"
            /\ written'[a] = written[a] /\ voided' = voided
         \/ entries[a] = "prepared" /\ entries'[a] = "committed" /\ written'[a] = written[a] + 1
            /\ voided' = voided
         \/ entries[a] \in {"prepared", "cancelled"} /\ entries'[a] \in {"failed", "cancelled"}
            /\ written' = written /\ voided' = voided \cup {a}
  <2>1. /\ entries \in [ActionId -> {"absent", "prepared", "committed", "cancelled", "failed"}]
        /\ written \in [ActionId -> {0, 1}]
    BY DEF TypeInv
  <2>2. CASE HandlePrepare
    BY <1>2, <2>1, <2>2 DEF HandlePrepare, auxVars
  <2>3. CASE HandleCommit
    BY <1>2, <2>1, <2>3 DEF HandleCommit, Finalize
  <2>4. CASE CommitFails \/ HandleCancel
    BY <1>2, <2>1, <2>4 DEF CommitFails, HandleCancel, Finalize
  <2>5. CASE RefusePrepare \/ RefuseCommit \/ RefuseCancel
    BY <2>5 DEF RefusePrepare, RefuseCommit, RefuseCancel, registryVars, auxVars
  <2>. QED
    BY <2>2, <2>3, <2>4, <2>5
<1>6. \A b \in ActionId \ {a} : EntryMeans(b)'
  BY <1>3, <1>4, <1>5, EntryStays
<1>7. EntryMeans(a)'
  <2>1. CASE entries'[a] = entries[a] /\ written'[a] = written[a] /\ (a \in voided' <=> a \in voided)
    BY <1>2, <1>3, <1>4, <2>1, EntryStays
  <2>2. told[a] = "nothing" => a = action
    BY <1>2 DEF EntryMeans
  <2>. QED
    BY <1>2, <1>4, <1>5, <2>1, <2>2 DEF EntryMeans, Fresh
<1>. QED
  BY <1>3, <1>4, <1>6, <1>7 DEF Registered, NoNewRequest

LEMMA LinkRegistered ==
  ASSUME TypeInv, Registered, Answer \/ AnswerError \/ Detach \/ SessionEnds \/ Disconnect \/ Receive
  PROVE  Registered'
<1>1. NoNewRequest
  <2>1. toAgent' = toAgent \/ toAgent' = <<>>
    BY DEF Answer, AnswerError, Detach, SessionEnds, Disconnect, Receive
  <2>. QED
    BY <2>1 DEF NoNewRequest
<1>2. UNCHANGED <<generation, written, voided, confirmed, session>> /\ (live' => live) /\ (stream' => stream)
  <2>1. CASE Answer \/ AnswerError \/ Detach
    BY <2>1 DEF Answer, AnswerError, Detach, registryVars, clientVars, auxVars
  <2>2. CASE SessionEnds \/ Disconnect
    BY <2>2 DEF SessionEnds, Disconnect, registryVars, clientVars, auxVars
  <2>3. CASE Receive
    BY <2>3, ReceiveCases DEF registryVars
  <2>. QED
    BY <2>1, <2>2, <2>3
<1>3. CASE Answer \/ AnswerError \/ Detach \/ Disconnect
  <2>1. UNCHANGED <<entries, action, told, phase>>
    BY <1>3 DEF Answer, AnswerError, Detach, Disconnect, registryVars, clientVars, auxVars
  <2>2. \A b \in ActionId : EntryMeans(b)'
    BY <1>1, <1>2, <2>1, EntryStays
  <2>. QED
    BY <1>1, <1>2, <2>1, <2>2 DEF Registered, NoNewRequest
<1>4. CASE SessionEnds
  <2>1. /\ UNCHANGED <<action, told, phase, toAgent>> /\ ~live'
        /\ \A b \in ActionId : entries'[b] = "absent"
    BY <1>4 DEF SessionEnds, clientVars, auxVars
  <2>2. \A b \in ActionId : EntryMeans(b)'
    <3>. SUFFICES ASSUME NEW b \in ActionId PROVE EntryMeans(b)'
      OBVIOUS
    <3>1. EntryMeans(b)
      BY DEF Registered
    <3>2. Fresh(b)' = Fresh(b) /\ Requested(b)' = Requested(b)
      BY <1>2, <2>1 DEF Fresh, Requested
    <3>. QED
      BY <1>2, <2>1, <3>1, <3>2 DEF EntryMeans
  <2>. QED
    BY <1>2, <2>1, <2>2 DEF Registered
<1>5. CASE Receive
  <2>1. UNCHANGED <<entries, live, toAgent>>
    BY <1>5 DEF Receive, registryVars
  <2>2. \/ action' = action /\ told' = told /\ phase' \in {phase, "prepared"}
        \/ /\ action # None /\ action' = None /\ phase' = "none"
           /\ \E outcome \in {"failed", "committed", "cancelled"} : Settle(action, outcome)
    BY <1>5, ReceiveCases DEF Fails, Completes, Completed, WasCommitted, Shown, Ignored, NoAction, TypeInv
  <2>3. /\ action' \in {action, None}
        /\ \A b \in ActionId : told'[b] = "nothing" => told[b] = "nothing" /\ (b = action => b = action')
    BY <2>2 DEF Settle, TypeInv
  <2>4. \A b \in ActionId : EntryMeans(b)'
    BY <1>1, <1>2, <2>1, <2>3, EntryStays
  <2>. QED
    BY <1>1, <1>2, <2>1, <2>2, <2>4 DEF Registered, NoNewRequest
<1>. QED
  BY <1>3, <1>4, <1>5

LEMMA ConnectRegistered == ASSUME TypeInv, Registered, Connect PROVE Registered'
<1>1. /\ UNCHANGED <<entries, written, voided, confirmed>> /\ live' /\ stream' /\ session' = generation'
      /\ generation' = (IF live THEN generation ELSE generation + 1)
  BY DEF Connect
<1>2. \/ /\ toAgent' = <<>> /\ action' = None /\ phase' = "none" /\ told'[action] = "failed"
         /\ action \in ActionId
         /\ \A b \in ActionId \ {action} : told'[b] = told[b]
      \/ /\ UNCHANGED <<action, phase, told>> /\ (action # None => live)
         /\ \/ toAgent' = <<>>
            \/ /\ action \in ActionId
               /\ Operation[phase] = "commit" => phase = "committing"
               /\ toAgent' = <<[op |-> Operation[phase], id |-> action, seq |-> 2]>>
  <2>1. action # None => session = generation
    BY DEF Registered
  <2>2. CASE action # None /\ session # generation' /\ Settle(action, "failed") /\ NoAction /\ toAgent' = <<>>
    BY <2>2 DEF TypeInv, Settle, NoAction
  <2>3. CASE /\ Resumes /\ toAgent' = <<[op |-> Operation[phase], id |-> action, seq |-> 2]>>
             /\ UNCHANGED <<action, phase, told>>
    <3>1. action \in ActionId /\ phase \in {"preparing", "committing", "cancelling"} /\ live
      BY <1>1, <2>1, <2>3 DEF TypeInv, Resumes
    <3>. QED
      BY <2>3, <3>1 DEF Operation
  <2>4. CASE (action = None \/ session = generation') /\ toAgent' = <<>> /\ UNCHANGED <<action, phase, told>>
    BY <1>1, <2>1, <2>4 DEF TypeInv
  <2>. QED
    BY <2>2, <2>3, <2>4 DEF Connect
<1>3. \A i \in 1..Len(toAgent') : toAgent'[i].id = action /\ action' = action /\ live
  <2>1. CASE toAgent' = <<>>
    BY <2>1
  <2>2. CASE /\ action \in ActionId /\ UNCHANGED action /\ live
             /\ toAgent' = <<[op |-> Operation[phase], id |-> action, seq |-> 2]>>
    BY <2>2
  <2>. QED
    BY <1>2, <2>1, <2>2, NoneAssumption
<1>4. ASSUME NEW b \in ActionId PROVE EntryMeans(b)'
  <2>1. EntryMeans(b) /\ (Fresh(b)' <=> Fresh(b))
    BY <1>1 DEF Registered, Fresh
  <2>2. Requested(b)' => b = action /\ b = action' /\ live
    BY <1>3 DEF Requested
  <2>3. (b = action' => b = action /\ live) /\ (told'[b] = "nothing" => told[b] = "nothing" /\ (b = action => b = action'))
    BY <1>2, NoneAssumption
  <2>. QED
    BY <1>1, <2>1, <2>2, <2>3 DEF EntryMeans
<1>5. phase = "committing" => action \in confirmed
  BY DEF Registered
<1>6. \A i \in 1..Len(toAgent') : toAgent'[i].op = "commit" => toAgent'[i].id \in confirmed'
  <2>1. CASE toAgent' = <<>>
    BY <2>1
  <2>2. CASE /\ Operation[phase] = "commit" => phase = "committing"
             /\ toAgent' = <<[op |-> Operation[phase], id |-> action, seq |-> 2]>>
    BY <1>1, <1>5, <2>2
  <2>. QED
    BY <1>2, <2>1, <2>2
<1>7. /\ phase' = "committing" => action' \in confirmed'
      /\ action' # None => told'[action'] = "nothing" /\ session' = generation'
  BY <1>1, <1>2, <1>5 DEF Registered
<1>. QED
  BY <1>1, <1>4, <1>6, <1>7 DEF Registered

LEMMA OperationRegistered ==
  ASSUME TypeInv, Registered,
         \/ \E a \in ActionId : Prepare(a)
         \/ \E next \in {"committing", "cancelling"} : Complete(next)
  PROVE  Registered'
<1>1. PICK a \in ActionId, op \in {"prepare", "commit", "cancel"} :
        /\ action' = a /\ told[a] = "nothing" /\ (action = None \/ action = a)
        /\ EntryMeans(a) /\ (action = None => Fresh(a))
        /\ toAgent' = toAgent \/ SendOperation(a, op)
        /\ op = "commit" => a \in confirmed'
        /\ phase' = "committing" => a \in confirmed'
        /\ confirmed \subseteq confirmed'
  <2>1. CASE \E a \in ActionId : Prepare(a)
    <3>1. PICK a \in ActionId : Prepare(a)
      BY <2>1
    <3>2. told[a] = "nothing" /\ action' = a /\ action = None /\ confirmed' = confirmed /\ phase' = "preparing"
          /\ SendOperation(a, "prepare")
      BY <3>1 DEF Prepare, auxVars
    <3>3. EntryMeans(a) /\ a # None
      BY NoneAssumption DEF Registered
    <3>4. Fresh(a)
      BY <3>2, <3>3 DEF EntryMeans
    <3>. QED
      BY <3>2, <3>3, <3>4
  <2>2. CASE \E next \in {"committing", "cancelling"} : Complete(next)
    <3>1. PICK next \in {"committing", "cancelling"} : Complete(next)
      BY <2>2
    <3>2. PICK op \in {"prepare", "commit", "cancel"} : op = Operation[next] /\ (op = "commit" => next = "committing")
      BY DEF Operation
    <3>3. action \in ActionId /\ action' = action /\ told[action] = "nothing"
      BY <3>1 DEF Complete, TypeInv, Registered
    <3>. QED
      BY <3>1, <3>2, <3>3, NoneAssumption DEF Complete, Registered
  <2>. QED
    BY <2>1, <2>2
<1>2. UNCHANGED <<entries, generation, live, stream, session, written, voided, told>> /\ stream = stream'
  BY DEF Prepare, Complete, registryVars, auxVars
<1>3. \A i \in 1..Len(toAgent') :
        (\E j \in 1..Len(toAgent) : toAgent'[i] = toAgent[j]) \/ (toAgent'[i].id = a /\ toAgent'[i].op = op)
  <2>1. CASE toAgent' = toAgent
    BY <2>1
  <2>2. CASE SendOperation(a, op)
    <3>1. [op |-> op, id |-> a, seq |-> nextSeq] \in Requests /\ toAgent \in Seq(Requests)
      BY DEF TypeInv, Requests
    <3>. QED
      BY <2>2, <3>1, Put DEF SendOperation
  <2>. QED
    BY <1>1, <2>1, <2>2
<1>4. ASSUME NEW b \in ActionId PROVE EntryMeans(b)'
  <2>1. EntryMeans(b) /\ (Fresh(b)' <=> Fresh(b))
    BY <1>2 DEF Registered, Fresh
  <2>2. Requested(b)' => Requested(b) \/ b = a
    BY <1>3 DEF Requested
  <2>3. b = a => (live /\ entries[b] = "absent" => Fresh(b))
    BY <1>1, NoneAssumption DEF EntryMeans
  <2>4. b # action' => b # action
    BY <1>1, NoneAssumption
  <2>. QED
    BY <1>1, <1>2, <2>1, <2>2, <2>3, <2>4 DEF EntryMeans
<1>5. action' # None => told'[action'] = "nothing" /\ session' = generation'
  BY <1>1, <1>2 DEF Registered, Prepare, Complete
<1>. QED
  BY <1>1, <1>2, <1>3, <1>4, <1>5 DEF Registered

LEMMA NextRegistered == TypeInv /\ Registered /\ [Next]_vars => Registered'
<1>1. ASSUME Registered, UNCHANGED vars PROVE Registered'
  BY <1>1 DEF Registered, EntryMeans, Fresh, Requested, vars, registryVars, agentVars, clientVars, wireVars,
     auxVars
<1>. QED
  BY <1>1, HandleRegistered, LinkRegistered, ConnectRegistered, OperationRegistered DEF Next

-----------------------------------------------------------------------------
(* The numbers of one connection.                                          *)

Numbered ==
  /\ ~attached => reply = NoReply
  /\ ~stream => pendingSeq = 0 /\ toClient = <<>>
  /\ phase \in {"none", "prepared"} => pendingSeq = 0
  /\ applied < nextSeq /\ reply.seq < nextSeq /\ pendingSeq < nextSeq
  /\ reply # NoReply => applied < reply.seq
  /\ \A i \in 1..Len(toAgent) :
       /\ reply.seq < toAgent[i].seq /\ applied < toAgent[i].seq /\ toAgent[i].seq < nextSeq
       /\ \A j \in 1..Len(toAgent) : i < j => toAgent[i].seq < toAgent[j].seq
  /\ \A i \in 1..Len(toClient) :
       /\ toClient[i].ack <= applied
       /\ \A j \in 1..Len(toClient) :
            i < j /\ toClient[j].kind \in Answers => toClient[i].ack < toClient[j].ack

\* The completion the client waits for has taken place.
Effect == IF phase = "committing" THEN written[action] = 1 ELSE action \in voided

\* Until then no number that reaches it is on the way back, and a request that
\* carries one is the completion itself.
Outstanding ==
  phase \in {"committing", "cancelling"} /\ pendingSeq > 0 /\ ~Effect =>
    /\ \A i \in 1..Len(toClient) : toClient[i].ack < pendingSeq
    /\ attached => applied < pendingSeq
    /\ reply.kind \in Answers => reply.seq < pendingSeq
    /\ \A i \in 1..Len(toAgent) : toAgent[i].seq >= pendingSeq =>
         toAgent[i] = [op |-> Operation[phase], id |-> action, seq |-> pendingSeq]

\* A preview that says "committed" speaks of bytes that were written.
Truthful ==
  /\ reply.kind = "committed" => written[reply.id] = 1
  /\ \A i \in 1..Len(toClient) : toClient[i].kind = "committed" =>
       toClient[i].id \in ActionId /\ written[toClient[i].id] = 1

-----------------------------------------------------------------------------
(* Prepares and previews.                                                  *)

Waiting(a, n) == phase = "preparing" /\ action = a /\ pendingSeq = n /\ n > 0

Awaited ==
  /\ live /\ stream =>
       /\ \A i \in 1..Len(toClient) :
            /\ IsPreview(toClient[i]) => Waiting(toClient[i].id, toClient[i].ack)
            /\ toClient[i].kind = "error" => ~attached /\ i = Len(toClient)
            /\ toClient[i].kind # "exit"
       /\ attached =>
            /\ IsPreview(reply) => Waiting(reply.id, reply.seq)
            /\ \A i \in 1..Len(toAgent) :
                 toAgent[i].op = "prepare" => Waiting(toAgent[i].id, toAgent[i].seq)

IInv == TypeInv /\ Registered /\ Numbered /\ Outstanding /\ Truthful /\ Awaited

-----------------------------------------------------------------------------
(* What the steps of the handler and of the client have in common.         *)

\* The request r is taken and answered with the reply of the given kind.
Handled(r, kind) ==
  /\ r = toAgent[1] /\ 1 \in 1..Len(toAgent)
  /\ \A i \in 1..Len(toAgent') : i + 1 \in 1..Len(toAgent) /\ toAgent'[i] = toAgent[i + 1]
  /\ attached /\ reply = NoReply
  /\ reply' # NoReply /\ reply'.kind = kind /\ reply'.id = r.id /\ reply'.seq = r.seq
  /\ UNCHANGED <<attached, applied, toClient, live, stream, nextSeq, action, phase, pendingSeq>>
  /\ \A b \in ActionId : written[b] = 1 => written'[b] = 1
  /\ voided \subseteq voided'
  /\ \/ kind = "error"
     \/ r.op = "prepare" /\ kind = "preview"
     \/ r.op = "prepare" /\ kind = "committed" /\ written'[r.id] = 1
     \/ r.op = "commit" /\ kind = "ack" /\ written'[r.id] = 1
     \/ r.op = "cancel" /\ kind = "ack" /\ r.id \in voided'

LEMMA HandleStep ==
  ASSUME TypeInv, Registered,
         \/ HandlePrepare \/ RefusePrepare \/ HandleCommit \/ CommitFails \/ RefuseCommit
         \/ HandleCancel \/ RefuseCancel
  PROVE  \E r \in Requests, kind \in Answers \cup {"error"} : Handled(r, kind)
<1>1. PICK op \in {"prepare", "commit", "cancel"}, kind \in Answers \cup {"error"} :
        /\ HasRequest(op) /\ Return(kind)
        /\ \/ kind = "error"
           \/ op = "prepare" /\ kind = "preview"
           \/ op = "prepare" /\ kind = "committed" /\ entries[Request.id] = "committed" /\ UNCHANGED written
           \/ op = "commit" /\ kind = "ack" /\ HandleCommit
           \/ op = "cancel" /\ kind = "ack" /\ Request.id \in voided'
  <2>1. CASE HandlePrepare
    BY <2>1 DEF HandlePrepare, Answers, auxVars
  <2>2. CASE HandleCommit
    BY <2>2 DEF HandleCommit, Answers
  <2>3. CASE HandleCancel
    BY <2>3 DEF HandleCancel, Answers
  <2>4. CASE RefusePrepare \/ CommitFails \/ RefuseCommit \/ RefuseCancel
    BY <2>4 DEF RefusePrepare, CommitFails, RefuseCommit, RefuseCancel
  <2>. QED
    BY <2>1, <2>2, <2>3, <2>4
<1>2. PICK r \in Requests :
        /\ r = Request /\ r = toAgent[1] /\ r.op = op /\ r.id \in ActionId /\ 1 \in 1..Len(toAgent)
        /\ attached /\ reply = NoReply /\ EntryMeans(r.id)
  BY <1>1, RequestType DEF Registered
<1>3. \A i \in 1..Len(toAgent') : i + 1 \in 1..Len(toAgent) /\ toAgent'[i] = toAgent[i + 1]
  <2>1. toAgent \in Seq(Requests) /\ toAgent # <<>> /\ toAgent' = Tail(toAgent)
    BY <1>1 DEF TypeInv, HasRequest, Return
  <2>. QED
    BY <2>1, Taken
<1>4. /\ reply' # NoReply /\ reply'.kind = kind /\ reply'.id = r.id /\ reply'.seq = r.seq
      /\ UNCHANGED <<attached, applied, toClient>>
  BY <1>1, <1>2, ReturnType
<1>5. UNCHANGED <<live, stream, nextSeq, action, phase, pendingSeq>>
  <2>1. CASE HandlePrepare \/ RefusePrepare \/ RefuseCommit \/ RefuseCancel
    BY <2>1 DEF HandlePrepare, RefusePrepare, RefuseCommit, RefuseCancel, clientVars, registryVars
  <2>2. CASE HandleCommit \/ CommitFails \/ HandleCancel
    BY ZenonT(30), <2>2 DEF HandleCommit, CommitFails, HandleCancel, clientVars
  <2>. QED
    BY <2>1, <2>2
<1>6. /\ \A b \in ActionId : written[b] = 1 => written'[b] = 1
      /\ HandleCommit => written'[r.id] = 1
  <2>1. written \in [ActionId -> {0, 1}] /\ r.id \in ActionId /\ r.id = Request.id
    BY <1>2 DEF TypeInv
  <2>2. CASE UNCHANGED written /\ ~HandleCommit
    BY <2>2
  <2>3. CASE HandleCommit
    <3>1. \/ entries[r.id] = "prepared" /\ written' = [written EXCEPT ![r.id] = @ + 1]
          \/ entries[r.id] = "committed" /\ written' = written
      BY <2>1, <2>3 DEF HandleCommit
    <3>2. CASE entries[r.id] = "prepared" /\ written' = [written EXCEPT ![r.id] = @ + 1]
      <4>1. written[r.id] = 0
        BY <1>2, <3>2 DEF EntryMeans, Fresh
      <4>. QED
        BY <2>1, <3>2, <4>1
    <3>3. CASE entries[r.id] = "committed" /\ written' = written
      BY <1>2, <3>3 DEF EntryMeans
    <3>. QED
      BY <3>1, <3>2, <3>3
  <2>. QED
    BY <2>2, <2>3 DEF HandlePrepare, RefusePrepare, CommitFails, RefuseCommit, HandleCancel, RefuseCancel, auxVars
<1>7. voided \subseteq voided'
  <2>1. CASE HandlePrepare \/ RefusePrepare \/ RefuseCommit \/ RefuseCancel
    BY <2>1 DEF HandlePrepare, RefusePrepare, RefuseCommit, RefuseCancel, auxVars
  <2>2. CASE HandleCommit \/ CommitFails \/ HandleCancel
    BY <2>2 DEF HandleCommit, CommitFails, HandleCancel
  <2>. QED
    BY <2>1, <2>2
<1>8. Handled(r, kind)
  BY <1>1, <1>2, <1>3, <1>4, <1>5, <1>6, <1>7 DEF Handled, EntryMeans
<1>. QED
  BY <1>8

\* A message sent is the last one, and nothing is sent to a client that is gone.
Sent(kind, id, ack) ==
  \/ ~stream /\ toClient' = toClient
  \/ /\ stream /\ Len(toClient') = Len(toClient) + 1 /\ Len(toClient) \in Nat
     /\ toClient'[Len(toClient')].kind = kind
     /\ toClient'[Len(toClient')].id = id
     /\ toClient'[Len(toClient')].ack = ack
     /\ \A i \in 1..Len(toClient') :
          i = Len(toClient') \/ (i \in 1..Len(toClient) /\ toClient'[i] = toClient[i])

LEMMA SendStep ==
  ASSUME TypeInv, NEW kind \in Answers \cup {"error", "exit"}, NEW id \in ActionId \cup {None}, NEW ack \in Nat,
         Send(kind, id, ack)
  PROVE  Sent(kind, id, ack)
<1>1. toClient \in Seq(Messages) /\ [kind |-> kind, id |-> id, ack |-> ack] \in Messages
  BY DEF TypeInv, Messages
<1>. QED
  BY <1>1, Put DEF Send, Sent

\* The numbers under way are natural numbers.
LEMMA Numbers ==
  ASSUME TypeInv
  PROVE  /\ applied \in Nat /\ nextSeq \in Nat /\ pendingSeq \in Nat /\ reply.seq \in Nat
         /\ NoReply.seq = 0 /\ NoReply.kind = "none"
         /\ reply # NoReply => reply.id \in ActionId /\ reply.kind \in Answers \cup {"error"}
         /\ Len(toAgent) \in Nat /\ Len(toClient) \in Nat
         /\ \A i \in 1..Len(toAgent) : toAgent[i] \in Requests /\ toAgent[i].seq \in Nat
         /\ \A i \in 1..Len(toClient) : toClient[i] \in Messages /\ toClient[i].ack \in Nat
<1>1. NoReply.seq = 0 /\ NoReply.kind = "none"
  BY DEF NoReply
<1>2. reply.seq \in Nat /\ (reply # NoReply => reply.id \in ActionId /\ reply.kind \in Answers \cup {"error"})
  BY <1>1 DEF TypeInv, Replies
<1>3. \A i \in 1..Len(toAgent) : toAgent[i] \in Requests
  BY DEF TypeInv
<1>4. \A i \in 1..Len(toClient) : toClient[i] \in Messages
  BY DEF TypeInv
<1>. QED
  BY <1>1, <1>2, <1>3, <1>4 DEF TypeInv, Requests, Messages


-----------------------------------------------------------------------------
(* The steps keep the numbers, the effects and the prepares in order.      *)

Ordered == Numbered /\ Outstanding /\ Truthful /\ Awaited

LEMMA InitOrdered == Init => Ordered
  BY DEF Init, Ordered, Numbered, Outstanding, Truthful, Awaited, NoReply, Answers, IsPreview

LEMMA HandleOrdered ==
  ASSUME TypeInv, Ordered, NEW r \in Requests, NEW kind \in Answers \cup {"error"}, Handled(r, kind)
  PROVE  Ordered'
<1>1. Numbered'
  <2>1. Numbered /\ r.seq \in Nat /\ applied < r.seq /\ r.seq < nextSeq
    BY Numbers DEF Ordered, Numbered, Handled
  <2>2. \A i \in 1..Len(toAgent') :
          /\ r.seq < toAgent'[i].seq /\ applied < toAgent'[i].seq /\ toAgent'[i].seq < nextSeq
          /\ \A j \in 1..Len(toAgent') : i < j => toAgent'[i].seq < toAgent'[j].seq
    <3>1. \A i \in 1..Len(toAgent') : /\ i \in Nat /\ 1 < i + 1 /\ i + 1 \in 1..Len(toAgent)
                                      /\ toAgent'[i] = toAgent[i + 1]
      BY DEF Handled
    <3>2. \A i, j \in 1..Len(toAgent') : i < j => i + 1 < j + 1
      BY <3>1
    <3>3. \A i, j \in 1..Len(toAgent) : i < j => toAgent[i].seq < toAgent[j].seq
      BY <2>1 DEF Numbered
    <3>4. \A i \in 1..Len(toAgent) : applied < toAgent[i].seq /\ toAgent[i].seq < nextSeq
      BY <2>1 DEF Numbered
    <3>5. r = toAgent[1] /\ 1 \in 1..Len(toAgent)
      BY DEF Handled
    <3>. QED
      BY <3>1, <3>2, <3>3, <3>4, <3>5
  <2>3. /\ attached /\ reply' # NoReply /\ reply'.seq = r.seq
        /\ UNCHANGED <<attached, applied, toClient, stream, nextSeq, phase, pendingSeq>>
    BY DEF Handled
  <2>. QED
    BY <2>1, <2>2, <2>3 DEF Numbered
<1>2. Outstanding'
  <2>. SUFFICES ASSUME phase \in {"committing", "cancelling"}, pendingSeq > 0, ~Effect'
       PROVE  Outstanding'
    BY DEF Outstanding, Handled
  <2>1. action \in ActionId
    BY DEF TypeInv
  <2>2. ~Effect
    BY <2>1 DEF Effect, Handled
  <2>3. Outstanding /\ phase' = phase /\ action' = action /\ pendingSeq' = pendingSeq
    BY DEF Ordered, Handled
  <2>4. kind \in Answers => r.seq < pendingSeq
    <3>. SUFFICES ASSUME kind \in Answers, r.seq >= pendingSeq PROVE FALSE
      BY Numbers DEF Requests
    <3>1. r = [op |-> Operation[phase], id |-> action, seq |-> pendingSeq]
      BY <2>2, <2>3 DEF Outstanding, Handled
    <3>2. r.op = Operation[phase] /\ r.id = action
      BY <3>1
    <3>3. Operation[phase] = (IF phase = "committing" THEN "commit" ELSE "cancel")
      BY DEF Operation
    <3>4. kind # "error"
      BY DEF Answers
    <3>. QED
      BY <2>3, <3>2, <3>3, <3>4 DEF Effect, Handled
  <2>. QED
    BY <2>2, <2>3, <2>4 DEF Outstanding, Handled
<1>3. Truthful'
  BY DEF Ordered, Truthful, Handled
<1>4. Awaited'
  <2>1. Awaited /\ \A a, n : Waiting(a, n)' <=> Waiting(a, n)
    BY DEF Ordered, Waiting, Handled
  <2>2. IsPreview(reply)' => r.op = "prepare"
    BY DEF IsPreview, Handled
  <2>. QED
    BY <2>1, <2>2 DEF Awaited, Handled
<1>. QED
  BY <1>1, <1>2, <1>3, <1>4 DEF Ordered

\* The acknowledgements on the way grow with every answer sent.
LEMMA SentAck ==
  ASSUME TypeInv, Numbered, NEW kind, NEW id, NEW ack \in Nat, NEW n \in Nat, Sent(kind, id, ack),
         applied <= n, ack <= n, kind \in Answers => applied < ack
  PROVE  \A i \in 1..Len(toClient') :
           /\ toClient'[i].ack <= n
           /\ \A j \in 1..Len(toClient') :
                i < j /\ toClient'[j].kind \in Answers => toClient'[i].ack < toClient'[j].ack
<1>1. \A i \in 1..Len(toClient) : toClient[i].ack \in Nat /\ toClient[i].ack <= applied /\ applied \in Nat
  BY Numbers DEF Numbered
<1>2. \A i, j \in 1..Len(toClient) :
        i < j /\ toClient[j].kind \in Answers => toClient[i].ack < toClient[j].ack
  BY DEF Numbered
<1>3. CASE ~stream /\ toClient' = toClient
  BY <1>1, <1>2, <1>3
<1>4. CASE stream
  <2>1. /\ toClient'[Len(toClient')].ack = ack /\ toClient'[Len(toClient')].kind = kind
        /\ \A i \in 1..Len(toClient') :
             i = Len(toClient') \/ (i \in 1..Len(toClient) /\ toClient'[i] = toClient[i])
        /\ Len(toClient') \in Nat
    BY <1>4 DEF Sent
  <2>2. ASSUME NEW i \in 1..Len(toClient') PROVE toClient'[i].ack <= n
    BY <1>1, <2>1
  <2>3. ASSUME NEW i \in 1..Len(toClient'), NEW j \in 1..Len(toClient'), i < j, toClient'[j].kind \in Answers
        PROVE  toClient'[i].ack < toClient'[j].ack
    <3>1. i \in 1..Len(toClient) /\ toClient'[i] = toClient[i]
      BY <2>1, <2>3
    <3>2. CASE j = Len(toClient')
      BY <1>1, <2>1, <2>3, <3>1, <3>2
    <3>3. CASE j \in 1..Len(toClient) /\ toClient'[j] = toClient[j]
      BY <1>2, <2>3, <3>1, <3>3
    <3>. QED
      BY <2>1, <3>2, <3>3
  <2>. QED
    BY <2>2, <2>3
<1>. QED
  BY <1>3, <1>4 DEF Sent

\* The handler writes its reply, or tells of the session's end.
LEMMA AnswerOrdered ==
  ASSUME TypeInv, Ordered, Answer
  PROVE  Ordered'
<1>1. Sent(reply.kind, reply.id, reply.seq) /\ reply # NoReply
  BY SendStep, Numbers DEF Answer, Answers
<1>2. /\ attached /\ applied' = reply.seq /\ reply' = NoReply /\ reply.kind \in Answers
      /\ UNCHANGED <<attached, live, stream, nextSeq, action, phase, pendingSeq, toAgent, written, voided>>
  BY DEF Answer, Answers, registryVars, clientVars, auxVars
<1>3. Numbered /\ Outstanding /\ Truthful /\ Awaited
  BY DEF Ordered
<1>4. Numbered'
  <2>1. applied < reply.seq /\ reply'.seq = 0
    BY <1>1, <1>2, <1>3, Numbers DEF Numbered
  <2>2. \A i \in 1..Len(toClient') :
          /\ toClient'[i].ack <= reply.seq
          /\ \A j \in 1..Len(toClient') :
               i < j /\ toClient'[j].kind \in Answers => toClient'[i].ack < toClient'[j].ack
    <3>1. reply.seq \in Nat /\ applied \in Nat
      BY Numbers
    <3>2. reply.seq \in Nat /\ applied <= reply.seq /\ reply.seq <= reply.seq /\ applied < reply.seq
      BY <2>1, <3>1
    <3>3. Numbered /\ Sent(reply.kind, reply.id, reply.seq)
      BY <1>1, <1>3
    <3>. QED
      BY <3>2, <3>3, SentAck
  <2>3. \A i \in 1..Len(toAgent) : reply'.seq < toAgent[i].seq
    BY <1>3, <2>1, Numbers DEF Numbered
  <2>. QED
    BY <1>1, <1>2, <1>3, <2>1, <2>2, <2>3, Numbers DEF Numbered, Sent
<1>5. Outstanding'
  <2>1. NoReply.kind \notin Answers
    BY Numbers DEF Answers
  <2>. QED
    BY <1>1, <1>2, <1>3, <2>1, Numbers DEF Outstanding, Effect, Sent
<1>6. Truthful'
  <2>1. NoReply.kind # "committed"
    BY Numbers
  <2>. QED
    BY <1>1, <1>2, <1>3, <2>1, Numbers DEF Truthful, Sent
<1>7. Awaited'
  <2>1. ~IsPreview(NoReply) /\ \A a, n : Waiting(a, n)' <=> Waiting(a, n)
    BY <1>2, Numbers DEF IsPreview, Waiting
  <2>. QED
    BY <1>1, <1>2, <1>3, <2>1 DEF Awaited, Sent, Answers, IsPreview
<1>. QED
  BY <1>4, <1>5, <1>6, <1>7 DEF Ordered

\* The handler reports a failure, or finds the connection gone; the session ends;
\* the client finds the connection gone.
LEMMA LeaveOrdered ==
  ASSUME TypeInv, Ordered, AnswerError \/ Detach \/ SessionEnds \/ Disconnect
  PROVE  Ordered'
<1>1. Numbered /\ Outstanding /\ Truthful /\ Awaited
  BY DEF Ordered
<1>2. NoReply.seq = 0 /\ NoReply.kind \notin Answers /\ NoReply.kind # "committed"
  BY Numbers DEF Answers
<1>3. CASE AnswerError \/ Detach
  <2>1. /\ attached /\ ~attached' /\ reply' = NoReply /\ toAgent' = <<>>
        /\ UNCHANGED <<applied, live, stream, nextSeq, action, phase, pendingSeq, written, voided>>
    BY <1>3 DEF AnswerError, Detach, registryVars, clientVars, auxVars
  <2>2. \E id : Sent("error", id, applied) \/ toClient' = toClient
    <3>1. CASE AnswerError
      <4>1. reply.id \in ActionId
        BY <1>2, <3>1, Numbers DEF AnswerError
      <4>. QED
        BY <3>1, <4>1, SendStep, Numbers DEF AnswerError
    <3>2. CASE Detach
      BY <3>2 DEF Detach
    <3>. QED
      BY <1>3, <3>1, <3>2
  <2>3. PICK id : Sent("error", id, applied) \/ toClient' = toClient
    BY <2>2
  <2>4. Numbered'
    <3>1. \A i \in 1..Len(toClient') :
            /\ toClient'[i].ack <= applied
            /\ \A j \in 1..Len(toClient') :
                 i < j /\ toClient'[j].kind \in Answers => toClient'[i].ack < toClient'[j].ack
      <4>1. CASE Sent("error", id, applied)
        <5>1. applied \in Nat /\ applied <= applied /\ "error" \notin Answers /\ Numbered
          BY <1>1, Numbers DEF Answers
        <5>. QED
          BY <4>1, <5>1, SentAck
      <4>. QED
        BY <1>1, <2>3, <4>1 DEF Numbered
    <3>2. ~stream => toClient' = <<>>
      BY <1>1, <2>3 DEF Numbered, Sent
    <3>3. 0 < nextSeq /\ reply'.seq = 0 /\ \A i \in 1..Len(toAgent') : FALSE
      BY <1>1, <1>2, <2>1, Numbers DEF Numbered
    <3>4. /\ ~stream' => pendingSeq' = 0 /\ toClient' = <<>>
          /\ phase' \in {"none", "prepared"} => pendingSeq' = 0
          /\ applied' < nextSeq' /\ reply'.seq < nextSeq' /\ pendingSeq' < nextSeq'
      BY <1>1, <2>1, <3>2, <3>3 DEF Numbered
    <3>. QED
      BY <2>1, <3>1, <3>3, <3>4 DEF Numbered
  <2>5. Outstanding'
    <3>. SUFFICES ASSUME phase \in {"committing", "cancelling"}, pendingSeq > 0, ~Effect
         PROVE  \A i \in 1..Len(toClient') : toClient'[i].ack < pendingSeq
      <4>1. Effect' = Effect /\ \A i \in 1..Len(toAgent') : FALSE
        BY <2>1 DEF Effect
      <4>. QED
        BY <1>2, <2>1, <4>1 DEF Outstanding
    <3>1. applied < pendingSeq /\ \A i \in 1..Len(toClient) : toClient[i].ack < pendingSeq
      BY <1>1, <2>1 DEF Outstanding
    <3>2. \A i \in 1..Len(toClient') :
            toClient'[i].ack = applied \/ (i \in 1..Len(toClient) /\ toClient'[i] = toClient[i])
      BY <2>3 DEF Sent
    <3>. QED
      BY <3>1, <3>2
  <2>6. Truthful'
    <3>1. \A i \in 1..Len(toClient) : toClient[i].kind = "committed" =>
            toClient[i].id \in ActionId /\ written[toClient[i].id] = 1
      BY <1>1 DEF Truthful
    <3>2. \A i \in 1..Len(toClient') :
            toClient'[i].kind = "error" \/ (i \in 1..Len(toClient) /\ toClient'[i] = toClient[i])
      BY <2>3 DEF Sent
    <3>. QED
      BY <1>2, <2>1, <3>1, <3>2 DEF Truthful
  <2>7. Awaited'
    <3>1. \A a, n : Waiting(a, n)' <=> Waiting(a, n)
      BY <2>1 DEF Waiting
    <3>. QED
      BY <1>1, <2>1, <2>3, <3>1 DEF Awaited, IsPreview, Sent
  <2>. QED
    BY <2>4, <2>5, <2>6, <2>7 DEF Ordered
<1>4. CASE SessionEnds
  <2>1. /\ ~live'
        /\ UNCHANGED <<attached, reply, applied, stream, nextSeq, action, phase, pendingSeq, toAgent, written, voided>>
    BY <1>4 DEF SessionEnds, agentVars, clientVars, auxVars
  <2>2. (attached /\ Sent("exit", None, applied)) \/ toClient' = toClient
    BY <1>4, SendStep, Numbers DEF SessionEnds
  <2>3. Numbered'
    <3>1. \A i \in 1..Len(toClient') :
            /\ toClient'[i].ack <= applied
            /\ \A j \in 1..Len(toClient') :
                 i < j /\ toClient'[j].kind \in Answers => toClient'[i].ack < toClient'[j].ack
      <4>1. CASE Sent("exit", None, applied)
        <5>1. applied \in Nat /\ applied <= applied /\ "exit" \notin Answers /\ Numbered
          BY <1>1, Numbers DEF Answers
        <5>. QED
          BY <4>1, <5>1, SentAck
      <4>. QED
        BY <1>1, <2>2, <4>1 DEF Numbered
    <3>2. ~stream => toClient' = <<>>
      BY <1>1, <2>2 DEF Numbered, Sent
    <3>. QED
      BY <1>1, <2>1, <3>1, <3>2 DEF Numbered
  <2>4. Outstanding'
    BY <1>1, <2>1, <2>2 DEF Outstanding, Effect, Sent
  <2>5. Truthful'
    BY <1>1, <2>1, <2>2 DEF Truthful, Sent
  <2>. QED
    BY <2>1, <2>3, <2>4, <2>5 DEF Ordered, Awaited
<1>5. CASE Disconnect
  <2>1. /\ ~stream' /\ pendingSeq' = 0 /\ toClient' = <<>>
        /\ UNCHANGED <<attached, reply, applied, nextSeq, action, phase, toAgent, written, voided>>
    BY <1>5 DEF Disconnect, agentVars, auxVars
  <2>2. \A i \in 1..Len(toClient') : FALSE
    BY <2>1
  <2>3. Numbered'
    <3>1. \A a, n \in Nat : a < n => 0 < n
      OBVIOUS
    <3>2. applied \in Nat /\ nextSeq \in Nat
      BY Numbers
    <3>3. 0 < nextSeq
      BY <1>1, <3>1, <3>2 DEF Numbered
    <3>. QED
      BY <1>1, <2>1, <2>2, <3>3 DEF Numbered
  <2>4. Outstanding'
    <3>1. ~(0 > 0)
      OBVIOUS
    <3>. QED
      BY <2>1, <3>1 DEF Outstanding
  <2>5. Truthful' /\ Awaited'
    BY <1>1, <2>1, <2>2 DEF Truthful, Awaited
  <2>. QED
    BY <2>3, <2>4, <2>5 DEF Ordered
<1>. QED
  BY <1>3, <1>4, <1>5

LEMMA ConnectOrdered ==
  ASSUME TypeInv, Ordered, Connect
  PROVE  Ordered'
<1>1. /\ reply' = NoReply /\ applied' = 1 /\ toClient' = <<>> /\ stream' /\ attached'
      /\ NoReply.seq = 0 /\ NoReply.kind = "none"
  BY Numbers DEF Connect, Ordered, Numbered
<1>2. CASE pendingSeq' = 0 /\ nextSeq' = 2 /\ toAgent' = <<>>
  <2>1. (\A i \in 1..Len(toAgent') : FALSE) /\ (\A i \in 1..Len(toClient') : FALSE)
    BY <1>1, <1>2
  <2>2. Numbered'
    BY <1>1, <1>2, <2>1 DEF Numbered
  <2>3. Outstanding'
    BY <1>2 DEF Outstanding
  <2>4. Truthful' /\ Awaited'
    BY <1>1, <2>1 DEF Truthful, Awaited, IsPreview
  <2>. QED
    BY <2>2, <2>3, <2>4 DEF Ordered
<1>3. CASE Resumes /\ pendingSeq' = 2 /\ nextSeq' = 3 /\ UNCHANGED <<action, phase>>
           /\ toAgent' = <<[op |-> Operation[phase], id |-> action, seq |-> 2]>>
  <2>1. phase \in {"preparing", "committing", "cancelling"}
    BY <1>3 DEF Resumes, TypeInv
  <2>2. Operation[phase] = "prepare" => phase = "preparing"
    BY <2>1 DEF Operation
  <2>3. Len(toAgent') = 1 /\ toAgent'[1] = [op |-> Operation[phase], id |-> action, seq |-> 2]
    BY <1>3
  <2>4. toAgent'[1].op = Operation[phase] /\ toAgent'[1].id = action /\ toAgent'[1].seq = 2
    BY <2>3
  <2>5. Numbered'
    BY <1>1, <1>3, <2>1, <2>3, <2>4 DEF Numbered
  <2>6. Outstanding'
    BY <1>1, <1>3, <2>3 DEF Outstanding, Answers
  <2>7. Truthful' /\ Awaited'
    BY <1>1, <1>3, <2>2, <2>3, <2>4 DEF Truthful, Awaited, Waiting, IsPreview
  <2>. QED
    BY <2>5, <2>6, <2>7 DEF Ordered
<1>. QED
  BY <1>2, <1>3 DEF Connect, NoAction, Ordered, Numbered

\* The client starts an operation; when it is connected, the request is the last
\* one on its way and carries the next number.
Asked(a, op) ==
  \/ /\ stream /\ pendingSeq' = nextSeq /\ nextSeq' = nextSeq + 1
     /\ Len(toAgent') = Len(toAgent) + 1
     /\ toAgent'[Len(toAgent')] = [op |-> op, id |-> a, seq |-> nextSeq]
     /\ \A i \in 1..Len(toAgent') :
          i = Len(toAgent') \/ (i \in 1..Len(toAgent) /\ toAgent'[i] = toAgent[i])
  \/ ~stream /\ op # "prepare" /\ UNCHANGED <<pendingSeq, nextSeq, toAgent>>

LEMMA OperationStep ==
  ASSUME TypeInv,
         \/ \E a \in ActionId : Prepare(a)
         \/ \E next \in {"committing", "cancelling"} : Complete(next)
  PROVE  /\ UNCHANGED <<attached, reply, applied, live, stream, toClient, written, voided>>
         /\ phase \in {"none", "prepared"}
         /\ phase' \in {"preparing", "committing", "cancelling"}
         /\ action' \in ActionId /\ Asked(action', Operation[phase'])
<1>1. Operation["preparing"] = "prepare" /\ Operation["committing"] = "commit" /\ Operation["cancelling"] = "cancel"
  BY DEF Operation
<1>2. ASSUME NEW a \in ActionId, NEW op \in {"prepare", "commit", "cancel"}, SendOperation(a, op), stream
      PROVE  Asked(a, op)
  <2>1. [op |-> op, id |-> a, seq |-> nextSeq] \in Requests /\ toAgent \in Seq(Requests)
    BY DEF TypeInv, Requests
  <2>. QED
    BY <1>2, <2>1, Put DEF SendOperation, Asked
<1>3. ASSUME NEW a \in ActionId, Prepare(a)
      PROVE  Asked(a, "prepare") /\ action' = a /\ phase = "none" /\ phase' = "preparing"
  BY <1>2, <1>3 DEF Prepare, TypeInv
<1>4. ASSUME NEW next \in {"committing", "cancelling"}, Complete(next)
      PROVE  Asked(action, Operation[next]) /\ action' = action /\ action \in ActionId /\ phase' = next
             /\ phase = "prepared"
  <2>1. action \in ActionId /\ action' = action /\ phase' = next /\ phase = "prepared"
    BY <1>4 DEF Complete, TypeInv
  <2>2. CASE stream
    BY <1>1, <1>2, <1>4, <2>1, <2>2 DEF Complete
  <2>3. CASE ~stream
    <3>1. Operation[next] # "prepare"
      BY <1>1
    <3>2. UNCHANGED <<pendingSeq, nextSeq, toAgent>>
      BY <1>4, <2>3 DEF Complete
    <3>. QED
      BY <2>1, <2>3, <3>1, <3>2 DEF Asked
  <2>. QED
    BY <2>1, <2>2, <2>3
<1>5. UNCHANGED <<attached, reply, applied, live, stream, toClient, written, voided>>
  BY DEF Prepare, Complete, registryVars, agentVars, auxVars
<1>. QED
  BY <1>1, <1>3, <1>4, <1>5

LEMMA OperationOrdered ==
  ASSUME TypeInv, Ordered,
         \/ \E a \in ActionId : Prepare(a)
         \/ \E next \in {"committing", "cancelling"} : Complete(next)
  PROVE  Ordered'
<1>1. Numbered /\ Outstanding /\ Truthful /\ Awaited
  BY DEF Ordered
<1>2. /\ UNCHANGED <<attached, reply, applied, live, stream, toClient, written, voided>>
      /\ phase \in {"none", "prepared"} /\ phase' \in {"preparing", "committing", "cancelling"}
      /\ action' \in ActionId
  BY OperationStep
<1>3. Truthful'
  BY <1>1, <1>2 DEF Truthful
<1>4. CASE ~stream
  <2>1. UNCHANGED <<pendingSeq, nextSeq, toAgent>> /\ pendingSeq = 0
    BY <1>1, <1>4, OperationStep DEF Asked, Numbered
  <2>2. Numbered'
    BY <1>1, <1>2, <1>4, <2>1 DEF Numbered
  <2>3. Outstanding' /\ Awaited'
    BY <1>2, <1>4, <2>1 DEF Outstanding, Awaited
  <2>. QED
    BY <1>3, <2>2, <2>3 DEF Ordered
<1>5. CASE stream
  <2>1. /\ pendingSeq' = nextSeq /\ nextSeq' = nextSeq + 1
        /\ Len(toAgent') = Len(toAgent) + 1
        /\ toAgent'[Len(toAgent')] = [op |-> Operation[phase'], id |-> action', seq |-> nextSeq]
        /\ \A i \in 1..Len(toAgent') :
             i = Len(toAgent') \/ (i \in 1..Len(toAgent) /\ toAgent'[i] = toAgent[i])
    BY <1>5, OperationStep DEF Asked
  <2>2. /\ toAgent'[Len(toAgent')].op = Operation[phase'] /\ toAgent'[Len(toAgent')].id = action'
        /\ toAgent'[Len(toAgent')].seq = nextSeq
    BY <2>1
  <2>3. /\ applied < nextSeq /\ reply.seq < nextSeq /\ 0 < nextSeq
        /\ \A i \in 1..Len(toAgent) : toAgent[i].seq < nextSeq /\ toAgent[i].seq \in Nat
        /\ \A i \in 1..Len(toClient) : toClient[i].ack < nextSeq
    BY <1>1, Numbers DEF Numbered
  <2>4. Numbered'
    <3>1. ASSUME NEW i \in 1..Len(toAgent')
          PROVE  /\ reply.seq < toAgent'[i].seq /\ applied < toAgent'[i].seq
                 /\ toAgent'[i].seq < nextSeq + 1
      <4>1. nextSeq \in Nat
        BY Numbers
      <4>2. CASE i = Len(toAgent')
        BY <2>2, <2>3, <4>1, <4>2
      <4>3. CASE i \in 1..Len(toAgent) /\ toAgent'[i] = toAgent[i]
        <5>1. reply.seq < toAgent[i].seq /\ applied < toAgent[i].seq
          BY <1>1, <4>3 DEF Numbered
        <5>. QED
          BY <2>3, <4>1, <4>3, <5>1
      <4>. QED
        BY <2>1, <4>2, <4>3
    <3>2. ASSUME NEW i \in 1..Len(toAgent'), NEW j \in 1..Len(toAgent'), i < j
          PROVE  toAgent'[i].seq < toAgent'[j].seq
      <4>1. i \in 1..Len(toAgent) /\ toAgent'[i] = toAgent[i]
        BY <2>1, <3>2, Numbers
      <4>2. CASE j = Len(toAgent')
        BY <2>2, <2>3, <4>1, <4>2
      <4>3. CASE j \in 1..Len(toAgent) /\ toAgent'[j] = toAgent[j]
        <5>1. \A k \in 1..Len(toAgent) : k < j => toAgent[k].seq < toAgent[j].seq
          BY Zenon, <1>1, <4>3 DEF Numbered
        <5>. QED
          BY Zenon, <3>2, <4>1, <4>3, <5>1
      <4>. QED
        BY <2>1, <4>2, <4>3
    <3>3. applied < nextSeq + 1 /\ reply.seq < nextSeq + 1 /\ nextSeq < nextSeq + 1
      BY <2>3, Numbers
    <3>4. /\ ~attached => reply = NoReply
          /\ reply # NoReply => applied < reply.seq
          /\ \A i \in 1..Len(toClient) :
               /\ toClient[i].ack <= applied
               /\ \A j \in 1..Len(toClient) :
                    i < j /\ toClient[j].kind \in Answers => toClient[i].ack < toClient[j].ack
      BY <1>1 DEF Numbered
    <3>5. stream' /\ phase' \notin {"none", "prepared"}
      BY <1>2, <1>5
    <3>6. UNCHANGED <<attached, reply, applied, toClient>>
      BY <1>2
    <3>. QED
      BY <2>1, <3>1, <3>2, <3>3, <3>4, <3>5, <3>6 DEF Numbered
  <2>5. Outstanding'
    <3>1. \A i \in 1..Len(toAgent) : ~(toAgent[i].seq >= nextSeq)
      BY <2>3, Numbers
    <3>2. \A i \in 1..Len(toAgent') : toAgent'[i].seq >= nextSeq =>
            toAgent'[i] = [op |-> Operation[phase'], id |-> action', seq |-> nextSeq]
      BY <2>1, <3>1
    <3>. QED
      BY <1>2, <2>1, <2>3, <3>2 DEF Outstanding
  <2>6. Awaited'
    <3>1. \A a, n : ~Waiting(a, n)
      BY <1>2 DEF Waiting
    <3>2. Operation[phase'] = "prepare" => phase' = "preparing"
      BY <1>2 DEF Operation
    <3>. QED
      BY <1>1, <1>2, <2>1, <2>2, <2>3, <3>1, <3>2 DEF Awaited, Waiting
  <2>. QED
    BY <1>3, <2>4, <2>5, <2>6 DEF Ordered
<1>. QED
  BY <1>4, <1>5 DEF TypeInv

LEMMA ReceiveOrdered == ASSUME TypeInv, Ordered, Receive PROVE Ordered'
<1>1. Numbered /\ Outstanding /\ Truthful /\ Awaited
  BY DEF Ordered
<1>2. /\ stream /\ toClient # <<>> /\ toClient' = Tail(toClient)
      /\ UNCHANGED <<attached, reply, applied, live, stream, nextSeq, toAgent, written, voided>>
  BY ReceiveCases DEF registryVars, agentVars
<1>3. PICK m \in Messages :
        m = toClient[1] /\ (Fails(m) \/ Completes(m) \/ WasCommitted(m) \/ Shown(m) \/ Ignored(m))
  BY ReceiveCases
<1>4. /\ 1 \in 1..Len(toClient) /\ Len(toClient') = Len(toClient) - 1
      /\ \A i \in 1..Len(toClient') :
           i + 1 \in 1..Len(toClient) /\ toClient'[i] = toClient[i + 1] /\ i \in Nat /\ 1 < i + 1
  BY <1>2, Taken DEF TypeInv
<1>5. \/ pendingSeq' = 0 /\ phase' \in {"none", "prepared"}
      \/ UNCHANGED <<action, phase, pendingSeq>>
  BY <1>3 DEF Fails, Completes, WasCommitted, Shown, Ignored, NoAction
<1>6. Numbered'
  <2>1. \A i \in 1..Len(toClient') :
          /\ toClient'[i].ack <= applied
          /\ \A j \in 1..Len(toClient') :
               i < j /\ toClient'[j].kind \in Answers => toClient'[i].ack < toClient'[j].ack
    <3>1. \A i, j \in 1..Len(toClient') : i < j => i + 1 < j + 1
      BY <1>4
    <3>. QED
      BY <1>1, <1>4, <3>1 DEF Numbered
  <2>2. 0 < nextSeq
    BY <1>1, Numbers DEF Numbered
  <2>. QED
    BY <1>1, <1>2, <1>5, <2>1, <2>2 DEF Numbered
<1>7. Outstanding'
  BY <1>1, <1>2, <1>4, <1>5 DEF Outstanding, Effect
<1>8. Truthful'
  BY <1>1, <1>2, <1>4 DEF Truthful
<1>9. Awaited'
  <2>. SUFFICES ASSUME live PROVE Awaited'
    BY <1>2 DEF Awaited
  <2>0. /\ \A i \in 1..Len(toClient') :
             /\ IsPreview(toClient'[i]) => Waiting(toClient'[i].id, toClient'[i].ack)
             /\ toClient'[i].kind = "error" => ~attached /\ i = Len(toClient')
             /\ toClient'[i].kind # "exit"
        /\ attached =>
             /\ IsPreview(reply) => Waiting(reply.id, reply.seq)
             /\ \A i \in 1..Len(toAgent) :
                  toAgent[i].op = "prepare" => Waiting(toAgent[i].id, toAgent[i].seq)
    <3>1. \A i \in 1..Len(toClient) :
            /\ IsPreview(toClient[i]) => Waiting(toClient[i].id, toClient[i].ack)
            /\ toClient[i].kind = "error" => ~attached /\ i = Len(toClient)
            /\ toClient[i].kind # "exit"
      BY <1>1, <1>2 DEF Awaited
    <3>2. \A i \in 1..Len(toClient') : i + 1 = Len(toClient) => i = Len(toClient')
      <4>1. \A i, k \in Nat : i + 1 = k => i = k - 1
        OBVIOUS
      <4>2. Len(toClient) \in Nat
        BY Numbers
      <4>. QED
        BY <1>4, <4>1, <4>2
    <3>. QED
      BY <1>1, <1>2, <1>4, <3>1, <3>2 DEF Awaited
  <2>1. CASE UNCHANGED <<action, phase, pendingSeq>>
    <3>1. \A a, n : Waiting(a, n)' <=> Waiting(a, n)
      BY <2>1 DEF Waiting
    <3>. QED
      BY <1>2, <2>0, <3>1 DEF Awaited, IsPreview
  <2>2. CASE \A a, n : ~Waiting(a, n)
    BY <1>2, <2>0, <2>2 DEF Awaited, IsPreview
  <2>3. CASE m.kind = "error"
    <3>1. ~attached /\ Len(toClient) = 1
      BY <1>1, <1>2, <1>3, <1>4, <2>3 DEF Awaited
    <3>2. ~attached' /\ \A i \in 1..Len(toClient') : FALSE
      BY <1>2, <1>4, <3>1
    <3>. QED
      BY <3>2 DEF Awaited
  <2>4. CASE IsPreview(m) /\ Waiting(m.id, m.ack)
    \* Nothing else that is under way has the number of the preview taken.
    <3>1. m.ack = pendingSeq /\ m.ack <= applied /\ m.ack \in Nat
      BY <1>1, <1>3, <1>4, <2>4, Numbers DEF Waiting, Numbered
    <3>2. \A i \in 1..Len(toClient') : ~IsPreview(toClient'[i])
      <4>1. ASSUME NEW i \in 1..Len(toClient'), IsPreview(toClient'[i]) PROVE FALSE
        <5>1. i + 1 \in 1..Len(toClient) /\ IsPreview(toClient[i + 1]) /\ 1 < i + 1
          BY <1>4, <4>1
        <5>2. toClient[i + 1].ack = pendingSeq /\ toClient[i + 1].kind \in Answers
          BY <1>1, <1>2, <5>1 DEF Awaited, Waiting, IsPreview, Answers
        <5>3. toClient[1].ack < toClient[i + 1].ack
          BY <1>1, <1>4, <5>1, <5>2 DEF Numbered
        <5>. QED
          BY <1>3, <3>1, <5>2, <5>3
      <4>. QED
        BY <4>1
    <3>3. attached => ~IsPreview(reply)
      <4>. SUFFICES ASSUME attached, IsPreview(reply) PROVE FALSE
        OBVIOUS
      <4>1. reply.seq = pendingSeq /\ reply # NoReply
        BY <1>1, <1>2, Numbers DEF Awaited, Waiting, IsPreview
      <4>2. applied < reply.seq
        BY <1>1, <4>1 DEF Numbered
      <4>. QED
        BY <3>1, <4>1, <4>2, Numbers
    <3>4. attached => \A i \in 1..Len(toAgent) : toAgent[i].op # "prepare"
      <4>1. ASSUME attached, NEW i \in 1..Len(toAgent), toAgent[i].op = "prepare" PROVE FALSE
        <5>1. toAgent[i].seq = pendingSeq
          BY <1>1, <1>2, <4>1 DEF Awaited, Waiting
        <5>2. applied < toAgent[i].seq
          BY <1>1 DEF Numbered
        <5>. QED
          BY <3>1, <5>1, <5>2, Numbers
      <4>. QED
        BY <4>1
    <3>. QED
      BY <1>2, <2>0, <3>2, <3>3, <3>4 DEF Awaited, IsPreview
  <2>5. m.kind # "exit" /\ (IsPreview(m) => Waiting(m.id, m.ack))
    BY <1>1, <1>2, <1>3, <1>4 DEF Awaited
  <2>6. CASE Fails(m)
    BY <2>3, <2>4, <2>5, <2>6 DEF Fails
  <2>7. CASE Completes(m)
    BY <2>2, <2>7 DEF Completes, Completed, Waiting
  <2>8. CASE WasCommitted(m) \/ Shown(m)
    BY <2>4, <2>5, <2>8 DEF WasCommitted, Shown, IsPreview
  <2>9. CASE Ignored(m)
    BY <2>1, <2>9 DEF Ignored
  <2>. QED
    BY <1>3, <2>6, <2>7, <2>8, <2>9
<1>. QED
  BY <1>6, <1>7, <1>8, <1>9 DEF Ordered

-----------------------------------------------------------------------------
(* The results.                                                            *)

LEMMA NextIInv == IInv /\ [Next]_vars => IInv'
<1>1. ASSUME TypeInv, Registered, Ordered, [Next]_vars PROVE Ordered'
  <2>1. CASE UNCHANGED vars
    <3>1. UNCHANGED <<attached, reply, applied, live, stream, nextSeq, action, phase, pendingSeq, toAgent, toClient,
                      written, voided>>
      BY <2>1 DEF vars, registryVars, agentVars, clientVars, wireVars, auxVars
    <3>2. Numbered'
      BY Zenon, <1>1, <3>1 DEF Ordered, Numbered
    <3>3. Outstanding'
      BY Zenon, <1>1, <3>1 DEF Ordered, Outstanding, Effect
    <3>4. Truthful'
      BY Zenon, <1>1, <3>1 DEF Ordered, Truthful
    <3>5. Awaited'
      BY Zenon, <1>1, <3>1 DEF Ordered, Awaited, Waiting, IsPreview
    <3>. QED
      BY <3>2, <3>3, <3>4, <3>5 DEF Ordered
  <2>2. CASE \/ HandlePrepare \/ RefusePrepare \/ HandleCommit \/ CommitFails \/ RefuseCommit
             \/ HandleCancel \/ RefuseCancel
    <3>1. \E r \in Requests, kind \in Answers \cup {"error"} : Handled(r, kind)
      BY <1>1, <2>2, HandleStep
    <3>. QED
      BY <1>1, <3>1, HandleOrdered
  <2>. QED
    BY <1>1, <2>1, <2>2, AnswerOrdered, LeaveOrdered, ConnectOrdered, ReceiveOrdered, OperationOrdered DEF Next
<1>. QED
  BY <1>1, NextTypes, NextRegistered DEF IInv, Ordered

LEMMA Invariance == Spec => []IInv
<1>1. Init => IInv
  BY InitTypes, InitRegistered, InitOrdered DEF IInv, Ordered
<1>. QED
  BY <1>1, NextIInv, PTL DEF Spec

\* While the session lives, a preview always answers the prepare the client is
\* waiting for, however often connections drop and prepares are resent:
\* acceptAgentMessage never takes its mismatch branch for one.
THEOREM PreviewExpectedHolds == Spec => []PreviewExpected
<1>1. IInv => PreviewExpected
  <2>. SUFFICES ASSUME IInv, live, NEW i \in 1..Len(toClient), stream, IsPreview(toClient[i])
       PROVE  action = toClient[i].id /\ Expected(toClient[i])
    BY DEF PreviewExpected
  <2>1. Waiting(toClient[i].id, toClient[i].ack)
    BY DEF IInv, Awaited
  <2>2. \A n \in Nat : n >= n
    OBVIOUS
  <2>3. pendingSeq \in Nat
    BY DEF IInv, TypeInv
  <2>. QED
    BY <2>1, <2>2, <2>3 DEF Waiting, Expected
<1>. QED
  BY <1>1, Invariance, PTL

\* A handler's step writes an open action the user confirmed, voids an open
\* action, or changes nothing the user sees.
LEMMA HandleKeepsPromise ==
  ASSUME IInv,
         \/ HandlePrepare \/ RefusePrepare \/ HandleCommit \/ CommitFails \/ RefuseCommit
         \/ HandleCancel \/ RefuseCancel
  PROVE  [Once!Next]_(Once!vars)
<1>1. TypeInv /\ Registered
  BY DEF IInv
<1>2. CASE HandlePrepare \/ RefusePrepare \/ RefuseCommit \/ RefuseCancel \/ UNCHANGED <<written, voided, confirmed, told>>
  BY <1>2 DEF HandlePrepare, RefusePrepare, RefuseCommit, RefuseCancel, auxVars, Once!vars, Fate
<1>3. ASSUME HandleCommit \/ CommitFails \/ HandleCancel
      PROVE  \E a \in ActionId : a = Request.id /\ EntryMeans(a) /\ (Request.op = "commit" => a \in confirmed)
  <2>1. PICK op : HasRequest(op)
    BY <1>3 DEF HandleCommit, CommitFails, HandleCancel
  <2>. QED
    BY <1>1, <2>1, RequestType DEF Registered
<1>4. CASE HandleCommit /\ ~UNCHANGED <<written, voided, confirmed, told>>
  <2>1. PICK a \in ActionId : a = Request.id /\ EntryMeans(a) /\ a \in confirmed
    BY ZenonT(30), <1>3, <1>4 DEF HandleCommit, HasRequest
  <2>2. /\ written[a] = 0 /\ a \notin voided /\ UNCHANGED <<voided, confirmed, told>>
        /\ written' = [written EXCEPT ![a] = @ + 1]
    BY <1>4, <2>1 DEF HandleCommit, EntryMeans, Fresh
  <2>3. Fate(a) = "open" /\ Fate(a)' = "written" /\ \A b \in ActionId \ {a} : Fate(b)' = Fate(b)
    BY <1>1, <2>2 DEF Fate, TypeInv
  <2>4. Once!Write(a)
    BY <2>1, <2>2, <2>3 DEF Once!Write
  <2>. QED
    BY <2>4 DEF Once!Next
<1>5. CASE (CommitFails \/ HandleCancel) /\ ~UNCHANGED <<written, voided, confirmed, told>>
  <2>1. PICK a \in ActionId : a = Request.id /\ EntryMeans(a)
    BY <1>3, <1>5
  <2>2. voided' = voided \cup {a} /\ UNCHANGED <<written, confirmed, told>> /\ a \notin voided
    BY <1>5, <2>1 DEF CommitFails, HandleCancel
  <2>3. written[a] = 0
    BY <1>5, <2>1, <2>2 DEF CommitFails, HandleCancel, EntryMeans, Fresh
  <2>4. Fate(a) = "open" /\ Fate(a)' = "void" /\ \A b \in ActionId \ {a} : Fate(b)' = Fate(b)
    <3>1. /\ \A b \in ActionId : written'[b] = written[b]
          /\ a \in voided' /\ \A b \in ActionId \ {a} : b \in voided' <=> b \in voided
      BY <2>2
    <3>0. 0 # 1 /\ ~(0 > 1)
      OBVIOUS
    <3>2. Fate(a) = "open"
      BY <2>2, <2>3, <3>0 DEF Fate
    <3>3. Fate(a)' = "void"
      BY <2>2, <2>3, <3>0, <3>1 DEF Fate
    <3>4. \A b \in ActionId \ {a} : Fate(b)' = Fate(b)
      BY Zenon, <3>1 DEF Fate
    <3>. QED
      BY <3>2, <3>3, <3>4
  <2>5. Once!Void({a})
    BY <2>2, <2>4 DEF Once!Void
  <2>. QED
    BY <2>5 DEF Once!Next
<1>. QED
  BY <1>2, <1>4, <1>5

\* What the user is told is true: an acknowledgement that reaches the completion
\* means that it took place, whatever was lost or resent on the way.
LEMMA ReceiveKeepsPromise == ASSUME IInv, Receive PROVE [Once!Next]_(Once!vars)
<1>1. TypeInv /\ Registered /\ Numbered /\ Outstanding /\ Truthful
  BY DEF IInv
<1>2. UNCHANGED <<written, voided, confirmed>> /\ \A b \in ActionId : Fate(b)' = Fate(b)
  BY <1>1, ReceiveCases DEF Fate
<1>3. PICK m \in Messages :
        /\ m = toClient[1] /\ 1 \in 1..Len(toClient)
        /\ Fails(m) \/ Completes(m) \/ WasCommitted(m) \/ Shown(m) \/ Ignored(m)
  BY <1>1, ReceiveCases, Taken DEF TypeInv
<1>4. ASSUME NEW outcome \in {"committed", "cancelled", "failed"}, action # None, Settle(action, outcome),
             outcome = "committed" => written[action] = 1, outcome = "cancelled" => action \in voided
      PROVE  Once!Next
  <2>1. action \in ActionId /\ told[action] = "nothing" /\ (action \in voided => written[action] = 0)
    BY <1>1, <1>4 DEF TypeInv, Registered, EntryMeans
  <2>2. /\ outcome = "committed" => Fate(action) = "written"
        /\ outcome = "cancelled" => Fate(action) = "void"
    BY <1>4, <2>1 DEF Fate
  <2>3. Once!Tell(action, outcome)
    BY <1>2, <1>4, <2>1, <2>2 DEF Once!Tell, Settle
  <2>. QED
    BY <2>1, <2>3 DEF Once!Next
<1>5. CASE Fails(m)
  BY <1>4, <1>5 DEF Fails
<1>6. CASE Completes(m)
  <2>1. action # None /\ m.ack >= pendingSeq /\ phase \in {"committing", "cancelling"} /\ pendingSeq > 0
    BY <1>1, <1>6 DEF Completes, Completed, TypeInv
  <2>2. Effect
    BY <1>1, <1>3, <2>1, Numbers DEF Outstanding
  <2>3. CASE phase = "committing"
    BY <1>4, <1>6, <2>1, <2>2, <2>3 DEF Completes, Effect
  <2>4. CASE phase # "committing"
    BY <1>4, <1>6, <2>1, <2>2, <2>4 DEF Completes, Effect
  <2>. QED
    BY <2>3, <2>4
<1>7. CASE WasCommitted(m)
  BY <1>1, <1>3, <1>4, <1>7 DEF WasCommitted, Expected, Truthful
<1>8. CASE Shown(m) \/ Ignored(m)
  BY <1>2, <1>8 DEF Shown, Ignored, Once!vars
<1>. QED
  BY <1>3, <1>5, <1>6, <1>7, <1>8

\* Registry and client keep the promise of PromptOnce for every number of
\* actions, sessions and connections: an action's bytes are written at most once
\* and only after the user confirmed it, "committed" is reported only for bytes
\* that were written and "cancelled" only for bytes that never will be.
THEOREM PromiseHolds == Spec => Promise
<1>1. Init => Once!Init
  BY DEF Init, Once!Init, Fate
<1>2. ASSUME IInv, [Next]_vars PROVE [Once!Next]_(Once!vars)
  <2>1. TypeInv /\ Registered
    BY <1>2 DEF IInv
  <2>2. CASE UNCHANGED auxVars
    BY <2>2 DEF auxVars, Once!vars, Fate
  <2>3. CASE Connect /\ ~UNCHANGED auxVars
    <3>1. action \in ActionId /\ Settle(action, "failed") /\ told[action] = "nothing"
          /\ UNCHANGED <<written, voided, confirmed>>
      BY <2>1, <2>3 DEF Connect, TypeInv, Registered, auxVars
    <3>2. Once!Tell(action, "failed")
      BY <3>1 DEF Once!Tell, Settle, Fate
    <3>. QED
      BY <3>1, <3>2 DEF Once!Next
  <2>4. ASSUME NEW next \in {"committing", "cancelling"}, Complete(next) PROVE [Once!Next]_(Once!vars)
    <3>1. action \in ActionId /\ told[action] = "nothing" /\ UNCHANGED <<written, voided, told>>
          /\ confirmed' \in {confirmed, confirmed \cup {action}}
      BY <2>1, <2>4 DEF Complete, TypeInv, Registered
    <3>2. CASE confirmed' = confirmed
      BY <3>1, <3>2 DEF Once!vars, Fate
    <3>3. CASE confirmed' = confirmed \cup {action}
      <4>1. Once!Confirm(action)
        BY <3>1, <3>3 DEF Once!Confirm, Fate
      <4>. QED
        BY <3>1, <4>1 DEF Once!Next
    <3>. QED
      BY <3>1, <3>2, <3>3
  <2>5. CASE \/ Answer \/ AnswerError \/ Detach \/ SessionEnds \/ Disconnect \/ UNCHANGED vars
             \/ \E a \in ActionId : Prepare(a)
    BY <2>2, <2>5 DEF Answer, AnswerError, Detach, SessionEnds, Disconnect, Prepare, vars
  <2>. QED
    BY <1>2, <2>2, <2>3, <2>4, <2>5, HandleKeepsPromise, ReceiveKeepsPromise DEF Next
<1>. QED
  BY <1>1, <1>2, Invariance, PTL DEF Spec, Promise, Once!Spec
=============================================================================

-------------------------- MODULE AttachmentUpload --------------------------
(***************************************************************************)
(* The browser uploads a batch of files to one session of the Agent: the   *)
(* loop of transferAttachments, the AcknowledgedAttachmentSender that      *)
(* settles each operation, and a connection that is lost and made again    *)
(* at any point.  The other sessions serve clients that send anything.     *)
(*                                                                         *)
(* The sender has one operation pending, so a connection carries at most   *)
(* one message each way and an acknowledgement names it without a number.  *)
(***************************************************************************)
EXTENDS AttachmentTransfer

CONSTANTS Uploader,  \* the session the batch goes to
          Casts,     \* sets of sessions: which ones the Agent starts in a run
          Batch,     \* the files, a sequence of [id, file]
          Requests,  \* per other session: what its client may send
          MaxDrops   \* bound on lost connections of the uploader

ASSUME UploadAssumption ==
    /\ Uploader \in Sessions /\ Observed = {Uploader}
    /\ Casts \subseteq SUBSET Sessions
    /\ MaxDrops \in Nat
    /\ \A i \in DOMAIN Batch : Batch[i].file.size = Len(Batch[i].file.sum)

VARIABLES present, \* the sessions of this run
          job,     \* transferAttachments: [pc, stage, i, off, started]
          pend,    \* the sender's pending operation: [phase, op, idx]
          avail,   \* ~unavailable
          disposed,
          wire,    \* the message on its way to the Agent
          drops

browserVars == <<present, job, pend, avail, disposed, wire, drops>>
vars == <<agentVars, browserVars>>

u == Uploader

NoPending == [phase |-> "none", op |-> <<>>, idx |-> 0]

InitUpload ==
    /\ Init
    /\ present \in Casts
    /\ job = [pc |-> "idle", stage |-> "begin", i |-> 1, off |-> 0, started |-> 0]
    /\ pend = NoPending
    /\ avail = FALSE
    /\ disposed = FALSE
    /\ wire = <<>>
    /\ drops = 0

-----------------------------------------------------------------------------
(* transferAttachments.                                                    *)

Item == Batch[job.i]

\* The next operation of the loop.
Operation ==
    CASE job.stage = "begin"    -> [kind |-> "begin", id |-> Item.id, file |-> Item.file]
      [] job.stage = "chunk"    -> [kind |-> "chunk", id |-> Item.id, off |-> job.off, intact |-> TRUE,
                                    data |-> SubSeq(Item.file.sum, job.off + 1,
                                                    Min({Item.file.size, job.off + MaxChunk}))]
      [] job.stage = "complete" -> [kind |-> "complete", id |-> Item.id]
      [] job.stage = "discard"  -> [kind |-> "discard",
                                    ids |-> [n \in 1 .. job.started |-> Batch[n].id]]

\* The operation resolved.
Resolved(j) ==
    CASE j.stage = "begin" -> [j EXCEPT !.pc = "ready", !.stage = "chunk", !.off = 0]
      [] j.stage = "chunk" -> IF j.off + MaxChunk < Batch[j.i].file.size
                              THEN [j EXCEPT !.pc = "ready", !.off = @ + MaxChunk]
                              ELSE [j EXCEPT !.pc = "ready", !.stage = "complete"]
      [] j.stage = "complete" -> [j EXCEPT !.pc = "ready", !.i = @ + 1, !.off = 0,
                                           !.stage = IF j.i = Len(Batch) THEN "end" ELSE "begin"]
      [] j.stage = "discard" -> [j EXCEPT !.pc = "failed"]

\* The operation rejected, or the user aborted: everything started is discarded,
\* and a rejected discard leaves the clean-up undone.
Rejected(j) ==
    CASE j.stage = "discard" -> [j EXCEPT !.pc = "leaked"]
      [] j.started = 0       -> [j EXCEPT !.pc = "failed"]
      [] OTHER               -> [j EXCEPT !.pc = "ready", !.stage = "discard"]

\* sendAttachments is offered only while the connection is up.
StartBatch ==
    /\ job.pc = "idle" /\ avail /\ conn[u].live
    /\ job' = [job EXCEPT !.pc = "ready"]
    /\ UNCHANGED <<agentVars, pend, avail, disposed, wire, drops>>

Abort ==
    /\ job.pc = "ready" /\ job.stage # "discard"
    /\ job' = Rejected(job)
    /\ UNCHANGED <<agentVars, pend, avail, disposed, wire, drops>>

FinishBatch ==
    /\ job.pc = "ready" /\ job.stage = "end"
    /\ job' = [job EXCEPT !.pc = "done"]
    /\ UNCHANGED <<agentVars, pend, avail, disposed, wire, drops>>

Begun(j) == IF j.stage = "begin" THEN [j EXCEPT !.started = j.i] ELSE j

\* sendOperation: a disposed sender rejects; without a connection only a discard
\* waits; a socket that is no longer open fails the operation.
SendOperation ==
    /\ job.pc = "ready" /\ job.stage # "end" /\ pend = NoPending
    /\ LET j == Begun(job) IN
       \/ /\ disposed \/ (~avail /\ j.stage # "discard")
          /\ job' = Rejected(j)
          /\ UNCHANGED <<pend, avail, wire>>
       \/ /\ ~disposed /\ ~avail /\ j.stage = "discard"
          /\ pend' = [phase |-> "waiting", op |-> Operation, idx |-> 1]
          /\ job' = [j EXCEPT !.pc = "sent"]
          /\ UNCHANGED <<avail, wire>>
       \/ /\ ~disposed /\ avail
          /\ IF conn[u].live
             THEN /\ pend' = [phase |-> "operation", op |-> Operation, idx |-> 1]
                  /\ wire' = Operation
                  /\ job' = [j EXCEPT !.pc = "sent"]
                  /\ UNCHANGED avail
             ELSE /\ avail' = FALSE
                  /\ job' = Rejected(j)
                  /\ UNCHANGED <<pend, wire>>
    /\ UNCHANGED <<agentVars, disposed, drops>>

-----------------------------------------------------------------------------
(* AcknowledgedAttachmentSender.                                           *)

StatusIdOf(p) == IF p.op.kind = "discard" THEN p.op.ids[p.idx] ELSE p.op.id

\* resolvePending / failPending with recovery: the browser closes the socket.
Settle == /\ pend' = NoPending /\ job' = Resolved(job)
          /\ UNCHANGED <<avail, wire, conn>>
Fail ==   /\ pend' = NoPending /\ avail' = FALSE
          /\ job' = IF pend = NoPending THEN job ELSE Rejected(job)
          /\ conn' = [conn EXCEPT ![u] = Broken(@)]
          /\ wire' = <<>>
Replay == /\ pend' = [pend EXCEPT !.phase = "operation", !.idx = 1]
          /\ wire' = pend.op
          /\ UNCHANGED <<avail, job, conn>>
Ask(p) == /\ pend' = [p EXCEPT !.phase = "status"]
          /\ wire' = [kind |-> "status", id |-> StatusIdOf(p)]

\* acceptTransferStatus, by the kind of the pending operation.
Reconcile_Slip(disposition, next) ==
    CASE disposition = "unknown" -> Replay
      [] OTHER -> Settle
Reconcile(disposition, next) ==
    LET op == pend.op IN
    CASE op.kind = "begin" /\ disposition = "active" /\ next = 0 -> Settle
      [] op.kind = "begin" /\ disposition = "unknown" -> Replay
      [] op.kind = "chunk" /\ disposition = "active" /\ next = op.off + Len(op.data) -> Settle
      [] op.kind = "chunk" /\ disposition = "active" /\ next = op.off -> Replay
      [] op.kind = "complete" /\ disposition = "completed" -> Settle
      [] op.kind = "complete" /\ disposition = "active" -> Replay
      [] op.kind = "discard" /\ disposition \in {"cancelled", "unknown"} ->
            IF pend.idx = Len(op.ids) THEN Settle
            ELSE Ask([pend EXCEPT !.idx = @ + 1]) /\ UNCHANGED <<avail, job, conn>>
      [] op.kind = "discard" /\ disposition \in {"active", "completed"} -> Replay
      [] OTHER -> Fail

\* acceptAgentMessage.
AcceptAgentMessage ==
    /\ avail /\ reply[u] # <<>>
    /\ reply' = [reply EXCEPT ![u] = <<>>]
    /\ CASE reply[u][1] = "status" ->
              IF pend.phase = "status" /\ reply[u][2] = StatusIdOf(pend)
              THEN Reconcile(reply[u][3], reply[u][4]) ELSE Fail
         [] reply[u][1] = "error" -> Fail
         [] reply[u][1] = "ack" /\ pend.phase = "operation" -> Settle
         [] reply[u][1] = "exit" /\ pend # NoPending -> Fail
         [] OTHER -> UNCHANGED <<pend, job, avail, wire, conn>>
    /\ UNCHANGED <<up, ses, total, faults, crashes, disposed, drops>>

\* The browser's end of the connection closes; the Agent may notice later and
\* still handle a message that was on its way.
Disconnect ==
    /\ avail
    /\ IF conn[u].live THEN drops < MaxDrops /\ drops' = drops + 1 ELSE UNCHANGED drops
    /\ avail' = FALSE
    /\ reply' = [reply EXCEPT ![u] = <<>>]
    /\ UNCHANGED <<up, ses, total, conn, faults, crashes, job, pend, disposed, wire>>

\* The Agent's end closes.
DropUploader ==
    /\ Drop(u)
    /\ IF avail THEN drops < MaxDrops /\ drops' = drops + 1 ELSE UNCHANGED drops
    /\ wire' = <<>>
    /\ UNCHANGED <<job, pend, avail, disposed>>

\* A new connection attaches to the same session: reconnect.  An attempt that fails
\* leaves no trace, and after reconnectMaxAttempts the page makes no more: those
\* are the behaviours in which this step is not taken again.
Reconnect_Slip ==
    /\ ~avail /\ ~disposed
    /\ Attach(u)
    /\ avail' = TRUE
    /\ CASE pend.phase \in {"none", "waiting"} -> UNCHANGED pend /\ wire' = <<>>
         [] pend.phase = "operation" -> Ask([pend EXCEPT !.idx = 1])
         [] pend.phase = "status" -> Ask(pend)
    /\ UNCHANGED <<job, disposed, drops>>
Reconnect ==
    /\ ~avail /\ ~disposed
    /\ Attach(u)
    /\ avail' = TRUE
    /\ CASE pend = NoPending -> UNCHANGED pend /\ wire' = <<>>
         [] pend.phase = "waiting" -> /\ pend' = [pend EXCEPT !.phase = "operation", !.idx = 1]
                                      /\ wire' = pend.op
         [] pend.phase = "operation" -> Ask([pend EXCEPT !.idx = 1])
         [] pend.phase = "status" -> Ask(pend)
    /\ UNCHANGED <<job, disposed, drops>>

\* dispose rejects what is pending; a message on its way to the Agent stays so.
\* Before and after the batch it has no effect: the next batch has a new sender.
Disposed ==
    /\ ~disposed /\ ~avail /\ job.pc \in {"ready", "sent"}
    /\ disposed' = TRUE
    /\ pend' = NoPending
    /\ job' = IF pend = NoPending THEN job ELSE Rejected(job)
    /\ UNCHANGED <<agentVars, avail, wire, drops>>

\* The Agent answers a new connection with SESSION_ALREADY_ACTIVE, because the last
\* one is not detached yet or the session is ending: the sender fails what is
\* pending, the page stops reconnecting and disposes it when the socket closes.
Refused ==
    /\ up
    /\ (ses[u].life = "running" /\ conn[u].pc # "none") \/ ses[u].life = "ending"
    /\ Disposed

\* The page has no connection and disposes of the sender by itself: the user retries
\* after it gave up, or leaves, or it finds a new session; nobody has to.
Dispose == Disposed

\* The Agent reads the uploader's message.
Deliver ==
    /\ wire # <<>>
    /\ Receive(u, wire) \/ ReceiveStatus(u, wire)
    /\ wire' = <<>>
    /\ UNCHANGED <<job, pend, avail, disposed, drops>>

-----------------------------------------------------------------------------

Browser ==
    \/ StartBatch \/ Abort \/ FinishBatch \/ SendOperation \/ AcceptAgentMessage
    \/ Disconnect \/ DropUploader \/ Reconnect \/ Refused \/ Dispose \/ Deliver

Agent ==
    \/ Crash \/ CleanupStaleStaging
    \/ \E s \in Sessions :
          \/ s \in present /\ (StartSession(s) \/ StartFails(s))
          \/ Terminate(s) \/ ProcessExits(s)
          \/ CloseAttachments(s) \/ CleanStaging(s)
          \/ AgentStep(s)
    \/ \E s \in Sessions \ {u} :
          \/ Attach(s) \/ Drop(s)
          \/ \E m \in Requests[s] : Receive(s, m) \/ ReceiveStatus(s, m)

\* A crash loses what was on its way to the Agent.
Next ==
    /\ \/ Browser
       \/ /\ Agent
          /\ IF up' THEN UNCHANGED wire ELSE wire' = <<>>
          /\ UNCHANGED <<job, pend, avail, disposed, drops>>
    /\ UNCHANGED present

\* The Agent's goroutines run and so does the page's event loop.  Nobody has to
\* start, abort or end anything, and no connection has to be made again.
Loaded(A) == A /\ UNCHANGED present
Served(A) == A /\ UNCHANGED browserVars

Fairness ==
    /\ WF_vars(Served(AgentStep(u)))
    /\ WF_vars(Loaded(SendOperation \/ FinishBatch))
    /\ WF_vars(Loaded(AcceptAgentMessage \/ (Disconnect /\ ~conn[u].live)))
    /\ WF_vars(Loaded(Deliver))

Spec == InitUpload /\ [][Next]_vars /\ Fairness

-----------------------------------------------------------------------------
(* Properties.                                                             *)

Size(f) == MapThenSumSet(LAMBDA id : f[id].file.size, DOMAIN f)

Counted(s) == IF ses[s].mgr \in {"open", "closing"} THEN ses[s].reserved ELSE 0

\* The bytes a session has reserved are exactly those of its active and its
\* completed transfers and stay within the session's quota, and the bytes of all
\* sessions together are never more than the tracker has counted: whatever fails,
\* and whatever a session does while another one is being closed, no byte is on
\* disk that no quota has seen (Manager.Begin, releaseActiveLocked,
\* releaseCompletedLocked, Close, AggregateTracker.Release).
QuotaExact ==
    /\ \A s \in Sessions : ses[s].mgr \in {"open", "closing"} =>
          /\ ses[s].reserved = Size(ses[s].active) + Size(ses[s].completed)
          /\ ses[s].reserved <= MaxSession
          /\ ses[s].bytes = Size(ses[s].completed)
    /\ MaxAggregate # 0 => MapThenSumSet(Counted, Sessions) <= total

WellFormed(data) ==
    /\ \A i \in DOMAIN data : data[i] \in {"text", "markup", "lead", "cont"}
    /\ \A i \in DOMAIN data :
          /\ data[i] = "lead" => i < Len(data) /\ data[i + 1] = "cont"
          /\ data[i] = "cont" => i > 1 /\ data[i - 1] = "lead"

\* While a session runs, its directory holds exactly what its manager knows:
\* the partial of each active transfer, the published file of each completed one,
\* and a published name next to a partial only after an interrupted publication;
\* and what is published is the file that was declared, of an allowed type, and
\* valid text as a whole however it was cut into chunks (Complete,
\* stagingDirectory.rename, cleanupActiveTransferLocked, utf8StreamValidator).
PublishedVerified ==
    \A s \in Sessions : ses[s].mgr \in {"open", "closing"} =>
        /\ \A id \in DOMAIN ses[s].active :
              /\ Partial(id) \in ses[s].files
              /\ Final(id) \in ses[s].files => ses[s].active[id].attempted
        /\ \A id \in DOMAIN ses[s].completed :
              LET c == ses[s].completed[id] IN
              /\ Final(id) \in ses[s].files /\ Partial(id) \notin ses[s].files
              /\ c.data = c.file.sum
              /\ SupportedContentPolicies[c.file.ext].text =>
                    WellFormed(c.data) /\ c.data[1] # "markup"
        /\ \A id \in Ids : {Partial(id), Final(id)} \cap ses[s].files # {} => Known(ses[s], id)

\* When the exit of a session is over and its clean-up reported no failure, its
\* staging directory is gone, also when a message was being handled while the
\* session ended; and no directory of a dead session outlives the next start of
\* the Agent unless a failure was reported (waitForExit, SessionStaging.Cleanup,
\* transferManager, CleanupStaleStaging).
NothingLeftBehind ==
    \A s \in Sessions :
        /\ ses[s].life = "done" /\ ~ses[s].failed => ~ses[s].dir /\ ses[s].files = {}
        /\ up /\ ses[s].life = "dead" => ~ses[s].dir \/ ses[s].failed

\* A batch that transferAttachments reports as sent is completed on the Agent,
\* every file whole and in order, however often the connection was lost and
\* whatever acknowledgements were lost with it; and a batch it reports as failed
\* with its files discarded has left neither a partial nor a published file.
BatchAllOrNothing ==
    ses[u].life = "running" =>
        /\ job.pc = "done" =>
              \A i \in DOMAIN Batch : /\ Batch[i].id \in DOMAIN ses[u].completed
                                      /\ ses[u].completed[Batch[i].id].data = Batch[i].file.sum
        /\ job.pc = "failed" =>
              \A i \in DOMAIN Batch : /\ ~Known(ses[u], Batch[i].id)
                                      /\ {Partial(Batch[i].id), Final(Batch[i].id)} \cap ses[u].files = {}

\* A batch that was started comes to an end: it is sent, or it is discarded, or
\* the clean-up is reported as failed, however its operations and its connections
\* fail; it stays open for ever only with an operation waiting for a connection that
\* is never made (sendOperation, reconnect, dispose, scheduleReconnect).
BatchSettles ==
    <>[](job.pc \in {"ready", "sent"}) => <>[](~avail /\ pend # NoPending)

=============================================================================

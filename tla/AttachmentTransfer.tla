------------------------- MODULE AttachmentTransfer -------------------------
(***************************************************************************)
(* Attachment transfers of the Agent's PTY sessions: the transfer manager, *)
(* the staging directory it writes to, the byte tracker that all sessions  *)
(* share, and the part of a session that routes a connection's attachment  *)
(* messages to its manager and cleans up when the session ends.            *)
(*                                                                         *)
(* A file is a sequence of units.  A unit stands for a run of bytes of one *)
(* kind: plain text, an opening markup tag, the first or the last byte of  *)
(* a two-byte UTF-8 rune, a PNG.  Two sequences have the same SHA-256 iff  *)
(* they are equal.  File system calls may fail, at most MaxFaults times.   *)
(***************************************************************************)
EXTENDS Integers, Sequences, FiniteSets, SequencesExt, FiniteSetsExt, Functions

CONSTANTS Sessions,      \* the sessions the Agent may start, one after the other
          Observed,      \* the sessions whose client acts on the replies it gets
          Ids,           \* transfer ids
          MaxFile,       \* managerLimits.maxFileBytes, in units
          MaxSession,    \* managerLimits.maxSessionBytes
          MaxChunk,      \* managerLimits.maxChunkBytes
          MaxActive,     \* managerLimits.maxActive
          MaxAggregate,  \* AggregateTracker.maxBytes, 0 means no limit
          MaxCancelled,  \* maxCancelledOutcomes
          MaxSelection,  \* maxDiscardAttachments, maxPromptActionAttachments
          MaxFaults,     \* bound on failing file system calls
          MaxCrashes     \* bound on crashes of the Agent

VARIABLES up,       \* the Agent process runs
          ses,      \* per session: life cycle, manager and staging directory
          total,    \* AggregateTracker.totalBytes
          conn,     \* per session: the read loop of its one connection
          reply,    \* per session: what the read loop last wrote to the client
          faults, crashes

agentVars == <<up, ses, total, conn, reply, faults, crashes>>

-----------------------------------------------------------------------------
(* Content policy and the streaming text validator.                        *)

\* One extension of each shape in the table: one type, two types, binary.
SupportedContentPolicies ==
    [txt |-> [types |-> {"text/plain"}, text |-> TRUE],
     md  |-> [types |-> {"text/markdown", "text/plain"}, text |-> TRUE],
     png |-> [types |-> {"image/png"}, text |-> FALSE]]

ParseContentPolicy(file) ==
    /\ file.ext \in DOMAIN SupportedContentPolicies
    /\ file.ctype \in SupportedContentPolicies[file.ext].types
    /\ file.charset # "none" => /\ SupportedContentPolicies[file.ext].text
                                /\ file.charset = "utf-8"

NoText == [invalid |-> FALSE, tail |-> <<>>]

\* One unit of the loop of utf8StreamValidator.Write: an incomplete rune is
\* kept in the tail, anything that cannot continue it is invalid.
Utf8Step(v, unit) ==
    CASE v.invalid -> v
      [] v.tail = <<>> /\ unit \in {"text", "markup"} -> v
      [] v.tail = <<>> /\ unit = "lead" -> [v EXCEPT !.tail = <<unit>>]
      [] v.tail # <<>> /\ unit = "cont" -> [v EXCEPT !.tail = <<>>]
      [] OTHER -> [v EXCEPT !.invalid = TRUE]

Utf8Write(v, data) ==
    IF v.invalid THEN v ELSE FoldLeft(Utf8Step, NoText, v.tail \o data)

Utf8Valid(v) == ~v.invalid /\ v.tail = <<>>

\* The sniffed prefix decides the type; text must also be valid to the end.
MatchesBytes(file, got, text) ==
    IF SupportedContentPolicies[file.ext].text
    THEN Utf8Valid(text) /\ Head(got) \notin {"markup", "png"}
    ELSE Head(got) = file.ext

-----------------------------------------------------------------------------
(* The staging directory: names of entries, and the content of a partial.  *)

Partial(id) == <<id, "partial">>
Final(id) == <<id, "final">>
Residue(id) == <<id, "residue">>

\* A missing entry is as good as a removed one.
RemoveEntry(files, name) == files \ {name}

\* writeAt puts the data at its offset, over what is there.
WriteAt(disk, off, data) ==
    [i \in 1 .. Max({Len(disk), off + Len(data)}) |->
        IF i \in off + 1 .. off + Len(data) THEN data[i - off] ELSE disk[i]]

\* A write that fails may have changed the units it was to write.
TornWrite(disk, off, data) == WriteAt(disk, off, [i \in DOMAIN data |-> "torn"])

\* rename links the final name and then removes the partial; when that removal
\* fails the link is rolled back, unless the rollback fails as well.  A link that
\* is there already, from such a failure, is taken for its own.
Renamed(files, id) == RemoveEntry(files, Partial(id)) \cup {Final(id)}
RenameFails(files, id) == {RemoveEntry(files, Final(id)), files \cup {Final(id)}}

\* openStagingDirectory fails, perhaps leaving an entry of its link probe.
OpenFails(files) == {files, files \cup {Residue("probe")}}

-----------------------------------------------------------------------------
(* The aggregate tracker and the bookkeeping of a manager.                 *)

AggregateFits(n) == MaxAggregate = 0 \/ total + n <= MaxAggregate

Reserved(t, n) == IF MaxAggregate = 0 THEN t ELSE t + n

Released(t, n) == IF n <= t THEN t - n ELSE 0

Without(f, id) == Restrict(f, DOMAIN f \ {id})

RecordCancelled(order, id) ==
    LET moved == Append(SelectSeq(order, LAMBDA x : x # id), id)
    IN  IF Len(moved) > MaxCancelled THEN Tail(moved) ELSE moved

\* w is a session with the aggregate total: releaseActiveLocked on both.
ReleaseActive(w, id) ==
    LET n == w.r.active[id].file.size
    IN  [r |-> [w.r EXCEPT !.active = Without(@, id), !.reserved = Released(@, n)],
         t |-> Released(w.t, n)]

\* cleanupActiveTransferLocked when both removals work, then the release.
DropActive_Slip(w, id) ==
    ReleaseActive([w EXCEPT !.r.files = RemoveEntry(@, Partial(id))], id)
DropActive(w, id) ==
    ReleaseActive([w EXCEPT !.r.files =
        RemoveEntry(IF w.r.active[id].attempted THEN RemoveEntry(@, Final(id)) ELSE @, Partial(id))], id)

\* cleanupActiveTransferLocked fails before or after the published link is gone.
CleanupFails(r, id) ==
    {r} \cup IF r.active[id].attempted THEN {[r EXCEPT !.files = RemoveEntry(@, Final(id))]} ELSE {}

ReleaseCompleted(w, id) ==
    LET n == w.r.completed[id].file.size
    IN  [r |-> [w.r EXCEPT !.completed = Without(@, id), !.reserved = Released(@, n),
                           !.bytes = Released(@, n)],
         t |-> Released(w.t, n)]

-----------------------------------------------------------------------------
(* Sessions.                                                               *)

NoSession == [life |-> "none", mgr |-> "none", active |-> <<>>, completed |-> <<>>,
              cancelled |-> <<>>, reserved |-> 0, dir |-> FALSE, inUse |-> FALSE,
              bytes |-> 0, files |-> {}, failed |-> FALSE]

NoConn == [pc |-> "none", live |-> FALSE, msg |-> <<>>]

\* A connection that breaks: a message being handled is handled to its end.
Broken(c) == IF c.pc \in {"none", "idle"} THEN NoConn ELSE [c EXCEPT !.live = FALSE]

Init ==
    /\ up = TRUE
    /\ ses = [s \in Sessions |-> NoSession]
    /\ total = 0
    /\ conn = [s \in Sessions |-> NoConn]
    /\ reply = [s \in Sessions |-> <<>>]
    /\ faults = 0
    /\ crashes = 0

\* A file system call works, or fails and uses one of the faults.
Works(ok) == IF ok THEN UNCHANGED faults ELSE faults < MaxFaults /\ faults' = faults + 1

\* The session and the aggregate after an operation.
Becomes(s, w) == ses' = [ses EXCEPT ![s] = w.r] /\ total' = w.t
Now(s) == [r |-> ses[s], t |-> total]

\* getOrCreateSession: no other session is alive; staging first, then the PTY.
StartSession(s) ==
    /\ up /\ ses[s].life = "none"
    /\ \A x \in Sessions : ses[x].life \notin {"running", "ending"}
    /\ ses' = [ses EXCEPT ![s].life = "running", ![s].dir = TRUE]
    /\ UNCHANGED <<up, total, conn, reply, faults, crashes>>

\* The PTY does not launch: the new staging directory is cleaned up.
StartFails(s) ==
    /\ up /\ ses[s].life = "none"
    /\ \A x \in Sessions : ses[x].life \notin {"running", "ending"}
    /\ \E ok \in BOOLEAN :
          /\ Works(ok)
          /\ ses' = [ses EXCEPT ![s].life = "done", ![s].dir = ~ok, ![s].failed = ~ok]
    /\ UNCHANGED <<up, total, conn, reply, crashes>>

\* terminateWithReason: no manager is created from here on.
Terminate(s) ==
    /\ up /\ ses[s].life = "running"
    /\ ses' = [ses EXCEPT ![s].life = "ending"]
    /\ UNCHANGED <<up, total, conn, reply, faults, crashes>>

\* waitForExit, first part: the process is gone, the client is closed.
ProcessExits(s) ==
    /\ up /\ ses[s].life \in {"running", "ending"}
    /\ ses' = [ses EXCEPT ![s].life = "ended"]
    /\ conn' = [conn EXCEPT ![s] = Broken(@)]
    /\ reply' = [reply EXCEPT ![s] = IF conn[s].live /\ s \in Observed THEN <<"exit">> ELSE @]
    /\ UNCHANGED <<up, total, faults, crashes>>

\* Manager.Close: every active transfer is cleaned up, or stays for a retry.
CloseManager(w, failing) ==
    FoldSet(LAMBDA id, v : DropActive(v, id), w, DOMAIN w.r.active \ failing)

\* waitForExit, closeAttachmentManager: the aggregate gets the completed bytes
\* back unless a partial could not be removed.
CloseAttachments(s) ==
    /\ up /\ ses[s].life = "ended"
    /\ \/ /\ ses[s].mgr = "none"
          /\ ses' = [ses EXCEPT ![s].life = "closed"]
          /\ UNCHANGED <<total, faults>>
       \/ /\ ses[s].mgr # "none"
          /\ \E failing \in SUBSET DOMAIN ses[s].active, closes \in BOOLEAN :
                LET w == CloseManager(Now(s), failing) IN
                /\ Works(failing = {} /\ closes)
                /\ failing = {} \/ closes
                /\ IF failing = {}
                   THEN Becomes(s, [r |-> [NoSession EXCEPT !.life = IF closes THEN "closed" ELSE "done",
                                                            !.mgr = "closed", !.failed = ~closes,
                                                            !.dir = TRUE, !.bytes = w.r.bytes,
                                                            !.files = w.r.files],
                                    t |-> Released(w.t, w.r.reserved)])
                   ELSE \E gone \in SUBSET {Final(id) : id \in {x \in failing : w.r.active[x].attempted}} :
                           Becomes(s, [w EXCEPT !.r.life = "done", !.r.mgr = "closing",
                                                !.r.failed = TRUE, !.r.files = @ \ gone])
    /\ UNCHANGED <<up, conn, reply, crashes>>

\* waitForExit, SessionStaging.Cleanup and close(done).
CleanStaging(s) ==
    /\ up /\ ses[s].life = "closed"
    /\ \E ok \in BOOLEAN, left \in SUBSET ses[s].files :
          /\ Works(ok \/ ses[s].inUse)
          /\ ok => left = {} /\ ~ses[s].inUse
          /\ ses[s].inUse => left = ses[s].files
          /\ ses' = [ses EXCEPT ![s].life = "done", ![s].dir = ~ok, ![s].failed = ~ok,
                                ![s].files = left, ![s].bytes = IF ok THEN 0 ELSE @]
    /\ UNCHANGED <<up, total, conn, reply, crashes>>

Crash ==
    /\ up /\ crashes < MaxCrashes
    /\ crashes' = crashes + 1
    /\ up' = FALSE
    /\ ses' = [s \in Sessions |->
                 IF ses[s].life = "none" THEN ses[s]
                 ELSE [NoSession EXCEPT !.life = "dead", !.dir = ses[s].dir, !.files = ses[s].files]]
    /\ total' = 0
    /\ conn' = [s \in Sessions |-> NoConn]
    /\ reply' = [s \in Sessions |-> <<>>]
    /\ UNCHANGED faults

\* CleanupStaleStaging before the server starts: a failure is only logged and
\* leaves the directories not reached yet.
CleanupStaleStaging ==
    /\ ~up /\ up' = TRUE
    /\ \E kept \in SUBSET {s \in Sessions : ses[s].dir} :
          /\ Works(kept = {})
          /\ ses' = [s \in Sessions |->
                       IF s \in kept THEN [ses[s] EXCEPT !.failed = TRUE]
                       ELSE [ses[s] EXCEPT !.dir = FALSE, !.files = {}]]
    /\ UNCHANGED <<total, conn, reply, crashes>>

-----------------------------------------------------------------------------
(* The read loop of a connection.                                          *)

\* beginAttachLocked: at most one connection is attached.  Until its detach the next
\* one is refused, which changes nothing on the Agent's side.
Attach(s) ==
    /\ up /\ ses[s].life = "running" /\ conn[s].pc = "none"
    /\ conn' = [conn EXCEPT ![s] = [pc |-> "idle", live |-> TRUE, msg |-> <<>>]]
    /\ reply' = [reply EXCEPT ![s] = <<>>]
    /\ UNCHANGED <<up, ses, total, faults, crashes>>

\* The read fails and the loop detaches.
Drop(s) ==
    /\ up /\ conn[s].live
    /\ conn' = [conn EXCEPT ![s] = Broken(@)]
    /\ reply' = [reply EXCEPT ![s] = <<>>]
    /\ UNCHANGED <<up, ses, total, faults, crashes>>

\* commitProtocolV1ClientMessage acknowledges and the loop reads on; writeError
\* is followed by a return.  Nothing is written on a connection that is gone.
Answer(s, ok, what) ==
    /\ conn' = [conn EXCEPT ![s] = IF ok /\ @.live THEN [@ EXCEPT !.pc = "idle", !.msg = <<>>]
                                   ELSE NoConn]
    /\ reply' = [reply EXCEPT ![s] = IF conn[s].live /\ s \in Observed THEN what ELSE <<>>]

\* NewManagerWithAggregate: the staging has no manager yet and no completed bytes.
NewManager(r) == [r EXCEPT !.mgr = "open", !.inUse = TRUE, !.reserved = r.bytes]

\* transferManager creates the manager on first use; the operation itself runs
\* later, outside the locks of the session.
Receive(s, m) ==
    /\ up /\ conn[s].pc = "idle" /\ conn[s].live /\ m.kind # "status"
    /\ \/ /\ ses[s].life = "running"
          /\ ses' = [ses EXCEPT ![s] = IF @.mgr = "none" THEN NewManager(@) ELSE @]
          /\ conn' = [conn EXCEPT ![s].pc = "op", ![s].msg = m]
          /\ UNCHANGED <<reply, faults>>
       \/ /\ ses[s].life = "running" /\ ses[s].mgr = "none"
          /\ Works(FALSE)
          /\ \E left \in OpenFails(ses[s].files) : ses' = [ses EXCEPT ![s].files = left]
          /\ Answer(s, FALSE, <<"error">>)
       \/ /\ ses[s].life # "running"
          /\ Answer(s, FALSE, <<"error">>)
          /\ UNCHANGED <<ses, faults>>
    /\ UNCHANGED <<up, total, crashes>>

Outcome(r, id) ==
    CASE r.mgr = "none"            -> <<"unknown", 0>>
      [] id \in DOMAIN r.active    -> <<"active", Len(r.active[id].got)>>
      [] id \in DOMAIN r.completed -> <<"completed", 0>>
      [] id \in Range(r.cancelled) -> <<"cancelled", 0>>
      [] OTHER                     -> <<"unknown", 0>>

\* attachmentOutcome and respondProtocolV1AttachmentTransferStatus.
ReceiveStatus(s, m) ==
    /\ up /\ conn[s].pc = "idle" /\ conn[s].live /\ m.kind = "status"
    /\ IF ses[s].life = "running"
       THEN Answer(s, TRUE, <<"status", m.id>> \o Outcome(ses[s], m.id))
       ELSE Answer(s, FALSE, <<"error">>)
    /\ UNCHANGED <<up, ses, total, faults, crashes>>

\* The message whose operation is next; a closed manager refuses every one.
Handles_Slip(s, kind) == up /\ conn[s].pc = "op" /\ conn[s].msg.kind = kind
Handles(s, kind) == up /\ conn[s].pc = "op" /\ conn[s].msg.kind = kind /\ ses[s].mgr = "open"

\* A rejected operation is followed by Manager.Cancel, in a step of its own.
Reject(s) == /\ conn' = [conn EXCEPT ![s].pc = "cancel"]
             /\ UNCHANGED reply

Known(r, id) == id \in DOMAIN r.active \cup DOMAIN r.completed

CanBegin(r, id, f) ==
    /\ f.named /\ f.size > 0 /\ f.size <= MaxFile /\ ParseContentPolicy(f)
    /\ ~Known(r, id)
    /\ Cardinality(DOMAIN r.active) < MaxActive
    /\ r.reserved <= MaxSession /\ f.size <= MaxSession - r.reserved
    /\ AggregateFits(f.size)

\* Begin: when the partial cannot be created the aggregate keeps the bytes that
\* were reserved for it, and the entry itself may stay in the directory.
Begin(s) ==
    /\ Handles(s, "begin")
    /\ LET id == conn[s].msg.id
           f  == conn[s].msg.file
       IN  \/ /\ CanBegin(ses[s], id, f)
              /\ total' = Reserved(total, f.size)
              /\ ses' = [ses EXCEPT ![s].active = (id :> [file |-> f, got |-> <<>>, disk |-> <<>>,
                                                          text |-> NoText, attempted |-> FALSE]) @@ @,
                                    ![s].reserved = @ + f.size,
                                    ![s].files = @ \cup {Partial(id)}]
              /\ Answer(s, TRUE, <<"ack">>)
              /\ UNCHANGED faults
           \/ /\ CanBegin(ses[s], id, f)
              /\ Works(FALSE)
              /\ total' = Reserved(total, f.size)
              /\ \E left \in {{}, {Residue(id)}} : ses' = [ses EXCEPT ![s].files = @ \cup left]
              /\ Reject(s)
           \/ /\ ~CanBegin(ses[s], id, f)
              /\ Reject(s)
              /\ UNCHANGED <<ses, total, faults>>
    /\ UNCHANGED <<up, crashes>>

CanChunk(r, m) ==
    /\ m.id \in DOMAIN r.active
    /\ m.data # <<>> /\ Len(m.data) <= MaxChunk
    /\ m.off = Len(r.active[m.id].got)
    /\ Len(m.data) <= r.active[m.id].file.size - Len(r.active[m.id].got)
    /\ m.intact

\* A transfer is removed after a failed write or a failed verification, or
\* stays active when its partial cannot be removed.
RemovePartial(s, id, removed) ==
    IF removed THEN Becomes(s, ReleaseActive([Now(s) EXCEPT !.r.files = RemoveEntry(@, Partial(id))], id))
               ELSE UNCHANGED <<ses, total>>

Chunk(s) ==
    /\ Handles(s, "chunk")
    /\ LET m == conn[s].msg IN
       \/ /\ CanChunk(ses[s], m)
          /\ ses' = [ses EXCEPT ![s].active[m.id].got = @ \o m.data,
                                ![s].active[m.id].disk = WriteAt(@, m.off, m.data),
                                ![s].active[m.id].text =
                                    IF SupportedContentPolicies[ses[s].active[m.id].file.ext].text
                                    THEN Utf8Write(@, m.data) ELSE @]
          /\ Answer(s, TRUE, <<"ack">>)
          /\ UNCHANGED <<total, faults>>
       \/ /\ CanChunk(ses[s], m)
          /\ Works(FALSE)
          /\ \/ RemovePartial(s, m.id, TRUE)
             \/ /\ ses' = [ses EXCEPT ![s].active[m.id].disk = TornWrite(@, m.off, m.data)]
                /\ UNCHANGED total
          /\ Reject(s)
       \/ /\ ~CanChunk(ses[s], m)
          /\ Reject(s)
          /\ UNCHANGED <<ses, total, faults>>
    /\ UNCHANGED <<up, crashes>>

Verified(a) ==
    /\ Len(a.got) = a.file.size
    /\ a.got = a.file.sum
    /\ MatchesBytes(a.file, a.got, a.text)

\* Completing again what is completed is fine; a transfer that fails its checks
\* is removed; one that cannot be published stays active.
Complete(s) ==
    /\ Handles(s, "complete")
    /\ LET id == conn[s].msg.id
           a  == ses[s].active[id]
       IN  \/ /\ id \in DOMAIN ses[s].completed
              /\ Answer(s, TRUE, <<"ack">>)
              /\ UNCHANGED <<ses, total, faults>>
           \/ /\ ~Known(ses[s], id)
              /\ Reject(s)
              /\ UNCHANGED <<ses, total, faults>>
           \/ /\ id \in DOMAIN ses[s].active /\ ~Verified(a)
              /\ \E removed \in BOOLEAN : Works(removed) /\ RemovePartial(s, id, removed)
              /\ Reject(s)
           \/ /\ id \in DOMAIN ses[s].active /\ Verified(a)
              /\ ses' = [ses EXCEPT ![s].active = Without(@, id),
                                    ![s].completed = (id :> [file |-> a.file, data |-> a.disk]) @@ @,
                                    ![s].bytes = @ + a.file.size,
                                    ![s].files = Renamed(@, id)]
              /\ Answer(s, TRUE, <<"ack">>)
              /\ UNCHANGED <<total, faults>>
           \/ /\ id \in DOMAIN ses[s].active /\ Verified(a)
              /\ Works(FALSE)
              /\ \E files \in RenameFails(ses[s].files, id) :
                    ses' = [ses EXCEPT ![s].active[id].attempted = TRUE, ![s].files = files]
              /\ Reject(s)
              /\ UNCHANGED total
    /\ UNCHANGED <<up, crashes>>

\* Manager.Cancel: completed transfers stay, unknown ids are recorded too.
CancelWorks(w, id) ==
    IF id \in DOMAIN w.r.completed THEN w
    ELSE LET v == IF id \in DOMAIN w.r.active THEN DropActive(w, id) ELSE w
         IN  [v EXCEPT !.r.cancelled = RecordCancelled(@, id)]

\* The client's own cancel; a failure is followed by one more Cancel.
Cancel(s) ==
    /\ Handles(s, "cancel")
    /\ LET id == conn[s].msg.id IN
       \/ /\ Becomes(s, CancelWorks(Now(s), id))
          /\ Answer(s, TRUE, <<"ack">>)
          /\ UNCHANGED faults
       \/ /\ id \in DOMAIN ses[s].active
          /\ Works(FALSE)
          /\ \E r \in CleanupFails(ses[s], id) : ses' = [ses EXCEPT ![s] = r]
          /\ Reject(s)
          /\ UNCHANGED total
    /\ UNCHANGED <<up, crashes>>

\* applyAttachmentMessage after a rejected operation; the loop then ends.
Abandon(s) ==
    /\ up /\ conn[s].pc = "cancel"
    /\ LET id == conn[s].msg.id IN
       \/ /\ ses[s].mgr = "open"
          /\ Becomes(s, CancelWorks(Now(s), id))
          /\ UNCHANGED faults
       \/ /\ ses[s].mgr = "open" /\ id \in DOMAIN ses[s].active
          /\ Works(FALSE)
          /\ \E r \in CleanupFails(ses[s], id) : ses' = [ses EXCEPT ![s] = r]
          /\ UNCHANGED total
       \/ /\ ses[s].mgr # "open"
          /\ UNCHANGED <<ses, total, faults>>
    /\ Answer(s, FALSE, <<"error">>)
    /\ UNCHANGED <<up, crashes>>

ValidSelection(ids) ==
    /\ ids # <<>> /\ Len(ids) <= MaxSelection
    /\ IsInjective(ids)

\* One id of Discard: the partial or the published file goes, with its bytes.
DiscardOne_Slip(w, id) ==
    LET v == IF id \in DOMAIN w.r.active THEN DropActive(w, id)
             ELSE IF id \in DOMAIN w.r.completed
                  THEN [w EXCEPT !.r.completed = Without(@, id),
                                 !.r.files = RemoveEntry(@, Final(id))]
             ELSE w
    IN  [v EXCEPT !.r.cancelled = RecordCancelled(@, id)]
DiscardOne(w, id) ==
    LET v == IF id \in DOMAIN w.r.active THEN DropActive(w, id)
             ELSE IF id \in DOMAIN w.r.completed
                  THEN ReleaseCompleted([w EXCEPT !.r.files = RemoveEntry(@, Final(id))], id)
             ELSE w
    IN  [v EXCEPT !.r.cancelled = RecordCancelled(@, id)]

\* The whole selection is checked first; a failure at the k-th id keeps what
\* was done for the ids before it.
Discard(s) ==
    /\ Handles(s, "discard")
    /\ LET ids == conn[s].msg.ids IN
       \/ /\ ValidSelection(ids)
          /\ Becomes(s, FoldLeft(DiscardOne, Now(s), ids))
          /\ Answer(s, TRUE, <<"ack">>)
          /\ UNCHANGED faults
       \/ /\ ValidSelection(ids)
          /\ Works(FALSE)
          /\ \E k \in DOMAIN ids :
                LET w == FoldLeft(DiscardOne, Now(s), SubSeq(ids, 1, k - 1)) IN
                /\ Known(w.r, ids[k])
                /\ \E r \in IF ids[k] \in DOMAIN w.r.active THEN CleanupFails(w.r, ids[k]) ELSE {w.r} :
                      Becomes(s, [w EXCEPT !.r = r])
          /\ Answer(s, FALSE, <<"error">>)
       \/ /\ ~ValidSelection(ids)
          /\ Answer(s, FALSE, <<"error">>)
          /\ UNCHANGED <<ses, total, faults>>
    /\ UNCHANGED <<up, crashes>>

\* CompletedAttachments: a prompt may only name completed transfers.
Resolves(r, ids) == ValidSelection(ids) /\ \A i \in DOMAIN ids : ids[i] \in DOMAIN r.completed

PreparePrompt(s) ==
    /\ Handles(s, "prepare")
    /\ IF Resolves(ses[s], conn[s].msg.ids) THEN Answer(s, TRUE, <<"ack">>)
                                            ELSE Answer(s, FALSE, <<"error">>)
    /\ UNCHANGED <<up, ses, total, faults, crashes>>

\* The manager was closed after transferManager returned it: every operation,
\* and the Cancel after it, gets ErrManagerClosed.
RefuseClosed(s) ==
    /\ up /\ conn[s].pc = "op" /\ ses[s].mgr # "open"
    /\ Answer(s, FALSE, <<"error">>)
    /\ UNCHANGED <<up, ses, total, faults, crashes>>

-----------------------------------------------------------------------------
AgentStep(s) ==
    \/ Begin(s) \/ Chunk(s) \/ Complete(s) \/ Cancel(s) \/ Abandon(s)
    \/ Discard(s) \/ PreparePrompt(s) \/ RefuseClosed(s)

=============================================================================

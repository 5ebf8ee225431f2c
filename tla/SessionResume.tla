--------------------------- MODULE SessionResume ---------------------------
(***************************************************************************)
(* What a browser's terminal shows across reconnections.                   *)
(*                                                                         *)
(* The Agent numbers its envelopes per physical connection: 1 is the Hello,*)
(* 2 the SessionStatus, and then one number per output chunk,              *)
(* acknowledgement, pong or exit notice (internal/protocol/stream.go).     *)
(* While no browser is attached, output goes to a bounded replay buffer    *)
(* (internal/server/replay_buffer.go).  On detach the session keeps the    *)
(* highest number it encoded; on the next attach it compares it with the   *)
(* cursor the browser presents and answers FRESH, RESUMED or               *)
(* RESYNC_REQUIRED (internal/server/server.go).  The browser side is       *)
(* ProtocolV1ClientStream and the message handler of TerminalApp.tsx.      *)
(*                                                                         *)
(* An output chunk is its position in the PTY's output and travels in one  *)
(* envelope.  Time is abstracted: any prefix of the replay buffer may have *)
(* expired whenever the code prunes it.  A connection is identified by its *)
(* order of attachment, which the code never looks at.                     *)
(*                                                                         *)
(* A definition named ..._Slip is the one after it with a mistake the code *)
(* could contain; it is not part of the specification.                     *)
(***************************************************************************)
EXTENDS Naturals, Sequences

CONSTANTS
  Browser,         \* browser pages, each with its own resume cursor
  None,            \* no browser
  ReplayCapacity,  \* chunks the replay buffer holds (maxBufferedOutputBytes)
  MaxProduced,     \* bound: chunks the PTY produces
  MaxConnections,  \* bound: connections that attach
  MaxGeneration,   \* bound: session generations
  MaxSequence      \* bound: envelopes encoded on one connection

ASSUME NoneAssumption == None \notin Browser
ASSUME CapacityAssumption == ReplayCapacity \in Nat
ASSUME BoundsAssumption ==
  /\ MaxProduced \in Nat
  /\ MaxConnections \in Nat
  /\ MaxGeneration \in Nat
  /\ MaxSequence \in Nat

VARIABLES
  produced,     \* chunks read from the PTY so far
  generation,   \* ptySession.generation; 0 before the first session
  live,         \* the registered session accepts output and attachments
  client,       \* ptySession.client
  broken,       \* writes of the attached connection fail
  nextOutbound, \* AgentStream.nextOutbound of the attached connection
  replay,       \* replayBuffer.entries
  truncated,    \* replayBuffer.truncated
  checkpoint,   \* ptySession.resumeCheckpoint
  lastDetached, \* ptySession.lastDetachedOutput
  socket,       \* the browser's socket: "closed", "attaching" or "open"
  wire,         \* envelopes written by the Agent, not yet received
  bound,        \* ProtocolV1ClientStream.sessionBound
  highest,      \* ProtocolV1ClientStream.highestInbound
  cursor,       \* resumeCursorRef: [gen, seq], or NoCursor
  view,         \* chunks on the terminal since its last reset
  connections,  \* connections attached so far (auxiliary)
  conn,         \* the number of the connection each browser attached last (auxiliary)
  taken,        \* the connection each browser's cursor was taken on (auxiliary)
  stale         \* the view was resumed from an older connection's cursor (auxiliary)

agentVars == <<produced, generation, live, client, broken, nextOutbound,
               replay, truncated, checkpoint, lastDetached>>
browserVars == <<socket, wire, bound, highest, cursor, view>>
auxVars == <<connections, conn, taken, stale>>
vars == <<agentVars, browserVars, auxVars>>

NoCursor == [gen |-> 0, seq |-> 0]
Dispositions == {"FRESH", "RESUMED", "RESYNC_REQUIRED"}

Status(n, g, d) == [seq |-> n, gen |-> g, kind |-> "status", disposition |-> d, chunk |-> 0]
Output(n, g, c) == [seq |-> n, gen |-> g, kind |-> "output", disposition |-> "none", chunk |-> c]
Notice(n, g, k) == [seq |-> n, gen |-> g, kind |-> k, disposition |-> "none", chunk |-> 0]

Init ==
  /\ produced = 0
  /\ generation = 0
  /\ live = FALSE
  /\ client = None
  /\ broken = FALSE
  /\ nextOutbound = 2
  /\ replay = <<>>
  /\ truncated = FALSE
  /\ checkpoint = FALSE
  /\ lastDetached = 0
  /\ socket = [b \in Browser |-> "closed"]
  /\ wire = [b \in Browser |-> <<>>]
  /\ bound = [b \in Browser |-> FALSE]
  /\ highest = [b \in Browser |-> 1]
  /\ cursor = [b \in Browser |-> NoCursor]
  /\ view = [b \in Browser |-> <<>>]
  /\ connections = 0
  /\ conn = [b \in Browser |-> 0]
  /\ taken = [b \in Browser |-> 0]
  /\ stale = [b \in Browser |-> FALSE]

-----------------------------------------------------------------------------
(* The replay buffer. *)

\* pruneExpired: the n oldest entries are past maxAge.
PruneExpired(entries, n) == SubSeq(entries, n + 1, Len(entries))

\* The overflow loop of append: the oldest entries go first.
DropOverflow(entries) ==
  IF Len(entries) > ReplayCapacity
  THEN SubSeq(entries, Len(entries) - ReplayCapacity + 1, Len(entries))
  ELSE entries

\* append, when n entries have expired.
BufferOutput(chunk, n) ==
  LET kept == Append(PruneExpired(replay, n), chunk)
  IN  /\ replay' = DropOverflow(kept)
      /\ truncated' = (truncated \/ n > 0 \/ Len(kept) > ReplayCapacity)

Drain_Slip == UNCHANGED <<replay, truncated>>

\* drainWithStatus empties the buffer.
Drain == replay' = <<>> /\ truncated' = FALSE

-----------------------------------------------------------------------------
(* Writing on the attached connection. *)

\* The envelopes reach the browser unless it closed the socket or the write failed.
Deliver(b, envelopes) ==
  IF socket[b] = "open" /\ ~broken
  THEN wire' = [wire EXCEPT ![b] = @ \o envelopes]
  ELSE UNCHANGED wire

\* encodeLocked and EncodeTerminalOutputChunk advance the sequence before the write.
Send(envelope) ==
  /\ nextOutbound <= MaxSequence
  /\ nextOutbound' = nextOutbound + 1
  /\ Deliver(client, <<envelope>>)

-----------------------------------------------------------------------------
(* The session. *)

\* resumeDispositionLocked.

ResumeDisposition_Slip(request, created, complete) ==
  IF created /\ request = NoCursor THEN "FRESH"
  ELSE IF ~created /\ request.gen = generation /\ checkpoint /\ request.seq = lastDetached
       THEN "RESUMED"
       ELSE "RESYNC_REQUIRED"

ResumeDisposition(request, created, complete) ==
  IF created /\ request = NoCursor THEN "FRESH"
  ELSE IF /\ ~created
          /\ request.gen = generation
          /\ checkpoint
          /\ complete
          /\ request.seq = lastDetached
       THEN "RESUMED"
       ELSE "RESYNC_REQUIRED"

AttachEnvelopes_Slip(g, disposition, buffered) ==
  <<Status(2, g, disposition)>>
    \o [i \in 1..Len(buffered) |-> Output(i + 1, g, buffered[i])]

\* The SessionStatus and the drained chunks, as attachProtocolV1 numbers them.
AttachEnvelopes(g, disposition, buffered) ==
  <<Status(2, g, disposition)>>
    \o [i \in 1..Len(buffered) |-> Output(i + 2, g, buffered[i])]

\* attachProtocolV1, and newPTYSession when there is no session to reuse.
\* n entries expired before the drain; only the first `written` envelopes are
\* written, the next one is encoded and its write fails, and the rest of the
\* drained chunks are dropped.
Attach(b) ==
  /\ socket[b] = "attaching"
  /\ client = None
  /\ connections < MaxConnections
  /\ live \/ generation < MaxGeneration
  /\ LET created == ~live
         g == IF created THEN generation + 1 ELSE generation
         entries == IF created THEN <<>> ELSE replay
     IN \E n \in 0..Len(entries) :
          LET buffered == PruneExpired(entries, n)
              complete == created \/ ~(truncated \/ n > 0)
              disposition == ResumeDisposition(cursor[b], created, complete)
              envelopes == AttachEnvelopes(g, disposition, buffered)
          IN /\ \E written \in 0..Len(envelopes) :
                  /\ broken' = (written < Len(envelopes))
                  /\ wire' = [wire EXCEPT ![b] = SubSeq(envelopes, 1, written)]
                  /\ nextOutbound' = IF written < Len(envelopes)
                                     THEN written + 3 ELSE written + 2
             /\ generation' = g
             /\ checkpoint' = (checkpoint /\ ~created)
             /\ lastDetached' = IF created THEN 0 ELSE lastDetached
  /\ live' = TRUE
  /\ client' = b
  /\ Drain
  /\ socket' = [socket EXCEPT ![b] = "open"]
  /\ connections' = connections + 1
  /\ conn' = [conn EXCEPT ![b] = connections + 1]
  /\ UNCHANGED <<produced, bound, highest, cursor, view, taken, stale>>

\* deliverOutput.
DeliverOutput ==
  /\ live
  /\ produced < MaxProduced
  /\ produced' = produced + 1
  /\ \/ /\ client = None
        /\ \E n \in 0..Len(replay) : BufferOutput(produced', n)
        /\ UNCHANGED <<nextOutbound, wire>>
     \/ /\ client # None
        /\ Send(Output(nextOutbound, generation, produced'))
        /\ UNCHANGED <<replay, truncated>>
  /\ UNCHANGED <<generation, live, client, broken, checkpoint, lastDetached,
                 socket, bound, highest, cursor, view, auxVars>>

\* commitProtocolV1ClientMessage with an acknowledgement, respondProtocolV1Ping and
\* the other replies: an envelope that carries no output.
Acknowledge ==
  /\ client # None
  /\ Send(Notice(nextOutbound, generation, "acknowledgement"))
  /\ UNCHANGED <<produced, generation, live, client, broken, replay, truncated,
                 checkpoint, lastDetached, socket, bound, highest, cursor, view,
                 auxVars>>

\* A write of the attached connection fails; every later one fails too.
WriteFails ==
  /\ client # None
  /\ ~broken
  /\ broken' = TRUE
  /\ UNCHANGED <<produced, generation, live, client, nextOutbound, replay,
                 truncated, checkpoint, lastDetached, browserVars, auxVars>>

\* detach: the handler of the attached connection returns.
Detach ==
  /\ client # None
  /\ client' = None
  /\ broken' = FALSE
  /\ checkpoint' = TRUE
  /\ lastDetached' = nextOutbound - 1
  /\ UNCHANGED <<produced, generation, live, nextOutbound, replay, truncated,
                 browserVars, auxVars>>

\* waitForExit: the attached browser is told and the session is over.
ProcessExit ==
  /\ live
  /\ live' = FALSE
  /\ client' = None
  /\ broken' = FALSE
  /\ \/ /\ client # None
        /\ Send(Notice(nextOutbound, generation, "processExit"))
     \/ /\ client = None
        /\ UNCHANGED <<nextOutbound, wire>>
  /\ UNCHANGED <<produced, generation, replay, truncated, checkpoint, lastDetached,
                 socket, bound, highest, cursor, view, auxVars>>

-----------------------------------------------------------------------------
(* The browser. *)

\* connect: a new socket and a new ProtocolV1ClientStream; after the Hello
\* exchange createAttachSession sends the cursor.
Open(b) ==
  /\ socket[b] = "closed"
  /\ socket' = [socket EXCEPT ![b] = "attaching"]
  /\ bound' = [bound EXCEPT ![b] = FALSE]
  /\ highest' = [highest EXCEPT ![b] = 1]
  /\ UNCHANGED <<agentVars, wire, cursor, view, auxVars>>

\* The socket closes: what was still on the wire is lost.
Close(b) ==
  /\ socket[b] # "closed"
  /\ socket' = [socket EXCEPT ![b] = "closed"]
  /\ wire' = [wire EXCEPT ![b] = <<>>]
  /\ UNCHANGED <<agentVars, bound, highest, cursor, view, auxVars>>

\* The checks of acceptAgentMessage on the sequence and on the session binding.
Acceptable(b, e) ==
  /\ e.seq = highest[b] + 1
  /\ (e.kind = "status") # bound[b]
  /\ bound[b] => e.gen = cursor[b].gen

\* The message handler: acceptAgentMessage, the cursor, then the terminal.
Receive(b) ==
  /\ wire[b] # <<>>
  /\ LET e == Head(wire[b])
     IN /\ Acceptable(b, e)
        /\ bound' = [bound EXCEPT ![b] = TRUE]
        /\ highest' = [highest EXCEPT ![b] = e.seq]
        /\ cursor' = [cursor EXCEPT ![b] = [gen |-> e.gen, seq |-> e.seq]]
        /\ view' = [view EXCEPT ![b] =
             IF e.disposition = "RESYNC_REQUIRED" THEN <<>>
             ELSE IF e.kind = "output" THEN Append(@, e.chunk)
             ELSE @]
        /\ stale' = [stale EXCEPT ![b] =
             \/ @ /\ e.disposition # "RESYNC_REQUIRED"
             \/ e.disposition = "RESUMED" /\ conn[b] # taken[b] + 1]
  /\ taken' = [taken EXCEPT ![b] = conn[b]]
  /\ wire' = [wire EXCEPT ![b] = Tail(@)]
  /\ UNCHANGED <<agentVars, socket, connections, conn>>

Next ==
  \/ DeliverOutput \/ Acknowledge \/ WriteFails \/ Detach \/ ProcessExit
  \/ \E b \in Browser : Attach(b) \/ Open(b) \/ Close(b) \/ Receive(b)

Spec == Init /\ [][Next]_vars

-----------------------------------------------------------------------------
(* Properties. *)

Envelope == [seq : Nat, gen : Nat, chunk : Nat,
             kind : {"status", "output", "acknowledgement", "processExit"},
             disposition : Dispositions \cup {"none"}]

\* The chunks a browser shows, and those on their way to it.
Shown(b) == {view[b][i] : i \in 1..Len(view[b])}
Coming(b) == {wire[b][i].chunk : i \in {j \in 1..Len(wire[b]) : wire[b][j].kind = "output"}}

Increasing(s) == \A i \in 1..Len(s) - 1 : s[i] < s[i + 1]
Contiguous(s) == \A i \in 1..Len(s) - 1 : s[i + 1] = s[i] + 1

\* Every envelope the browser takes off the wire passes the sequence and binding
\* checks of acceptAgentMessage: the two ends of a connection count alike, so a
\* failProtocol on a stream the Agent wrote never stops the terminal for good.
StreamsAgree ==
  \A b \in Browser : wire[b] # <<>> => Acceptable(b, Head(wire[b]))

\* No chunk is shown twice or out of order, whatever the disposition, the other
\* browsers and the writes that failed: a drained replay is never replayed again.
NoDuplicateOutput == \A b \in Browser : Increasing(view[b])

\* A terminal that was never resumed from the cursor of an older connection shows
\* the PTY's output without a gap; and what the attached one shows and will still
\* receive goes on without a gap to the PTY's last chunk, unless its writes failed.
ResumedWithoutGap ==
  \A b \in Browser : ~stale[b] =>
    /\ Contiguous(view[b])
    /\ client = b /\ ~broken /\ socket[b] = "open" /\ bound[b]
       => \A c \in Shown(b) \cup Coming(b) : c..produced \subseteq Shown(b) \cup Coming(b)
============================================================================

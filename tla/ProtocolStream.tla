--------------------------- MODULE ProtocolStream ---------------------------
(***************************************************************************)
(* One WebSocket of the Agent after its upgrade: the Hello of Protocol V1  *)
(* (internal/protocol/negotiation.go), the ordered stream (stream.go), the *)
(* writer both of the Agent's goroutines share and the loop that reads     *)
(* the client's messages (internal/server/server.go).                      *)
(*                                                                         *)
(* The reading goroutine decodes a message, applies it, and only then      *)
(* commits its number and answers (an EndSession it commits first); the    *)
(* goroutine that copies the output writes between these steps.  Every write holds the    *)
(* lock of the writer from encoding to sending.  What a message does to    *)
(* the session is modelled by AgentSession, AttachmentTransfer and         *)
(* PromptAction; here it succeeds or fails.  Sizes are in units: what is   *)
(* longest of an envelope and of a Hello, against the limit the client     *)
(* announced.                                                              *)
(*                                                                         *)
(* A definition named ..._Slip is the one after it with a mistake the code *)
(* could contain; it is not part of the specification.                     *)
(***************************************************************************)
EXTENDS Integers, Sequences, FiniteSets

CONSTANTS Limits,       \* envelope limits clients announce
          MaxMessages,  \* bound: messages a client sends
          MaxOutputs    \* bound: output chunks on one connection

VARIABLES link,      \* the connections by request
          required   \* DisableLegacyProtocol

streamVars == <<link, required>>

Capabilities == {"binary", "sequenced", "resizeEnd", "processExit", "resume", "error", "health",
                 "transfer", "prompt"}

\* done is the number of the last message whose effect took place, acked the
\* highest number the client was told.
NoLink == [pc |-> "none", caps |-> {}, limit |-> 0, nextOut |-> 2, nextIn |-> 2, highIn |-> 1,
           peerAck |-> 0, bound |-> FALSE, inbox |-> "none", inAck |-> 0, sent |-> 0, wire |-> <<>>, seen |-> 1,
           acked |-> 0, done |-> 1, outputs |-> 0]

-----------------------------------------------------------------------------
(* Negotiation.                                                             *)

\* AcceptClientHello: what a capability requires.
Accepted(caps) ==
    /\ caps \cap {"resizeEnd", "processExit", "error", "health", "transfer", "prompt"} # {}
       => "sequenced" \in caps
    /\ "transfer" \in caps => "error" \in caps
    /\ "prompt" \in caps => {"transfer", "error"} \subseteq caps

\* requireCurrentClientCapabilities, or the one capability every client has.
Required ==
    IF required THEN {"binary", "sequenced", "resizeEnd", "processExit", "resume", "error", "health"}
    ELSE {"binary"}

\* The longest envelope of a kind, a text message counting as none; output is
\* cut to what fits.
Size(kind) == CASE kind = "hello" -> 2 [] kind = "preview" -> 3 [] kind = "text" -> 0 [] OTHER -> 1

\* negotiateProtocolV1, then NewAgentStream for a client with sequenced messages.
Negotiated(caps, limit) ==
    [NoLink EXCEPT !.caps = caps, !.limit = limit, !.pc =
       IF ~Accepted(caps) \/ ~(Required \subseteq caps) \/ limit = 0 \/ Size("hello") > limit THEN "closed"
       ELSE IF {"sequenced", "resume"} \subseteq caps THEN "attach" ELSE "open"]

Streams(k) == "sequenced" \in k.caps
Resumes(k) == Streams(k) /\ "resume" \in k.caps

-----------------------------------------------------------------------------
(* What the Agent writes.                                                   *)

\* The capability each kind of envelope needs; none of them goes out before the
\* session is bound, except an error about the session itself.
NeededFor == [status |-> "resume", transferStatus |-> "transfer", preview |-> "prompt", error |-> "error",
              startError |-> "error", exit |-> "processExit", pong |-> "health", ack |-> "sequenced",
              output |-> "sequenced"]
Encodable(k, kind) ==
    /\ NeededFor[kind] \in k.caps
    /\ kind \in {"ack", "startError"} \/ ~Resumes(k) \/ k.bound
Fits(k, kind) == Size(kind) <= k.limit

\* encodeLocked and WriteMessage.
Written(k, kind) ==
    IF kind = "text" THEN k
    ELSE [k EXCEPT !.nextOut = @ + 1,
                   !.wire = Append(@, [seq |-> k.nextOut, ack |-> k.highIn, kind |-> kind])]

\* An error or an exit goes out as JSON to a client that did not ask for envelopes;
\* by WithinAgreement the stream lets the Agent write it.
Notice(k, kind) == IF Streams(k) /\ NeededFor[kind] \in k.caps THEN kind ELSE "text"

\* writeBinary: plain bytes before the stream exists.
OutputKind(k) == IF Streams(k) THEN "output" ELSE "text"

-----------------------------------------------------------------------------
(* What the Agent reads.                                                    *)

\* DecodeClientMessage: the capability each kind needs.
Needs == [input |-> "sequenced", resize |-> "resizeEnd", end |-> "resizeEnd", acknowledge |-> "sequenced",
          ping |-> "health", transfer |-> "transfer", statusRequest |-> "transfer", prepare |-> "prompt",
          commit |-> "prompt", attach |-> "resume"]
Envelopes == DOMAIN Needs
Texts == {"textInput", "textResize", "textExit", "textPing", "textOther"}

\* validateInboundEnvelope and the switch on the payload.
Decodes_Slip(k, kind, ack) ==
    /\ Needs[kind] \in k.caps
    /\ ~(kind = "attach" /\ k.bound)
    /\ ack >= k.peerAck /\ ack < k.nextOut
Decodes(k, kind, ack) ==
    /\ Needs[kind] \in k.caps
    /\ IF Resumes(k) /\ ~k.bound THEN kind = "attach" ELSE kind # "attach"
    /\ ack >= k.peerAck /\ ack < k.nextOut

\* CommitClientMessage.
Committed(k) == [k EXCEPT !.highIn = k.nextIn, !.nextIn = @ + 1]

\* Transitional text on a stream: only what was not negotiated as envelopes.
TextAllowed(k, kind) ==
    Streams(k) => /\ kind # "textInput"
                  /\ kind \in {"textResize", "textExit"} => "resizeEnd" \notin k.caps
                  /\ kind = "textPing" => "health" \notin k.caps

\* The answer to a message that was applied.
AnswerTo(kind) ==
    CASE kind = "ping" -> "pong" [] kind = "statusRequest" -> "transferStatus" [] kind = "prepare" -> "preview"
      [] kind \in {"acknowledge", "end"} -> "text" [] kind = "attach" -> "status" [] OTHER -> "ack"

\* What can fail.
HasEffect(kind) == kind \notin {"acknowledge", "ping", "attach", "end"}
FailureOf(kind) == IF kind = "attach" THEN "startError" ELSE "error"

-----------------------------------------------------------------------------
(* The steps of a connection.                                               *)

SetLink(r, k) == link' = [link EXCEPT ![r] = k] /\ UNCHANGED required

\* What was written may still arrive; nothing else of a closed connection matters.
ClosedLink(k) ==
    IF k.wire = <<>> THEN [NoLink EXCEPT !.pc = "closed"]
    ELSE [k EXCEPT !.pc = "closed", !.inbox = "none"]

\* The client's Hello; a wrong one, or none in time, ends the connection.
HelloArrives(r) ==
    /\ link[r].pc = "hello"
    /\ \/ \E caps \in SUBSET Capabilities, limit \in Limits : SetLink(r, Negotiated(caps, limit))
       \/ SetLink(r, [NoLink EXCEPT !.pc = "closed"])

\* A client that does not resume gets the session without an attach of its own.
Open(r) ==
    /\ link[r].pc = "open"
    /\ \/ SetLink(r, [link[r] EXCEPT !.pc = "run"])
       \/ SetLink(r, ClosedLink(Written(link[r], Notice(link[r], "startError"))))

\* A client numbers its messages itself; it acknowledges what it has seen, or an
\* earlier number where it composed the message before it saw more.
ClientSends(r, kind) ==
    /\ link[r].pc \in {"attach", "run", "apply", "commit"} /\ link[r].inbox = "none"
    /\ link[r].sent < MaxMessages
    /\ kind \in Envelopes => Streams(link[r])
    /\ \E ack \in {link[r].seen} \cup {n \in {link[r].seen - 1} : n > 0} :
          SetLink(r, [link[r] EXCEPT !.inbox = kind, !.inAck = ack, !.sent = @ + 1])

ClientReceives(r) ==
    /\ link[r].wire # <<>>
    /\ LET f == Head(link[r].wire)
       IN  SetLink(r, [link[r] EXCEPT !.wire = Tail(@), !.seen = f.seq, !.acked = f.ack])

\* readClientMessages, an envelope: one that does not decode ends the connection.
ReadEnvelope_Slip(r) ==
    /\ link[r].pc \in {"attach", "run"} /\ link[r].inbox \in Envelopes
    /\ IF Decodes(link[r], link[r].inbox, link[r].inAck)
       THEN SetLink(r, [link[r] EXCEPT !.pc = "apply", !.peerAck = link[r].inAck, !.highIn = link[r].nextIn])
       ELSE SetLink(r, ClosedLink(link[r]))
ReadEnvelope(r) ==
    /\ link[r].pc \in {"attach", "run"} /\ link[r].inbox \in Envelopes
    /\ IF Decodes(link[r], link[r].inbox, link[r].inAck)
       THEN SetLink(r, [link[r] EXCEPT !.pc = "apply", !.peerAck = link[r].inAck])
       ELSE SetLink(r, ClosedLink(link[r]))

\* Its effect on the session, if it has one.
Apply(r) ==
    /\ link[r].pc = "apply"
    /\ SetLink(r, [link[r] EXCEPT !.pc = "commit", !.done = IF link[r].inbox = "end" THEN @ ELSE link[r].nextIn])

\* The error goes out and the connection ends.
ApplyFails(r) ==
    /\ link[r].pc = "apply"
    /\ HasEffect(link[r].inbox) \/ link[r].inbox = "attach"
    /\ SetLink(r, ClosedLink(Written(link[r], Notice(link[r], FailureOf(link[r].inbox)))))

\* commitProtocolV1ClientMessage and its siblings: the number is committed, the
\* session bound by an attach, and the answer written, or the connection ends.
\* After an end the Agent says farewell, and terminates the session only then.
Answered(k) ==
    LET kind == AnswerTo(k.inbox)
        bound == [Committed(k) EXCEPT !.bound = @ \/ k.inbox = "attach"]
    IN  IF k.inbox = "end" THEN [Written(bound, "output") EXCEPT !.pc = "ending"]
        ELSE IF kind = "text" \/ (Encodable(bound, kind) /\ Fits(bound, kind))
             THEN [Written(bound, kind) EXCEPT !.pc = "run", !.inbox = "none"]
             ELSE ClosedLink(bound)
Commit(r) ==
    /\ link[r].pc = "commit"
    /\ SetLink(r, Answered(link[r]))

Terminate(r) ==
    /\ link[r].pc = "ending"
    /\ SetLink(r, ClosedLink([link[r] EXCEPT !.done = link[r].highIn]))

\* readClientMessages, text: JSON controls of a client without the envelopes.
ReadText(r) ==
    /\ link[r].pc \in {"attach", "run"} /\ link[r].inbox \in Texts
    /\ LET k == link[r]
           read == [k EXCEPT !.inbox = "none"]
           allowed == k.pc = "run" /\ TextAllowed(k, k.inbox)
       IN  \/ ~allowed /\ SetLink(r, ClosedLink(k))
           \/ allowed /\ k.inbox \in {"textInput", "textResize", "textPing"} /\ SetLink(r, read)
           \/ allowed /\ k.inbox = "textOther" /\ SetLink(r, Written(read, Notice(k, "error")))
           \/ allowed /\ k.inbox \in {"textInput", "textResize"}
              /\ SetLink(r, ClosedLink(Written(k, Notice(k, "error"))))
           \/ allowed /\ k.inbox = "textExit" /\ SetLink(r, ClosedLink(Written(k, OutputKind(k))))

\* The output goroutine has a chunk for this client, or the process exits.
WriteOutput(r) ==
    /\ link[r].pc \in {"run", "apply", "commit"} /\ (Resumes(link[r]) => link[r].bound)
    /\ link[r].outputs < MaxOutputs
    /\ SetLink(r, [Written(link[r], OutputKind(link[r])) EXCEPT !.outputs = @ + 1])

WriteExit(r) ==
    /\ link[r].pc \in {"run", "apply", "commit"} /\ (Resumes(link[r]) => link[r].bound)
    /\ SetLink(r, ClosedLink(Written(link[r], Notice(link[r], "exit"))))

\* The connection is lost.
Lost(r) ==
    /\ link[r].pc \in {"hello", "open", "attach", "run", "apply", "commit"}
    /\ SetLink(r, [NoLink EXCEPT !.pc = "closed"])

LinkSteps(r) ==
    \/ HelloArrives(r) \/ Open(r) \/ Terminate(r) \/ ClientReceives(r) \/ ReadEnvelope(r) \/ Apply(r) \/ ApplyFails(r) \/ Commit(r)
    \/ ReadText(r) \/ WriteOutput(r) \/ WriteExit(r) \/ Lost(r)
    \/ \E kind \in Envelopes \cup Texts : ClientSends(r, kind)

-----------------------------------------------------------------------------
(* Properties.                                                              *)

\* The Hello settles everything: what the Agent writes is what this client
\* advertised, and a message it applied has an answer the stream lets it write,
\* whatever was negotiated; only a limit too small for the answer is left.
WithinAgreement ==
    \A r \in DOMAIN link :
       LET k == link[r]
           answer == AnswerTo(k.inbox)
       IN  /\ \A i \in DOMAIN k.wire : NeededFor[k.wire[i].kind] \in k.caps
           /\ k.pc = "commit" /\ answer # "text"
              => Encodable([k EXCEPT !.bound = @ \/ k.inbox = "attach"], answer)
           /\ k.pc = "apply" /\ Notice(k, FailureOf(k.inbox)) # "text"
              => Encodable(k, FailureOf(k.inbox)) \/ ~HasEffect(k.inbox)

\* "payload sequence is committed only after its side effect succeeds": whatever
\* the Agent writes meanwhile, no envelope acknowledges a message that has not
\* taken effect.  An EndSession is the exception: its number is committed, and the
\* farewell acknowledges it, while the session still runs.
AckMeansApplied ==
    \A r \in DOMAIN link :
       LET k == link[r]
           told == IF k.pc = "ending" THEN k.done + 1 ELSE k.done
       IN  /\ k.acked <= told
           /\ \A i \in DOMAIN k.wire : k.wire[i].ack <= told
=============================================================================

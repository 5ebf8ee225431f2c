# VibeBridge in TLA+

Specifications of VibeBridge, checked with TLC on small instances and, as far as safety of everything but attachments is concerned, proved with TLAPS for instances of any size. VibeBridge is a Go Agent that exposes one local terminal (PTY) session to a phone's browser, directly or through a relay. All paths below are relative to the repository.

## The system

| Part | State | Operations | What is hard |
|---|---|---|---|
| PTY session (`internal/server/server.go`, `session_lifecycle.go`) | registered session, generation, lifecycle, client, two timers, process, PTY, attachment manager, staging directory | connect, launch, register, attach, input, detach, expire, terminate, exit, clean up, shut down | goroutines race to create and to end a session; timer callbacks that already started; locks held across socket writes |
| Output, replay, resume (`server.go`, `replay_buffer.go`, `protocol/stream.go`, `web/src/TerminalApp.tsx`, `web/src/lib/protocol-v1.ts`) | replay buffer, checkpoint, sequence numbers of both ends, resume cursor | deliver, buffer, drain, attach, detach, receive | lost connections, numbers that restart with each connection, a full buffer |
| Protocol stream (`protocol/negotiation.go`, `stream.go`, `server.go`) | agreed capabilities and limit, next sequence, committed sequence | negotiate, decode, apply, commit, reply | what is acknowledged before it took effect, replies that are too large |
| Attachment prompt actions (`promptaction/registry.go`, `web/src/lib/attachment-prompt-action.ts`) | registry entries, pending counter; the client's active action | prepare, commit, cancel, resend | lost acknowledgements, retries, failed writes, a session that ends in between |
| Attachment transfers (`internal/attachment`, `web/src/lib/attachment-protocol.ts`, `attachments.ts`) | active, completed and cancelled transfers, quotas, files; the sender's pending operation | begin, chunk, complete, cancel, status, discard, close | partial failure, quota accounting, lost replies, crashes |
| Devices and pairing (`deviceidentity`, `pairing`, `pairingflow`, `e2ee/pairing.go`, `cmd/vibebridge/pairing_transport.go`, `agent_management.go`, `recover.go`) | identity file and its copies in memory, invitation, flow, decision | invite, pair, approve, reject, revoke, recover | expiry inside other calls, stale pages, failed writes, two writers of one file |
| Paired upgrades and E2EE (`server/pairedsession.go`, `e2ee/session.go`, `transport.go`) | nonces, handshakes, ciphers with counters | issue, consume, look up, handshake, seal, open | revocation between two steps, lost and reordered frames |
| Relay (`internal/relay/server.go`, `router.go`) | route table, peers, connection counter | admit, verify, join, forward, leave, sweep, shut down | actions outside the router's lock, late `Leave`, eviction by the other peer |
| Relay tickets and routes (`relay/ticket.go`, `epoch.go`, `admin.go`, `relayclient/`, `cmd/viberelay`, `cmd/vibebridge/ratelimit.go`) | issuer key, epochs, replay set, pending and active routes, pumps | provision, mint, verify, dial, bridge, cancel, close | clock boundaries, rollback, processes that start at different times, two pumps over two connections |

The browser connects to the Agent's `/ws`, or to the relay, which forwards frames to the Agent's relay client, which dials the same `/ws`. A device must have been paired before its upgrade is admitted. The session core decides who controls the PTY. The stream layer numbers what both sides say; resume, prompt actions and attachments depend on those numbers and on the session's lifetime. `PROJECT.json` lists every component with its status and every hazard with its source line.

## Modules

| Module | Models | Used by |
|---|---|---|
| `AgentSession` | registry, session, lifecycle, timers, shutdown | `MCAgentSession`, `AgentSessionProofs` |
| `AgentSessionProofs` | lemmas and theorems about the session core | |
| `SessionResume` | output, replay buffer, checkpoint, browser cursor | `MCSessionResume`, `SessionResumeProofs` |
| `SessionResumeProofs` | lemmas and theorems about output across reconnections | |
| `PromptOnce` | what a prompt action promises the user (abstract) | `PromptAction` |
| `PromptAction` | registry, handler and browser client; implements `PromptOnce` | `MCPromptAction`, `PromptActionProofs` |
| `PromptActionProofs` | lemmas about registry, handler and client; the refinement of `PromptOnce` | |
| `AttachmentTransfer` | transfer manager, aggregate tracker, staging, crash and restart | `AttachmentUpload` |
| `AttachmentUpload` | the browser's batch and its acknowledged sender, over `AttachmentTransfer` | `MCAttachmentUpload` |
| `DeviceIdentity` | the identity file and the copy each process holds | `PairingFlow`, `RelayTickets`, `PairedSession`, `SecureSession` |
| `PairingFlow` | invitation manager, coordinator, pairing handshake | `Pairing` |
| `Pairing` | WebSocket handler, management page, `recover` | `MCPairing`, `PairingProofs` |
| `PairingProofs` | lemmas and theorems about flow, store and file | |
| `PairedSession` | nonces and the signed WebSocket upgrade | `Connection` |
| `SecureSession` | session handshake and transport | `Connection` |
| `ProtocolStream` | one Protocol V1 connection: negotiation, input, commit, replies | `Connection` |
| `Connection` | the three above while devices are paired, renewed and revoked | `MCConnection`, `SecureProofs` |
| `SecureProofs` | lemmas: the identity store, the gate, the handshake, the transport | `ConnectionProofs` |
| `ConnectionProofs` | lemmas: one stream, the counters; the theorems about `Connection` | |
| `RelayTickets` | issuer keys, minting, verification, revocation gate | `RelayRoute` |
| `RelayRoute` | provisioning, rate limiter, connection manager, bridge | `MCRelayRoute`, `RelayRouteProofs` |
| `RelayRouteProofs` | lemmas and theorems about tickets and the bridge | |
| `Relay` | relay admission, router, sweeper, shutdown | `MCRelay`, `RelayProofs` |
| `RelayProofs` | lemmas and theorems about the relay | |

A definition named `..._Slip` is a variant of the one that follows it, with a mistake the code could plausibly contain. It shows that a property notices that mistake. It is not part of the specification.

**AgentSession.** One handler per WebSocket connection. Per session there are a PTY reader, a process waiter, timer callbacks and whoever runs `terminateWithReason`. A critical section of `ptySession.mu` is one step. `outputMu` and `Server.mu` are variables, because the code holds them while it blocks. A timer is "running" until it fires; a fired callback is separate state (`expiry`, `idleExpiry`), so `Stop` does not recall it. Terminal contents and protocol messages are left out.

**SessionResume.** Output is a sequence of numbered chunks, one envelope each. Expiry of replay entries is nondeterministic. Dropping an overflowing chunk stands for trimming it byte by byte: either sets `truncated`. Attach, including the drain of the replay, is one step, as in the code under `outputMu`; a write that fails from some point on is `broken`.

**PromptAction.** The handler applies an operation and writes its reply in two steps, so the end of the session may come in between. Requests already sent can still reach the Agent after the browser gave the connection up. `voided`, `written`, `confirmed` and `told` are auxiliary and define the mapping to `PromptOnce`. An action that was reported as failed may still have been written; `PromptOnce` allows that, as the client's error says nothing of the bytes. An attempt to connect that is refused or fails changes nothing: the client has no stream yet and ignores the error. The client's `close()`, which the page calls when it unmounts, is left out.

**AttachmentTransfer and AttachmentUpload.** A file is a sequence of units, and a hash is the sequence itself. A unit is a run of bytes of one kind (text, markup, the halves of a UTF-8 rune, a PNG), so that the content policy and the rune carried over between two chunks are what the code computes. File system calls may fail, the Agent may crash, and the next start sweeps what is left. The read loop applies a message and answers it in two steps. One browser runs `transferAttachments`; its sender keeps one operation pending and, after a reconnect, asks for its status before it sends it again. A connection the Agent refuses makes the page stop and dispose of its sender (`Refused`); the page may also dispose of it by itself (`Dispose`). Clients of other sessions send good and bad requests in any order.

**DeviceIdentity.** The file and one copy per process. A save may fail before the rename (the file is old) or after it, in the directory sync (the file is new, the memory old). The authorization counter and the epoch are words: Authorize finds the counter exhausted when it wraps to 0.

**PairingFlow and Pairing.** What an operation of the manager and of the coordinator does is a function from a world (invitation, flow, decisions) to the next, so that a call of the one from the other stays one step under the coordinator's lock. The phone may send any frame at any point, or hang up. A management page may be out of date when the user clicks. `recover --authorize-new` serves pairing like the Agent; `recover --revoke-all` revokes one device after the other from its own copy. A revocation counts as reported when it was written; `Revoke` also reports success, without a write, for a device that is revoked already (`authorization.go:159`), and that report is not recorded again.

**PairedSession, SecureSession, ProtocolStream, Connection.** An upgrade consumes its nonce, then looks the device up, then verifies the signature, with other requests and revocations in between. A handshake reads the store at the points where the code does. So far only the tests of `internal/e2ee` run the session handshake and its transport; no command calls them yet, and the model composes them with the rest as their configuration provides. A cipher is the pair of its handshake and its direction with a counter; the network loses, delays and reorders frames. A stream is one connection: it negotiates, decodes each envelope, applies it, commits it and replies, in the order of the code for each kind of envelope. `Connection` composes them over one store; a behaviour has one cast, so that a fault of one part meets the actions it can interact with.

**RelayTickets and RelayRoute.** A verification reads the clock, later reads it again inside the replay check, and rolls its entry back if the signature or the epoch is refused. The relay reads the identity file once, when it starts; the Agent stamps the epoch it read when it started. `asOf` is auxiliary: the epoch of the file when a ticket was minted. Only minted tickets are presented, unaltered; the relay runs with its revocation check, which `--require-revocation-check=false` would turn off. A route is provisioned, its goroutine dials the local endpoint and the relay, and two pumps copy frames until something closes. The relay's router is abstracted here to a peer that is on its route until somebody hangs up.

**Relay.** A route is in the table exactly while one of its slots is taken, so the table is its slots. What happens under `Router.mu` is one step; closing peers and writing to them come later. Idle time and lifetime are abstracted: a sweep may pick any routes. `Reuse` says whether several tickets name the same endpoint of a route. The Agent's `Provision` draws a new route id each time; the relay's admin API issues what it is asked for.

## Runs

| Run | Instance | Shows |
|---|---|---|
| `session_safety` | 2 handlers, 2 sessions, reconnect window, 2 generations | `OneController`, `NoOrphanSession`, `ReleasedOnce`, `StagingOutlivesManager` |
| `session_idle` | 1 handler, 2 sessions, idle expiry, reconnect window, 1 generation | `TimersQuiet`, and `TypeOK` with the generation limit reached |
| `session_liveness` | 2 handlers, 1 session | `EndingCompletes`, `AbandonedSessionsEnd`, `ConnectAnswered` |
| `resume_safety` | 2 browsers, buffer of 1 chunk, 3 chunks, 3 connections, 2 generations | `StreamsAgree`, `NoDuplicateOutput`, `ResumedWithoutGap` |
| `prompt_action` | 3 actions, 1 pending, 2 tracked, 2 sessions | `Promise` (refinement of `PromptOnce`), `PreviewExpected`, `OperationsSettle` |
| `attachment_upload` | a batch of 2 files of up to 2 chunks over a connection lost once; or a client that sends anything; or 2 sessions one after the other; 2 failing calls, 1 crash | `QuotaExact`, `PublishedVerified`, `NothingLeftBehind`, `BatchAllOrNothing`, `BatchSettles` |
| `pairing` | 3 phones for 2 devices, 2 at a time, 2 invitations, 1 failing write, 3 stops | `ReservationHasFlow`, `AllowedByUser`, `AnswerIsDurable`, `RevocationHolds`, `FlowEnds` |
| `connection` | 2 handshakes, 2 requests from 2 addresses, 3 credentials, 2 changes of the store; or 1 connection with every set of capabilities | `AdmittedOnce`, `RevokedStaysOut`, `SessionsAgree`, `CounterUsedOnce`, `WithinAgreement`, `AckMeansApplied` |
| `relay_route` | 1 route, 2 tickets, 2 concurrent verifications, 1 stop, 3 frames, a clock of 3 ticks | `AcceptedOnce`, `ReplayIsExact`, `RevokedTicketsStayOut`, `BridgeInOrder`, `RouteEnds` |
| `relay` | 3 connections, 1 route, cap 2 or 3, `Reuse` | `ActiveIsExact`, `NoGhostPeer`, `NoSolePeerStranded`, `PartnerFollows` |

Two more runs end in a counterexample, because the code disagrees with what its documentation says. Each checks a single property, and `PROJECT.json` quotes the line it contradicts.

| Run | What happens |
|---|---|
| `reconnect_expiry_race` | a reconnect expiry that has fired ends a session the browser has reattached to |
| `recover_lost_revocation` | `recover --revoke-all` beside a running Agent: the Agent's next write brings the devices back |

`attachment_upload`, `pairing`, `relay_route` and `connection` choose a cast in the initial state: the sessions, phones, faults or parts that act in that behaviour. Each cast is the smallest set of actors with one kind of interference; the union of all of them in one behaviour has too many states.

**Bounds.** Two handlers and two sessions are the smallest instance with a creation race, a supersession and a stale pointer to an ended session. Three connections are needed for the resume check to confuse two of them. A replay buffer of one chunk overflows at the second. Three action ids with one pending slot make the pending limit bind after an action was abandoned. Files of two chunks put a rune across a chunk boundary, and a session quota of three units is reached by the second file. Two failing calls let a clean-up fail after the failure it cleans up. In pairing, two invitations and two phones are enough for a flow that replaces the one a page still shows; the authorization counter and the epoch reach their last value, `MaxUint`, and Authorize and Revoke then refuse. Two verifications suffice for a replay race, because a third would meet what one of the two left behind. A nonce store of one entry is full after the first. Three relay connections exceed a cap of two; with a cap of three all of them are on the relay at once, which a stale `Leave` needs to meet the newcomer and its partner. One route is enough for the relay's safety, because only the counter and the sweeper relate routes. `MaxProduced`, `MaxConnections`, `MaxSequence` and `MaxGeneration` in `SessionResume`, `MaxGeneration` in `PromptAction`, `MaxDrops`, `MaxFaults`, `MaxCrashes`, `MaxStops`, `MaxTime`, `MaxInvitations`, `MaxTickets`, `MaxRoutes`, `MaxFrames`, `MaxPause`, `MaxIssued`, `MaxSealed`, `MaxMessages`, `MaxOutputs` and `MaxChanges` are bounds of the models only. Deadlock is checked in the session runs and in `prompt_action`; elsewhere every bound may be used up or every actor be done.

**Fairness.** Nothing is assumed of a call without a deadline, of a person or of a network that may stay down. A liveness property that depends on one of these names it as the only way the promised event may fail to come.

- *Sessions*: every goroutine that can run does; those that wait for a mutex others take repeatedly get it eventually (strong fairness, as Go mutexes do not starve a waiter). Timers fire and a killed process exits. A socket write has no deadline (`server.go` sets one only for reads and control frames), so none of the writes is fair: a write that never returns keeps `outputMu` (`WriteHangs`). `EndingCompletes`, `AbandonedSessionsEnd` and `ConnectAnswered` say that this is all that can keep a session from ending or a connecting browser from its answer. Browsers need never do anything.
- *Prompt actions*: both ends of a connection notice that it is dead, and connections do not drop before every request or every reply for ever. The page need not connect again: it gives up after `reconnectMaxAttempts` and when it is refused, until the user retries. `OperationsSettle` allows for a page that stays without a connection.
- *Uploads*: the Agent's goroutines and the page's event loop run. Nobody has to reconnect, dispose of the sender, or start, abort or end anything. `BatchSettles` says that a batch stays open for ever only while an operation is pending and the page has no connection.
- *Pairing*: time passes, and the handler of the active flow goes on at the latest at its deadline; nobody has to click.
- *Routes*: the goroutines of a route run, a dial ends at its timeout, and a write to the relay at its deadline (`client.go:208`). A write to the local connection has no deadline and is not fair while that connection is open; `RouteEnds` excepts a pump that stays in it and whose route nobody cancelled.
- *Relay*: a handler past its read takes its next step, since reads of a ticket and all writes have deadlines; a closed connection ends its read; a silent peer may stay silent.

## Proofs

Every theorem is about the specification that the runs check, for every value of its constants that satisfies the assumptions stated in the component's module. A theorem that needs more says so in its statement. None of the properties below is inductive alone. Each component has an inductive invariant, one lemma per action that keeps it, and a last step that takes the property from it.

| Module | Theorem | Property | For every |
|---|---|---|---|
| `AgentSessionProofs` | `TypeCorrect`, `OneControllerAlways`, `NoOrphanSessionAlways`, `TimersQuietAlways`, `ReleasedOnceAlways`, `StagingOutlivesManagerAlways` | the one in the name | set of handlers and sessions, generation limit, timer configuration |
| `RelayProofs` | `NoGhostPeerHolds`, `NoSolePeerStrandedHolds` | the one in the name | set of connections and routes, cap, `Reuse` |
| `RelayProofs` | `NobodyStranded` | no peer at all is left off its route | the same, when each ticket is unique (`~Reuse`) |
| `RelayProofs` | `ActiveIsExactHolds` | `ActiveIsExact` | the same, when there is a cap (`0 \notin MaxConnections`) |
| `PromptActionProofs` | `PreviewExpectedHolds`, `PromiseHolds` | `PreviewExpected`, the refinement of `PromptOnce` | set of actions, both limits of the registry, number of sessions and lost connections |
| `SessionResumeProofs` | `StreamsAgreeHolds`, `NoDuplicateOutputHolds`, `ResumedWithoutGapHolds` | the one in the name | set of browsers, number of connections, sessions and chunks, replay capacity |
| `RelayRouteProofs` | `AcceptedOnceHolds`, `ReplayIsExactHolds`, `RevokedTicketsStayOutHolds`, `BridgeInOrderHolds` | the one in the name | set of routes, verifications and clients, clock, lifetimes, number of tickets, restarts and frames, depth of the buffer |
| `PairingProofs` | `ReservationHasFlowHolds`, `AllowedByUserHolds` | the one in the name | set of phones, descriptors they present, number of invitations, stops and failing writes, word size |
| `PairingProofs` | `AnswerIsDurableHolds`, `RevocationHoldsAlways`, `RevokeAllSticksAlone` | `AnswerIsDurable`, `RevocationHolds`, `RevokeAllSticks` | the same, when revoke-all runs alone (`Exclusive`) |
| `ConnectionProofs` | `AdmittedOnceHolds`, `RevokedStaysOutHolds`, `SessionsAgreeHolds`, `CounterUsedOnceHolds`, `AckMeansAppliedHolds`, `WithinAgreementHolds` | the one in the name | set of requests, credentials and handshakes, nonce lifetime and limits, word size, cast |

**Sessions.** `OneController` needs to know that a handler's session pointer refers to a session that has had a generation, and that every such session which is not done is the registered one. `IInv` adds this:

- `HandlerInv`: which handler holds which launched session;
- `RegistryInv`: the registered session has the newest generation, and every live session is registered or in the hands of its launcher;
- `ClientInv`: a client is a handler between attach and detach of that session;
- `EndingInv`: the waiter and the terminator move only when the session stopped serving, with `ReleasedOnce` and `StagingOutlivesManager`.

A frame lemma per part (`HandlerFrame`, `RegistryFrame`, `ClientFrame`, `EndingFrame`) says which changes leave it alone, so that only the actions that matter are argued in detail. `Invariance` combines them.

**Relay.** `Shape` says what a goroutine holds at each place of its code: the ticket it uses, the peer it writes to, the peers it will close. With `NoGhostPeer` it is inductive (`Base`). `Accounted` says what the counter counts between the two steps of a refused request, which is what makes `ActiveIsExact` hold at the others; the cap is a hypothesis, because without one the code lowers a counter it did not raise. `LosesOnlyToTwin` strengthens `NoSolePeerStranded`: it also covers a peer that is writing a frame, and says that the ticket for the same endpoint was presented, so that it stays what it is.

**Prompt actions.** `IInv` of `PromptActionProofs` has five parts beside the types:

- `Registered` relates the registry of the current session to the bytes ever written, over sessions and retries;
- `Numbered` orders the sequence numbers of one connection;
- `Outstanding` says what an acknowledgement means that completes the client's pending request;
- `Truthful` says what a preview under way tells about the bytes;
- `Awaited` says that each prepare or preview under way is the one the client waits for.

`PreviewExpected` is `Awaited` at the head of the queue. For `PromptOnce`, the initial state maps to its initial state, and each action maps to one of its steps or leaves its variables alone; the guards of its steps follow from `Registered`, `Outstanding` and `Truthful`.

**Resume.** A chunk has a place in the terminal, on the wire, or in the replay buffer. `IInv` of `SessionResumeProofs` says, beside the types:

- `Link`: the envelopes on their way are numbered on from what the browser has and begin with the session status; the Agent goes on where they end. `StreamsAgree` follows.
- `Order`: what a terminal shows comes before what is on its way, and both before what is buffered. `NoDuplicateOutput` follows.
- `Buffer` and `Count`: the buffer reaches from its first chunk to the last one produced; a cursor was taken from a connection that was made.
- `Follows`: a browser that has, or will receive, everything numbered on the last connection shows, will be sent or will find in an untruncated buffer all chunks up to the last one. Without this part `ResumedWithoutGap` is not inductive: the comparison of the cursor with the checkpoint (`server.go:773`) is sound only because the numbers it compares stand for those chunks.

The accidental match of an older cursor described below appears in the proof as a case that `Follows` leaves out (`Clean`).

**Routes.** Tickets and frames have an invariant each, over separate variables.

- `TicketInv`: a ticket was minted and tracked in the past (`Timely`); of a ticket whose lifetime leaves room in the replay window, the check that looks at the signature is the only one, and it stays tracked until nobody can present it any more (`Exclusively`); an entry of the replay set was accepted or is being verified (`Owned`); what was accepted is not older than the epoch the relay read (`Gated`). `Epochs` adds that a relay that serves has read an identity file, so that epoch 0 stays refused. `Ordered` says that the epoch an Agent stamps is not newer than the file was when it minted; with `Gated`, a ticket that was accepted was minted after the last revocation the relay read (`RevokedTicketsStayOut`), however long before it the Agent started.
- `ConnInv`: the frames in the hands of the two goroutines, in the stream's buffer and on the wire continue what was written without a gap, as long as the local connection is open (`Streaming`). Nothing moves before the dial or after the bridge returned.

**Pairing.** `PairingInv` has three parts.

- `PhoneInv`: an invitation is reserved for the active flow and not yet spent (`Sound`), and what was decided, told and granted agree for each phone at each point of its handler (`Answered`). Whatever ends a flow early ends it in the same way (`Ended`): the reservation goes with it, and the flow's own channel gets an error unless it has a decision.
- `StoreInv`: every copy has one record for a device, with a version its counter has passed, and a descriptor the user allowed. Every change writes one record with the next version (`Rewrites`).
- `FileInv`: one process has the file open (`Alone`), the file is never behind a copy (`Ahead`), and the file and the copy hold what was granted and what was reported as revoked (`Carries`). A failed save may have replaced the file, so the file alone would not be enough, and neither would the copy. Beside a serving process revoke-all breaks `Alone`, which is what `recover_lost_revocation` shows; this part, and the theorems that need it, therefore have `Exclusive` as a hypothesis.

**Connections.** The theorems hold for every cast and bound and for any number of changes of the store, so upgrades, handshakes, streams and revocations all meet.

- `StoreInv`: each device has one record. From it, a change of the store can only add a revocation later than what was read before (`NotSince`).
- `GateInv`: a request past its nonce has consumed it alone, and was not revoked before it began. `AdmittedOnce` and the upgrade half of `RevokedStaysOut` follow.
- `SecureInv`: what a handshake knows at each point (`Responder`), which two ends belong together (`Paired`), that a frame under way was encrypted by the other end of its session (`Flow`), and which cipher sealed it (`SealedBy`). `SessionsAgree` and the other half follow.
- `Behind`: each end's counter is past the frames it sealed. It rests on `Onward`: no step lets a session change hands or a counter go back. `CounterUsedOnce` is this with `SealedBy`.
- `StreamInv`: of each connection, what is written is within the agreement (`WireInv`), what is committed took effect (`Counted`), and what was decoded may be answered (`Agreed`). `AckMeansApplied` and `WithinAgreement` follow.

Only TLC checks the rest. Liveness (`EndingCompletes`, `AbandonedSessionsEnd`, `ConnectAnswered`, `OperationsSettle`, `BatchSettles`, `FlowEnds`, `RouteEnds`, `PartnerFollows`) needs fairness and `ENABLED`, which TLAPS does not handle here. Safety of attachments (`QuotaExact`, `PublishedVerified`, `NothingLeftBehind`, `BatchAllOrNothing`) is not proved: quotas are sums over transfers, a validated text is a fold over its units, a discard is a fold over its selection, and what these compute for every input needs an induction over data that these provers cannot do.

The proofs rest on assumptions about the constants, each named in the module that declares the constant and evaluated by TLC in the runs of that component: a name that stands for nobody is not a name of somebody (`NoneAssumption`, `ConnectionAssumption`, `ServingAssumption`), bounds, limits and lifetimes are numbers (`LimitAssumption`, `CapacityAssumption`, `TimeAssumption`, `ClockAssumption` and others), and the processes of the model are among `Processes`.

## What the code does that its documentation does not say

These are consequences of the modelled code that no run reports, because no property of a run contradicts them or because the models state the weaker property that does hold.

- *Sessions.* `Server.Close` misses a session that is being launched (`server.go:374`), although `docs/product-spec.md:55` says that shutdown releases the PTY exactly once. A browser that reaches an ending session is answered `SESSION_ALREADY_ACTIVE`, although nobody controls it. A write to a browser that stopped reading holds the session's locks until the connection fails, whatever the timers do.
- *Resume.* A cursor of an earlier connection that equals the newest checkpoint is answered RESUMED although output was lost (`server.go:773`, `docs/architecture/protocol.md:156`). `ResumedWithoutGap` is about the terminals to which this did not happen.
- *Stream.* `EndSession` is acknowledged before it takes effect, against the comments at `stream.go:299` and `:313`; `AckMeansApplied` states that exception. A reply that exceeds the client's limit ends the connection after its request was committed. A `session.resume` capability without sequencing is accepted and unused.
- *Attachments.* `Begin` does not return the aggregate reservation when creating the file fails (`transfer.go:241`), so the tracker may count too much, never too little. A failed clean-up at the end of a session is not tried again before the next start. A prompt prepared with a file that is then discarded refers to nothing.
- *Identity and upgrades.* Revoking a device does not end its open connections. `View`, which "must be called exactly once", does not enforce it.
- *Relay server.* The late `Leave` of a swept peer removes a newer peer with a ticket for the same endpoint and leaves its connection open (`router.go:356`); the newer peer's partner is closed, and when it has gone the stranded connection stays. `NoSolePeerStranded` and `PartnerFollows` are about peers with the only ticket for their endpoint; without that condition the instance of run `relay` violates both. `Shutdown` never stops the router it created, since `ownsRouter` is computed after the replacement (`server.go:129`, `:210`), and waits for connections without closing them. With the cap disabled the counter goes negative (`server.go:187`).
- *Tickets.* The Agent stamps the epoch of its start and the relay compares with the epoch of its own start, where `epoch.go:7` and `:32` speak of the live epoch: a running relay does not see a later revocation, and `RevokedTicketsStayOut` is about the epoch it read. A store that never revoked anything has epoch 0, which the gate refuses. The skew allowance has no effect (`ticket.go:360`). A ticket whose lifetime is the whole replay window can be accepted twice if the clock moves between the two reads; `AcceptedOnce` requires a shorter one. The replay set does not survive a restart. Two processes that create the issuer key file at once may end with different keys.
- *Routes.* `BridgeWebSocket` does not always close both connections before it returns (`wsbridge.go:20`). A failed local dial leaves the pending ticket. The rate limiter has a fixed window, where its comment says sliding (`ratelimit.go:9`).

## Not modelled

Cryptography (signatures, hashes and Noise are taken to be correct), protobuf encoding and unknown fields, file-system details beyond failing calls, process launch, the user interfaces, the Windows service and tray, configuration and logging. They are pure I/O, or conversions without state that the properties depend on. `internal/reconnect` is a stateless computation that no package imports. Upgrades with a legacy token, possible when paired sessions are not required, `Manager.Connect` with its byte-level bridge, `Router.Stop` and the browser's relay and pairing clients are left out: the first two have no part in the paired path the commands set up, the third is never reached, and the phone of `Pairing` may send anything those clients send.

----------------------------- MODULE RelayRoute -----------------------------
(***************************************************************************)
(* A remote session through the relay, as the Agent runs it: the provision *)
(* handler with its rate limiter (cmd/vibebridge/agent_management.go and   *)
(* ratelimit.go), the connection manager that mints a pair of tickets and  *)
(* dials (internal/relayclient/manager.go), the stream to the relay        *)
(* (client.go) and the two pumps of BridgeWebSocket (wsbridge.go), against *)
(* the relay of RelayTickets.                                              *)
(*                                                                         *)
(* The relay's router is modelled by itself in Relay; here a peer whose    *)
(* ticket was accepted is on its route until somebody hangs up.  Frames    *)
(* are numbered in the order the client sends them.                        *)
(*                                                                         *)
(* A definition named ..._Slip is the one after it with a mistake the code *)
(* could contain; it is not part of the specification.                     *)
(***************************************************************************)
EXTENDS RelayTickets

CONSTANTS Lifetime,     \* DefaultTicketLifetime
          MaxReqs,      \* requests the provision limiter allows in a window
          Window,       \* the length of that window
          Depth,        \* readPumpBuffer
          Device, Old,  \* a device the Agent may revoke, one revoked long ago
          Casts,        \* sets of the things that happen in one behaviour
          MaxRoutes, MaxTime, MaxStops, MaxFrames   \* bounds

ASSUME ProcessAssumption == {"agent", "relay"} \subseteq Processes
ASSUME LifetimeAssumption == Lifetime \in Int

VARIABLES present,   \* the cast of this behaviour
          limit,     \* rateLimiter: the entry of the local address
          manager,   \* Manager: the epoch it was given, pending and active
          conn,      \* the connection of every route
          peer,      \* the client of a route is on it
          stops      \* processes stopped so far

routeVars == <<present, limit, manager, conn, peer, stops>>
vars == <<storeVars, ticketVars, routeVars>>

Routes == 1..MaxRoutes

\* A route nobody provisioned.  local and stream are "open", "gone" (the other
\* end hung up) or "closed" (Close was called); pump, a and b are where readPump
\* and the goroutines of BridgeWebSocket are; hold and take are the frames they
\* hold, 0 for an error.
NoConn == [pc |-> "none", local |-> "none", stream |-> "none", joined |-> FALSE,
           ctx |-> FALSE, watch |-> FALSE, sent |-> 0, wire |-> <<>>, pump |-> "off",
           hold |-> 0, buf |-> <<>>, a |-> "off", b |-> "off", take |-> 0, got |-> <<>>]

Set(r, c) == conn' = [conn EXCEPT ![r] = c]

\* The id of one half of a route; the halves are minted together.
TicketOf(r, e) ==
    CHOOSE id \in DOMAIN tickets : tickets[id].route = r /\ tickets[id].endpoint = e

Init ==
    /\ present \in Casts
    /\ file \in {Authorized(GenerateState, Device),
                Authorized(Revoked(Authorized(GenerateState, Old), Old.id), Device)}
    /\ store = [p \in Processes |-> NoState]
    /\ faults = 0
    /\ clock = 0
    /\ keyFile = NoKey
    /\ proc = [p \in Processes |-> "down"]
    /\ key = [p \in Processes |-> NoKey]
    /\ tickets = <<>> /\ replay = {} /\ accepted = <<>>
    /\ check = [c \in Checks |-> Idle]
    /\ limit = [count |-> 0, end |-> -1]
    /\ manager = [epoch |-> 0, pending |-> {}, active |-> {}]
    /\ conn = [r \in Routes |-> NoConn]
    /\ peer = [r \in Routes |-> FALSE]
    /\ stops = 0

-----------------------------------------------------------------------------
(* The Agent process.                                                       *)

AgentOpens ==
    /\ "agent" \in present
    /\ ReadKey("agent")
    /\ LoadOrCreate("agent")
    /\ UNCHANGED <<clock, keyFile, tickets, replay, check, accepted, routeVars>>

\* NewManager: the epoch is read here and never again.
NewManager ==
    /\ proc["agent"] = "keyed"
    /\ proc' = [proc EXCEPT !["agent"] = "up"]
    /\ manager' = [epoch |-> store["agent"].epoch, pending |-> {}, active |-> {}]
    /\ limit' = [count |-> 0, end |-> -1]
    /\ UNCHANGED <<clock, keyFile, key, tickets, replay, check, accepted, storeVars,
                   present, conn, peer, stops>>

RelayReadsKey ==
    /\ "relay" \in present
    /\ ReadKey("relay")
    /\ UNCHANGED <<clock, keyFile, tickets, replay, check, accepted, storeVars, routeVars>>

WritesKey(p) ==
    /\ WriteKey(p)
    /\ UNCHANGED <<clock, key, tickets, replay, check, accepted, storeVars, routeVars>>

\* The user revokes a device: the epoch grows in the file and in this process.
RevokeDevice ==
    /\ "revoke" \in present
    /\ proc["agent"] = "up"
    /\ CanRevoke(store["agent"], Device.id)
    /\ Save("agent", Revoked(store["agent"], Device.id))
    /\ UNCHANGED <<ticketVars, routeVars>>

\* Manager.Close when the Agent stops: it cancels every connection and forgets
\* the pending tickets; requests and goroutines may still be running.
ManagerClose ==
    /\ "stop" \in present /\ stops < MaxStops
    /\ proc["agent"] = "up"
    /\ proc' = [proc EXCEPT !["agent"] = "closing"]
    /\ conn' = [r \in Routes |-> [conn[r] EXCEPT !.ctx = @ \/ r \in manager.active]]
    /\ manager' = [manager EXCEPT !.pending = {}, !.active = {}]
    /\ stops' = stops + 1
    /\ UNCHANGED <<clock, keyFile, key, tickets, replay, check, accepted, storeVars,
                   present, limit, peer>>

\* Its sockets go with the process.
AgentExits ==
    /\ proc["agent"] = "closing"
    /\ proc' = [proc EXCEPT !["agent"] = "down"]
    /\ Close("agent")
    /\ conn' = [r \in Routes |-> IF conn[r].pc = "none" THEN NoConn ELSE [NoConn EXCEPT !.pc = "done"]]
    /\ UNCHANGED <<clock, keyFile, key, tickets, replay, check, accepted, present, limit,
                   manager, peer, stops>>

RelayUp == RelayOpens /\ UNCHANGED routeVars

HungUp(c) == [c EXCEPT !.joined = FALSE, !.stream = IF @ = "open" THEN "gone" ELSE @]

RelayStops ==
    /\ "stop" \in present /\ stops < MaxStops
    /\ RelayExits
    /\ conn' = [r \in Routes |-> HungUp(conn[r])]
    /\ peer' = [r \in Routes |-> FALSE]
    /\ stops' = stops + 1
    /\ UNCHANGED <<present, limit, manager>>

Tick ==
    /\ "clock" \in present /\ clock < MaxTime
    /\ \A c \in Checks : check[c].at = "replay" => clock - check[c].read < MaxPause
    /\ clock' = clock + 1
    /\ UNCHANGED <<keyFile, proc, key, tickets, replay, check, accepted, storeVars, routeVars>>

-----------------------------------------------------------------------------
(* relayProvisionHandler behind rateLimitMiddleware.                        *)

\* allow: a new window after the last one ended, or one more request in it.
\* The count stops at the first request refused.
Counted ==
    IF clock > limit.end
    THEN [count |-> 1, end |-> clock + Window]
    ELSE [limit EXCEPT !.count = IF @ > MaxReqs THEN @ ELSE @ + 1]
Allowed == Counted.count <= MaxReqs

Fresh(r) == conn[r].pc = "none" /\ \A q \in Routes : q < r => conn[q].pc # "none"

\* Manager.Provision, and the goroutine that is to connect the route.
Provision(r) ==
    /\ proc["agent"] = "up"
    /\ Fresh(r) /\ Len(tickets) + 2 <= MaxTickets
    /\ limit' = Counted /\ Allowed
    /\ CanPair(Lifetime)
    /\ tickets' = tickets \o Pair(r, Lifetime, manager.epoch, key["agent"])
    /\ accepted' = accepted \o <<0, 0>>
    /\ manager' = [manager EXCEPT !.pending = @ \cup {r}]
    /\ Set(r, [conn[r] EXCEPT !.pc = "local"])
    /\ UNCHANGED <<clock, keyFile, proc, key, replay, check, storeVars, present, peer, stops>>

\* 429, or a request the handler turns down after it was counted.
ProvisionRefused ==
    /\ "limit" \in present
    /\ proc["agent"] = "up"
    /\ limit' = Counted /\ limit' # limit
    /\ UNCHANGED <<ticketVars, storeVars, present, manager, conn, peer, stops>>

\* The control plane of the relay mints for a route of its own, numbered 0.
AdminIssues ==
    /\ "admin" \in present
    /\ \E lifetime \in AdminLifetimes : HandleIssue(0, "client", lifetime)
    /\ UNCHANGED <<clock, keyFile, proc, key, replay, check, storeVars, routeVars>>

-----------------------------------------------------------------------------
(* The goroutine of a route: dialLocalAgentWS, then ConnectWebSocket.       *)

RouteStep(r, c) == Set(r, c) /\ UNCHANGED <<ticketVars, storeVars, present, limit, peer, stops>>

\* The ticket stays pending for ever.
LocalFails(r) ==
    /\ conn[r].pc = "local"
    /\ RouteStep(r, [conn[r] EXCEPT !.pc = "failed"])
    /\ UNCHANGED manager

LocalOpens(r) ==
    /\ conn[r].pc = "local"
    /\ RouteStep(r, [conn[r] EXCEPT !.pc = "connect", !.local = "open"])
    /\ UNCHANGED manager

Connect(r) ==
    /\ conn[r].pc = "connect"
    /\ r \in manager.pending /\ r \notin manager.active
    /\ manager' = [manager EXCEPT !.pending = @ \ {r}, !.active = @ \cup {r}]
    /\ RouteStep(r, [conn[r] EXCEPT !.pc = "dial", !.watch = TRUE])

\* No pending ticket: the manager was closed meanwhile.  Nobody closes local.
ConnectRefused(r) ==
    /\ conn[r].pc = "connect"
    /\ r \notin manager.pending
    /\ RouteStep(r, [conn[r] EXCEPT !.pc = "failed"])
    /\ UNCHANGED manager

\* Dialer.Dial sends the ticket and starts readPump; the bridge starts its pumps.
Dial(r) ==
    /\ conn[r].pc = "dial"
    /\ proc["relay"] = "up"
    /\ RouteStep(r, [conn[r] EXCEPT !.pc = "bridge", !.stream = "open", !.pump = "read",
                                    !.a = "read", !.b = "read"])
    /\ UNCHANGED manager

DialFails(r) ==
    /\ conn[r].pc = "dial"
    /\ RouteStep(r, [conn[r] EXCEPT !.pc = "ended"])
    /\ UNCHANGED manager

Closed(end) == IF end = "none" THEN "none" ELSE "closed"

\* wg.Wait returns and the stream is closed.
BridgeReturns(r) ==
    /\ conn[r].pc = "bridge" /\ conn[r].a = "done" /\ conn[r].b = "done"
    /\ RouteStep(r, [conn[r] EXCEPT !.pc = "ended", !.stream = Closed(@), !.joined = FALSE])
    /\ UNCHANGED manager

Cancels(r) ==
    /\ conn[r].pc = "ended"
    /\ RouteStep(r, [conn[r] EXCEPT !.pc = "cancelled", !.ctx = TRUE])
    /\ UNCHANGED manager

ConnectReturns(r) ==
    /\ conn[r].pc = "cancelled"
    /\ manager' = [manager EXCEPT !.active = @ \ {r}]
    /\ RouteStep(r, [conn[r] EXCEPT !.pc = "done", !.wire = <<>>, !.buf = <<>>, !.got = <<>>, !.sent = 0])

\* The goroutine that waits for the context or for the end of the connection;
\* when it finds both it takes either.
Watch(r) ==
    /\ conn[r].watch
    /\ \/ /\ conn[r].ctx
          /\ RouteStep(r, [conn[r] EXCEPT !.watch = FALSE, !.local = Closed(@)])
       \/ /\ conn[r].pc = "done"
          /\ RouteStep(r, [conn[r] EXCEPT !.watch = FALSE])
    /\ UNCHANGED manager

CancelRoute(r) ==
    /\ "frames" \in present
    /\ r \in manager.active /\ ~conn[r].ctx
    /\ RouteStep(r, [conn[r] EXCEPT !.ctx = TRUE])
    /\ UNCHANGED manager

-----------------------------------------------------------------------------
(* The stream and the bridge.                                               *)

\* readPump: the next frame, or the error that ends it.
ReadPump(r) ==
    /\ conn[r].pump = "read"
    /\ LET c == conn[r]
       IN  IF c.stream = "closed" \/ (c.stream = "gone" /\ c.wire = <<>>)
           THEN RouteStep(r, [c EXCEPT !.pump = "hold", !.hold = 0])
           ELSE /\ c.wire # <<>>
                /\ RouteStep(r, [c EXCEPT !.pump = "hold", !.hold = Head(c.wire), !.wire = Tail(@)])
    /\ UNCHANGED manager

\* The select that hands it on, or gives up when the stream is closed.
Delivers_Slip(r) ==
    /\ conn[r].pump = "hold"
    /\ LET c == conn[r]
           next == IF c.hold = 0 THEN "off" ELSE "read"
       IN  \/ /\ Len(c.buf) < Depth
              /\ RouteStep(r, [c EXCEPT !.pump = next, !.hold = 0, !.buf = Append(@, c.hold)])
           \/ Len(c.buf) = Depth /\ RouteStep(r, [c EXCEPT !.pump = next, !.hold = 0])
    /\ UNCHANGED manager
Delivers(r) ==
    /\ conn[r].pump = "hold"
    /\ LET c == conn[r]
           next == IF c.hold = 0 THEN "off" ELSE "read"
       IN  \/ /\ Len(c.buf) < Depth
              /\ RouteStep(r, [c EXCEPT !.pump = next, !.hold = 0, !.buf = Append(@, c.hold)])
           \/ c.stream = "closed" /\ RouteStep(r, [c EXCEPT !.pump = "off", !.hold = 0])
    /\ UNCHANGED manager

\* From the local WebSocket to the relay: a read that fails closes the stream.
LocalRead_Slip(r) ==
    /\ conn[r].a = "read" /\ conn[r].local \in {"gone", "closed"}
    /\ RouteStep(r, [conn[r] EXCEPT !.a = "done"])
    /\ UNCHANGED manager
LocalRead(r) ==
    /\ conn[r].a = "read" /\ conn[r].local \in {"gone", "closed"}
    /\ RouteStep(r, [conn[r] EXCEPT !.a = "done", !.stream = Closed(@), !.joined = FALSE])
    /\ UNCHANGED manager

\* Stream.Write: it fails on a closed stream, and closes one whose other end is
\* gone unless the frame still fits into a buffer.
RemoteWrite(r) ==
    /\ conn[r].a = "write"
    /\ \/ /\ conn[r].stream \in {"open", "gone"}
          /\ RouteStep(r, [conn[r] EXCEPT !.a = "read"])
       \/ /\ conn[r].stream \in {"gone", "closed"}
          /\ RouteStep(r, [conn[r] EXCEPT !.a = "done", !.stream = "closed", !.local = Closed(@),
                                          !.joined = FALSE])
    /\ UNCHANGED manager

\* From the relay to the local WebSocket: Stream.Read takes a frame or an error,
\* or finds the stream closed; either error closes local.
RemoteRead(r) ==
    /\ conn[r].b = "read"
    /\ LET c == conn[r]
           failed == [c EXCEPT !.b = "done", !.local = Closed(@)]
       IN  \/ /\ c.buf # <<>>
              /\ RouteStep(r, IF Head(c.buf) = 0 THEN [failed EXCEPT !.buf = Tail(@)]
                              ELSE [c EXCEPT !.b = "write", !.take = Head(c.buf), !.buf = Tail(@)])
           \/ c.stream = "closed" /\ RouteStep(r, failed)
    /\ UNCHANGED manager

\* WriteMessage on local: what is written after the server hung up reaches nobody.
LocalWrite(r) ==
    /\ conn[r].b = "write"
    /\ LET c == conn[r]
       IN  \/ /\ c.local \in {"open", "gone"}
              /\ RouteStep(r, [c EXCEPT !.b = "read", !.take = 0,
                                        !.got = IF c.local = "open" THEN Append(@, c.take) ELSE @])
           \/ /\ c.local \in {"gone", "closed"}
              /\ RouteStep(r, [c EXCEPT !.b = "done", !.take = 0, !.stream = Closed(@), !.joined = FALSE])
    /\ UNCHANGED manager

-----------------------------------------------------------------------------
(* The other ends: the Agent's own server, the relay and the client.        *)

LocalSends(r) ==
    /\ "frames" \in present
    /\ conn[r].a = "read" /\ conn[r].local = "open"
    /\ RouteStep(r, [conn[r] EXCEPT !.a = "write"])
    /\ UNCHANGED manager

LocalEnds(r) ==
    /\ conn[r].local = "open"
    /\ RouteStep(r, [conn[r] EXCEPT !.local = "gone"])
    /\ UNCHANGED manager

ClientSends(r) ==
    /\ "frames" \in present
    /\ conn[r].joined /\ peer[r] /\ conn[r].stream = "open"
    /\ conn[r].sent < MaxFrames
    /\ RouteStep(r, [conn[r] EXCEPT !.sent = @ + 1, !.wire = Append(@, conn[r].sent + 1)])
    /\ UNCHANGED manager

\* The client leaves, and the relay closes the route.
ClientLeaves(r) ==
    /\ peer[r]
    /\ peer' = [peer EXCEPT ![r] = FALSE]
    /\ Set(r, HungUp(conn[r]))
    /\ UNCHANGED <<ticketVars, storeVars, present, limit, manager, stops>>

\* The ticket the Agent sent: the relay turns to it once.
AgentPresents(r, c) ==
    /\ conn[r].stream = "open" /\ ~conn[r].joined
    /\ LET id == TicketOf(r, "agent")
       IN  /\ \A d \in Checks : check[d].id # id
           /\ \/ BeginVerify(c, id) /\ UNCHANGED <<storeVars, routeVars>>
              \/ OutOfTime(id) /\ RouteStep(r, HungUp(conn[r])) /\ UNCHANGED manager

\* A client presents its ticket, and one that retries presents it again, on a
\* second connection too; out of time it is turned away and leaves no trace.
ClientPresents(c) ==
    \E id \in DOMAIN tickets :
       /\ tickets[id].endpoint = "client"
       /\ "retry" \in present \/ (accepted[id] = 0 /\ \A d \in Checks : check[d].id # id)
       /\ BeginVerify(c, id)
       /\ UNCHANGED <<storeVars, routeVars>>

\* What the outcome of a verification means to the connection it is about.
Answer(id, accepts) ==
    LET t == tickets[id]
    IN  /\ IF t.endpoint = "agent"
           THEN Set(t.route, IF accepts THEN [conn[t.route] EXCEPT !.joined = (conn[t.route].stream = "open")]
                             ELSE HungUp(conn[t.route]))
           ELSE UNCHANGED conn
        /\ peer' = IF t.endpoint = "client" /\ t.route \in Routes /\ accepts
                   THEN [peer EXCEPT ![t.route] = TRUE] ELSE peer
        /\ UNCHANGED <<storeVars, present, limit, manager, stops>>

Verifies(c) ==
    \/ RecordReplay(c) /\ UNCHANGED <<storeVars, routeVars>>
    \/ Replayed(c) /\ Answer(check[c].id, FALSE)
    \/ AcceptTicket(c) /\ Answer(check[c].id, TRUE)
    \/ RejectTicket(c) /\ Answer(check[c].id, FALSE)

-----------------------------------------------------------------------------
Goroutine(r) ==
    LocalFails(r) \/ LocalOpens(r) \/ Connect(r) \/ ConnectRefused(r) \/ Dial(r) \/ DialFails(r)
    \/ BridgeReturns(r) \/ Cancels(r) \/ ConnectReturns(r)
Next ==
    \/ AgentOpens \/ NewManager \/ RelayReadsKey \/ RelayUp \/ RelayStops
    \/ \E p \in Processes : WritesKey(p)
    \/ RevokeDevice \/ ManagerClose \/ AgentExits \/ Tick \/ ProvisionRefused \/ AdminIssues
    \/ \E r \in Routes :
          \/ Provision(r) \/ Goroutine(r) \/ Watch(r) \/ CancelRoute(r)
          \/ ReadPump(r) \/ Delivers(r) \/ LocalRead(r) \/ RemoteWrite(r)
          \/ RemoteRead(r) \/ LocalWrite(r)
          \/ LocalSends(r) \/ LocalEnds(r) \/ ClientSends(r) \/ ClientLeaves(r)
          \/ \E c \in Checks : AgentPresents(r, c)
    \/ \E c \in Checks : ClientPresents(c) \/ Verifies(c)

\* The goroutines of a route run; a dial is bounded by its timeout and a write to
\* the relay by its deadline.  A write to the local WebSocket has none: it returns
\* when either end of the socket is closed, and need not while the server behind
\* it stays connected and does not read.
Fairness ==
    \A r \in Routes :
       /\ WF_vars(Goroutine(r)) /\ WF_vars(Watch(r))
       /\ WF_vars(ReadPump(r) \/ Delivers(r))
       /\ WF_vars(LocalRead(r) \/ RemoteWrite(r))
       /\ WF_vars(RemoteRead(r) \/ (conn[r].local # "open" /\ LocalWrite(r)))

Spec == Init /\ [][Next]_vars /\ Fairness

-----------------------------------------------------------------------------
(* Properties.                                                              *)

\* "On success the returned Ticket also marks the ticket id as consumed": one
\* process of the relay accepts a ticket at most once, however often and however
\* concurrently it is presented, with entries being swept and rolled back by
\* other verifications, provided its lifetime leaves room in the replay window
\* for a pause between the two clock reads.
AcceptedOnce ==
    \A id \in DOMAIN tickets :
       tickets[id].expires + MaxPause <= tickets[id].minted + TTL => accepted[id] <= 1

\* "a rejected ticket must not burn the ticket id": the replay set holds tickets
\* that were accepted or are still being verified, and nothing else.
ReplayIsExact ==
    \A e \in replay : accepted[e.id] > 0 \/ \E c \in Checks : check[c].id = e.id

\* A relay accepts no ticket that was minted before a revocation the relay was
\* started after, whoever minted it and however often the Agent and the relay were
\* restarted in between: the stamps that NewManager and the relay copy from the
\* identity file once are late, never early.  A revocation that a running relay has
\* not read does not reach it (StoreAuthorizer over the copy of openIdentityStore).
RevokedTicketsStayOut ==
    \A id \in DOMAIN tickets :
       accepted[id] > 0 => tickets[id].asOf >= store["relay"].epoch

\* What the bridge wrote to the local WebSocket is what the client sent, in
\* order and without a gap, even while one side is being torn down.
BridgeInOrder == \A r \in Routes : \A i \in DOMAIN conn[r].got : conn[r].got[i] = i

\* A route of which either end is gone, or that was cancelled while it dialled, is
\* torn down entirely: no pump is left waiting for the other one.  Only a write that
\* hangs on a local server that does not read keeps it up, and only until the route
\* is cancelled (BridgeWebSocket, ConnectWebSocket, CancelRoute).
RouteEnds ==
    \A r \in Routes :
       <>[](/\ conn[r].pc \in {"dial", "bridge", "ended", "cancelled"}
            /\ \/ conn[r].ctx
               \/ conn[r].local \in {"gone", "closed"}
               \/ conn[r].stream \in {"gone", "closed"})
       => <>[](conn[r].b = "write" /\ conn[r].local = "open" /\ ~conn[r].ctx)
=============================================================================

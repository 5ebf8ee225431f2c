------------------------------- MODULE Relay -------------------------------
(***************************************************************************)
(* The relay: the HTTP entry point that admits connections                 *)
(* (internal/relay/server.go) and the router that joins an Agent peer and  *)
(* a client peer to a route and forwards frames between them               *)
(* (internal/relay/router.go).  Verified tickets name a route and an       *)
(* endpoint; frames are not modelled, and idle timeout and lifetime are    *)
(* abstracted to a sweep that may find any route old enough.               *)
(*                                                                         *)
(* A definition named ..._Slip is the one after it with a mistake the code *)
(* could contain; it is not part of the specification.                     *)
(***************************************************************************)
EXTENDS Integers, FiniteSets

CONSTANTS
  Conn,      \* HTTP requests, each one connection
  Route,     \* route ids
  None,      \* no connection
  MaxConnections,  \* the caps a server may be configured with; 0 when it is disabled
  Reuse      \* several tickets exist for one endpoint of a route (Admin issues
             \* whatever route id it is asked for; Provision draws a new one)

ASSUME NoneAssumption == None \notin Conn
ASSUME MaxConnectionsAssumption == MaxConnections \subseteq Nat
ASSUME ReuseAssumption == Reuse \in BOOLEAN

Endpoint == {"agent", "client"}
Opposite(e) == IF e = "agent" THEN "client" ELSE "agent"
NoTicket == [route |-> None, endpoint |-> None]

VARIABLES
  pc,        \* where the goroutine that serves a connection is
  ticket,    \* webSocketPeer.ticket
  closed,    \* webSocketPeer.closed, and with it the connection
  target,    \* the peer a frame of this connection is being written to
  victims,   \* the peers this goroutine has still to close
  slot,      \* Router.routes: the peers of every route; no route when both are None
  stopped,   \* Router.stopped
  sweeping,  \* the peers the sweeper has still to close
  active,    \* Server.activeConns
  maxConns,  \* Server.maxConns, set by New and never changed
  shutdown,  \* "serving", "draining" or "returned"
  mate       \* the peer that was on the route at the same time (auxiliary)

handlerVars == <<pc, ticket, target, victims, mate>>
vars == <<handlerVars, closed, slot, stopped, sweeping, active, maxConns, shutdown>>

Init ==
  /\ pc = [c \in Conn |-> "new"]
  /\ ticket = [c \in Conn |-> NoTicket]
  /\ closed = [c \in Conn |-> FALSE]
  /\ target = [c \in Conn |-> None]
  /\ victims = [c \in Conn |-> {}]
  /\ slot = [r \in Route |-> [e \in Endpoint |-> None]]
  /\ stopped = FALSE
  /\ sweeping = {}
  /\ active = 0
  /\ maxConns \in MaxConnections
  /\ shutdown = "serving"
  /\ mate = [c \in Conn |-> None]

Goto(c, where) == pc' = [pc EXCEPT ![c] = where]

\* The route id is in the table.
Known(r) == \E e \in Endpoint : slot[r][e] # None

\* The peers of a route.
Peers(r) == {slot[r][e] : e \in Endpoint} \ {None}

NoPeers == [e \in Endpoint |-> None]

\* Connections that Server.conns counts.
Counted == {c \in Conn : pc[c] \notin {"new", "uncount", "done"}}

-----------------------------------------------------------------------------
(* ServeHTTP. *)

\* The check of stopping and conns.Add, under acceptMu.
Accept(c) ==
  /\ pc[c] = "new"
  /\ Goto(c, IF shutdown = "serving" THEN "admit" ELSE "done")
  /\ UNCHANGED <<stopped, maxConns, ticket, target, victims, mate, closed, slot, sweeping, active, shutdown>>

\* Not a WebSocket upgrade.
NotUpgrade(c) ==
  /\ pc[c] = "admit"
  /\ Goto(c, "done")
  /\ UNCHANGED <<stopped, maxConns, ticket, target, victims, mate, closed, slot, sweeping, active, shutdown>>

\* The cap: the counter is raised first and lowered again when it went too far.
Admit(c) ==
  /\ pc[c] = "admit"
  /\ active' = IF maxConns > 0 THEN active + 1 ELSE active
  /\ Goto(c, IF maxConns > 0 /\ active + 1 > maxConns THEN "uncount" ELSE "upgrade")
  /\ UNCHANGED <<stopped, maxConns, ticket, target, victims, mate, closed, slot, sweeping, shutdown>>

Upgrade(c) ==
  /\ pc[c] = "upgrade"
  /\ Goto(c, "verify")
  /\ UNCHANGED <<stopped, maxConns, ticket, target, victims, mate, closed, slot, sweeping, active, shutdown>>

UpgradeFails_Slip(c) ==
  /\ pc[c] = "upgrade"
  /\ Goto(c, "done")
  /\ UNCHANGED <<stopped, maxConns, ticket, target, victims, mate, closed, slot, sweeping, active, shutdown>>

UpgradeFails(c) ==
  /\ pc[c] = "upgrade"
  /\ Goto(c, "uncount")
  /\ UNCHANGED <<stopped, maxConns, ticket, target, victims, mate, closed, slot, sweeping, active, shutdown>>

\* conns.Done came first.
Uncount(c) ==
  /\ pc[c] = "uncount"
  /\ active' = active - 1
  /\ Goto(c, "done")
  /\ UNCHANGED <<stopped, maxConns, ticket, target, victims, mate, closed, slot, sweeping, shutdown>>

-----------------------------------------------------------------------------
(* handleConnection and Router.Join. *)

\* readTicket and Verify succeed; a ticket is presented once.
Verify(c) ==
  /\ pc[c] = "verify"
  /\ \E r \in Route, e \in Endpoint :
       LET t == [route |-> r, endpoint |-> e]
       IN  /\ Reuse \/ \A d \in Conn : ticket[d] # t
           /\ ticket' = [ticket EXCEPT ![c] = t]
  /\ Goto(c, "join")
  /\ UNCHANGED <<stopped, maxConns, target, victims, mate, closed, slot, sweeping, active, shutdown>>

\* No ticket in time, or the verifier rejects it.
RejectTicket(c) ==
  /\ pc[c] = "verify"
  /\ Goto(c, "exit")
  /\ UNCHANGED <<stopped, maxConns, ticket, target, victims, mate, closed, slot, sweeping, active, shutdown>>

CanJoin(c) == ~stopped /\ slot[ticket[c].route][ticket[c].endpoint] = None

\* Join: the endpoint's slot is free, in a new route or in one that waits.
Join(c) ==
  /\ pc[c] = "join"
  /\ LET t == ticket[c]
         other == slot[t.route][Opposite(t.endpoint)]
     IN  /\ CanJoin(c)
         /\ slot' = [slot EXCEPT ![t.route][t.endpoint] = c]
         /\ mate' = IF other = None THEN mate
                    ELSE [mate EXCEPT ![c] = other, ![other] = c]
  /\ Goto(c, "run")
  /\ UNCHANGED <<stopped, maxConns, ticket, target, victims, closed, sweeping, active, shutdown>>

\* ErrRouterStopped, ErrRouteFull or ErrRouteEndpoint.
JoinRefused(c) ==
  /\ pc[c] = "join"
  /\ ~CanJoin(c)
  /\ Goto(c, "exit")
  /\ UNCHANGED <<stopped, maxConns, ticket, target, victims, mate, closed, slot, sweeping, active, shutdown>>

-----------------------------------------------------------------------------
(* Router.Leave, called by c for itself or for a peer that failed. *)

Leave_Slip(c, p) ==
  LET t == ticket[p]
  IN  /\ victims' = [victims EXCEPT ![c] = IF Known(t.route) THEN {p} ELSE {}]
      /\ slot' = [slot EXCEPT ![t.route] = NoPeers]

\* The part under Router.mu.  The route is looked up by id and the slot by endpoint;
\* one slot is empty afterwards, so the route always goes.
Leave(c, p) ==
  LET t == ticket[p]
      other == slot[t.route][Opposite(t.endpoint)]
  IN  /\ victims' = [victims EXCEPT ![c] = IF Known(t.route) THEN {p, other} \ {None} ELSE {}]
      /\ slot' = [slot EXCEPT ![t.route] = NoPeers]

\* The part after it: Close of every peer.
CloseVictims(c) ==
  /\ closed' = [d \in Conn |-> closed[d] \/ d \in victims[c]]
  /\ victims' = [victims EXCEPT ![c] = {}]

-----------------------------------------------------------------------------
(* runPeer and Route.Forward. *)

\* ReadMessage fails: the connection was closed here, or the other end hung up.
ReadFails(c) ==
  /\ pc[c] = "run"
  /\ Goto(c, "leave")
  /\ UNCHANGED <<stopped, maxConns, ticket, target, victims, mate, closed, slot, sweeping, active, shutdown>>

\* A frame for a route that is gone.
ForwardUnknown(c) ==
  /\ pc[c] = "run" /\ ~closed[c]
  /\ ~Known(ticket[c].route)
  /\ Goto(c, "leave")
  /\ UNCHANGED <<stopped, maxConns, ticket, target, victims, mate, closed, slot, sweeping, active, shutdown>>

\* A frame for the peer now in the opposite slot; without one it is dropped.
Forward(c) ==
  /\ pc[c] = "run" /\ ~closed[c]
  /\ LET dest == slot[ticket[c].route][Opposite(ticket[c].endpoint)]
     IN  dest # None /\ target' = [target EXCEPT ![c] = dest]
  /\ Goto(c, "write")
  /\ UNCHANGED <<stopped, maxConns, ticket, victims, mate, closed, slot, sweeping, active, shutdown>>

\* webSocketPeer.Forward of the target, without Router.mu.
Write(c) ==
  /\ pc[c] = "write"
  /\ ~closed[target[c]]
  /\ target' = [target EXCEPT ![c] = None]
  /\ Goto(c, "run")
  /\ UNCHANGED <<stopped, maxConns, ticket, victims, mate, closed, slot, sweeping, active, shutdown>>

\* The target is closed, or too slow.
WriteFails(c) ==
  /\ pc[c] = "write"
  /\ closed' = [closed EXCEPT ![target[c]] = TRUE]
  /\ Goto(c, "evict")
  /\ UNCHANGED <<stopped, maxConns, ticket, target, victims, mate, slot, sweeping, active, shutdown>>

Evict(c) ==
  /\ pc[c] = "evict"
  /\ Leave(c, target[c])
  /\ target' = [target EXCEPT ![c] = None]
  /\ Goto(c, "evicted")
  /\ UNCHANGED <<stopped, maxConns, ticket, mate, closed, sweeping, active, shutdown>>

CloseEvicted(c) ==
  /\ pc[c] = "evicted"
  /\ CloseVictims(c)
  /\ Goto(c, "leave")
  /\ UNCHANGED <<stopped, maxConns, ticket, target, mate, slot, sweeping, active, shutdown>>

LeaveRoute_Slip(c) ==
  /\ pc[c] = "leave"
  /\ IF mate[c] = None THEN UNCHANGED <<slot, victims>> ELSE Leave(c, c)
  /\ Goto(c, "left")
  /\ UNCHANGED <<stopped, maxConns, ticket, target, mate, closed, sweeping, active, shutdown>>

\* The deferred Leave of runPeer.
LeaveRoute(c) ==
  /\ pc[c] = "leave"
  /\ Leave(c, c)
  /\ Goto(c, "left")
  /\ UNCHANGED <<stopped, maxConns, ticket, target, mate, closed, sweeping, active, shutdown>>

CloseLeft(c) ==
  /\ pc[c] = "left"
  /\ CloseVictims(c)
  /\ Goto(c, "exit")
  /\ UNCHANGED <<stopped, maxConns, ticket, target, mate, slot, sweeping, active, shutdown>>

\* The deferred calls of handleConnection.
Exit(c) ==
  /\ pc[c] = "exit"
  /\ closed' = [closed EXCEPT ![c] = TRUE]
  /\ active' = active - 1
  /\ Goto(c, "done")
  /\ UNCHANGED <<stopped, maxConns, ticket, target, victims, mate, slot, sweeping, shutdown>>

-----------------------------------------------------------------------------
(* The sweeper and Shutdown. *)

Sweep_Slip ==
  /\ ~stopped
  /\ sweeping = {}
  /\ \E old \in SUBSET {r \in Route : Known(r)} :
       /\ old # {}
       /\ slot' = [r \in Route |-> IF r \in old THEN NoPeers ELSE slot[r]]
       /\ sweeping' = {slot[r]["agent"] : r \in old} \ {None}
  /\ UNCHANGED <<stopped, maxConns, handlerVars, closed, active, shutdown>>

\* The part of Sweep under Router.mu.  Stopping the sweeper does not wait for it.
Sweep ==
  /\ ~stopped
  /\ sweeping = {}
  /\ \E old \in SUBSET {r \in Route : Known(r)} :
       /\ old # {}
       /\ slot' = [r \in Route |-> IF r \in old THEN NoPeers ELSE slot[r]]
       /\ sweeping' = UNION {Peers(r) : r \in old}
  /\ UNCHANGED <<stopped, maxConns, handlerVars, closed, active, shutdown>>

\* closeRoute, peer by peer.
SweepClose ==
  /\ \E c \in sweeping :
       /\ closed' = [closed EXCEPT ![c] = TRUE]
       /\ sweeping' = sweeping \ {c}
  /\ UNCHANGED <<stopped, maxConns, handlerVars, slot, active, shutdown>>

Shutdown ==
  /\ shutdown = "serving"
  /\ shutdown' = "draining"
  /\ UNCHANGED <<stopped, maxConns, handlerVars, closed, slot, sweeping, active>>

\* ownsRouter is computed from config.Router after New has filled it in.
OwnsRouter == FALSE

\* conns.Wait returns; Router.Stop finds no peer that is still served.
ShutdownReturns ==
  /\ shutdown = "draining"
  /\ Counted = {}
  /\ shutdown' = "returned"
  /\ stopped' = (stopped \/ OwnsRouter)
  /\ UNCHANGED <<maxConns, handlerVars, closed, slot, sweeping, active>>

-----------------------------------------------------------------------------
Serve(c) ==
  \/ Accept(c) \/ NotUpgrade(c) \/ Admit(c) \/ Upgrade(c) \/ UpgradeFails(c) \/ Uncount(c)
  \/ Verify(c) \/ RejectTicket(c) \/ Join(c) \/ JoinRefused(c)
  \/ ReadFails(c) \/ ForwardUnknown(c) \/ Forward(c) \/ Write(c) \/ WriteFails(c)
  \/ Evict(c) \/ CloseEvicted(c) \/ LeaveRoute(c) \/ CloseLeft(c) \/ Exit(c)

Next == (\E c \in Conn : Serve(c)) \/ Sweep \/ SweepClose \/ Shutdown \/ ShutdownReturns

Spec == Init /\ [][Next]_vars

\* A goroutine takes its next step, except that a peer whose connection stands may
\* stay silent and is never obliged to send; the sweeper finishes a sweep.
Fairness ==
  /\ \A c \in Conn :
       /\ WF_vars(pc[c] \notin {"new", "run"} /\ Serve(c))
       /\ WF_vars(closed[c] /\ ReadFails(c))
  /\ WF_vars(SweepClose)
  /\ WF_vars(ShutdownReturns)

FairSpec == Spec /\ Fairness

-----------------------------------------------------------------------------
(* Properties. *)

Serviced == {c \in Conn : pc[c] \notin {"new", "admit", "uncount", "done"}}

\* "ActiveConnections returns the number of WebSocket connections the server is
\* currently servicing": the counter is that number once no request is being
\* refused; and although it is raised before it is compared, with several requests
\* between the two steps, the cap holds for the connections past it.
ActiveIsExact ==
  /\ (\A c \in Conn : pc[c] # "uncount") => active = Cardinality(Serviced)
  /\ maxConns > 0 => Cardinality(Serviced) <= maxConns

\* A route holds only peers whose goroutine has still to call Leave: a slot is
\* never taken by a connection that is gone.
NoGhostPeer ==
  \A r \in Route, e \in Endpoint :
    LET c == slot[r][e]
    IN  c # None =>
          /\ ticket[c] = [route |-> r, endpoint |-> e]
          /\ pc[c] \in {"run", "write", "evict", "evicted", "leave"}

\* Nobody is about to close peer c, and it is not on its route.
Stranded(c) ==
  /\ pc[c] = "run"
  /\ ~closed[c]
  /\ slot[ticket[c].route][ticket[c].endpoint] # c
  /\ c \notin sweeping
  /\ \A d \in Conn : c \notin victims[d]

\* Connection c is the only one that presented a ticket for its endpoint.
Sole(c) == \A d \in Conn \ {c} : ticket[d] # ticket[c]

\* A peer with the only ticket for its endpoint, as every one that Agents
\* provision, never keeps a connection open off its route, whatever others do to
\* the route's other endpoint and whether they leave, are evicted or swept
\* (Router.Leave, Sweep, Forward).
NoSolePeerStranded ==
  \A c \in Conn : Stranded(c) => ~Sole(c)

\* When one peer of a route is gone, however it went and however many connections
\* follow it to the same endpoint, a partner with the only ticket for its own
\* endpoint goes too.  (Leave looks its route up by id and endpoint: with a second
\* ticket for the partner's endpoint, the late Leave of a connection that was swept
\* before removes the route and closes the newcomer and itself, not the partner.)
PartnerFollows ==
  \A c \in Conn : []<>(mate[c] # None /\ pc[mate[c]] = "done" /\ Sole(c) => pc[c] = "done")

=============================================================================

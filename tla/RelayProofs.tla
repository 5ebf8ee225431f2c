---------------------------- MODULE RelayProofs ----------------------------
(***************************************************************************)
(* Proofs about the relay for any number of connections and routes and any *)
(* cap.  Shape says what a goroutine holds at each place of its code; with *)
(* NoGhostPeer it is inductive.  Accounted rests on it: what               *)
(* Server.activeConns counts between the two steps of a refused request.   *)
(* LosesOnlyToTwin is the strengthening for the peers that wait: it also   *)
(* covers a peer that is just writing a frame, and says that the other     *)
(* ticket was presented, so that it stays what it is.                      *)
(***************************************************************************)
EXTENDS Relay, TLAPS

\* A leaf is tried with Zenon, then with SMT, for at most so many seconds.
USE ZenonT(5), SMTT(20)

Ticket == [route : Route, endpoint : Endpoint]

\* Places of a goroutine: with a verified ticket that Join or runPeer still uses,
\* between Join and Leave, and after Join was called.
Ticketed == {"join", "run", "write", "evict", "evicted", "leave", "left"}
OnRoute == {"run", "write", "evict", "evicted", "leave"}
Beyond == OnRoute \cup {"left", "exit", "done"}
Places == {"new", "admit", "uncount", "upgrade", "verify", "join"} \cup Beyond

TypeInv ==
  /\ pc \in [Conn -> Places]
  /\ ticket \in [Conn -> Ticket \cup {NoTicket}]
  /\ closed \in [Conn -> BOOLEAN]
  /\ target \in [Conn -> Conn \cup {None}]
  /\ victims \in [Conn -> SUBSET Conn]
  /\ slot \in [Route -> [Endpoint -> Conn \cup {None}]]
  /\ sweeping \in SUBSET Conn
  /\ active \in Int

\* What a goroutine holds at each place: the ticket, the peer it writes to, which
\* has joined and may be gone, and the peers it is about to close.
Holds(c) ==
  /\ pc[c] \in Ticketed => ticket[c] \in Ticket
  /\ pc[c] \in {"write", "evict"} => target[c] # None
  /\ target[c] # None => pc[target[c]] \in Beyond /\ ticket[target[c]] \in Ticket
  /\ victims[c] # {} => pc[c] \in {"evicted", "left"}

Shape == TypeInv /\ \A c \in Conn : Holds(c)

Base == Shape /\ NoGhostPeer

-----------------------------------------------------------------------------
(* What the connections are counted as.                                    *)

\* Connections that the counter was raised for and not lowered again.
Held == {c \in Conn : pc[c] \notin {"new", "admit", "done"}}

\* The counter counts them exactly, the refused ones included, and those past the
\* cap are within it.
Accounted ==
  /\ IsFiniteSet(Held)
  /\ active = Cardinality(Held)
  /\ maxConns \in Nat \ {0}
  /\ Cardinality(Serviced) <= maxConns

-----------------------------------------------------------------------------
(* Leave and the goroutines' own steps keep Shape and NoGhostPeer.         *)

LEMMA InitBase == Init => Base
  BY NoneAssumption DEF Init, Base, Shape, TypeInv, Holds, NoGhostPeer, Places, Beyond, OnRoute,
     Ticketed, NoTicket

\* What NoGhostPeer and the types say of one slot.
LEMMA SlotPeer ==
  ASSUME Base, NEW r \in Route, NEW e \in Endpoint, slot[r][e] # None
  PROVE  /\ slot[r][e] \in Conn
         /\ ticket[slot[r][e]] = [route |-> r, endpoint |-> e]
         /\ ticket[slot[r][e]] \in Ticket
         /\ pc[slot[r][e]] \in OnRoute
  BY DEF Base, Shape, TypeInv, NoGhostPeer, Ticket, OnRoute

\* A connection that has not joined is in no slot.
LEMMA NotSeated ==
  ASSUME Base, NEW c \in Conn, pc[c] \notin OnRoute
  PROVE  \A q \in Route, f \in Endpoint : slot[q][f] # c
<1>1. SUFFICES ASSUME NEW q \in Route, NEW f \in Endpoint, slot[q][f] = c
               PROVE  FALSE
  OBVIOUS
<1>2. slot[q][f] # None
  BY <1>1, NoneAssumption
<1>3. pc[slot[q][f]] \in OnRoute
  BY <1>2, SlotPeer
<1>. QED
  BY <1>1, <1>3

\* A step of one goroutine: enough to look at what it holds itself, at the slots it
\* changes, which it empties or fills with itself, and that it does not return.
LEMMA MoveBase ==
  ASSUME Base, NEW c \in Conn, NEW where \in Places, Goto(c, where),
         pc[c] \in Beyond => where \in Beyond,
         ticket' \in [Conn -> Ticket \cup {NoTicket}],
         slot' \in [Route -> [Endpoint -> Conn \cup {None}]],
         closed' \in [Conn -> BOOLEAN], sweeping' \in SUBSET Conn, active' \in Int,
         target' \in [Conn -> Conn \cup {None}], victims' \in [Conn -> SUBSET Conn],
         \A d \in Conn \ {c} :
           ticket'[d] = ticket[d] /\ target'[d] = target[d] /\ victims'[d] = victims[d],
         pc[c] \in Beyond => ticket'[c] = ticket[c],
         where \in Ticketed => ticket'[c] \in Ticket,
         where \in {"write", "evict"} => target'[c] # None,
         target'[c] # None => pc[target'[c]] \in Beyond /\ ticket[target'[c]] \in Ticket,
         victims'[c] # {} => where \in {"evicted", "left"},
         \A r \in Route, e \in Endpoint :
           slot'[r][e] \in {None, slot[r][e], c},
         \A r \in Route, e \in Endpoint :
           slot'[r][e] = c => where \in OnRoute /\ ticket'[c] = [route |-> r, endpoint |-> e]
  PROVE  Base'
<1>1. TypeInv'
  BY DEF Base, Shape, TypeInv, Goto
<1>2. pc'[c] = where /\ \A d \in Conn \ {c} : pc'[d] = pc[d]
  BY DEF Goto, Base, Shape, TypeInv
<1>3. \A d \in Conn : pc[d] \in Beyond => pc'[d] \in Beyond /\ ticket'[d] = ticket[d]
  BY <1>2
<1>4. ASSUME NEW d \in Conn PROVE Holds(d)'
  <2>1. target[d] \in Conn \cup {None} /\ target'[d] \in Conn \cup {None}
    BY DEF Base, Shape, TypeInv
  <2>2. Holds(d)
    BY DEF Base, Shape
  <2>. QED
    BY <1>2, <1>3, <2>1, <2>2, NoneAssumption DEF Holds
<1>5. NoGhostPeer'
  <2>. SUFFICES ASSUME NEW r \in Route, NEW e \in Endpoint, slot'[r][e] # None
                PROVE  /\ ticket'[slot'[r][e]] = [route |-> r, endpoint |-> e]
                       /\ pc'[slot'[r][e]] \in OnRoute
    BY DEF NoGhostPeer, OnRoute
  <2>1. slot'[r][e] \in Conn
    BY <1>1 DEF TypeInv
  <2>2. CASE slot'[r][e] = c
    BY <2>2, <1>2
  <2>3. CASE slot'[r][e] # c
    BY <2>1, <2>3, <1>2 DEF Base, NoGhostPeer, OnRoute
  <2>. QED
    BY <2>2, <2>3
<1>. QED
  BY <1>1, <1>4, <1>5 DEF Base, Shape

\* The steps up to the ticket, and those that only move on.
LEMMA EntryBase ==
  ASSUME Base, NEW c \in Conn,
         \/ Accept(c) \/ NotUpgrade(c) \/ Admit(c) \/ Upgrade(c) \/ UpgradeFails(c) \/ Uncount(c)
         \/ RejectTicket(c) \/ JoinRefused(c) \/ ReadFails(c) \/ ForwardUnknown(c) \/ Exit(c)
  PROVE  Base'
<1>. DEFINE Unmoved == /\ UNCHANGED <<ticket, slot, target, victims, sweeping>>
                       /\ closed' \in [Conn -> BOOLEAN] /\ active' \in Int
<1>1. ASSUME NEW where \in Places, Goto(c, where), Unmoved,
             pc[c] \in Beyond => where \in Beyond,
             pc[c] \in OnRoute => where \in OnRoute,
             where \in Ticketed => pc[c] \in Ticketed,
             where \notin {"write", "evict"}, pc[c] \notin {"evicted", "left"}
      PROVE  Base'
  <2>1. Holds(c)
    BY DEF Base, Shape
  <2>2. \A r \in Route, e \in Endpoint :
          slot[r][e] = c => where \in OnRoute /\ ticket[c] = [route |-> r, endpoint |-> e]
    BY <1>1, NoneAssumption DEF Base, NoGhostPeer, OnRoute
  <2>3. /\ where \in Ticketed => ticket[c] \in Ticket
        /\ target[c] # None => pc[target[c]] \in Beyond /\ ticket[target[c]] \in Ticket
        /\ victims[c] = {}
    BY <1>1, <2>1 DEF Holds
  <2>4. /\ ticket' = ticket /\ slot' = slot /\ target' = target /\ victims' = victims
        /\ sweeping' = sweeping /\ closed' \in [Conn -> BOOLEAN] /\ active' \in Int
    BY <1>1
  <2>5. /\ ticket' \in [Conn -> Ticket \cup {NoTicket}] /\ slot' \in [Route -> [Endpoint -> Conn \cup {None}]]
        /\ target' \in [Conn -> Conn \cup {None}] /\ victims' \in [Conn -> SUBSET Conn] /\ sweeping' \in SUBSET Conn
    BY <2>4 DEF Base, Shape, TypeInv
  <2>6. \A r \in Route, e \in Endpoint : slot'[r][e] \in {None, slot[r][e], c}
    BY <2>4
  <2>7. \A r \in Route, e \in Endpoint :
          slot'[r][e] = c => where \in OnRoute /\ ticket'[c] = [route |-> r, endpoint |-> e]
    BY <2>2, <2>4
  <2>. QED
    BY <1>1, <2>3, <2>4, <2>5, <2>6, <2>7, MoveBase
<1>. HIDE DEF Unmoved
<1>2. active + 1 \in Int /\ active - 1 \in Int
  BY DEF Base, Shape, TypeInv
<1>3. CASE Accept(c)
  <2>1. Goto(c, "admit") \/ Goto(c, "done")
    BY <1>3 DEF Accept
  <2>. QED
    BY <1>1, <1>3, <2>1 DEF Accept, Unmoved, Places, Beyond, OnRoute, Ticketed, Base, Shape, TypeInv
<1>4. CASE NotUpgrade(c) \/ Upgrade(c) \/ UpgradeFails(c) \/ RejectTicket(c)
  BY <1>1, <1>4 DEF NotUpgrade, Upgrade, UpgradeFails, RejectTicket, Unmoved, Places, Beyond, OnRoute,
     Ticketed, Base, Shape, TypeInv
<1>5. CASE Admit(c) \/ Uncount(c)
  BY <1>1, <1>2, <1>5 DEF Admit, Uncount, Unmoved, Places, Beyond, OnRoute, Ticketed, Base, Shape, TypeInv
<1>6. CASE JoinRefused(c) \/ ReadFails(c) \/ ForwardUnknown(c)
  BY <1>1, <1>6 DEF JoinRefused, ReadFails, ForwardUnknown, Unmoved, Places, Beyond, OnRoute, Ticketed,
     Base, Shape, TypeInv
<1>7. CASE Exit(c)
  BY <1>1, <1>2, <1>7 DEF Exit, Unmoved, Places, Beyond, OnRoute, Ticketed, Base, Shape, TypeInv
<1>. QED
  BY <1>3, <1>4, <1>5, <1>6, <1>7

\* The ticket and the route.
LEMMA JoinBase ==
  ASSUME Base, NEW c \in Conn, Verify(c) \/ Join(c)
  PROVE  Base'
<1>1. TypeInv /\ Holds(c)
  BY DEF Base, Shape
<1>2. CASE Verify(c)
  <2>1. PICK r \in Route, e \in Endpoint :
          ticket' = [ticket EXCEPT ![c] = [route |-> r, endpoint |-> e]]
    BY <1>2 DEF Verify
  <2>2. \A q \in Route, f \in Endpoint : slot[q][f] # c
    <3>1. pc[c] \notin OnRoute
      BY <1>2 DEF Verify, OnRoute
    <3>. QED
      BY <3>1, NotSeated
  <2>3. /\ ticket' \in [Conn -> Ticket \cup {NoTicket}] /\ ticket'[c] \in Ticket
        /\ \A d \in Conn \ {c} : ticket'[d] = ticket[d]
    BY <1>1, <2>1 DEF TypeInv, Ticket
  <2>4. /\ Goto(c, "join") /\ pc[c] = "verify" /\ slot' = slot /\ target' = target
        /\ victims' = victims /\ sweeping' = sweeping /\ closed' = closed /\ active' = active
    BY <1>2 DEF Verify
  <2>5. /\ "join" \in Places /\ pc[c] \notin Beyond
    BY <2>4 DEF Places, Beyond, OnRoute
  <2>6. /\ target[c] # None => pc[target[c]] \in Beyond /\ ticket[target[c]] \in Ticket
        /\ victims[c] = {}
    BY <1>1, <2>4 DEF Holds
  <2>7. /\ slot' \in [Route -> [Endpoint -> Conn \cup {None}]] /\ closed' \in [Conn -> BOOLEAN]
        /\ target' \in [Conn -> Conn \cup {None}] /\ victims' \in [Conn -> SUBSET Conn]
        /\ sweeping' \in SUBSET Conn /\ active' \in Int
    BY <1>1, <2>4 DEF TypeInv
  <2>8. \A q \in Route, f \in Endpoint : slot'[q][f] \in {None, slot[q][f], c} /\ slot'[q][f] # c
    BY <2>2, <2>4
  <2>9. \A d \in Conn \ {c} : ticket'[d] = ticket[d] /\ target'[d] = target[d] /\ victims'[d] = victims[d]
    BY <2>3, <2>4
  <2>10. /\ target'[c] # None => pc[target'[c]] \in Beyond /\ ticket[target'[c]] \in Ticket
         /\ victims'[c] = {} /\ "join" \notin {"write", "evict"}
    BY <2>4, <2>6
  <2>. QED
    BY <2>3, <2>4, <2>5, <2>7, <2>8, <2>9, <2>10, MoveBase
<1>3. CASE Join(c)
  <2>. DEFINE t == ticket[c]
  <2>1. t \in Ticket
    BY <1>1, <1>3 DEF Join, Holds, Ticketed
  <2>2. /\ Goto(c, "run") /\ pc[c] = "join" /\ ticket' = ticket /\ target' = target
        /\ victims' = victims /\ sweeping' = sweeping /\ closed' = closed /\ active' = active
        /\ slot' = [slot EXCEPT ![t.route][t.endpoint] = c]
    BY <1>3 DEF Join
  <2>3. \A q \in Route, f \in Endpoint : slot[q][f] # c
    <3>1. pc[c] \notin OnRoute
      BY <2>2 DEF OnRoute
    <3>. QED
      BY <3>1, NotSeated
  <2>4. /\ slot' \in [Route -> [Endpoint -> Conn \cup {None}]]
        /\ \A q \in Route, f \in Endpoint :
             slot'[q][f] = IF q = t.route /\ f = t.endpoint THEN c ELSE slot[q][f]
    BY <1>1, <2>1, <2>2 DEF TypeInv, Ticket
  <2>5. t = [route |-> t.route, endpoint |-> t.endpoint]
    BY <2>1 DEF Ticket
  <2>6. /\ "run" \in Places /\ pc[c] \notin Beyond /\ "run" \in OnRoute
        /\ "run" \notin {"write", "evict"}
    BY <2>2 DEF Places, Beyond, OnRoute
  <2>7. /\ target[c] # None => pc[target[c]] \in Beyond /\ ticket[target[c]] \in Ticket
        /\ victims[c] = {}
    BY <1>1, <2>2 DEF Holds
  <2>8. \A q \in Route, f \in Endpoint :
          /\ slot'[q][f] \in {None, slot[q][f], c}
          /\ slot'[q][f] = c => ticket[c] = [route |-> q, endpoint |-> f]
    BY <2>3, <2>4, <2>5
  <2>9. /\ ticket' \in [Conn -> Ticket \cup {NoTicket}] /\ closed' \in [Conn -> BOOLEAN]
        /\ target' \in [Conn -> Conn \cup {None}] /\ victims' \in [Conn -> SUBSET Conn]
        /\ sweeping' \in SUBSET Conn /\ active' \in Int
    BY <1>1, <2>2 DEF TypeInv
  <2>10. \A d \in Conn \ {c} : ticket'[d] = ticket[d] /\ target'[d] = target[d] /\ victims'[d] = victims[d]
    BY <2>2
  <2>11. /\ target'[c] # None => pc[target'[c]] \in Beyond /\ ticket[target'[c]] \in Ticket
         /\ victims'[c] = {} /\ ticket'[c] \in Ticket
    BY <2>1, <2>2, <2>7
  <2>12. \A r \in Route, e \in Endpoint :
           /\ slot'[r][e] \in {None, slot[r][e], c}
           /\ slot'[r][e] = c => "run" \in OnRoute /\ ticket'[c] = [route |-> r, endpoint |-> e]
    BY <2>2, <2>6, <2>8
  <2>13. Goto(c, "run") /\ slot' \in [Route -> [Endpoint -> Conn \cup {None}]]
    BY <2>2, <2>4
  <2>. HIDE DEF t
  <2>. QED
    BY <2>6, <2>9, <2>10, <2>11, <2>12, <2>13, MoveBase
<1>. QED
  BY <1>2, <1>3

\* Forwarding a frame.
LEMMA ForwardBase ==
  ASSUME Base, NEW c \in Conn, Forward(c) \/ Write(c) \/ WriteFails(c)
  PROVE  Base'
<1>1. TypeInv /\ Holds(c)
  BY DEF Base, Shape
<1>2. \A r \in Route, e \in Endpoint :
        slot[r][e] = c => ticket[c] = [route |-> r, endpoint |-> e]
  BY NoneAssumption DEF Base, NoGhostPeer
<1>3. CASE Forward(c)
  <2>. DEFINE dest == slot[ticket[c].route][Opposite(ticket[c].endpoint)]
  <2>1. /\ Goto(c, "write") /\ pc[c] = "run" /\ ticket' = ticket /\ slot' = slot
        /\ victims' = victims /\ sweeping' = sweeping /\ closed' = closed /\ active' = active
        /\ dest # None /\ target' = [target EXCEPT ![c] = dest]
    BY <1>3 DEF Forward
  <2>2. ticket[c].route \in Route /\ Opposite(ticket[c].endpoint) \in Endpoint
    BY <1>1, <2>1 DEF Holds, Ticketed, Ticket, Opposite, Endpoint
  <2>3. dest \in Conn /\ pc[dest] \in Beyond /\ ticket[dest] \in Ticket
    BY <2>1, <2>2, SlotPeer DEF Beyond
  <2>4. /\ target' \in [Conn -> Conn \cup {None}] /\ target'[c] = dest
        /\ \A d \in Conn \ {c} : target'[d] = target[d]
    BY <1>1, <2>1, <2>3 DEF TypeInv
  <2>5. "write" \in Places /\ "write" \in Beyond /\ "write" \in OnRoute
    BY DEF Places, Beyond, OnRoute
  <2>6. ticket[c] \in Ticket /\ victims[c] = {}
    BY <1>1, <2>1 DEF Holds, Ticketed
  <2>. HIDE DEF dest
  <2>. QED
    BY <1>1, <1>2, <2>1, <2>3, <2>4, <2>5, <2>6, MoveBase DEF TypeInv
<1>4. CASE Write(c)
  <2>1. /\ Goto(c, "run") /\ pc[c] = "write" /\ ticket' = ticket /\ slot' = slot
        /\ victims' = victims /\ sweeping' = sweeping /\ closed' = closed /\ active' = active
        /\ target' = [target EXCEPT ![c] = None]
    BY <1>4 DEF Write
  <2>2. /\ target' \in [Conn -> Conn \cup {None}] /\ target'[c] = None
        /\ \A d \in Conn \ {c} : target'[d] = target[d]
    BY <1>1, <2>1 DEF TypeInv
  <2>3. "run" \in Places /\ "run" \in Beyond /\ "run" \in OnRoute /\ "run" \notin {"write", "evict"}
    BY DEF Places, Beyond, OnRoute
  <2>4. ticket[c] \in Ticket /\ victims[c] = {}
    BY <1>1, <2>1 DEF Holds, Ticketed
  <2>. QED
    BY <1>1, <1>2, <2>1, <2>2, <2>3, <2>4, MoveBase DEF TypeInv
<1>5. CASE WriteFails(c)
  <2>1. /\ Goto(c, "evict") /\ pc[c] = "write" /\ ticket' = ticket /\ slot' = slot
        /\ victims' = victims /\ sweeping' = sweeping /\ target' = target /\ active' = active
        /\ closed' \in [Conn -> BOOLEAN]
    BY <1>1, <1>5 DEF WriteFails, TypeInv
  <2>2. "evict" \in Places /\ "evict" \in Beyond /\ "evict" \in OnRoute
    BY DEF Places, Beyond, OnRoute
  <2>3. /\ ticket[c] \in Ticket /\ victims[c] = {} /\ target[c] # None
        /\ pc[target[c]] \in Beyond /\ ticket[target[c]] \in Ticket
    BY <1>1, <2>1 DEF Holds, Ticketed
  <2>. QED
    BY <1>1, <1>2, <2>1, <2>2, <2>3, MoveBase DEF TypeInv
<1>. QED
  BY <1>3, <1>4, <1>5

\* The part of Router.Leave under the lock, for the goroutine itself or its target.
LEMMA LeaveBase ==
  ASSUME Base, NEW c \in Conn, Evict(c) \/ LeaveRoute(c)
  PROVE  Base'
<1>1. TypeInv /\ Holds(c)
  BY DEF Base, Shape
<1>2. ASSUME NEW p \in Conn, ticket[p] \in Ticket, Leave(c, p)
      PROVE  /\ slot' \in [Route -> [Endpoint -> Conn \cup {None}]]
             /\ victims' \in [Conn -> SUBSET Conn]
             /\ \A d \in Conn \ {c} : victims'[d] = victims[d]
             /\ \A r \in Route, e \in Endpoint :
                  slot'[r][e] = IF r = ticket[p].route THEN None ELSE slot[r][e]
  <2>1. ticket[p].route \in Route /\ Opposite(ticket[p].endpoint) \in Endpoint
    BY <1>2 DEF Ticket, Opposite, Endpoint
  <2>2. slot[ticket[p].route][Opposite(ticket[p].endpoint)] \in Conn \cup {None}
    BY <1>1, <2>1 DEF TypeInv
  <2>3. NoPeers \in [Endpoint -> Conn \cup {None}] /\ \A e \in Endpoint : NoPeers[e] = None
    BY DEF NoPeers
  <2>. QED
    BY <1>1, <1>2, <2>1, <2>2, <2>3 DEF TypeInv, Leave
<1>3. \A r \in Route, e \in Endpoint :
        slot[r][e] = c => ticket[c] = [route |-> r, endpoint |-> e]
  BY NoneAssumption, SlotPeer
<1>4. CASE Evict(c)
  <2>1. /\ Goto(c, "evicted") /\ pc[c] = "evict" /\ ticket' = ticket
        /\ sweeping' = sweeping /\ closed' = closed /\ active' = active
        /\ Leave(c, target[c]) /\ target' = [target EXCEPT ![c] = None]
    BY <1>4 DEF Evict
  <2>2. target[c] \in Conn /\ ticket[target[c]] \in Ticket /\ ticket[c] \in Ticket
    BY <1>1, <2>1 DEF TypeInv, Holds, Ticketed
  <2>3. /\ target' \in [Conn -> Conn \cup {None}] /\ target'[c] = None
        /\ \A d \in Conn \ {c} : target'[d] = target[d]
    BY <1>1, <2>1 DEF TypeInv
  <2>4. /\ "evicted" \in Places /\ "evicted" \in Beyond /\ "evicted" \in OnRoute
        /\ "evicted" \notin {"write", "evict"}
    BY DEF Places, Beyond, OnRoute
  <2>5. /\ slot' \in [Route -> [Endpoint -> Conn \cup {None}]]
        /\ victims' \in [Conn -> SUBSET Conn]
        /\ \A d \in Conn \ {c} : victims'[d] = victims[d]
        /\ \A r \in Route, e \in Endpoint : slot'[r][e] \in {None, slot[r][e]}
    BY <1>2, <2>1, <2>2
  <2>6. \A r \in Route, e \in Endpoint :
          slot'[r][e] = c => ticket[c] = [route |-> r, endpoint |-> e]
    BY <1>3, <2>5, NoneAssumption
  <2>. QED
    BY <1>1, <2>1, <2>2, <2>3, <2>4, <2>5, <2>6, MoveBase DEF TypeInv
<1>5. CASE LeaveRoute(c)
  <2>1. /\ Goto(c, "left") /\ pc[c] = "leave" /\ ticket' = ticket /\ target' = target
        /\ sweeping' = sweeping /\ closed' = closed /\ active' = active /\ Leave(c, c)
    BY <1>5 DEF LeaveRoute
  <2>2. /\ ticket[c] \in Ticket
        /\ target[c] # None => pc[target[c]] \in Beyond /\ ticket[target[c]] \in Ticket
    BY <1>1, <2>1 DEF Holds, Ticketed
  <2>3. /\ slot' \in [Route -> [Endpoint -> Conn \cup {None}]]
        /\ victims' \in [Conn -> SUBSET Conn]
        /\ \A d \in Conn \ {c} : victims'[d] = victims[d]
        /\ \A r \in Route, e \in Endpoint :
             slot'[r][e] = IF r = ticket[c].route THEN None ELSE slot[r][e]
    BY <1>2, <2>1, <2>2
  <2>5. \A r \in Route, e \in Endpoint : slot'[r][e] \in {None, slot[r][e]} /\ slot'[r][e] # c
    <3>1. ASSUME NEW r \in Route, NEW e \in Endpoint, slot[r][e] = c
          PROVE  r = ticket[c].route
      <4>1. ticket[c] = [route |-> r, endpoint |-> e]
        BY <1>3, <3>1
      <4>. QED
        BY <4>1
    <3>. QED
      BY <2>3, <3>1, NoneAssumption
  <2>4. "left" \in Places /\ "left" \in Beyond /\ "left" \notin {"write", "evict"}
    BY DEF Places, Beyond, OnRoute
  <2>. QED
    BY <1>1, <2>1, <2>2, <2>3, <2>4, <2>5, MoveBase DEF TypeInv
<1>. QED
  BY <1>4, <1>5

\* The part after it.
LEMMA CloseBase ==
  ASSUME Base, NEW c \in Conn, CloseEvicted(c) \/ CloseLeft(c)
  PROVE  Base'
<1>1. TypeInv /\ Holds(c)
  BY DEF Base, Shape
<1>2. PICK where \in {"leave", "exit"} :
        /\ Goto(c, where) /\ pc[c] = (IF where = "leave" THEN "evicted" ELSE "left")
        /\ CloseVictims(c) /\ ticket' = ticket /\ target' = target /\ slot' = slot
        /\ sweeping' = sweeping /\ active' = active
  BY DEF CloseEvicted, CloseLeft
<1>3. /\ closed' \in [Conn -> BOOLEAN] /\ victims' \in [Conn -> SUBSET Conn]
      /\ victims'[c] = {} /\ \A d \in Conn \ {c} : victims'[d] = victims[d]
  BY <1>1, <1>2 DEF CloseVictims, TypeInv
<1>4. /\ ticket[c] \in Ticket
      /\ target[c] # None => pc[target[c]] \in Beyond /\ ticket[target[c]] \in Ticket
  BY <1>1, <1>2 DEF Holds, Ticketed
<1>5. where \in Places /\ where \in Beyond /\ where \notin {"write", "evict"}
  BY DEF Places, Beyond, OnRoute
<1>6. \A r \in Route, e \in Endpoint :
        slot[r][e] = c => where \in OnRoute /\ ticket[c] = [route |-> r, endpoint |-> e]
  <2>1. pc[c] \in OnRoute => where \in OnRoute
    BY <1>2 DEF OnRoute
  <2>. QED
    BY <2>1, NoneAssumption, SlotPeer
<1>. QED
  BY <1>1, <1>2, <1>3, <1>4, <1>5, <1>6, MoveBase DEF TypeInv

\* The sweeper and Shutdown.
LEMMA SweepBase ==
  ASSUME Base, Sweep \/ SweepClose \/ Shutdown \/ ShutdownReturns
  PROVE  Base'
<1>1. /\ UNCHANGED <<pc, ticket, target, victims, active>>
      /\ closed' \in [Conn -> BOOLEAN] /\ sweeping' \in SUBSET Conn
      /\ slot' \in [Route -> [Endpoint -> Conn \cup {None}]]
      /\ \A r \in Route, e \in Endpoint : slot'[r][e] \in {None, slot[r][e]}
  <2>1. TypeInv
    BY DEF Base, Shape
  <2>2. CASE Sweep
    <3>1. PICK old \in SUBSET {r \in Route : Known(r)} :
            /\ slot' = [r \in Route |-> IF r \in old THEN NoPeers ELSE slot[r]]
            /\ sweeping' = UNION {Peers(r) : r \in old}
      BY <2>2 DEF Sweep
    <3>2. \A r \in Route : Peers(r) \in SUBSET Conn
      BY <2>1 DEF TypeInv, Peers
    <3>. QED
      BY <2>1, <2>2, <3>1, <3>2 DEF TypeInv, Sweep, handlerVars, NoPeers
  <2>3. CASE SweepClose \/ Shutdown \/ ShutdownReturns
    BY <2>1, <2>3 DEF TypeInv, SweepClose, Shutdown, ShutdownReturns, handlerVars
  <2>. QED
    BY <2>2, <2>3
<1>2. \A r \in Route, e \in Endpoint :
        slot'[r][e] # None => slot'[r][e] = slot[r][e]
  BY <1>1
<1>3. Shape'
  BY <1>1 DEF Base, Shape, TypeInv, Holds
<1>4. NoGhostPeer'
  BY <1>1, <1>2 DEF Base, NoGhostPeer
<1>. QED
  BY <1>3, <1>4 DEF Base

LEMMA NextBase == Base /\ [Next]_vars => Base'
<1>. SUFFICES ASSUME Base, [Next]_vars PROVE Base'
  OBVIOUS
<1>1. ASSUME NEW c \in Conn, Serve(c) PROVE Base'
  BY <1>1, EntryBase, JoinBase, ForwardBase, LeaveBase, CloseBase DEF Serve
<1>2. CASE UNCHANGED vars
  BY <1>2 DEF vars, handlerVars, Base, Shape, TypeInv, Holds, NoGhostPeer
<1>. QED
  BY <1>1, <1>2, SweepBase DEF Next

\* A route holds only peers whose goroutine has still to call Router.Leave, for any
\* number of connections, evictions by the other peer and sweeps.
THEOREM NoGhostPeerHolds == Spec => []NoGhostPeer
<1>1. Base => NoGhostPeer
  BY DEF Base
<1>. QED
  BY <1>1, InitBase, NextBase, PTL DEF Spec

-----------------------------------------------------------------------------
(* Peers that wait.                                                        *)

\* A peer that is served and neither closed, nor about to be, is in its slot, or
\* another connection has come with a ticket for the same endpoint.
Adrift(c) ==
  /\ pc[c] \in {"run", "write"}
  /\ ~closed[c]
  /\ slot[ticket[c].route][ticket[c].endpoint] # c
  /\ c \notin sweeping
  /\ \A d \in Conn : c \notin victims[d]

LosesOnlyToTwin ==
  \A c \in Conn : Adrift(c) =>
    \E d \in Conn \ {c} : ticket[d] = ticket[c] /\ pc[d] \in Beyond

-----------------------------------------------------------------------------
\* Where a step of a goroutine leads: never back to before Join, and to a place with
\* a ticket only from one, or by Verify, which alone sets it.
Leads(c, where) ==
  /\ where \in Places /\ Goto(c, where)
  /\ pc[c] \in Beyond => where \in Beyond
  /\ \/ Verify(c) /\ pc[c] \notin Beyond
     \/ ticket' = ticket /\ (where \in Ticketed => pc[c] \in Ticketed)

LEMMA ServeLeads ==
  ASSUME NEW c \in Conn, Serve(c)
  PROVE  \E where : Leads(c, where)
<1>. USE DEF Leads, Places, Beyond, OnRoute, Ticketed
<1>1. CASE Accept(c) \/ NotUpgrade(c)
  <2>1. \/ Accept(c) /\ Goto(c, "admit")
        \/ Goto(c, "done")
    BY <1>1 DEF Accept, NotUpgrade
  <2>2. ticket' = ticket /\ pc[c] \in {"new", "admit"}
    BY <1>1 DEF Accept, NotUpgrade
  <2>. QED
    BY <2>1, <2>2
<1>2. CASE Admit(c)
  <2>1. Goto(c, "uncount") \/ Goto(c, "upgrade")
    BY <1>2 DEF Admit
  <2>. QED
    BY <1>2, <2>1 DEF Admit
<1>3. CASE Upgrade(c) \/ UpgradeFails(c) \/ Uncount(c)
  BY <1>3 DEF Upgrade, UpgradeFails, Uncount
<1>4. CASE Verify(c)
  BY <1>4 DEF Verify
<1>5. CASE RejectTicket(c) \/ Join(c) \/ JoinRefused(c)
  <2>1. CASE RejectTicket(c)
    BY <2>1 DEF RejectTicket
  <2>2. CASE Join(c)
    BY <2>2 DEF Join
  <2>3. CASE JoinRefused(c)
    BY <2>3 DEF JoinRefused
  <2>. QED
    BY <1>5, <2>1, <2>2, <2>3
<1>6. CASE ReadFails(c) \/ ForwardUnknown(c) \/ Forward(c)
  BY <1>6 DEF ReadFails, ForwardUnknown, Forward
<1>7. CASE Write(c) \/ WriteFails(c) \/ Evict(c)
  BY <1>7 DEF Write, WriteFails, Evict
<1>8. CASE CloseEvicted(c) \/ LeaveRoute(c) \/ CloseLeft(c) \/ Exit(c)
  BY <1>8 DEF CloseEvicted, LeaveRoute, CloseLeft, Exit
<1>. QED
  BY <1>1, <1>2, <1>3, <1>4, <1>5, <1>6, <1>7, <1>8 DEF Serve

LEMMA BeyondStays ==
  ASSUME Base, NEW c \in Conn, Serve(c)
  PROVE  /\ \A d \in Conn : pc[d] \in Beyond => pc'[d] \in Beyond /\ ticket'[d] = ticket[d]
         /\ \A d \in Conn \ {c} : pc'[d] = pc[d]
<1>1. pc \in [Conn -> Places] /\ ticket \in [Conn -> Ticket \cup {NoTicket}]
  BY DEF Base, Shape, TypeInv
<1>2. PICK where : Leads(c, where)
  BY ServeLeads
<1>3. \A d \in Conn : pc[d] \in Beyond => ticket'[d] = ticket[d]
  BY <1>1, <1>2 DEF Leads, Verify
<1>. QED
  BY <1>1, <1>2, <1>3 DEF Leads, Goto

\* It is enough that a peer becomes adrift only when it loses its slot to a twin.
LEMMA TwinStays ==
  ASSUME LosesOnlyToTwin,
         \A d \in Conn : pc[d] \in Beyond => pc'[d] \in Beyond /\ ticket'[d] = ticket[d],
         \A d \in Conn : Adrift(d)' =>
            \/ Adrift(d)
            \/ \E w \in Conn \ {d} : ticket[w] = ticket[d] /\ {pc[w], pc[d]} \subseteq Beyond
  PROVE  LosesOnlyToTwin'
<1>. SUFFICES ASSUME NEW d \in Conn, Adrift(d)'
              PROVE  \E w \in Conn \ {d} : ticket'[w] = ticket'[d] /\ pc'[w] \in Beyond
  BY DEF LosesOnlyToTwin
<1>1. Adrift(d) => pc[d] \in Beyond
  BY DEF Adrift, Beyond, OnRoute
<1>2. PICK w \in Conn \ {d} : ticket[w] = ticket[d] /\ pc[w] \in Beyond /\ pc[d] \in Beyond
  BY <1>1 DEF LosesOnlyToTwin
<1>. QED
  BY <1>2

\* Steps that leave the slots and what is to be closed alone.
LEMMA StillTwin ==
  ASSUME Base, LosesOnlyToTwin, NEW c \in Conn, Serve(c),
         UNCHANGED <<slot, victims, sweeping>>, \A d \in Conn : closed[d] => closed'[d],
         pc'[c] \in {"run", "write"} => pc[c] \in {"run", "write"}
  PROVE  LosesOnlyToTwin'
<1>1. \A d \in Conn : pc[d] \in Beyond => pc'[d] \in Beyond /\ ticket'[d] = ticket[d]
  BY BeyondStays
<1>2. \A d \in Conn \ {c} : pc'[d] = pc[d]
  BY BeyondStays
<1>3. ASSUME NEW d \in Conn, Adrift(d)' PROVE Adrift(d)
  <2>1. pc[d] \in {"run", "write"} /\ ticket'[d] = ticket[d]
    BY <1>1, <1>2, <1>3 DEF Adrift, Beyond, OnRoute
  <2>. QED
    BY <1>3, <2>1 DEF Adrift
<1>. QED
  BY <1>1, <1>3, TwinStays

\* Router.Leave closes the peer of the opposite slot and the one it is called for;
\* the only other peer it can take off the route is a twin of the latter.
LEMMA LeaveTwin ==
  ASSUME Base, LosesOnlyToTwin, NEW c \in Conn, Serve(c), NEW p \in Conn, Leave(c, p),
         ticket[p] \in Ticket, pc[p] \in Beyond, victims[c] = {},
         UNCHANGED <<ticket, closed, sweeping>>,
         \A d \in Conn : pc'[d] \in {"run", "write"} => pc'[d] = pc[d]
  PROVE  LosesOnlyToTwin'
<1>1. TypeInv
  BY DEF Base, Shape
<1>. DEFINE t == ticket[p]
            other == slot[t.route][Opposite(t.endpoint)]
<1>2. t.route \in Route /\ t.endpoint \in Endpoint /\ t = [route |-> t.route, endpoint |-> t.endpoint]
  BY DEF Ticket
<1>3. /\ \A d \in Conn \ {c} : victims'[d] = victims[d]
      /\ victims'[c] = IF Known(t.route) THEN {p, other} \ {None} ELSE {}
      /\ \A r \in Route : slot'[r] = IF r = t.route THEN NoPeers ELSE slot[r]
  BY <1>1, <1>2 DEF TypeInv, Leave
<1>. HIDE DEF t, other
<1>4. ASSUME NEW d \in Conn, Adrift(d)', ~Adrift(d)
      PROVE  d # p /\ ticket[p] = ticket[d] /\ pc[d] \in Beyond
  <2>1. /\ pc[d] \in {"run", "write"} /\ ~closed[d] /\ d \notin sweeping
        /\ \A x \in Conn : d \notin victims[x]
    BY <1>3, <1>4 DEF Adrift
  <2>2. slot[ticket[d].route][ticket[d].endpoint] = d
    BY <1>4, <2>1 DEF Adrift
  <2>3. ticket[d] \in Ticket
    BY <2>1 DEF Base, Shape, Holds, Ticketed
  <2>4. ticket[d].route = t.route
    BY <1>3, <1>4, <2>2, <2>3 DEF Adrift, Ticket
  <2>5. Known(t.route)
    BY <2>2, <2>3, <2>4, NoneAssumption DEF Known, Ticket
  <2>6. d # p /\ d # other
    BY <1>3, <1>4, <2>5, NoneAssumption DEF Adrift
  <2>7. ticket[d].endpoint # Opposite(t.endpoint)
    BY <2>2, <2>4, <2>6 DEF other
  <2>8. ticket[d].endpoint = t.endpoint
    BY <2>3, <2>7, <1>2 DEF Ticket, Endpoint, Opposite
  <2>. QED
    BY <2>1, <2>3, <2>4, <2>6, <2>8, <1>2 DEF Ticket, Beyond, OnRoute, t
<1>. QED
  BY <1>4, BeyondStays, TwinStays

\* Closing what was taken off a route ends the promise to close it.
LEMMA CloseTwin ==
  ASSUME Base, LosesOnlyToTwin, NEW c \in Conn, CloseEvicted(c) \/ CloseLeft(c)
  PROVE  LosesOnlyToTwin'
<1>1. TypeInv
  BY DEF Base, Shape
<1>2. /\ closed' = [d \in Conn |-> closed[d] \/ d \in victims[c]]
      /\ \A d \in Conn \ {c} : victims'[d] = victims[d]
      /\ UNCHANGED <<ticket, slot, sweeping>>
  BY <1>1 DEF CloseEvicted, CloseLeft, CloseVictims, TypeInv
<1>3. \A d \in Conn : pc'[d] \in {"run", "write"} => pc'[d] = pc[d]
  BY <1>1 DEF CloseEvicted, CloseLeft, Goto, TypeInv
<1>4. ASSUME NEW d \in Conn, Adrift(d)' PROVE Adrift(d)
  BY <1>2, <1>3, <1>4 DEF Adrift
<1>. QED
  BY <1>4, BeyondStays, TwinStays DEF Serve

LEMMA SweepTwin ==
  ASSUME Base, LosesOnlyToTwin, Sweep \/ SweepClose
  PROVE  LosesOnlyToTwin'
<1>1. TypeInv
  BY DEF Base, Shape
<1>2. UNCHANGED <<pc, ticket, victims>>
  BY DEF Sweep, SweepClose, handlerVars
<1>3. CASE SweepClose
  <2>1. ASSUME NEW d \in Conn, Adrift(d)' PROVE Adrift(d)
    BY <1>1, <1>2, <1>3, <2>1 DEF Adrift, SweepClose, TypeInv
  <2>. QED
    BY <1>2, <2>1, TwinStays
<1>4. CASE Sweep
  <2>1. PICK old \in SUBSET {r \in Route : Known(r)} :
          /\ slot' = [r \in Route |-> IF r \in old THEN NoPeers ELSE slot[r]]
          /\ sweeping' = UNION {Peers(r) : r \in old}
    BY <1>4 DEF Sweep
  <2>2. closed' = closed /\ sweeping = {}
    BY <1>4 DEF Sweep
  <2>3. ASSUME NEW d \in Conn, Adrift(d)', ~Adrift(d) PROVE FALSE
    <3>1. pc[d] \in {"run", "write"} /\ slot[ticket[d].route][ticket[d].endpoint] = d
      BY <1>2, <2>2, <2>3 DEF Adrift
    <3>2. ticket[d].route \in Route /\ ticket[d].endpoint \in Endpoint
      BY <3>1 DEF Base, Shape, Holds, Ticketed, Ticket
    <3>3. ticket[d].route \in old
      BY <1>2, <2>1, <2>3, <3>1, <3>2 DEF Adrift
    <3>4. d \in Peers(ticket[d].route)
      BY <3>1, <3>2, NoneAssumption DEF Peers
    <3>5. d \in sweeping'
      BY <2>1, <3>3, <3>4
    <3>. QED
      BY <2>3, <3>5 DEF Adrift
  <2>. QED
    BY <1>2, <2>3, TwinStays
<1>. QED
  BY <1>3, <1>4

LEMMA NextTwin == Base /\ LosesOnlyToTwin /\ [Next]_vars => LosesOnlyToTwin'
<1>. SUFFICES ASSUME Base, LosesOnlyToTwin, [Next]_vars PROVE LosesOnlyToTwin'
  OBVIOUS
<1>1. TypeInv
  BY DEF Base, Shape
<1>2. ASSUME NEW c \in Conn, Serve(c) PROVE LosesOnlyToTwin'
  <2>1. CASE \/ Accept(c) \/ NotUpgrade(c) \/ Admit(c) \/ Upgrade(c) \/ UpgradeFails(c) \/ Uncount(c)
             \/ Verify(c) \/ RejectTicket(c) \/ JoinRefused(c)
    <3>1. pc'[c] \notin {"run", "write"} /\ UNCHANGED <<slot, victims, sweeping, closed>>
      BY <1>1, <2>1 DEF TypeInv, Goto, Accept, NotUpgrade, Admit, Upgrade, UpgradeFails, Uncount, Verify,
         RejectTicket, JoinRefused
    <3>. QED
      BY <1>2, <3>1, StillTwin
  <2>2. CASE ReadFails(c) \/ ForwardUnknown(c) \/ Forward(c) \/ Write(c) \/ WriteFails(c) \/ Exit(c)
    <3>1. /\ UNCHANGED <<slot, victims, sweeping>>
          /\ pc'[c] \in {"run", "write"} => pc[c] \in {"run", "write"}
          /\ \A d \in Conn : closed[d] => closed'[d]
      BY <1>1, <2>2 DEF TypeInv, Goto, ReadFails, ForwardUnknown, Forward, Write, WriteFails, Exit
    <3>. QED
      BY <1>2, <3>1, StillTwin
  <2>3. CASE Join(c)
    <3>1. /\ ticket[c].route \in Route /\ ticket[c].endpoint \in Endpoint
      BY <2>3 DEF Join, Base, Shape, Holds, Ticketed, Ticket
    <3>2. /\ slot' = [slot EXCEPT ![ticket[c].route][ticket[c].endpoint] = c]
          /\ slot[ticket[c].route][ticket[c].endpoint] = None
          /\ UNCHANGED <<ticket, closed, victims, sweeping>>
          /\ \A d \in Conn \ {c} : pc'[d] = pc[d]
      BY <1>1, <2>3 DEF Join, CanJoin, Goto, TypeInv
    <3>3. ASSUME NEW d \in Conn, Adrift(d)' PROVE Adrift(d)
      <4>1. d # c
        BY <1>1, <3>1, <3>2, <3>3 DEF Adrift, TypeInv
      <4>2. pc[d] \in {"run", "write"}
        BY <3>2, <3>3, <4>1 DEF Adrift
      <4>3. ticket[d].route \in Route /\ ticket[d].endpoint \in Endpoint
        BY <4>2 DEF Base, Shape, Holds, Ticketed, Ticket
      <4>4. slot'[ticket[d].route][ticket[d].endpoint] # d
        BY <3>2, <3>3 DEF Adrift
      <4>5. slot[ticket[d].route][ticket[d].endpoint] # d
        <5>1. CASE ticket[d].route = ticket[c].route /\ ticket[d].endpoint = ticket[c].endpoint
          BY <3>2, <5>1, NoneAssumption
        <5>2. CASE ~(ticket[d].route = ticket[c].route /\ ticket[d].endpoint = ticket[c].endpoint)
          <6>1. slot \in [Route -> [Endpoint -> Conn \cup {None}]]
            BY <1>1 DEF TypeInv
          <6>2. slot' = [slot EXCEPT ![ticket[c].route][ticket[c].endpoint] = c]
            BY <3>2
          <6>3. slot'[ticket[d].route][ticket[d].endpoint] = slot[ticket[d].route][ticket[d].endpoint]
            BY <3>1, <4>3, <5>2, <6>1, <6>2
          <6>. QED
            BY <4>4, <6>3
        <5>. QED
          BY <5>1, <5>2
      <4>6. ~closed[d] /\ d \notin sweeping /\ \A x \in Conn : d \notin victims[x]
        BY <3>2, <3>3 DEF Adrift
      <4>. QED
        BY <4>2, <4>5, <4>6 DEF Adrift
    <3>. QED
      BY <1>2, <3>3, BeyondStays, TwinStays
  <2>4. CASE Evict(c) \/ LeaveRoute(c)
    <3>1. PICK p : /\ Leave(c, p)
                   /\ p = IF pc[c] = "evict" THEN target[c] ELSE c
      BY <2>4 DEF Evict, LeaveRoute
    <3>2. /\ UNCHANGED <<ticket, closed, sweeping>>
          /\ pc[c] \in {"evict", "leave"}
          /\ \A d \in Conn : pc'[d] \in {"run", "write"} => pc'[d] = pc[d]
      BY <1>1, <2>4 DEF Evict, LeaveRoute, Goto, TypeInv
    <3>3. p \in Conn /\ ticket[p] \in Ticket /\ pc[p] \in Beyond /\ victims[c] = {}
      BY <1>1, <3>1, <3>2 DEF Base, Shape, TypeInv, Holds, Ticketed, Beyond, OnRoute
    <3>. QED
      BY <1>2, <3>1, <3>2, <3>3, LeaveTwin
  <2>. QED
    BY <1>2, <2>1, <2>2, <2>3, <2>4, CloseTwin DEF Serve
<1>3. CASE Shutdown \/ ShutdownReturns \/ UNCHANGED vars
  <2>1. UNCHANGED <<pc, ticket, closed, slot, sweeping, victims>>
    BY <1>3 DEF Shutdown, ShutdownReturns, vars, handlerVars
  <2>. QED
    BY <2>1 DEF LosesOnlyToTwin, Adrift
<1>. QED
  BY <1>2, <1>3, SweepTwin DEF Next

\* A peer is left on an open connection off its route only when another connection
\* came with a ticket for the same endpoint of the route: Router.Leave, Sweep and
\* Forward close or keep every other one.
THEOREM NoSolePeerStrandedHolds == Spec => []NoSolePeerStranded
<1>1. Init => LosesOnlyToTwin
  BY DEF Init, LosesOnlyToTwin, Adrift
<1>2. LosesOnlyToTwin => NoSolePeerStranded
  BY DEF LosesOnlyToTwin, NoSolePeerStranded, Adrift, Stranded, Sole
<1>. QED
  BY <1>1, <1>2, InitBase, NextBase, NextTwin, PTL DEF Spec

\* A ticket in use is nobody else's.
OwnTicket == \A c, d \in Conn : c # d /\ pc[c] \in Ticketed => ticket[d] # ticket[c]

\* Where one ticket exists for each endpoint of a route, as Provision draws them, no
\* peer keeps a connection open off its route at all.
THEOREM NobodyStranded ==
  ASSUME ~Reuse
  PROVE  Spec => [](\A c \in Conn : ~Stranded(c))
<1>1. Init => LosesOnlyToTwin /\ OwnTicket
  BY DEF Init, LosesOnlyToTwin, Adrift, OwnTicket, Ticketed
<1>2. Base /\ OwnTicket /\ [Next]_vars => OwnTicket'
  <2>. SUFFICES ASSUME Base, OwnTicket, [Next]_vars PROVE OwnTicket'
    OBVIOUS
  <2>1. TypeInv
    BY DEF Base, Shape
  <2>2. ASSUME NEW c \in Conn, Serve(c), ~Verify(c) PROVE OwnTicket'
    <3>1. PICK where : Leads(c, where)
      BY <2>2, ServeLeads
    <3>2. ticket' = ticket /\ Goto(c, where) /\ (where \in Ticketed => pc[c] \in Ticketed)
      BY <2>2, <3>1 DEF Leads
    <3>3. \A d \in Conn : pc'[d] \in Ticketed => pc[d] \in Ticketed
      BY <2>1, <3>2 DEF Goto, TypeInv
    <3>. QED
      BY <3>2, <3>3 DEF OwnTicket
  <2>3. ASSUME NEW c \in Conn, Verify(c) PROVE OwnTicket'
    <3>1. PICK t : (\A d \in Conn : ticket[d] # t) /\ ticket' = [ticket EXCEPT ![c] = t]
      BY <2>3 DEF Verify
    <3>2. \A d \in Conn \ {c} : pc'[d] = pc[d]
      BY <2>1, <2>3 DEF Verify, Goto, TypeInv
    <3>. QED
      BY <2>1, <3>1, <3>2 DEF OwnTicket, TypeInv
  <2>4. CASE Sweep \/ SweepClose \/ Shutdown \/ ShutdownReturns \/ UNCHANGED vars
    BY <2>4 DEF Sweep, SweepClose, Shutdown, ShutdownReturns, vars, handlerVars, OwnTicket
  <2>. QED
    BY <2>2, <2>3, <2>4 DEF Next
<1>3. LosesOnlyToTwin /\ OwnTicket => \A c \in Conn : ~Stranded(c)
  BY DEF LosesOnlyToTwin, OwnTicket, Adrift, Stranded, Ticketed
<1>. QED
  BY <1>1, <1>2, <1>3, InitBase, NextBase, NextTwin, PTL DEF Spec

-----------------------------------------------------------------------------
(* The counter.                                                            *)

INSTANCE FiniteSetTheorems

\* A goroutine that stays counted, or stays uncounted, changes nothing.
LEMMA AccountedStays ==
  ASSUME Accounted, Held' = Held, Serviced' = Serviced, active' = active, maxConns' = maxConns
  PROVE  Accounted'
  BY DEF Accounted

\* Connections that go leave the others within the cap.
LEMMA ServicedShrinks ==
  ASSUME Accounted, Serviced' \subseteq Serviced
  PROVE  Cardinality(Serviced') <= maxConns
<1>1. Serviced \subseteq Held
  BY DEF Serviced, Held
<1>2. IsFiniteSet(Serviced)
  BY <1>1, FS_Subset DEF Accounted
<1>3. Cardinality(Serviced') <= Cardinality(Serviced) /\ IsFiniteSet(Serviced')
  BY <1>2, FS_Subset
<1>4. Cardinality(Serviced') \in Nat /\ Cardinality(Serviced) \in Nat
  BY <1>2, <1>3, FS_CardinalityType
<1>. QED
  BY <1>3, <1>4 DEF Accounted

\* The counter is raised with the connection it is raised for, and lowered with it.
LEMMA AccountedMoves ==
  ASSUME Base, Accounted, NEW c \in Conn, Serve(c)
  PROVE  Accounted'
<1>1. pc \in [Conn -> Places] /\ active \in Int /\ maxConns \in Nat \ {0}
  BY DEF Base, Shape, TypeInv, Accounted
<1>0. maxConns' = maxConns
  BY DEF Serve, Accept, NotUpgrade, Admit, Upgrade, UpgradeFails, Uncount, Verify, RejectTicket,
     Join, JoinRefused, ReadFails, ForwardUnknown, Forward, Write, WriteFails, Evict,
     CloseEvicted, LeaveRoute, CloseLeft, Exit
<1>2. ASSUME NEW where, Goto(c, where), active' = active,
             {pc[c], where} \cap {"new", "admit", "uncount", "done"} = {}
             \/ {pc[c], where} \subseteq {"new", "admit", "done"}
      PROVE  Accounted'
  <2>1. pc'[c] = where /\ \A d \in Conn \ {c} : pc'[d] = pc[d]
    BY <1>1, <1>2 DEF Goto
  <2>2. Held' = Held /\ Serviced' = Serviced
    BY <1>2, <2>1 DEF Held, Serviced
  <2>. QED
    BY <1>0, <1>2, <2>2, AccountedStays
<1>3. CASE Admit(c)
  <2>1. /\ active' = active + 1 /\ pc[c] = "admit"
        /\ pc' = [pc EXCEPT ![c] = IF active + 1 > maxConns THEN "uncount" ELSE "upgrade"]
    <3>1. maxConns > 0
      BY <1>1
    <3>2. CASE active + 1 > maxConns
      BY <1>3, <3>1, <3>2 DEF Admit, Goto
    <3>3. CASE ~(active + 1 > maxConns)
      BY <1>3, <3>1, <3>3 DEF Admit, Goto
    <3>. QED
      BY <3>2, <3>3
  <2>2. Held' = Held \cup {c} /\ c \notin Held
    BY <1>1, <2>1 DEF Held
  <2>3. IsFiniteSet(Held') /\ Cardinality(Held') = Cardinality(Held) + 1
    BY <2>2, FS_AddElement DEF Accounted
  <2>4. Cardinality(Serviced') <= maxConns
    <3>1. CASE active + 1 > maxConns
      <4>1. Serviced' = Serviced
        BY <1>1, <2>1, <3>1 DEF Serviced
      <4>. QED
        BY <4>1 DEF Accounted
    <3>2. CASE ~(active + 1 > maxConns)
      <4>1. Serviced' \subseteq Held'
        BY DEF Serviced, Held
      <4>2. Cardinality(Serviced') <= Cardinality(Held') /\ IsFiniteSet(Serviced')
        BY <4>1, <2>3, FS_Subset
      <4>3. Cardinality(Serviced') \in Nat /\ Cardinality(Held') \in Nat
        BY <4>2, <2>3, FS_CardinalityType
      <4>. QED
        BY <4>2, <4>3, <2>3, <3>2, <1>1 DEF Accounted
    <3>. QED
      BY <3>1, <3>2
  <2>. QED
    BY <1>0, <1>1, <2>1, <2>3, <2>4 DEF Accounted
<1>4. CASE UpgradeFails(c)
  <2>1. Held' = Held /\ Serviced' = Serviced \ {c} /\ c \in Serviced /\ active' = active
    BY <1>1, <1>4 DEF UpgradeFails, Goto, Held, Serviced
  <2>2. Cardinality(Serviced') <= maxConns
    BY <2>1, ServicedShrinks
  <2>. QED
    BY <1>0, <1>1, <2>1, <2>2 DEF Accounted
<1>5. CASE Uncount(c) \/ Exit(c)
  <2>1. /\ Held' = Held \ {c} /\ c \in Held /\ active' = active - 1
        /\ Serviced' = Serviced \ {c}
    BY <1>1, <1>5 DEF Uncount, Exit, Goto, Held, Serviced
  <2>2. IsFiniteSet(Held') /\ Cardinality(Held') = Cardinality(Held) - 1
    BY <2>1, FS_RemoveElement DEF Accounted
  <2>3. Cardinality(Serviced') <= maxConns
    BY <2>1, ServicedShrinks
  <2>. QED
    BY <1>0, <1>1, <2>1, <2>2, <2>3 DEF Accounted
<1>6. CASE Accept(c) \/ NotUpgrade(c)
  <2>1. PICK where \in {"admit", "done"} : Goto(c, where)
    BY <1>6 DEF Accept, NotUpgrade
  <2>2. active' = active /\ pc[c] \in {"new", "admit"}
    BY <1>6 DEF Accept, NotUpgrade
  <2>. QED
    BY <1>2, <2>1, <2>2
<1>7. CASE Upgrade(c) \/ Verify(c) \/ RejectTicket(c) \/ Join(c) \/ JoinRefused(c)
  BY <1>2, <1>7 DEF Upgrade, Verify, RejectTicket, Join, JoinRefused
<1>8. CASE \/ ReadFails(c) \/ ForwardUnknown(c) \/ Forward(c) \/ Write(c) \/ WriteFails(c)
           \/ Evict(c) \/ CloseEvicted(c) \/ LeaveRoute(c) \/ CloseLeft(c)
  BY <1>2, <1>8 DEF ReadFails, ForwardUnknown, Forward, Write, WriteFails, Evict, CloseEvicted,
     LeaveRoute, CloseLeft
<1>. QED
  BY <1>3, <1>4, <1>5, <1>6, <1>7, <1>8 DEF Serve

LEMMA NextAccounted == Base /\ Accounted /\ [Next]_vars => Accounted'
<1>. SUFFICES ASSUME Base, Accounted, [Next]_vars PROVE Accounted'
  OBVIOUS
<1>1. CASE Sweep \/ SweepClose \/ Shutdown \/ ShutdownReturns \/ UNCHANGED vars
  <2>1. pc' = pc /\ active' = active /\ maxConns' = maxConns
    BY <1>1 DEF Sweep, SweepClose, Shutdown, ShutdownReturns, vars, handlerVars
  <2>2. Held' = Held /\ Serviced' = Serviced
    BY <2>1 DEF Held, Serviced
  <2>. QED
    BY <2>1, <2>2, AccountedStays
<1>. QED
  BY <1>1, AccountedMoves DEF Next

\* With a cap (a MaxConnections that is not negative), Server.activeConns is the
\* number of connections being served once no request is being refused, and the
\* cap holds, however many requests are between raising the counter and comparing it.
THEOREM ActiveIsExactHolds ==
  ASSUME 0 \notin MaxConnections
  PROVE  Spec => []ActiveIsExact
<1>1. Init => Accounted
  <2>. SUFFICES ASSUME Init PROVE Accounted
    OBVIOUS
  <2>1. Held = {} /\ Serviced = {} /\ active = 0
    BY DEF Init, Held, Serviced
  <2>2. maxConns \in Nat \ {0}
    BY MaxConnectionsAssumption DEF Init
  <2>. QED
    BY <2>1, <2>2, FS_EmptySet DEF Accounted
<1>2. Base /\ Accounted => ActiveIsExact
  <2>. SUFFICES ASSUME Accounted PROVE ActiveIsExact
    OBVIOUS
  <2>1. ASSUME \A c \in Conn : pc[c] # "uncount" PROVE Serviced = Held
    BY <2>1 DEF Serviced, Held
  <2>. QED
    BY <2>1 DEF Accounted, ActiveIsExact
<1>. QED
  BY <1>1, <1>2, InitBase, NextBase, NextAccounted, PTL DEF Spec
=============================================================================

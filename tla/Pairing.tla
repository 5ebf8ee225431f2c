------------------------------ MODULE Pairing -------------------------------
(***************************************************************************)
(* Pairing a phone and revoking it: the WebSocket handlers of              *)
(* cmd/vibebridge/pairing_transport.go, the local management pages of      *)
(* agent_management.go, and the `recover' command, over the flow of        *)
(* PairingFlow and the store of DeviceIdentity.                            *)
(*                                                                         *)
(* One process at a time serves pairing: the Agent, or `recover            *)
(* --authorize-new'.  `recover --revoke-all' is a process of its own that  *)
(* opens the same file; Exclusive says whether the operator stops the      *)
(* Agent before running it.                                                *)
(***************************************************************************)
EXTENDS PairingFlow

CONSTANTS Exclusive,   \* revoke-all never runs beside a serving process
          MaxStops,    \* bound: processes that stop or crash
          Casts        \* who shows up: connections, and whether "recover" is run

ASSUME ServingAssumption == {"agent", "recover"} \subseteq Processes /\ "none" \notin Processes
ASSUME CounterAssumption == MaxUint \in Nat

VARIABLES host,     \* the process that serves pairing, or "none"
          base,     \* authorized devices when authorize-new started
          todo,     \* device IDs revoke-all has yet to revoke
          stops,    \* processes that stopped so far
          present,  \* the cast of this behaviour
          conn,     \* handler of each connection [at, inv, exp]
          told,     \* the decision each phone was sent
          granted,  \* authorization version each flow was approved with
          seen,     \* flows a management page offered for decision
          allowed,  \* descriptors the user allowed
          acked     \* device IDs whose revocation was saved and reported

procVars == <<host, base, todo, stops, present>>
connVars == <<conn, told>>
userVars == <<granted, seen, allowed, acked>>
vars == <<storeVars, flowVars, now, expires, procVars, connVars, userVars>>

Idle == [at |-> "none", inv |-> 0, exp |-> 0]
Closed == [at |-> "closed", inv |-> 0, exp |-> 0]

PairingInit ==
    /\ file = NoState /\ store = [p \in Processes |-> NoState] /\ faults = 0
    /\ now = 0 /\ inv = NoInvitation /\ flow = NoFlow /\ expires = <<>>
    /\ dec = [c \in Connections |-> "none"]
    /\ spent = [i \in 1 .. MaxInvitations |-> 0]
    /\ host = "none" /\ base = 0 /\ todo = <<>> /\ stops = 0 /\ present \in Casts
    /\ conn = [c \in Connections |-> Idle]
    /\ told = [c \in Connections |-> "none"]
    /\ granted = [c \in Connections |-> 0]
    /\ seen = {} /\ allowed = {} /\ acked = {}

-----------------------------------------------------------------------------
(* The pairing WebSocket: phone and handler.                               *)

\* The phone opens a scanned link that has not expired and connects.
Scan(c) ==
    /\ host # "none" /\ c \in present /\ conn[c] = Idle
    /\ \E id \in DOMAIN expires :
          /\ ValidateInvitation(id)
          /\ conn' = [conn EXCEPT ![c] = [at |-> "open", inv |-> id, exp |-> 0]]
    /\ UNCHANGED <<storeVars, flowVars, now, expires, procVars, told, userVars>>

\* The handler returns: its deferred Cancel runs, and its channel is gone.
Leave_Slip(w, c) ==
    /\ conn' = [conn EXCEPT ![c] = Closed]
    /\ Becomes([w EXCEPT !.dec[c] = "none"])
Leave(w, c) ==
    /\ conn' = [conn EXCEPT ![c] = Closed]
    /\ Becomes([CancelOwn(w, c) EXCEPT !.dec[c] = "none"])

\* readPairingFrame fails: the peer is gone, the frame is bad, or the
\* handshake deadline passes.
ReadFails(c) == Leave(World, c)

ServeStart(c) ==
    /\ conn[c].at = "open"
    /\ \/ \E intact \in BOOLEAN :
             LET w == StartFlow(World, c, StartMessage(c, conn[c].inv, intact))
             IN  IF w.flow.id = c
                 THEN conn' = [conn EXCEPT ![c].at = "started"] /\ Becomes(w)
                 ELSE Leave(w, c)
       \/ ReadFails(c)
    /\ UNCHANGED <<told, storeVars, now, expires, procVars, userVars>>

\* The phone answers the response, unless it fails its checks (ReadFails then
\* sees it gone); the session takes over the flow's expiry and announces that it is pending.
ServeFinish(c) ==
    /\ conn[c].at = "started"
    /\ \/ \E intact \in BOOLEAN :
             LET w == FinishFlow(World, c, FinishMessage(c, intact))
             IN  IF CanDecide(w, c)
                 THEN /\ conn' = [conn EXCEPT ![c].at = "pending", ![c].exp = w.flow.exp]
                      /\ Becomes(w)
                 ELSE Leave(w, c)
       \/ ReadFails(c)
    /\ UNCHANGED <<told, storeVars, now, expires, procVars, userVars>>

\* The final select, woken by a decision, which is delivered if the phone is
\* still there, or by the timer.
Await(c) ==
    /\ conn[c].at = "pending"
    /\ \/ /\ dec[c] # "none"
          /\ \/ dec[c] # "error" /\ told' = [told EXCEPT ![c] = dec[c]]
             \/ UNCHANGED told
       \/ now >= conn[c].exp /\ UNCHANGED told
    /\ Leave(World, c)
    /\ UNCHANGED <<storeVars, now, expires, procVars, userVars>>

\* The same select, woken by the peer: it sent something or is gone.  Which of
\* several ready cases is taken is not determined.
PeerActivity(c) ==
    /\ conn[c].at = "pending"
    /\ Leave(World, c)
    /\ UNCHANGED <<storeVars, now, expires, procVars, told, userVars>>

-----------------------------------------------------------------------------
(* The management pages.                                                   *)

\* The flow that a page offers Allow and Reject for.
Offered(w) == IF w.flow.phase = "pending" THEN {w.flow.id} ELSE {}

\* pairingPageHandler creates an invitation only while no flow is active.
ShowPage ==
    LET w == ExpireFlow(World)
    IN  /\ host # "none"
        /\ seen' = seen \cup Offered(w)
        /\ flow' = w.flow /\ dec' = w.dec /\ spent' = w.spent
        /\ IF w.flow = NoFlow THEN Create ELSE inv' = w.inv /\ UNCHANGED expires
        /\ UNCHANGED <<storeVars, now, procVars, connVars, granted, allowed, acked>>

\* pairingStatusHandler and infoHandler.
Status ==
    /\ host # "none" /\ flow # NoFlow
    /\ Becomes(ExpireFlow(World))
    /\ seen' = seen \cup Offered(ExpireFlow(World))
    /\ UNCHANGED <<storeVars, now, expires, procVars, connVars, granted, allowed, acked>>

\* pairingCodeHandler creates one whatever flow is active.
PairingCode ==
    /\ host # "none" /\ Create
    /\ UNCHANGED <<storeVars, flow, dec, spent, now, procVars, connVars, userVars>>

\* Approve persists the authorization while both locks are held, and spends the
\* invitation only once that succeeded.
ApproveFlow(w, c) ==
    LET d == Client[w.flow.id]
        st == store[host]
        Approves(next) ==
            /\ Becomes(CompleteFlow(Spend(w, c), "approved"))
            /\ granted' = [granted EXCEPT ![w.flow.id] = next.authorized[IndexOf(next, d.id)].version]
            /\ acked' = acked \ {d.id}
        Stays == Becomes(w) /\ UNCHANGED granted
    IN  \/ /\ AlreadyAuthorized(st, d)
           /\ Approves(st) /\ UNCHANGED storeVars
        \/ /\ ~AlreadyAuthorized(st, d) /\ CanAuthorize(st, d)
           /\ \/ Save(host, Authorized(st, d)) /\ Approves(Authorized(st, d))
              \/ SaveFails(host, Authorized(st, d)) /\ Stays /\ acked' = acked \ {d.id}
        \/ /\ ~AlreadyAuthorized(st, d) /\ ~CanAuthorize(st, d)
           /\ Stays /\ UNCHANGED <<storeVars, acked>>

\* A click on Allow in any page rendered so far; the flow may have ended since.
Allow_Slip(c) ==
    LET w == ExpireFlow(World)
    IN  /\ host # "none" /\ c \in seen
        /\ allowed' = allowed \cup {Client[c]}
        /\ IF w.flow.phase = "pending" /\ ValidReservation(w, w.flow.id)
           THEN ApproveFlow(w, c)
           ELSE Becomes(w) /\ UNCHANGED <<storeVars, granted, acked>>
        /\ UNCHANGED <<now, expires, procVars, connVars, seen>>
Allow(c) ==
    LET w == ExpireFlow(World)
    IN  /\ host # "none" /\ c \in seen
        /\ allowed' = allowed \cup {Client[c]}
        /\ IF CanDecide(w, c) /\ ValidReservation(w, c)
           THEN ApproveFlow(w, c)
           ELSE /\ Becomes(IF CanDecide(w, c) THEN CancelFlow(Checked(w), "error") ELSE w)
                /\ UNCHANGED <<storeVars, granted, acked>>
        /\ UNCHANGED <<now, expires, procVars, connVars, seen>>

Deny(c) ==
    /\ host # "none" /\ c \in seen
    /\ Becomes(RejectFlow(World, c))
    /\ UNCHANGED <<storeVars, now, expires, procVars, connVars, userVars>>

\* Revoke by process p, made once it is saved.  A device that is revoked in
\* memory is reported as revoked again and nothing is written.
RevokeBy_Slip(p, id) ==
    \/ /\ AuthorizedDevice(store[p], id) = "revoked"
       /\ UNCHANGED <<storeVars, acked>>
    \/ /\ CanRevoke(store[p], id)
       /\ \/ Save(p, Revoked(store[p], id))
          \/ SaveFails(p, Revoked(store[p], id))
       /\ acked' = acked \cup {id}
RevokeBy(p, id) ==
    \/ /\ AuthorizedDevice(store[p], id) = "revoked"
       /\ UNCHANGED <<storeVars, acked>>
    \/ /\ CanRevoke(store[p], id)
       /\ \/ Save(p, Revoked(store[p], id)) /\ acked' = acked \cup {id}
          \/ SaveFails(p, Revoked(store[p], id)) /\ UNCHANGED acked

\* revokeDeviceHandler; an unknown device or exhausted counters change nothing.
RevokeDevice(id) ==
    /\ host # "none" /\ RevokeBy(host, id)
    /\ UNCHANGED <<flowVars, now, expires, procVars, connVars, granted, seen, allowed>>

-----------------------------------------------------------------------------
(* Processes.                                                              *)

Begins(p) ==
    /\ host = "none" /\ stops < MaxStops
    /\ Exclusive => store["recover"] = NoState
    /\ host' = p
    /\ UNCHANGED <<flowVars, now, expires, todo, stops, present, connVars, userVars>>

\* runAgent opens the identity, and gives up when it cannot write a first one.
AgentStart ==
    \/ Begins("agent") /\ LoadOrCreate("agent") /\ UNCHANGED base
    \/ /\ host = "none" /\ file = NoState /\ SaveFails("agent", GenerateState)
       /\ UNCHANGED <<flowVars, now, expires, procVars, connVars, userVars>>

\* recover --authorize-new requires the file and counts its devices.
RecoverServe ==
    /\ "recover" \in present
    /\ Begins("recover") /\ store["recover"] = NoState /\ Load("recover")
    /\ base' = Len(AuthorizedDevices(file))

\* The serving process ends: connections, flow and invitation go with it.
Stop ==
    /\ host' = "none" /\ base' = 0 /\ stops' = stops + 1
    /\ Close(host)
    /\ Becomes([inv |-> NoInvitation, flow |-> NoFlow, spent |-> spent,
                dec |-> [c \in Connections |-> "none"]])
    /\ conn' = [c \in Connections |-> IF conn[c] = Idle THEN Idle ELSE Closed]
    /\ seen' = {}
    /\ UNCHANGED <<now, expires, todo, present, told, granted, allowed, acked>>

\* It is stopped or crashes.
HostStops == host # "none" /\ Stop

\* The poll of authorize-new finds one more authorized device.
RecoverPoll ==
    /\ host = "recover" /\ Len(AuthorizedDevices(store["recover"])) > base
    /\ Stop

\* recover --revoke-all opens the file and lists what is to be revoked.
RevokeAllStart ==
    /\ "recover" \in present
    /\ store["recover"] = NoState /\ file # NoState /\ stops < MaxStops
    /\ Exclusive => host = "none"
    /\ Load("recover")
    /\ todo' = AuthorizedDevices(file)
    /\ UNCHANGED <<flowVars, now, expires, host, base, stops, present, connVars, userVars>>

\* One device after the other, each saved on its own; an error ends the loop.
RevokeAllStep ==
    /\ todo # <<>>
    /\ \/ /\ RevokeBy("recover", Head(todo))
          /\ todo' = IF faults' > faults THEN <<>> ELSE Tail(todo)
       \/ /\ ~CanRevoke(store["recover"], Head(todo))
          /\ AuthorizedDevice(store["recover"], Head(todo)) # "revoked"
          /\ todo' = <<>> /\ UNCHANGED <<storeVars, acked>>
    /\ UNCHANGED <<flowVars, now, expires, host, base, stops, present, connVars,
                   granted, seen, allowed>>

\* The command returns, or is interrupted before it is through.
RevokeAllEnds ==
    /\ host # "recover" /\ store["recover"] # NoState
    /\ todo' = <<>> /\ stops' = stops + 1 /\ Close("recover")
    /\ UNCHANGED <<flowVars, now, expires, host, base, present, connVars, userVars>>

Tick ==
    /\ now < MaxTime
    /\ now' = now + 1
    /\ UNCHANGED <<storeVars, flowVars, expires, procVars, connVars, userVars>>

Handle(c) == ServeStart(c) \/ ServeFinish(c) \/ Await(c)

PairingNext ==
    \/ \E c \in Connections : Scan(c) \/ Handle(c) \/ PeerActivity(c)
    \/ ShowPage \/ Status \/ PairingCode
    \/ \E c \in Connections : Allow(c) \/ Deny(c)
    \/ \E c \in present \cap Connections : RevokeDevice(Client[c].id)
    \/ AgentStart \/ RecoverServe \/ HostStops \/ RecoverPoll
    \/ RevokeAllStart \/ RevokeAllStep \/ RevokeAllEnds
    \/ Tick

\* A handler in a read or in its select goes on, if only at its deadline (it is
\* enough to say so of the handler whose flow is active), and time passes.
\* Nobody has to click or to connect.
HandlesFlow == flow # NoFlow /\ Handle(flow.id)
PairingFairness == WF_vars(Tick) /\ WF_vars(HandlesFlow)

PairingSpec == PairingInit /\ [][PairingNext]_vars /\ PairingFairness

-----------------------------------------------------------------------------
(* Properties.                                                             *)

\* An invitation is reserved only for the flow that is active: whatever ends a
\* flow (its decision, expiry, a bad frame, a dropped phone) gives the
\* reservation back or the invitation up, so that the next phone is never told
\* that another pairing is in progress; and an invitation is spent on one decision
\* at most.
ReservationHasFlow ==
    /\ inv.res # "none" => flow.id = inv.res
    /\ \A i \in DOMAIN spent : spent[i] <= 1

\* A device is authorized, in memory or in the file, only with a descriptor the
\* user allowed: a click on a page that is out of date never lets in another
\* phone than the one it showed, however flows, expiries and failed writes fall.
AllowedByUser ==
    \A st \in ({file} \cup {store[p] : p \in Processes}) \ {NoState} :
        \A i \in DOMAIN st.authorized : st.authorized[i].d \in allowed

\* A phone that was told it is approved finds its authorization in the file,
\* whatever crashed since, and a phone that was told it is rejected was not
\* granted a version.
AnswerIsDurable ==
    \A c \in Connections :
        /\ told[c] = "approved" =>
              /\ granted[c] > 0 /\ file # NoState
              /\ \E i \in DOMAIN file.authorized :
                    /\ file.authorized[i].d.id = Client[c].id
                    /\ file.authorized[i].version >= granted[c]
        /\ told[c] = "rejected" => granted[c] = 0

\* A revocation that was saved and reported holds in the file and in the memory of the
\* process that serves, until the user allows the device again: a failed write,
\* a crash or a restart never brings the device back.  (An Allow whose write was
\* reported as failed counts: the file may hold it.)
RevocationHolds ==
    \A id \in acked :
        /\ AuthorizedDevice(file, id) = "revoked"
        /\ host # "none" => AuthorizedDevice(store[host], id) = "revoked"

\* What `recover --revoke-all' announces ("This will revoke ALL authorized
\* devices"): a device it reported as revoked is revoked in the file that the
\* Agent reads when it restarts.
RevokeAllSticks == \A id \in acked : AuthorizedDevice(file, id) = "revoked"

\* A flow that was started ends, decided or not: a phone that disappears in the
\* middle of the handshake does not keep the next one from pairing.
FlowEnds == flow # NoFlow ~> flow = NoFlow
=============================================================================

----------------------------- MODULE Connection -----------------------------
(***************************************************************************)
(* The two ways a paired device gets to its Agent, over one identity       *)
(* store: the signed upgrade of PairedSession, which opens a connection of *)
(* ProtocolStream, and the handshake of SecureSession.  Meanwhile the user *)
(* revokes the device and authorizes it again.                             *)
(***************************************************************************)
EXTENDS PairedSession, SecureSession, ProtocolStream

CONSTANTS Device,    \* the paired device
          Newer,     \* the same device after it renewed its key agreement key
          Old,       \* another one, revoked long ago
          Casts,     \* sets of the things that happen in one behaviour
          MaxTime, MaxChanges   \* bounds

\* The running Agent holds a store, and no client device has the Agent's ID.
ASSUME AgentAssumption == "agent" \in Processes /\ AgentID \notin {Device.id, Newer.id, Old.id}
ASSUME CounterAssumption == MaxUint \in Nat

VARIABLES present,   \* the cast of this behaviour
          changes    \* revocations and authorizations so far

vars == <<storeVars, gateVars, secureVars, streamVars, present, changes>>

Init ==
    /\ present \in Casts
    /\ changes = 0
    /\ file = Authorized(Revoked(Authorized(GenerateState, Old), Old.id), Device)
    /\ store = [p \in Processes |-> file]
    /\ faults = 0
    /\ GateInit
    /\ SecureInit(IF "secure" \in present THEN {Device, Newer} ELSE {Device},
                  IF "secure" \in present THEN 1..2 ELSE {1})
    /\ link = [r \in Requests |-> NoLink]
    /\ required \in IF "stream" \in present THEN BOOLEAN ELSE {TRUE}

\* The store of the running Agent.
Changes ==
    /\ {"upgrade", "secure"} \cap present # {} /\ changes < MaxChanges
    /\ changes' = changes + 1
    /\ \/ /\ CanRevoke(store["agent"], Device.id)
          /\ Save("agent", Revoked(store["agent"], Device.id))
       \/ \E d \in {Device, Newer} :
             /\ CanAuthorize(store["agent"], d) /\ ~AlreadyAuthorized(store["agent"], d)
             /\ Save("agent", Authorized(store["agent"], d))
    /\ UNCHANGED <<gateVars, secureVars, streamVars, present>>

Tick ==
    /\ "upgrade" \in present /\ clock < MaxTime
    /\ clock' = clock + 1
    /\ UNCHANGED <<nonces, issued, upgrade, storeVars, secureVars, streamVars, present, changes>>

Gate ==
    /\ {"upgrade", "stream"} \cap present # {}
    /\ \/ \E host \in Hosts : IssueNonce(host)
       \/ \E r \in Requests : GateSteps(r)
       \/ \E r \in Requests, cred \in Credentials, id \in 1..issued, host \in Hosts :
             /\ "stream" \in present => upgrade = [q \in Requests |-> NoUpgrade] /\ cred.id = Device.id
             /\ Arrive(r, cred, id, host)
    /\ "stream" \in present => issued' <= 1
    /\ UNCHANGED <<storeVars, secureVars, streamVars, present, changes>>

\* Upgrade of an admitted request: the connection waits for its Hello.
Upgrade(r) ==
    /\ "stream" \in present
    /\ upgrade[r].pc = "admitted" /\ link[r].pc = "none"
    /\ SetLink(r, [NoLink EXCEPT !.pc = "hello"])
    /\ UNCHANGED <<storeVars, gateVars, secureVars, present, changes>>

Stream ==
    /\ \E r \in Requests : LinkSteps(r)
    /\ UNCHANGED <<storeVars, gateVars, secureVars, present, changes>>

Secure ==
    /\ \/ {"secure", "transport"} \cap present # {} /\ Handshakes
       \/ "transport" \in present /\ Transports
    /\ UNCHANGED <<storeVars, gateVars, streamVars, present, changes>>

Next == Changes \/ Tick \/ Gate \/ (\E r \in Requests : Upgrade(r)) \/ Stream \/ Secure

Spec == Init /\ [][Next]_vars

\* Revoking a device keeps it out: it got in, by an upgrade or by a handshake,
\* only if it was already on its way when it was revoked.
RevokedStaysOut == UpgradeNotRevoked /\ SessionNotRevoked
=============================================================================

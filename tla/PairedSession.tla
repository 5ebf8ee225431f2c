--------------------------- MODULE PairedSession ---------------------------
(***************************************************************************)
(* The gate of a WebSocket upgrade (internal/server/pairedsession.go and   *)
(* authorizedForUpgrade of server.go): single-use nonces, and the identity *)
(* store the credentials are held against.                                 *)
(*                                                                         *)
(* A request consumes its nonce, looks its device up and checks its        *)
(* signature one after the other, under two locks that it does not hold    *)
(* together; other requests, and revocations, run between these steps.     *)
(* A credential is [id, signing]: the device it names and the key that     *)
(* signed the nonce.  Nonces are numbered in the order they are issued.    *)
(*                                                                         *)
(* A definition named ..._Slip is the one after it with a mistake the code *)
(* could contain; it is not part of the specification.                     *)
(***************************************************************************)
EXTENDS DeviceIdentity

CONSTANTS NonceTTL,     \* sessionNonceDefaultTTL
          MaxNonces,    \* maxActiveSessionNonces
          Hosts,        \* addresses requests come from
          Credentials,  \* what clients sign with, the Agent for its own page included
          Requests,     \* upgrade requests
          MaxIssued     \* bound: nonces issued

ASSUME NonceAssumption == NonceTTL \in Nat

VARIABLES clock,
          nonces,   \* nonceStore.items
          issued,   \* nonces issued so far
          upgrade   \* the upgrade requests

gateVars == <<clock, nonces, issued, upgrade>>

\* began is the revocation epoch when the request arrived.
NoUpgrade == [pc |-> "none", cred |-> [id |-> "none", signing |-> "none"], nonce |-> 0,
              host |-> "none", web |-> FALSE, began |-> 0, signing |-> "none", epoch |-> 0]

GateInit ==
    /\ clock = 0
    /\ nonces = {} /\ issued = 0
    /\ upgrade = [r \in Requests |-> NoUpgrade]

-----------------------------------------------------------------------------
(* nonceStore.                                                              *)

\* evictLocked.
Evicted(now) == {n \in nonces : ~(n.expires < now)}

\* issue, for handleSessionNonce and for handleWebSession.
IssueNonce(host) ==
    /\ issued < MaxIssued
    /\ IF Cardinality(Evicted(clock)) >= MaxNonces
       THEN nonces' = Evicted(clock) /\ UNCHANGED issued
       ELSE /\ issued' = issued + 1
            /\ nonces' = Evicted(clock) \cup
                  {[id |-> issued + 1, expires |-> clock + NonceTTL, host |-> host, consumed |-> FALSE]}
    /\ UNCHANGED <<clock, upgrade>>

\* consume: known, unused and issued to this host.
Consumable(id, host) ==
    \E n \in Evicted(clock) : n.id = id /\ ~n.consumed /\ n.host = host
\* A record taken out of the map and never written back.
Consumed_Slip(id, host) == Evicted(clock)
Consumed(id, host) ==
    IF Consumable(id, host)
    THEN {[n EXCEPT !.consumed = @ \/ n.id = id] : n \in Evicted(clock)}
    ELSE Evicted(clock)

-----------------------------------------------------------------------------
(* authorizedForUpgrade: verifyWebSession for the Agent's own page, and     *)
(* verify for everybody else.                                               *)

\* A request with a nonce its client once fetched, possibly for another request,
\* possibly from an address it has moved to since.
Arrive(r, cred, id, host) ==
    /\ upgrade[r].pc = "none"
    /\ id \in 1..issued
    /\ upgrade' = [upgrade EXCEPT ![r] = [NoUpgrade EXCEPT !.pc = "nonce", !.cred = cred, !.nonce = id,
                      !.host = host, !.web = (cred.id = AgentID), !.began = store["agent"].epoch]]
    /\ UNCHANGED <<clock, nonces, issued>>

ConsumeNonce(r) ==
    /\ upgrade[r].pc = "nonce"
    /\ LET u == upgrade[r]
           next == IF ~Consumable(u.nonce, u.host) THEN "refused" ELSE IF u.web THEN "sign" ELSE "lookup"
       IN  /\ nonces' = Consumed(u.nonce, u.host)
           /\ upgrade' = [upgrade EXCEPT ![r].pc = next,
                            ![r].signing = IF next = "sign" THEN AgentID ELSE @]
    /\ UNCHANGED <<clock, issued>>

\* AuthorizedDevice returns a copy of the record.
LookUp_Slip(r) ==
    /\ upgrade[r].pc = "lookup"
    /\ LET id == upgrade[r].cred.id
           known == AuthorizedDevice(store["agent"], id) # "unknown"
       IN  upgrade' = [upgrade EXCEPT
              ![r].pc = IF known THEN "sign" ELSE "refused",
              ![r].signing = IF known THEN store["agent"].authorized[IndexOf(store["agent"], id)].d.signing ELSE @]
    /\ UNCHANGED <<clock, nonces, issued>>
LookUp(r) ==
    /\ upgrade[r].pc = "lookup"
    /\ LET id == upgrade[r].cred.id
           known == AuthorizedDevice(store["agent"], id) = "authorized"
       IN  upgrade' = [upgrade EXCEPT
              ![r].pc = IF known THEN "sign" ELSE "refused",
              ![r].signing = IF known THEN store["agent"].authorized[IndexOf(store["agent"], id)].d.signing ELSE @]
    /\ UNCHANGED <<clock, nonces, issued>>

\* The signature, and the epoch of the result.
VerifySignature(r) ==
    /\ upgrade[r].pc = "sign"
    /\ upgrade' = [upgrade EXCEPT
          ![r].pc = IF upgrade[r].cred.signing = upgrade[r].signing THEN "admitted" ELSE "refused",
          ![r].epoch = store["agent"].epoch]
    /\ UNCHANGED <<clock, nonces, issued>>

GateSteps(r) == ConsumeNonce(r) \/ LookUp(r) \/ VerifySignature(r)

-----------------------------------------------------------------------------
(* Properties.                                                              *)

\* "single-use nonces": a nonce admits one upgrade, however many requests
\* present it at the same time, and after it was evicted.
AdmittedOnce ==
    \A n \in 1..issued :
       Cardinality({r \in Requests : upgrade[r].pc = "admitted" /\ upgrade[r].nonce = n}) <= 1

\* A device that is revoked got in only with a request that had arrived before
\* its revocation.
UpgradeNotRevoked ==
    \A r \in Requests :
       LET i == IndexOf(store["agent"], upgrade[r].cred.id)
       IN  upgrade[r].pc = "admitted" /\ i # 0 /\ store["agent"].authorized[i].state = "revoked"
           => upgrade[r].began < store["agent"].authorized[i].epoch
=============================================================================

---------------------------- MODULE RelayTickets ----------------------------
(***************************************************************************)
(* Relay tickets: who signs them (internal/relay/ticket.go and admin.go),  *)
(* how the relay checks them (Verifier.Verify, StoreAuthorizer of          *)
(* epoch.go) and the life of the relay process (cmd/viberelay) that reads  *)
(* the Agent's identity file once, when it starts.                         *)
(*                                                                         *)
(* A verification reads the clock twice, holds the lock of the replay set  *)
(* only to look its ticket up, and rolls its entry back when a later check *)
(* fails; other verifications run between these steps.  Tickets are        *)
(* numbered in the order they are minted, keys by the process that made    *)
(* them, and the Agent and the relay are configured with one key file.     *)
(***************************************************************************)
EXTENDS DeviceIdentity

CONSTANTS TTL,             \* ticketReplayTTL
          Skew,            \* skewAllowance
          AdminLifetimes,  \* lifetimes asked of the control plane
          Checks,          \* connections whose ticket the relay may be checking
          MaxTickets,      \* bound: tickets minted
          MaxPause         \* bound: clock between the two reads of a verification

ASSUME ClockAssumption == TTL \in Nat /\ Skew \in Nat /\ MaxPause \in Nat
ASSUME LifetimesAssumption == AdminLifetimes \subseteq Int

VARIABLES clock,
          keyFile,   \* the issuer key in the shared file, or NoKey
          proc,      \* "down", "keyless" (about to write a new key), "keyed" or "up"
          key,       \* the key each process holds
          tickets,   \* every ticket minted so far
          replay,    \* Verifier.replay: the entries [id, at]
          check,     \* the verification of a connection, or Idle
          accepted   \* how often this relay process accepted each ticket (history)

ticketVars == <<clock, keyFile, proc, key, tickets, replay, check, accepted>>

NoKey == "none"
Idle == [at |-> "idle", id |-> 0, read |-> 0]

-----------------------------------------------------------------------------
(* LoadOrCreateIssuer of the Agent, loadOrCreateIssuerKey of the relay: the *)
(* file is read, and written when there was none.                           *)

ReadKey(p) ==
    /\ proc[p] = "down"
    /\ key' = [key EXCEPT ![p] = IF keyFile = NoKey THEN p ELSE keyFile]
    /\ proc' = [proc EXCEPT ![p] = IF keyFile = NoKey THEN "keyless" ELSE "keyed"]

WriteKey(p) ==
    /\ proc[p] = "keyless"
    /\ keyFile' = key[p]
    /\ proc' = [proc EXCEPT ![p] = "keyed"]

-----------------------------------------------------------------------------
(* Minting.                                                                 *)

\* Issuer.Issue.  Of the identity file the ticket knows only the stamp its issuer
\* gives it; asOf is the epoch the file had at that moment (history).
Issue(route, endpoint, lifetime, epoch, signer) ==
    [route |-> route, endpoint |-> endpoint, minted |-> clock,
     expires |-> clock + lifetime, epoch |-> epoch, key |-> signer, asOf |-> file.epoch]

\* Pair: the two halves of a route, within the verifier's replay window.
CanPair(lifetime) == lifetime > 0 /\ lifetime <= TTL
Pair(route, lifetime, epoch, signer) ==
    <<Issue(route, "agent", lifetime, epoch, signer), Issue(route, "client", lifetime, epoch, signer)>>

\* handleIssue of the control plane: the stamp is the epoch the relay loaded.
HandleIssue(route, endpoint, lifetime) ==
    /\ proc["relay"] = "up"
    /\ lifetime > 0
    /\ Len(tickets) < MaxTickets
    /\ tickets' = Append(tickets,
          Issue(route, endpoint, lifetime, store["relay"].epoch, key["relay"]))
    /\ accepted' = Append(accepted, 0)

-----------------------------------------------------------------------------
(* Verifier.Verify.                                                         *)

\* The first look at the clock; the skew allowance never matters.
Expired(t, now) == ~(now + Skew < t.expires) /\ now > t.expires
NotYet(t, now) == t.expires > now + TTL

BeginVerify(c, id) ==
    /\ proc["relay"] = "up" /\ check[c] = Idle
    /\ id \in DOMAIN tickets
    /\ ~Expired(tickets[id], clock) /\ ~NotYet(tickets[id], clock)
    /\ check' = [check EXCEPT ![c] = [at |-> "replay", id |-> id, read |-> clock]]
    /\ UNCHANGED <<clock, keyFile, proc, key, tickets, replay, accepted>>

\* ErrTicketExpired and ErrTicketIssued.
OutOfTime(id) ==
    /\ proc["relay"] = "up"
    /\ id \in DOMAIN tickets
    /\ Expired(tickets[id], clock) \/ NotYet(tickets[id], clock)

\* sweepLocked.
Swept_Slip(entries, now) == {e \in entries : e.at > now - TTL}
Swept(entries, now) == {e \in entries : ~(e.at < now - TTL)}

Tracked(id) == \E e \in Swept(replay, clock) : e.id = id

\* checkAndRecordReplay, with the second look at the clock.
RecordReplay(c) ==
    /\ check[c].at = "replay"
    /\ ~Tracked(check[c].id)
    /\ replay' = Swept(replay, clock) \cup {[id |-> check[c].id, at |-> clock]}
    /\ check' = [check EXCEPT ![c].at = "sign"]
    /\ UNCHANGED <<clock, keyFile, proc, key, tickets, accepted>>

Replayed(c) ==
    /\ check[c].at = "replay"
    /\ Tracked(check[c].id)
    /\ replay' = Swept(replay, clock)
    /\ check' = [check EXCEPT ![c] = Idle]
    /\ UNCHANGED <<clock, keyFile, proc, key, tickets, accepted>>

\* StoreAuthorizer over the copy the relay loaded.
Authorizes_Slip(epoch) == epoch # 0
Authorizes(epoch) == epoch # 0 /\ ~(epoch < store["relay"].epoch)

Genuine(id) == tickets[id].key = key["relay"]

\* Signature and authorizer agree: the connection goes on to Router.Join.
AcceptTicket(c) ==
    /\ check[c].at = "sign"
    /\ LET id == check[c].id
       IN  /\ Genuine(id) /\ Authorizes(tickets[id].epoch)
           /\ accepted' = [accepted EXCEPT ![id] = @ + 1]
    /\ check' = [check EXCEPT ![c] = Idle]
    /\ UNCHANGED <<clock, keyFile, proc, key, tickets, replay>>

\* One of them does not: forgetReplay.
RejectTicket_Slip(c) ==
    /\ check[c].at = "sign"
    /\ LET id == check[c].id
       IN  ~(Genuine(id) /\ Authorizes(tickets[id].epoch))
    /\ check' = [check EXCEPT ![c] = Idle]
    /\ UNCHANGED <<clock, keyFile, proc, key, tickets, replay, accepted>>
RejectTicket(c) ==
    /\ check[c].at = "sign"
    /\ LET id == check[c].id
       IN  /\ ~(Genuine(id) /\ Authorizes(tickets[id].epoch))
           /\ replay' = {e \in replay : e.id # id}
    /\ check' = [check EXCEPT ![c] = Idle]
    /\ UNCHANGED <<clock, keyFile, proc, key, tickets, accepted>>

-----------------------------------------------------------------------------
(* The relay process, once it has its key: it reads the identity file for   *)
(* the revocation gate before it serves, and does not run without the file. *)

RelayOpens ==
    /\ proc["relay"] = "keyed"
    /\ Load("relay")
    /\ proc' = [proc EXCEPT !["relay"] = "up"]
    /\ replay' = {}
    /\ accepted' = [id \in DOMAIN tickets |-> 0]
    /\ UNCHANGED <<clock, keyFile, key, tickets, check>>

\* The process ends, by a signal or a listener that fails, and forgets all it
\* tracked.
RelayExits ==
    /\ proc["relay"] = "up"
    /\ proc' = [proc EXCEPT !["relay"] = "down"]
    /\ replay' = {}
    /\ check' = [c \in Checks |-> Idle]
    /\ UNCHANGED <<clock, keyFile, key, tickets, accepted, storeVars>>
=============================================================================

---------------------------- MODULE PairingFlow -----------------------------
(***************************************************************************)
(* Invitations (internal/pairing), the single pairing flow                 *)
(* (internal/pairingflow) and the handshake it runs (internal/e2ee).       *)
(*                                                                         *)
(* The manager owns one invitation and the coordinator one flow; each has  *)
(* its own lock, and only the coordinator calls the manager while holding  *)
(* its lock.  What an operation does to the two is a function of a world   *)
(*     w = [inv, flow, dec, spent]                                         *)
(* the invitation, the flow, the decision left in each flow's channel, and *)
(* how many flows each invitation has been spent on.  A flow and its       *)
(* reservation are named by the WebSocket connection that started it.      *)
(***************************************************************************)
EXTENDS DeviceIdentity

CONSTANTS Connections,     \* pairing WebSockets, each with one phone
          Client,          \* the descriptor each phone presents
          TTL,             \* lifetime of an invitation
          ApprovalTimeout, \* time a flow waits for a decision
          MaxInvitations,  \* bound: invitations ever created
          MaxTime          \* bound: ticks of the clock

ASSUME ConnectionAssumption == "none" \notin Connections
ASSUME TimeAssumption == TTL \in Nat /\ MaxInvitations \in Nat

VARIABLES now,      \* the clock
          inv,      \* the active invitation [id, exp, res], or NoInvitation
          flow,     \* the active flow [id, phase, exp], or NoFlow
          dec,      \* what each flow's decision channel holds
          spent,    \* flows that each invitation was spent on
          expires   \* expiry of each invitation created so far

flowVars == <<inv, flow, dec, spent>>

NoInvitation == [id |-> 0, exp |-> 0, res |-> "none"]
NoFlow == [id |-> "none", phase |-> "none", exp |-> 0]

World == [inv |-> inv, flow |-> flow, dec |-> dec, spent |-> spent]

Becomes(w) ==
    /\ inv' = w.inv /\ flow' = w.flow /\ dec' = w.dec /\ spent' = w.spent

-----------------------------------------------------------------------------
(* The manager.                                                            *)

\* The checks of every manager operation start with the expiry.
Lapsed(w) == w.inv # NoInvitation /\ now >= w.inv.exp

ClearActive(w) == [w EXCEPT !.inv = NoInvitation]

ValidReservation(w, c) == w.inv # NoInvitation /\ now < w.inv.exp /\ w.inv.res = c

\* Create supersedes the previous invitation, whatever flow it is reserved for.
Create ==
    /\ Len(expires) < MaxInvitations /\ now + TTL <= MaxTime
    /\ expires' = Append(expires, now + TTL)
    /\ inv' = [id |-> Len(expires) + 1, exp |-> now + TTL, res |-> "none"]

\* Begin refuses an invitation that is not the active one or is reserved, and
\* a handshake that does not authenticate with its secret.
CanBegin(w, id) == w.inv # NoInvitation /\ now < w.inv.exp /\ w.inv.id = id /\ w.inv.res = "none"

Begin(w, c) == [w EXCEPT !.inv.res = c]

\* A check that meets an expired invitation clears it.
Checked(w) == IF Lapsed(w) THEN ClearActive(w) ELSE w

Release(w, c) == IF ValidReservation(w, c) THEN [w EXCEPT !.inv.res = "none"] ELSE Checked(w)

\* Approve, after persist, and Reject spend the invitation.
Spend(w, c) == ClearActive([w EXCEPT !.spent[w.inv.id] = @ + 1])

\* ValidateInvitation, when the phone opens the scanned link.
ValidateInvitation(id) == id \in DOMAIN expires /\ now < expires[id]

-----------------------------------------------------------------------------
(* The Noise XXpsk0 handshake, by what its messages carry.  An invitation  *)
(* ID stands for its secret as well; a frame that was altered on the way   *)
(* fails to authenticate.                                                  *)

\* NewPairingContext
PairingContext(initiator, id) == [initiator |-> initiator, responder |-> AgentID, inv |-> id]

ValidatePairingContext(ctx) == ctx.initiator # ctx.responder

\* validatePeerDescriptor, for the client of a context.
ValidatePeerDescriptor(d, ctx) ==
    VerifySignedDescriptor(d) /\ d.class = "client" /\ d.id = ctx.initiator

\* PairingInitiator.Start
StartMessage(c, id, intact) ==
    [ctx |-> PairingContext(Client[c].id, id), secret |-> id, client |-> Client[c], intact |-> intact]

\* Message one: the secret of the active invitation, the context the Agent
\* expects, and a valid client descriptor.
AcceptPairingStart(m, ctx, secret) ==
    /\ m.intact /\ m.secret = secret
    /\ m.ctx = ctx /\ ValidatePairingContext(ctx)
    /\ ValidatePeerDescriptor(m.client, ctx)

\* PairingInitiator.Finish
FinishMessage(c, intact) == [from |-> Client[c].id, intact |-> intact]

\* Message three: the device that began the handshake.
AcceptPairingFinish(m, c) == m.intact /\ m.from = Client[c].id

-----------------------------------------------------------------------------
(* The coordinator.                                                        *)

\* The channel keeps the first decision; a later one is dropped.
Decide(w, c, d) == [w EXCEPT !.dec[c] = IF @ = "none" THEN d ELSE @]

CancelFlow_Slip(w, reason) ==
    [Decide(w, w.flow.id, reason) EXCEPT !.flow = NoFlow]
CancelFlow(w, reason) ==
    [Decide(Release(w, w.flow.id), w.flow.id, reason) EXCEPT !.flow = NoFlow]

ExpireFlow(w) ==
    IF w.flow # NoFlow /\ now >= w.flow.exp THEN CancelFlow(w, "error") ELSE w

CompleteFlow(w, d) == [Decide(w, w.flow.id, d) EXCEPT !.flow = NoFlow]

\* Start: the world it leaves, in which the flow is c's when it succeeded.
StartFlow(w0, c, m) ==
    LET w == ExpireFlow(w0)
        exp == IF now + ApprovalTimeout < w.inv.exp THEN now + ApprovalTimeout ELSE w.inv.exp
    IN  IF w.flow # NoFlow THEN w
        ELSE IF CanBegin(w, m.ctx.inv)
                /\ AcceptPairingStart(m, PairingContext(m.ctx.initiator, m.ctx.inv), w.inv.id)
        THEN [Begin(w, c) EXCEPT !.flow = [id |-> c, phase |-> "handshaking", exp |-> exp]]
        ELSE Checked(w)

\* Finish: message three makes the flow pending or ends it.
FinishFlow(w0, c, m) ==
    LET w == ExpireFlow(w0)
    IN  IF w.flow.id # c \/ w.flow.phase # "handshaking" THEN w
        ELSE IF AcceptPairingFinish(m, c) THEN [w EXCEPT !.flow.phase = "pending"]
        ELSE CancelFlow(w, "error")

CanDecide(w, c) == w.flow.id = c /\ w.flow.phase = "pending"

\* Reject: the world it leaves.
RejectFlow(w0, c) ==
    LET w == ExpireFlow(w0)
    IN  IF ~CanDecide(w, c) THEN w
        ELSE IF ValidReservation(w, c) THEN CompleteFlow(Spend(w, c), "rejected")
        ELSE CancelFlow(Checked(w), "error")

\* Cancel, as a connection's handler calls it when it ends.
CancelOwn(w, c) == IF w.flow.id = c THEN CancelFlow(w, "error") ELSE w
=============================================================================

--------------------------- MODULE SecureSession ---------------------------
(***************************************************************************)
(* The end-to-end encrypted session of a paired device (internal/e2ee,     *)
(* session.go and transport.go): the two messages of the Noise IK          *)
(* handshake, the authorization checks of the Agent between them, and the  *)
(* transport whose two directions count their frames.                      *)
(*                                                                         *)
(* Noise is modelled by what it guarantees: a response fits the start it   *)
(* answers and no other, and a frame decrypts with the cipher and the      *)
(* counter it was encrypted with.  The carrier between the two may deliver *)
(* a start twice and may lose frames; it does not forge them.  A client    *)
(* presents the descriptor d of DeviceIdentity; its key agreement key      *)
(* changes with the version.                                               *)
(*                                                                         *)
(* A definition named ..._Slip is the one after it with a mistake the code *)
(* could contain; it is not part of the specification.                     *)
(***************************************************************************)
EXTENDS DeviceIdentity

CONSTANTS Initiators,   \* handshakes clients begin
          Responders,   \* handshakes the Agent answers
          MaxSealed     \* bound: frames encrypted by one side

VARIABLES ini,     \* SessionInitiator and its result
          resp,    \* SessionResponder and its view
          pipe,    \* frames under way to each side
          sealed   \* what was ever encrypted (history)

secureVars == <<ini, resp, pipe, sealed>>

\* A Transport: the ciphers it sends and receives with, and their counters.
NoTransport == [open |-> FALSE, send |-> "none", receive |-> "none", sent |-> 0, got |-> <<>>]

NoResponder == [pc |-> "none", of |-> "none", began |-> 0, epoch |-> 0, transport |-> NoTransport]

Initiator(d, known) ==
    [pc |-> "ready", d |-> d, known |-> known, with |-> "none", epoch |-> 0, transport |-> NoTransport]

SecureInit(descriptors, epochs) ==
    /\ \E d \in [Initiators -> descriptors], known \in [Initiators -> epochs] :
          ini = [c \in Initiators |-> Initiator(d[c], known[c])]
    /\ resp = [s \in Responders |-> NoResponder]
    /\ pipe = [s \in Responders |-> [agent |-> <<>>, client |-> <<>>]]
    /\ sealed = {}

-----------------------------------------------------------------------------
(* The handshake.                                                           *)

Start(c) ==
    /\ ini[c].pc = "ready"
    /\ ini' = [ini EXCEPT ![c].pc = "awaiting"]
    /\ UNCHANGED <<resp, pipe, sealed>>

\* AcceptSessionStart is called with a start that was sent.
ReceiveStart(s, c) ==
    /\ resp[s].pc = "none" /\ ini[c].pc # "ready"
    /\ resp' = [resp EXCEPT ![s] = [@ EXCEPT !.pc = "authorize", !.of = c, !.began = store["agent"].epoch]]
    /\ UNCHANGED <<ini, pipe, sealed>>

Refuse(s) == resp' = [resp EXCEPT ![s].pc = "failed"]

\* The authorization record is read once, and compared with what the client
\* presents: its keys, and a version that is not older.
Presents(record, d) ==
    /\ d.class = "client" /\ VerifySignedDescriptor(d)
    /\ d.signing = record.d.signing /\ d.version = record.d.version

AuthorizeStart(s) ==
    /\ resp[s].pc = "authorize"
    /\ LET d == ini[resp[s].of].d
           i == IndexOf(store["agent"], d.id)
       IN  IF /\ AuthorizedDevice(store["agent"], d.id) = "authorized"
              /\ Presents(store["agent"].authorized[i], d)
           THEN resp' = [resp EXCEPT ![s].pc = "epoch"]
           ELSE Refuse(s)
    /\ UNCHANGED <<ini, pipe, sealed>>

\* A client that knows a later epoch than the Agent is turned away.
CheckEpoch(s) ==
    /\ resp[s].pc = "epoch"
    /\ IF ini[resp[s].of].known > store["agent"].epoch
       THEN Refuse(s)
       ELSE resp' = [resp EXCEPT ![s].pc = "respond"]
    /\ UNCHANGED <<ini, pipe, sealed>>

\* The response carries the epoch, read again.
Respond(s) ==
    /\ resp[s].pc = "respond"
    /\ resp' = [resp EXCEPT ![s].pc = "complete", ![s].epoch = store["agent"].epoch]
    /\ UNCHANGED <<ini, pipe, sealed>>

\* View: the ciphers come from WriteMessage in the initiator's order.
View_Slip(s) ==
    /\ resp[s].pc = "complete"
    /\ resp' = [resp EXCEPT ![s].pc = "viewed", ![s].transport =
          [NoTransport EXCEPT !.open = TRUE, !.send = "c1", !.receive = "c2"]]
    /\ UNCHANGED <<ini, pipe, sealed>>
View(s) ==
    /\ resp[s].pc = "complete"
    /\ resp' = [resp EXCEPT ![s].pc = "viewed", ![s].transport =
          [NoTransport EXCEPT !.open = TRUE, !.send = "c2", !.receive = "c1"]]
    /\ UNCHANGED <<ini, pipe, sealed>>

\* Finish: a response to another start does not decrypt.
Finish(c, s) ==
    /\ ini[c].pc = "awaiting" /\ resp[s].pc \in {"complete", "viewed"}
    /\ ini' = [ini EXCEPT ![c] =
          IF resp[s].of = c
          THEN [@ EXCEPT !.pc = "complete", !.with = s, !.epoch = resp[s].epoch, !.transport =
                   [NoTransport EXCEPT !.open = TRUE, !.send = "c1", !.receive = "c2"]]
          ELSE [@ EXCEPT !.pc = "failed"]]
    /\ UNCHANGED <<resp, pipe, sealed>>

\* Close of a handshake that is not complete.
CloseInitiator(c) ==
    /\ ini[c].pc \in {"ready", "awaiting"}
    /\ ini' = [ini EXCEPT ![c].pc = "failed"]
    /\ UNCHANGED <<resp, pipe, sealed>>

-----------------------------------------------------------------------------
(* The transport.                                                           *)

Frame(s, t) == [session |-> s, cipher |-> t.send, counter |-> t.sent]

\* Encrypt advances the counter of the sending cipher.
Encrypts(t) == t.open /\ t.sent < MaxSealed
Encrypted(t) == [t EXCEPT !.sent = @ + 1]

\* Decrypt closes both directions when the frame is not the next one.
Decrypted_Slip(s, t, f) ==
    IF f.session = s /\ f.cipher = t.receive /\ f.counter >= Len(t.got)
    THEN [t EXCEPT !.got = Append(@, f.counter)]
    ELSE [t EXCEPT !.open = FALSE]
Decrypted(s, t, f) ==
    IF f.session = s /\ f.cipher = t.receive /\ f.counter = Len(t.got)
    THEN [t EXCEPT !.got = Append(@, f.counter)]
    ELSE [t EXCEPT !.open = FALSE]

ClientEncrypts(c) ==
    /\ Encrypts(ini[c].transport)
    /\ LET s == ini[c].with
           f == Frame(s, ini[c].transport)
       IN  /\ pipe' = [pipe EXCEPT ![s].agent = Append(@, f)]
           /\ sealed' = sealed \cup {[by |-> "client", f |-> f]}
    /\ ini' = [ini EXCEPT ![c].transport = Encrypted(@)]
    /\ UNCHANGED resp

AgentEncrypts(s) ==
    /\ Encrypts(resp[s].transport)
    /\ LET f == Frame(s, resp[s].transport)
       IN  /\ pipe' = [pipe EXCEPT ![s].client = Append(@, f)]
           /\ sealed' = sealed \cup {[by |-> "agent", f |-> f]}
    /\ resp' = [resp EXCEPT ![s].transport = Encrypted(@)]
    /\ UNCHANGED ini

ClientDecrypts(c) ==
    /\ ini[c].transport.open /\ pipe[ini[c].with].client # <<>>
    /\ LET s == ini[c].with
       IN  /\ ini' = [ini EXCEPT ![c].transport = Decrypted(s, @, Head(pipe[s].client))]
           /\ pipe' = [pipe EXCEPT ![s].client = Tail(@)]
    /\ UNCHANGED <<resp, sealed>>

AgentDecrypts(s) ==
    /\ resp[s].transport.open /\ pipe[s].agent # <<>>
    /\ resp' = [resp EXCEPT ![s].transport = Decrypted(s, @, Head(pipe[s].agent))]
    /\ pipe' = [pipe EXCEPT ![s].agent = Tail(@)]
    /\ UNCHANGED <<ini, sealed>>

\* Close of a transport.
CloseTransport(s) ==
    /\ resp[s].transport.open
    /\ resp' = [resp EXCEPT ![s].transport.open = FALSE]
    /\ UNCHANGED <<ini, pipe, sealed>>

\* The carrier loses a frame.
LoseFrame(s) ==
    /\ \/ pipe[s].agent # <<>> /\ pipe' = [pipe EXCEPT ![s].agent = Tail(@)]
       \/ pipe[s].client # <<>> /\ pipe' = [pipe EXCEPT ![s].client = Tail(@)]
    /\ UNCHANGED <<ini, resp, sealed>>

Handshakes ==
    \/ \E c \in Initiators : Start(c) \/ CloseInitiator(c)
    \/ \E s \in Responders : AuthorizeStart(s) \/ CheckEpoch(s) \/ Respond(s) \/ View(s)
    \/ \E c \in Initiators, s \in Responders : ReceiveStart(s, c) \/ Finish(c, s)
Transports ==
    \/ \E c \in Initiators : ClientEncrypts(c) \/ ClientDecrypts(c)
    \/ \E s \in Responders : AgentEncrypts(s) \/ AgentDecrypts(s) \/ CloseTransport(s) \/ LoseFrame(s)

-----------------------------------------------------------------------------
(* Properties.                                                              *)

\* Two ends that completed a handshake agree: the Agent answered this client, the
\* epoch it told is not older than the one the client knew, and what either side
\* decrypted is, without a gap, what the other one encrypted.
SessionsAgree ==
    \A c \in Initiators :
       ini[c].pc = "complete" =>
          LET mine == ini[c].transport
              other == resp[ini[c].with].transport
              Prefix(got, sent) == Len(got) <= sent /\ \A i \in DOMAIN got : got[i] = i - 1
          IN  /\ resp[ini[c].with].of = c
              /\ ini[c].epoch >= ini[c].known
              /\ Prefix(mine.got, other.sent)
              /\ Prefix(other.got, mine.sent)

\* "direction-specific Noise cipher counters": no cipher encrypts two frames
\* under one counter.  The two sides never share one, and what a side encrypts
\* next has a higher counter than all it encrypted in this session.
CounterUsedOnce ==
    /\ \A x, y \in sealed : x.f = y.f => x.by = y.by
    /\ \A x \in sealed :
          x.f.counter < IF x.by = "agent" THEN resp[x.f.session].transport.sent
                        ELSE ini[resp[x.f.session].of].transport.sent

\* A device that is revoked completed a handshake only if its start had arrived
\* before the revocation.
SessionNotRevoked ==
    \A s \in Responders :
       resp[s].pc \in {"complete", "viewed"} =>
          LET i == IndexOf(store["agent"], ini[resp[s].of].d.id)
          IN  store["agent"].authorized[i].state = "revoked"
              => resp[s].began < store["agent"].authorized[i].epoch
=============================================================================

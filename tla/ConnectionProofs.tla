-------------------------- MODULE ConnectionProofs --------------------------
(***************************************************************************)
(* Proofs about the two ways a paired device gets to its Agent, for any    *)
(* number of requests, nonces, handshakes, frames, messages and changes of *)
(* the store, all of them in one behaviour: a nonce admits one upgrade, a  *)
(* revoked device stays out, the two ends of an encrypted session agree,   *)
(* and a connection acknowledges what it applied.  Here: the connection of *)
(* ProtocolStream, with its inductive invariant StreamInv, the counters of *)
(* what was sealed, with theirs, Behind, and the theorems.                 *)
(***************************************************************************)
EXTENDS SecureProofs

\* A leaf is tried with Zenon, then with SMT, for at most so many seconds.
USE ZenonT(5), SMTT(20)

-----------------------------------------------------------------------------
(* A connection.                                                           *)

Kinds == {"status", "transferStatus", "preview", "error", "startError", "exit", "pong", "ack", "output"}
Sendable == {"input", "resize", "end", "acknowledge", "ping", "transfer", "statusRequest", "prepare", "commit",
             "attach"}
Envelope == [seq : Nat, ack : Nat, kind : Kinds]
Quiet == {"none", "hello", "open", "attach", "run", "apply"}
Links ==
  [pc : Quiet \cup {"commit", "ending", "closed"}, caps : SUBSET Capabilities, limit : Limits \cup {0},
   nextOut : Nat, nextIn : Nat, highIn : Nat, peerAck : Nat, bound : BOOLEAN,
   inbox : Sendable \cup Texts \cup {"none"}, inAck : Nat, sent : Nat, wire : Seq(Envelope), seen : Nat,
   acked : Nat, done : Nat, outputs : Nat]

\* What was written: within the capabilities, and acknowledging what is committed.
WireInv(k) ==
  /\ k.nextIn = k.highIn + 1 /\ k.acked <= k.highIn
  /\ \A i \in 1..Len(k.wire) : k.wire[i].ack <= k.highIn /\ NeededFor[k.wire[i].kind] \in k.caps

\* What is committed took effect: where the connection stands between the two.
Counted(k) ==
  /\ k.pc \in Quiet => k.done = k.highIn
  /\ k.pc = "commit" => k.done = IF k.inbox = "end" THEN k.highIn ELSE k.nextIn
  /\ k.pc = "ending" => k.done + 1 = k.highIn
  /\ k.pc = "closed" => k.done >= k.highIn

\* A message that was decoded is one the client may send.
Agreed(k) ==
  /\ k.pc # "closed" => Accepted(k.caps)
  /\ k.pc \in {"apply", "commit"} =>
       /\ k.inbox \in Sendable /\ Needs[k.inbox] \in k.caps
       /\ Resumes(k) /\ ~k.bound <=> k.inbox = "attach"

Good(k) == k \in Links /\ WireInv(k) /\ Counted(k) /\ Agreed(k)

LEMMA SendableEnvelopes == Envelopes = Sendable /\ Kinds = DOMAIN NeededFor
  BY DEF Envelopes, Needs, Sendable, Kinds, NeededFor

\* What may be written to k.
Writable(k, kind) == kind = "text" \/ (kind \in Kinds /\ NeededFor[kind] \in k.caps)

\* The fields that a write leaves alone.
Same(w, k) ==
  /\ w.pc = k.pc /\ w.caps = k.caps /\ w.limit = k.limit /\ w.nextIn = k.nextIn /\ w.highIn = k.highIn
  /\ w.peerAck = k.peerAck /\ w.bound = k.bound /\ w.inbox = k.inbox /\ w.inAck = k.inAck
  /\ w.sent = k.sent /\ w.seen = k.seen /\ w.acked = k.acked /\ w.done = k.done /\ w.outputs = k.outputs

LEMMA WrittenLink ==
  ASSUME NEW k \in Links, WireInv(k), NEW kind, Writable(k, kind)
  PROVE  /\ Written(k, kind) \in Links /\ WireInv(Written(k, kind))
         /\ Same(Written(k, kind), k)
<1>1. CASE kind = "text"
  BY <1>1 DEF Written, Same
<1>2. CASE kind # "text"
  <2>. DEFINE e == [seq |-> k.nextOut, ack |-> k.highIn, kind |-> kind]
              w == [k EXCEPT !.nextOut = @ + 1, !.wire = Append(@, e)]
  <2>1. Written(k, kind) = w
    BY <1>2 DEF Written
  <2>2. kind \in Kinds /\ NeededFor[kind] \in k.caps
    BY <1>2 DEF Writable
  <2>3. e \in Envelope
    BY <2>2 DEF Links, Envelope
  <2>4. w.wire = Append(k.wire, e) /\ w.nextOut = k.nextOut + 1 /\ w \in Links
    <3>1. k.wire \in Seq(Envelope) /\ k.nextOut \in Nat
      BY DEF Links
    <3>2. Append(k.wire, e) \in Seq(Envelope) /\ k.nextOut + 1 \in Nat
      BY <2>3, <3>1
    <3>. HIDE DEF e
    <3>. QED
      BY <3>2 DEF Links
  <2>5. Same(w, k)
    BY DEF Links, Same
  <2>6. WireInv(w)
    <3>1. \A i \in 1..Len(w.wire) : w.wire[i] = IF i \in 1..Len(k.wire) THEN k.wire[i] ELSE e
      <4>1. k.wire \in Seq(Envelope) /\ w.wire = Append(k.wire, e)
        BY <2>4 DEF Links
      <4>. HIDE DEF w, e
      <4>. QED
        BY <2>3, <4>1
    <3>2. w.nextIn = k.nextIn /\ w.highIn = k.highIn /\ w.acked = k.acked /\ w.caps = k.caps
      BY <2>5 DEF Same
    <3>3. k.highIn \in Nat
      BY DEF Links
    <3>. QED
      BY <2>2, <3>1, <3>2, <3>3 DEF WireInv
  <2>. QED
    BY <2>1, <2>4, <2>5, <2>6
<1>. QED
  BY <1>1, <1>2

LEMMA NoLinkGood == Good(NoLink) /\ \A p \in {"hello", "closed"} : Good([NoLink EXCEPT !.pc = p])
<1>1. NoLink \in Links
  <2>1. <<>> \in Seq(Envelope) /\ {} \in SUBSET Capabilities /\ 0 \in Limits \cup {0}
    OBVIOUS
  <2>. QED
    BY <2>1 DEF NoLink, Links, Quiet
<1>2. \A p \in {"hello", "closed"} : [NoLink EXCEPT !.pc = p] \in Links
  BY <1>1 DEF Links, Quiet
<1>. QED
  BY <1>1, <1>2 DEF Good, NoLink, WireInv, Counted, Agreed, Quiet, Accepted

LEMMA ClosedGood ==
  ASSUME NEW k \in Links, WireInv(k), k.done >= k.highIn
  PROVE  Good(ClosedLink(k))
<1>1. CASE k.wire = <<>>
  BY <1>1, NoLinkGood DEF ClosedLink
<1>2. CASE k.wire # <<>>
  <2>. DEFINE c == [k EXCEPT !.pc = "closed", !.inbox = "none"]
  <2>1. c \in Links /\ c.pc = "closed"
    BY DEF Links
  <2>2. c.wire = k.wire /\ c.nextIn = k.nextIn /\ c.highIn = k.highIn /\ c.acked = k.acked /\ c.caps = k.caps
        /\ c.done = k.done
    BY DEF Links
  <2>3. Good(c)
    BY <2>1, <2>2 DEF Good, WireInv, Counted, Agreed, Quiet
  <2>. QED
    BY <1>2, <2>3 DEF ClosedLink
<1>. QED
  BY <1>1, <1>2

\* A connection that ends, after a last write or without one.
LEMMA Ending ==
  ASSUME NEW k, Good(k), k.pc # "ending", NEW kind, Writable(k, kind)
  PROVE  Good(ClosedLink(Written(k, kind))) /\ Good(ClosedLink(k))
<1>1. k \in Links /\ WireInv(k) /\ k.done >= k.highIn
  <2>1. k \in Links /\ WireInv(k) /\ Counted(k)
    BY DEF Good
  <2>2. k.highIn \in Nat /\ k.done \in Nat /\ k.nextIn = k.highIn + 1
    BY <2>1 DEF Links, WireInv
  <2>3. k.pc \in Quiet \cup {"commit", "closed"}
    BY <2>1 DEF Links
  <2>. QED
    BY <2>1, <2>2, <2>3 DEF Counted
<1>2. Written(k, kind) \in Links /\ WireInv(Written(k, kind)) /\ Same(Written(k, kind), k)
  BY <1>1, WrittenLink
<1>3. Written(k, kind).done >= Written(k, kind).highIn
  BY <1>1, <1>2 DEF Same
<1>. QED
  BY <1>1, <1>2, <1>3, ClosedGood

LEMMA AlwaysWritable ==
  ASSUME NEW k
  PROVE  /\ \A kind \in {"error", "startError", "exit"} : Writable(k, Notice(k, kind))
         /\ Writable(k, OutputKind(k)) /\ Writable(k, "text")
BY DEF Writable, Notice, OutputKind, NeededFor, Kinds, Streams

\* What holds of a link that was only written to.
LEMMA WrittenGood ==
  ASSUME NEW k, Good(k), NEW kind, Writable(k, kind)
  PROVE  Good(Written(k, kind)) /\ Same(Written(k, kind), k)
<1>1. Written(k, kind) \in Links /\ WireInv(Written(k, kind)) /\ Same(Written(k, kind), k)
  BY WrittenLink DEF Good
<1>. QED
  BY <1>1 DEF Good, Same, Counted, Agreed, Resumes, Streams

\* The client's Hello, and the session it gets.
LEMMA HelloGood ==
  ASSUME NEW caps \in SUBSET Capabilities, NEW limit \in Limits
  PROVE  Good(Negotiated(caps, limit))
<1>. DEFINE k == Negotiated(caps, limit)
<1>1. NoLink \in Links
  BY NoLinkGood DEF Good
<1>2. /\ k.caps = caps /\ k.pc \in {"closed", "attach", "open"}
      /\ k.pc # "closed" => Accepted(caps)
      /\ k.nextIn = 2 /\ k.highIn = 1 /\ k.acked = 0 /\ k.done = 1 /\ k.wire = <<>>
  BY DEF Negotiated, NoLink
<1>3. PICK p \in Quiet \cup {"closed"} : k = [NoLink EXCEPT !.caps = caps, !.limit = limit, !.pc = p]
  BY DEF Negotiated, Quiet
<1>4. k \in Links
  <2>1. [NoLink EXCEPT !.caps = caps, !.limit = limit, !.pc = p] \in Links
    BY <1>1 DEF Links
  <2>. QED
    BY <1>3, <2>1
<1>. QED
  BY <1>2, <1>4 DEF Good, WireInv, Counted, Agreed, Quiet

LEMMA OpenGood ==
  ASSUME NEW k, Good(k), k.pc = "open"
  PROVE  Good([k EXCEPT !.pc = "run"])
<1>. DEFINE n == [k EXCEPT !.pc = "run"]
<1>1. k \in Links
  BY DEF Good
<1>2. n \in Links
  BY <1>1 DEF Links, Quiet
<1>3. /\ n.pc = "run" /\ n.caps = k.caps /\ n.nextIn = k.nextIn /\ n.highIn = k.highIn /\ n.acked = k.acked
      /\ n.done = k.done /\ n.wire = k.wire
  BY <1>1 DEF Links
<1>. QED
  BY <1>2, <1>3 DEF Good, WireInv, Counted, Agreed, Quiet

\* A message of the client.
LEMMA SendsGood ==
  ASSUME NEW k, Good(k), k.pc \in {"attach", "run", "apply", "commit"}, k.inbox = "none",
         NEW kind \in Sendable \cup Texts, NEW ack \in Nat
  PROVE  Good([k EXCEPT !.inbox = kind, !.inAck = ack, !.sent = @ + 1])
<1>. DEFINE n == [k EXCEPT !.inbox = kind, !.inAck = ack, !.sent = @ + 1]
<1>1. k \in Links
  BY DEF Good
<1>2. k.pc \in {"attach", "run"}
  BY DEF Good, Agreed, Sendable
<1>3. n \in Links
  <2>1. k.sent + 1 \in Nat
    BY <1>1 DEF Links
  <2>. QED
    BY <1>1, <2>1 DEF Links
<1>4. /\ n.pc = k.pc /\ n.caps = k.caps /\ n.nextIn = k.nextIn /\ n.highIn = k.highIn /\ n.acked = k.acked
      /\ n.done = k.done /\ n.wire = k.wire
  BY <1>1 DEF Links
<1>. QED
  BY <1>2, <1>3, <1>4 DEF Good, WireInv, Counted, Agreed, Quiet

\* An envelope that arrives: what it acknowledges was committed when it was written.
LEMMA ReceivesGood ==
  ASSUME NEW k, Good(k), k.wire # <<>>
  PROVE  Good([k EXCEPT !.wire = Tail(@), !.seen = Head(k.wire).seq, !.acked = Head(k.wire).ack])
<1>. DEFINE n == [k EXCEPT !.wire = Tail(@), !.seen = Head(k.wire).seq, !.acked = Head(k.wire).ack]
<1>1. k \in Links /\ WireInv(k)
  BY DEF Good
<1>2. k.wire \in Seq(Envelope) /\ k.wire # <<>>
  BY <1>1 DEF Links
<1>3. /\ Head(k.wire) = k.wire[1] /\ k.wire[1] \in Envelope /\ 1 \in 1..Len(k.wire)
      /\ Tail(k.wire) \in Seq(Envelope)
      /\ \A i \in 1..Len(Tail(k.wire)) : i + 1 \in 1..Len(k.wire) /\ Tail(k.wire)[i] = k.wire[i + 1]
  BY <1>2
<1>4. Head(k.wire).seq \in Nat /\ Head(k.wire).ack \in Nat /\ Head(k.wire).ack <= k.highIn
  BY <1>1, <1>3 DEF Envelope, WireInv
<1>5. n \in Links
  BY <1>1, <1>3, <1>4 DEF Links
<1>6. /\ n.wire = Tail(k.wire) /\ n.acked = Head(k.wire).ack
      /\ n.pc = k.pc /\ n.caps = k.caps /\ n.nextIn = k.nextIn /\ n.highIn = k.highIn
      /\ n.done = k.done /\ n.bound = k.bound /\ n.inbox = k.inbox
  BY <1>1 DEF Links
<1>7. WireInv(n)
  BY <1>1, <1>3, <1>4, <1>6 DEF WireInv
<1>. QED
  BY <1>5, <1>6, <1>7 DEF Good, Counted, Agreed, Resumes, Streams

\* An envelope is decoded, and takes its effect.
LEMMA ReadGood ==
  ASSUME NEW k, Good(k), k.pc \in {"attach", "run"}, k.inbox \in Sendable, Decodes(k, k.inbox, k.inAck)
  PROVE  Good([k EXCEPT !.pc = "apply", !.peerAck = k.inAck])
<1>. DEFINE n == [k EXCEPT !.pc = "apply", !.peerAck = k.inAck]
<1>1. k \in Links
  BY DEF Good
<1>2. n \in Links
  BY <1>1 DEF Links, Quiet
<1>3. /\ n.pc = "apply" /\ n.caps = k.caps /\ n.nextIn = k.nextIn /\ n.highIn = k.highIn /\ n.acked = k.acked
      /\ n.done = k.done /\ n.wire = k.wire /\ n.bound = k.bound /\ n.inbox = k.inbox
  BY <1>1 DEF Links
<1>. QED
  BY <1>2, <1>3 DEF Good, WireInv, Counted, Agreed, Quiet, Decodes, Resumes, Streams

LEMMA ApplyGood ==
  ASSUME NEW k, Good(k), k.pc = "apply"
  PROVE  Good([k EXCEPT !.pc = "commit", !.done = IF k.inbox = "end" THEN @ ELSE k.nextIn])
<1>. DEFINE n == [k EXCEPT !.pc = "commit", !.done = IF k.inbox = "end" THEN @ ELSE k.nextIn]
<1>1. k \in Links
  BY DEF Good
<1>2. n \in Links
  <2>. DEFINE v == IF k.inbox = "end" THEN k.done ELSE k.nextIn
  <2>1. v \in Nat
    BY <1>1 DEF Links
  <2>2. n = [k EXCEPT !.pc = "commit", !.done = v]
    OBVIOUS
  <2>. HIDE DEF v, n
  <2>3. [k EXCEPT !.pc = "commit", !.done = v] \in Links
    BY <1>1, <2>1 DEF Links
  <2>. QED
    BY <2>2, <2>3
<1>3. /\ n.pc = "commit" /\ n.caps = k.caps /\ n.nextIn = k.nextIn /\ n.highIn = k.highIn /\ n.acked = k.acked
      /\ n.done = (IF k.inbox = "end" THEN k.done ELSE k.nextIn)
      /\ n.wire = k.wire /\ n.bound = k.bound /\ n.inbox = k.inbox
  BY <1>1 DEF Links
<1>. QED
  BY <1>2, <1>3 DEF Good, WireInv, Counted, Agreed, Quiet, Resumes, Streams

\* The commit of a message that took effect, before its answer.
LEMMA CommittedLink ==
  ASSUME NEW k, Good(k), k.pc = "commit"
  PROVE  LET b == [Committed(k) EXCEPT !.bound = @ \/ k.inbox = "attach"]
         IN  /\ b \in Links /\ WireInv(b)
             /\ b.caps = k.caps /\ b.highIn = k.nextIn /\ b.done = k.done
<1>. DEFINE c == Committed(k)
            b == [c EXCEPT !.bound = @ \/ k.inbox = "attach"]
<1>1. k \in Links /\ WireInv(k)
  BY DEF Good
<1>2. k.nextIn + 1 \in Nat /\ k.nextIn \in Nat /\ k.highIn \in Nat /\ k.nextIn = k.highIn + 1 /\ k.acked \in Nat
  BY <1>1 DEF Links, WireInv
<1>3. c \in Links
  BY <1>1, <1>2 DEF Links, Committed
<1>4. /\ c.highIn = k.nextIn /\ c.nextIn = k.nextIn + 1 /\ c.caps = k.caps /\ c.done = k.done
      /\ c.wire = k.wire /\ c.acked = k.acked
  BY <1>1 DEF Links, Committed
<1>. HIDE DEF c
<1>5. b \in Links
  <2>. DEFINE v == c.bound \/ k.inbox = "attach"
  <2>1. v \in BOOLEAN
    OBVIOUS
  <2>2. b = [c EXCEPT !.bound = v]
    OBVIOUS
  <2>. HIDE DEF v, b
  <2>3. [c EXCEPT !.bound = v] \in Links
    BY <1>3, <2>1 DEF Links
  <2>. QED
    BY <2>2, <2>3
<1>6. /\ b.highIn = k.nextIn /\ b.nextIn = k.nextIn + 1 /\ b.caps = k.caps /\ b.done = k.done
      /\ b.wire = k.wire /\ b.acked = k.acked
  BY <1>3, <1>4 DEF Links
<1>7. \A i \in 1..Len(k.wire) : k.wire[i].ack \in Nat
  <2>1. k.wire \in Seq(Envelope)
    BY <1>1 DEF Links
  <2>2. \A i \in 1..Len(k.wire) : k.wire[i] \in Envelope
    BY <2>1
  <2>. QED
    BY <2>2 DEF Envelope
<1>8. WireInv(b)
  <2>1. \A a \in Nat : a <= k.highIn => a <= k.nextIn
    BY <1>2
  <2>2. /\ k.acked <= k.highIn
        /\ \A i \in 1..Len(k.wire) : k.wire[i].ack <= k.highIn /\ NeededFor[k.wire[i].kind] \in k.caps
    BY <1>1 DEF WireInv
  <2>3. /\ k.acked <= k.nextIn
        /\ \A i \in 1..Len(k.wire) : k.wire[i].ack <= k.nextIn /\ NeededFor[k.wire[i].kind] \in k.caps
    BY <1>2, <1>7, <2>1, <2>2
  <2>. HIDE DEF b
  <2>. QED
    BY <1>6, <2>3 DEF WireInv
<1>. QED
  BY <1>5, <1>6, <1>8 DEF c

LEMMA AnsweredGood ==
  ASSUME NEW k, Good(k), k.pc = "commit"
  PROVE  Good(Answered(k))
<1>. DEFINE b == [Committed(k) EXCEPT !.bound = @ \/ k.inbox = "attach"]
            kind == AnswerTo(k.inbox)
<1>1. /\ b \in Links /\ WireInv(b)
      /\ b.caps = k.caps /\ b.highIn = k.nextIn /\ b.done = k.done
  BY CommittedLink
<1>2. /\ k \in Links /\ k.nextIn = k.highIn + 1 /\ k.highIn \in Nat /\ Accepted(k.caps)
      /\ k.inbox \in Sendable /\ Needs[k.inbox] \in k.caps
      /\ k.done = IF k.inbox = "end" THEN k.highIn ELSE k.nextIn
  BY DEF Good, Links, WireInv, Counted, Agreed
<1>3. Answered(k) = IF k.inbox = "end" THEN [Written(b, "output") EXCEPT !.pc = "ending"]
                    ELSE IF kind = "text" \/ (Encodable(b, kind) /\ Fits(b, kind))
                         THEN [Written(b, kind) EXCEPT !.pc = "run", !.inbox = "none"]
                         ELSE ClosedLink(b)
  BY DEF Answered
<1>. HIDE DEF b, kind
<1>4. CASE k.inbox = "end"
  <2>. DEFINE w == Written(b, "output")
              n == [w EXCEPT !.pc = "ending"]
  <2>1. Writable(b, "output")
    BY <1>1, <1>2, <1>4 DEF Writable, Kinds, NeededFor, Accepted, Needs
  <2>2. w \in Links /\ WireInv(w) /\ Same(w, b)
    BY <1>1, <2>1, WrittenLink
  <2>. HIDE DEF w
  <2>3. n \in Links
    BY <2>2 DEF Links
  <2>4. /\ n.pc = "ending" /\ n.caps = w.caps /\ n.nextIn = w.nextIn /\ n.highIn = w.highIn /\ n.acked = w.acked
        /\ n.done = w.done /\ n.wire = w.wire
    BY <2>2 DEF Links
  <2>5. w.caps = k.caps /\ w.highIn = k.nextIn /\ w.done = k.highIn
    BY <1>1, <1>2, <1>4, <2>2 DEF Same
  <2>6. WireInv(n)
    BY <2>2, <2>4 DEF WireInv
  <2>7. Counted(n) /\ Agreed(n)
    BY <1>2, <2>4, <2>5 DEF Counted, Agreed, Quiet
  <2>. QED
    BY <1>3, <1>4, <2>3, <2>6, <2>7 DEF Good, w
<1>5. CASE k.inbox # "end" /\ (kind = "text" \/ (Encodable(b, kind) /\ Fits(b, kind)))
  <2>. DEFINE w == Written(b, kind)
              n == [w EXCEPT !.pc = "run", !.inbox = "none"]
  <2>1. Writable(b, kind)
    BY <1>5 DEF Writable, Kinds, kind, AnswerTo, Encodable
  <2>2. w \in Links /\ WireInv(w) /\ Same(w, b)
    BY <1>1, <2>1, WrittenLink
  <2>. HIDE DEF w
  <2>3. n \in Links
    BY <2>2 DEF Links, Quiet
  <2>4. /\ n.pc = "run" /\ n.caps = w.caps /\ n.nextIn = w.nextIn /\ n.highIn = w.highIn /\ n.acked = w.acked
        /\ n.done = w.done /\ n.wire = w.wire
    BY <2>2 DEF Links
  <2>5. w.caps = k.caps /\ w.highIn = k.nextIn /\ w.done = k.nextIn
    BY <1>1, <1>2, <1>5, <2>2 DEF Same
  <2>6. WireInv(n)
    BY <2>2, <2>4 DEF WireInv
  <2>7. Counted(n) /\ Agreed(n)
    BY <1>2, <2>4, <2>5 DEF Counted, Agreed, Quiet
  <2>. QED
    BY <1>3, <1>5, <2>3, <2>6, <2>7 DEF Good, w
<1>6. CASE k.inbox # "end" /\ ~(kind = "text" \/ (Encodable(b, kind) /\ Fits(b, kind)))
  <2>1. b.done >= b.highIn
    BY <1>1, <1>2, <1>6
  <2>. QED
    BY <1>1, <1>3, <1>6, <2>1, ClosedGood
<1>. QED
  BY <1>4, <1>5, <1>6

LEMMA TerminateGood ==
  ASSUME NEW k, Good(k), k.pc = "ending"
  PROVE  Good(ClosedLink([k EXCEPT !.done = k.highIn]))
<1>. DEFINE n == [k EXCEPT !.done = k.highIn]
<1>1. k \in Links /\ WireInv(k) /\ k.highIn \in Nat
  BY DEF Good, Links
<1>2. n \in Links
  BY <1>1 DEF Links
<1>3. /\ n.caps = k.caps /\ n.nextIn = k.nextIn /\ n.highIn = k.highIn /\ n.acked = k.acked
      /\ n.done = k.highIn /\ n.wire = k.wire
  BY <1>1 DEF Links
<1>4. WireInv(n) /\ n.done >= n.highIn
  BY <1>1, <1>3 DEF WireInv
<1>. QED
  BY <1>2, <1>4, ClosedGood

LEMMA TextGood ==
  ASSUME NEW k, Good(k), k.pc = "run"
  PROVE  LET read == [k EXCEPT !.inbox = "none"]
         IN  Good(read) /\ Good(Written(read, Notice(k, "error")))
<1>. DEFINE n == [k EXCEPT !.inbox = "none"]
<1>1. k \in Links
  BY DEF Good
<1>2. n \in Links
  BY <1>1 DEF Links
<1>3. /\ n.pc = "run" /\ n.caps = k.caps /\ n.nextIn = k.nextIn /\ n.highIn = k.highIn /\ n.acked = k.acked
      /\ n.done = k.done /\ n.wire = k.wire
  BY <1>1 DEF Links
<1>4. Good(n)
  BY <1>2, <1>3 DEF Good, WireInv, Counted, Agreed, Quiet
<1>5. Writable(n, Notice(k, "error"))
  BY <1>3 DEF Writable, Notice, NeededFor, Kinds
<1>6. Good(Written(n, Notice(k, "error")))
  BY <1>4, <1>5, WrittenGood
<1>. QED
  BY <1>4, <1>6

LEMMA OutputGood ==
  ASSUME NEW k, Good(k)
  PROVE  Good([Written(k, OutputKind(k)) EXCEPT !.outputs = @ + 1])
<1>. DEFINE w == Written(k, OutputKind(k))
            n == [w EXCEPT !.outputs = @ + 1]
<1>1. Good(w)
  BY WrittenGood, AlwaysWritable
<1>. HIDE DEF w
<1>2. w \in Links /\ w.outputs + 1 \in Nat
  <2>1. w \in Links
    BY <1>1 DEF Good
  <2>. QED
    BY <2>1 DEF Links
<1>3. n \in Links
  BY <1>2 DEF Links
<1>4. /\ n.pc = w.pc /\ n.caps = w.caps /\ n.nextIn = w.nextIn /\ n.highIn = w.highIn /\ n.acked = w.acked
      /\ n.done = w.done /\ n.wire = w.wire /\ n.bound = w.bound /\ n.inbox = w.inbox
  BY <1>2 DEF Links
<1>5. Good(n)
  BY <1>1, <1>3, <1>4 DEF Good, WireInv, Counted, Agreed, Resumes, Streams
<1>. QED
  BY <1>5 DEF w

StreamInv == link \in [Requests -> Links] /\ \A r \in Requests : Good(link[r])

\* Each step of a connection.
LEMMA LinkStepGood ==
  ASSUME StreamInv, NEW r \in Requests, LinkSteps(r)
  PROVE  \E k : Good(k) /\ SetLink(r, k)
<1>. DEFINE k == link[r]
<1>1. Good(k)
  BY DEF StreamInv
<1>2. k \in Links
  BY <1>1 DEF Good
<1>3. CASE HelloArrives(r) \/ Lost(r)
  <2>1. Good([NoLink EXCEPT !.pc = "closed"])
    BY NoLinkGood
  <2>. QED
    BY <1>3, <2>1, HelloGood DEF HelloArrives, Lost
<1>4. CASE Open(r)
  <2>1. /\ k.pc = "open"
        /\ \/ SetLink(r, [k EXCEPT !.pc = "run"])
           \/ SetLink(r, ClosedLink(Written(k, Notice(k, "startError"))))
    BY <1>4 DEF Open
  <2>2. Good([k EXCEPT !.pc = "run"])
    BY <1>1, <2>1, OpenGood
  <2>3. Good(ClosedLink(Written(k, Notice(k, "startError"))))
    BY <1>1, <2>1, Ending, AlwaysWritable
  <2>. QED
    BY <2>1, <2>2, <2>3
<1>5. CASE \E kind \in Envelopes \cup Texts : ClientSends(r, kind)
  <2>1. PICK kind \in Sendable \cup Texts, ack \in {k.seen} \cup {n \in {k.seen - 1} : n > 0} :
          /\ k.pc \in {"attach", "run", "apply", "commit"} /\ k.inbox = "none"
          /\ SetLink(r, [k EXCEPT !.inbox = kind, !.inAck = ack, !.sent = @ + 1])
    BY <1>5, SendableEnvelopes DEF ClientSends
  <2>2. ack \in Nat
    <3>1. k.seen \in Nat
      BY <1>2 DEF Links
    <3>. QED
      BY <3>1
  <2>. HIDE DEF k
  <2>3. Good([k EXCEPT !.inbox = kind, !.inAck = ack, !.sent = @ + 1])
    BY <1>1, <2>1, <2>2, SendsGood
  <2>. QED
    BY <2>1, <2>3
<1>6. CASE ClientReceives(r)
  <2>1. k.wire # <<>> /\ SetLink(r, [k EXCEPT !.wire = Tail(@), !.seen = Head(k.wire).seq, !.acked = Head(k.wire).ack])
    BY <1>6 DEF ClientReceives
  <2>. HIDE DEF k
  <2>. QED
    BY <1>1, <2>1, ReceivesGood
<1>7. CASE ReadEnvelope(r)
  <2>1. /\ k.pc \in {"attach", "run"} /\ k.inbox \in Sendable
        /\ IF Decodes(k, k.inbox, k.inAck)
           THEN SetLink(r, [k EXCEPT !.pc = "apply", !.peerAck = k.inAck])
           ELSE SetLink(r, ClosedLink(k))
    BY <1>7, SendableEnvelopes DEF ReadEnvelope
  <2>. HIDE DEF k
  <2>2. Good(ClosedLink(k))
    BY <1>1, <2>1, Ending, AlwaysWritable
  <2>. QED
    BY <1>1, <2>1, <2>2, ReadGood
<1>8. CASE Apply(r) \/ Commit(r) \/ Terminate(r)
  <2>1. \/ k.pc = "apply" /\ SetLink(r, [k EXCEPT !.pc = "commit", !.done = IF k.inbox = "end" THEN @ ELSE k.nextIn])
        \/ k.pc = "commit" /\ SetLink(r, Answered(k))
        \/ k.pc = "ending" /\ SetLink(r, ClosedLink([k EXCEPT !.done = k.highIn]))
    BY <1>8 DEF Apply, Commit, Terminate
  <2>. HIDE DEF k
  <2>. QED
    BY <1>1, <2>1, ApplyGood, AnsweredGood, TerminateGood
<1>9. CASE ApplyFails(r) \/ WriteExit(r)
  <2>1. PICK kind \in {"error", "startError", "exit"} :
          k.pc # "ending" /\ SetLink(r, ClosedLink(Written(k, Notice(k, kind))))
    BY <1>9 DEF ApplyFails, WriteExit, FailureOf
  <2>. HIDE DEF k
  <2>2. Good(ClosedLink(Written(k, Notice(k, kind))))
    BY <1>1, <2>1, Ending, AlwaysWritable
  <2>. QED
    BY <2>1, <2>2
<1>10. CASE WriteOutput(r)
  <2>1. SetLink(r, [Written(k, OutputKind(k)) EXCEPT !.outputs = @ + 1])
    BY <1>10 DEF WriteOutput
  <2>. HIDE DEF k
  <2>. QED
    BY <1>1, <2>1, OutputGood
<1>11. CASE ReadText(r)
  <2>1. /\ k.pc \in {"attach", "run"}
        /\ \/ SetLink(r, ClosedLink(k))
           \/ k.pc = "run" /\ SetLink(r, [k EXCEPT !.inbox = "none"])
           \/ k.pc = "run" /\ SetLink(r, Written([k EXCEPT !.inbox = "none"], Notice(k, "error")))
           \/ SetLink(r, ClosedLink(Written(k, Notice(k, "error"))))
           \/ SetLink(r, ClosedLink(Written(k, OutputKind(k))))
    BY <1>11 DEF ReadText
  <2>. HIDE DEF k
  <2>2. Good(ClosedLink(k)) /\ Good(ClosedLink(Written(k, Notice(k, "error"))))
        /\ Good(ClosedLink(Written(k, OutputKind(k))))
    BY <1>1, <2>1, Ending, AlwaysWritable
  <2>. QED
    BY <1>1, <2>1, <2>2, TextGood
<1>. QED
  BY <1>3, <1>4, <1>5, <1>6, <1>7, <1>8, <1>9, <1>10, <1>11 DEF LinkSteps

LEMMA SetLinkGood ==
  ASSUME StreamInv, NEW r \in Requests, NEW k, Good(k), SetLink(r, k)
  PROVE  StreamInv'
<1>1. link' \in [Requests -> Links] /\ \A q \in Requests : link'[q] = IF q = r THEN k ELSE link[q]
  BY DEF StreamInv, SetLink, Good
<1>. QED
  BY <1>1 DEF StreamInv

LEMMA StreamKeepsAgreement == StreamInv => AckMeansApplied /\ WithinAgreement
<1>. SUFFICES ASSUME StreamInv PROVE AckMeansApplied /\ WithinAgreement
  OBVIOUS
<1>1. ASSUME NEW r \in DOMAIN link PROVE Good(link[r])
  BY <1>1 DEF StreamInv
<1>2. AckMeansApplied
  <2>1. ASSUME NEW k, Good(k)
        PROVE  LET told == IF k.pc = "ending" THEN k.done + 1 ELSE k.done
               IN  k.acked <= told /\ \A i \in DOMAIN k.wire : k.wire[i].ack <= told
    <3>1. k \in Links /\ WireInv(k) /\ Counted(k)
      BY <2>1 DEF Good
    <3>2. /\ k.highIn \in Nat /\ k.done \in Nat /\ k.nextIn = k.highIn + 1 /\ k.acked \in Nat
          /\ k.wire \in Seq(Envelope) /\ k.pc \in Quiet \cup {"commit", "ending", "closed"}
      BY <3>1 DEF Links, WireInv
    <3>3. k.highIn <= IF k.pc = "ending" THEN k.done + 1 ELSE k.done
      BY <3>1, <3>2 DEF Counted, Quiet
    <3>4. DOMAIN k.wire = 1..Len(k.wire) /\ \A i \in 1..Len(k.wire) : k.wire[i] \in Envelope
      BY <3>2
    <3>5. \A i \in 1..Len(k.wire) : k.wire[i].ack \in Nat
      BY <3>4 DEF Envelope
    <3>6. k.acked <= k.highIn /\ \A i \in 1..Len(k.wire) : k.wire[i].ack <= k.highIn
      BY <3>1 DEF WireInv
    <3>. DEFINE told == IF k.pc = "ending" THEN k.done + 1 ELSE k.done
    <3>7. told \in Nat
      BY <3>2
    <3>8. k.highIn <= told
      BY <3>3
    <3>. HIDE DEF told
    <3>9. \A a \in Nat : a <= k.highIn => a <= told
      BY <3>2, <3>7, <3>8
    <3>10. k.acked <= told /\ \A i \in DOMAIN k.wire : k.wire[i].ack <= told
      BY <3>2, <3>4, <3>5, <3>6, <3>9
    <3>. QED
      BY <3>10 DEF told
  <2>. QED
    BY <1>1, <2>1 DEF AckMeansApplied
<1>3. WithinAgreement
  <2>1. ASSUME NEW k, Good(k)
        PROVE  LET answer == AnswerTo(k.inbox)
               IN  /\ \A i \in DOMAIN k.wire : NeededFor[k.wire[i].kind] \in k.caps
                   /\ k.pc = "commit" /\ answer # "text"
                      => Encodable([k EXCEPT !.bound = @ \/ k.inbox = "attach"], answer)
                   /\ k.pc = "apply" /\ Notice(k, FailureOf(k.inbox)) # "text"
                      => Encodable(k, FailureOf(k.inbox)) \/ ~HasEffect(k.inbox)
    <3>1. k \in Links /\ WireInv(k) /\ Agreed(k)
      BY <2>1 DEF Good
    <3>2. DOMAIN k.wire = 1..Len(k.wire)
      BY <3>1 DEF Links
    <3>3. ASSUME k.pc = "commit", AnswerTo(k.inbox) # "text"
          PROVE  Encodable([k EXCEPT !.bound = @ \/ k.inbox = "attach"], AnswerTo(k.inbox))
      <4>. DEFINE b == [k EXCEPT !.bound = @ \/ k.inbox = "attach"]
      <4>1. b.caps = k.caps /\ b.bound = (k.bound \/ k.inbox = "attach")
        BY <3>1 DEF Links
      <4>. HIDE DEF b
      <4>2. /\ k.inbox \in Sendable /\ Needs[k.inbox] \in k.caps /\ Accepted(k.caps)
            /\ Resumes(k) => k.bound \/ k.inbox = "attach"
        BY <3>1, <3>3 DEF Agreed
      <4>3. Resumes(b) => b.bound
        BY <4>1, <4>2 DEF Resumes, Streams
      <4>4. NeededFor[AnswerTo(k.inbox)] \in k.caps
        BY <3>3, <4>2 DEF Sendable, AnswerTo, NeededFor, Needs, Accepted
      <4>. QED
        BY <4>1, <4>3, <4>4 DEF Encodable, b
    <3>4. ASSUME k.pc = "apply", Notice(k, FailureOf(k.inbox)) # "text"
          PROVE  Encodable(k, FailureOf(k.inbox)) \/ ~HasEffect(k.inbox)
      BY <3>1, <3>4 DEF Agreed, Notice, FailureOf, Encodable, HasEffect
    <3>. QED
      BY <3>1, <3>2, <3>3, <3>4 DEF WireInv
  <2>. QED
    BY <1>1, <2>1 DEF WithinAgreement
<1>. QED
  BY <1>2, <1>3

LEMMA StreamInvariance == Spec => []StreamInv
<1>1. Init => StreamInv
  <2>1. Good(NoLink) /\ NoLink \in Links
    BY NoLinkGood DEF Good
  <2>. QED
    BY <2>1 DEF Init, StreamInv
<1>2. StreamInv /\ [Next]_vars => StreamInv'
  <2>. SUFFICES ASSUME StreamInv, [Next]_vars PROVE StreamInv'
    OBVIOUS
  <2>1. CASE Stream
    <3>1. PICK r \in Requests : LinkSteps(r)
      BY <2>1 DEF Stream
    <3>. QED
      BY <3>1, LinkStepGood, SetLinkGood
  <2>2. ASSUME NEW r \in Requests, Upgrade(r) PROVE StreamInv'
    <3>1. SetLink(r, [NoLink EXCEPT !.pc = "hello"])
      BY <2>2 DEF Upgrade
    <3>2. Good([NoLink EXCEPT !.pc = "hello"])
      BY NoLinkGood
    <3>. QED
      BY <3>1, <3>2, SetLinkGood
  <2>3. CASE Changes \/ Tick \/ Gate \/ Secure \/ UNCHANGED vars
    <3>1. link' = link
      BY <2>3 DEF Changes, Tick, Gate, Secure, vars, streamVars
    <3>. QED
      BY <3>1 DEF StreamInv
  <2>. QED
    BY <2>1, <2>2, <2>3 DEF Next
<1>. QED
  BY <1>1, <1>2, PTL DEF Spec

-----------------------------------------------------------------------------
(* The counters of what was sealed.                                        *)

\* The end that sealed a frame has passed its counter since.
Behind(x) ==
  /\ x.f \in Frames
  /\ IF x.by = "agent" THEN x.f.counter < resp[x.f.session].transport.sent
     ELSE /\ resp[x.f.session].pc # "none"
          /\ x.f.counter < ini[resp[x.f.session].of].transport.sent

\* A step in which no session changes hands and no counter goes back.
Onward ==
  /\ \A s \in Responders :
       /\ resp[s].pc # "none" => resp'[s].pc # "none" /\ resp'[s].of = resp[s].of
       /\ resp'[s].transport.sent \in Nat /\ resp[s].transport.sent <= resp'[s].transport.sent
  /\ \A c \in Initiators :
       ini'[c].transport.sent \in Nat /\ ini[c].transport.sent <= ini'[c].transport.sent

LEMMA Types ==
  ASSUME SecureInv
  PROVE  /\ \A s \in Responders :
              /\ resp[s].transport.sent \in Nat /\ (resp[s].pc # "none" => resp[s].of \in Initiators)
              /\ resp[s].pc # "viewed" => resp[s].transport.sent = 0 /\ ~resp[s].transport.open
         /\ \A c \in Initiators :
              /\ ini[c].transport.sent \in Nat
              /\ ini[c].pc # "complete" => ini[c].transport.sent = 0 /\ ~ini[c].transport.open
<1>1. ASSUME NEW s \in Responders PROVE resp[s] \in Resp /\ resp[s].transport \in Transport
  BY DEF SecureInv, Resp
<1>2. ASSUME NEW c \in Initiators PROVE ini[c] \in Ini /\ ini[c].transport \in Transport
  BY DEF SecureInv, Ini
<1>3. ASSUME NEW s \in Responders PROVE resp[s].pc # "none" => resp[s].of \in Initiators
  BY DEF SecureInv, Responder
<1>4. ASSUME NEW s \in Responders, resp[s].pc # "viewed"
      PROVE  resp[s].transport.sent = 0 /\ ~resp[s].transport.open
  BY <1>4 DEF SecureInv, Ends
<1>5. ASSUME NEW c \in Initiators, ini[c].pc # "complete"
      PROVE  ini[c].transport.sent = 0 /\ ~ini[c].transport.open
  BY <1>5 DEF SecureInv, Ends
<1>6. \A t \in Transport : t.sent \in Nat
  BY DEF Transport
<1>. QED
  BY <1>1, <1>2, <1>3, <1>4, <1>5, <1>6

LEMMA StaysBehind ==
  ASSUME SecureInv, Onward, NEW x, Behind(x)
  PROVE  Behind(x)'
<1>1. x.f \in Frames /\ x.f.session \in Responders /\ x.f.counter \in Nat
  BY DEF Behind, Frames
<1>. DEFINE s == x.f.session
            c == resp[s].of
<1>2. CASE x.by = "agent"
  <2>1. resp[s].transport.sent \in Nat /\ resp'[s].transport.sent \in Nat
    BY <1>1, Types DEF Onward
  <2>. QED
    BY <1>1, <1>2, <2>1 DEF Behind, Onward
<1>3. CASE x.by # "agent"
  <2>1. resp[s].pc # "none" /\ x.f.counter < ini[c].transport.sent
    BY <1>3 DEF Behind
  <2>2. c \in Initiators /\ resp'[s].pc # "none" /\ resp'[s].of = c
    BY <1>1, <2>1, Types DEF Onward
  <2>3. ini[c].transport.sent \in Nat /\ ini'[c].transport.sent \in Nat
    BY <2>2, Types DEF Onward
  <2>4. ini[c].transport.sent <= ini'[c].transport.sent
    BY <2>2 DEF Onward
  <2>5. x.f.counter < ini'[c].transport.sent
    <3>1. \A k, m, n \in Nat : k < m /\ m <= n => k < n
      OBVIOUS
    <3>. QED
      BY <1>1, <2>1, <2>3, <2>4, <3>1
  <2>. QED
    BY <1>1, <1>3, <2>2, <2>5 DEF Behind
<1>. QED
  BY <1>2, <1>3

LEMMA OneClientGoesOn ==
  ASSUME SecureInv, NEW c \in Initiators, NEW n, ini' = [ini EXCEPT ![c] = n], resp' = resp,
         n.transport.sent \in Nat, ini[c].transport.sent <= n.transport.sent
  PROVE  Onward
<1>1. ini \in [Initiators -> Ini]
  BY DEF SecureInv
<1>2. ini'[c] = n /\ \A e \in Initiators : e # c => ini'[e] = ini[e]
  BY <1>1
<1>. QED
  BY <1>2, Types DEF Onward

LEMMA OneResponderGoesOn ==
  ASSUME SecureInv, NEW s \in Responders, NEW n, resp' = [resp EXCEPT ![s] = n], ini' = ini,
         n.transport.sent \in Nat, resp[s].transport.sent <= n.transport.sent,
         resp[s].pc # "none" => n.pc # "none" /\ n.of = resp[s].of
  PROVE  Onward
<1>1. resp \in [Responders -> Resp]
  BY DEF SecureInv
<1>2. resp'[s] = n /\ \A q \in Responders : q # s => resp'[q] = resp[q]
  BY <1>1
<1>. QED
  BY <1>2, Types DEF Onward

LEMMA TransportGoesOn ==
  ASSUME NEW t \in Transport
  PROVE  /\ t.sent \in Nat /\ Encrypted(t).sent = t.sent + 1 /\ [t EXCEPT !.open = FALSE].sent = t.sent
         /\ \A s, f : Decrypted(s, t, f).sent = t.sent
<1>1. t.sent \in Nat /\ Encrypted(t).sent = t.sent + 1 /\ [t EXCEPT !.open = FALSE].sent = t.sent
  BY DEF Transport, Encrypted
<1>2. ASSUME NEW s, NEW f PROVE Decrypted(s, t, f).sent = t.sent
  <2>1. [t EXCEPT !.got = Append(@, f.counter)].sent = t.sent
    BY DEF Transport
  <2>. QED
    BY <1>1, <2>1 DEF Decrypted
<1>. QED
  BY <1>1, <1>2

LEMMA ClientGoesOn ==
  ASSUME SecureInv, NEW c \in Initiators,
         \/ Start(c) \/ CloseInitiator(c) \/ (\E s \in Responders : Finish(c, s))
         \/ ClientEncrypts(c) \/ ClientDecrypts(c)
  PROVE  Onward
<1>. DEFINE i == ini[c]
            t == ini[c].transport
<1>1. i \in Ini /\ t \in Transport /\ t.sent \in Nat
  BY Types DEF SecureInv, Ini
<1>2. CASE Start(c) \/ CloseInitiator(c)
  <2>1. PICK pc : ini' = [ini EXCEPT ![c] = [i EXCEPT !.pc = pc]] /\ resp' = resp
    BY <1>2 DEF Start, CloseInitiator
  <2>. DEFINE n == [i EXCEPT !.pc = pc]
  <2>2. n.transport = t
    BY <1>1 DEF Ini
  <2>3. n.transport.sent \in Nat /\ t.sent <= n.transport.sent
    BY <1>1, <2>2
  <2>. HIDE DEF n
  <2>. QED
    BY <2>1, <2>3, OneClientGoesOn DEF n
<1>3. ASSUME NEW s \in Responders, Finish(c, s) PROVE Onward
  <2>. DEFINE o == [NoTransport EXCEPT !.open = TRUE, !.send = "c1", !.receive = "c2"]
              n == IF resp[s].of = c
                   THEN [i EXCEPT !.pc = "complete", !.with = s, !.epoch = resp[s].epoch, !.transport = o]
                   ELSE [i EXCEPT !.pc = "failed"]
  <2>1. ini' = [ini EXCEPT ![c] = n] /\ resp' = resp /\ i.pc = "awaiting"
    BY <1>3 DEF Finish
  <2>2. t.sent = 0
    BY <2>1, Types
  <2>3. o.sent = 0
    BY DEF NoTransport
  <2>. HIDE DEF o
  <2>4. n.transport = o \/ n.transport = t
    BY <1>1 DEF Ini
  <2>. HIDE DEF n
  <2>5. n.transport.sent \in Nat /\ t.sent <= n.transport.sent
    BY <2>2, <2>3, <2>4
  <2>. QED
    BY <2>1, <2>5, OneClientGoesOn
<1>4. ASSUME NEW u, ini' = [ini EXCEPT ![c] = [i EXCEPT !.transport = u]], resp' = resp,
             u.sent \in Nat, t.sent <= u.sent
      PROVE  Onward
  <2>. DEFINE n == [i EXCEPT !.transport = u]
  <2>1. n.transport = u
    BY <1>1 DEF Ini
  <2>. HIDE DEF n
  <2>. QED
    BY <1>4, <2>1, OneClientGoesOn DEF n
<1>5. CASE ClientEncrypts(c)
  <2>1. ini' = [ini EXCEPT ![c] = [i EXCEPT !.transport = Encrypted(t)]] /\ resp' = resp
    BY <1>5 DEF ClientEncrypts
  <2>2. Encrypted(t).sent \in Nat /\ t.sent <= Encrypted(t).sent
    BY <1>1, TransportGoesOn
  <2>. QED
    BY <1>4, <2>1, <2>2
<1>6. CASE ClientDecrypts(c)
  <2>. DEFINE u == Decrypted(i.with, t, Head(pipe[i.with].client))
  <2>1. ini' = [ini EXCEPT ![c] = [i EXCEPT !.transport = u]] /\ resp' = resp
    BY <1>6 DEF ClientDecrypts
  <2>2. u.sent = t.sent
    BY <1>1, TransportGoesOn
  <2>. HIDE DEF u
  <2>3. u.sent \in Nat /\ t.sent <= u.sent
    BY <1>1, <2>2
  <2>. QED
    BY <1>4, <2>1, <2>3
<1>. QED
  BY <1>2, <1>3, <1>5, <1>6

LEMMA ResponderGoesOn ==
  ASSUME SecureInv, NEW s \in Responders,
         \/ (\E c \in Initiators : ReceiveStart(s, c)) \/ AuthorizeStart(s) \/ CheckEpoch(s) \/ Respond(s)
         \/ View(s) \/ AgentEncrypts(s) \/ AgentDecrypts(s) \/ CloseTransport(s)
  PROVE  Onward
<1>. DEFINE r == resp[s]
            t == resp[s].transport
<1>1. resp \in [Responders -> Resp] /\ r \in Resp /\ t \in Transport /\ t.sent \in Nat
  BY Types DEF SecureInv, Resp
<1>2. ASSUME NEW n, resp' = [resp EXCEPT ![s] = n], ini' = ini, n.transport = t,
             r.pc # "none" => n.pc # "none" /\ n.of = r.of
      PROVE  Onward
  <2>1. t.sent <= t.sent
    BY <1>1
  <2>. QED
    BY <1>1, <1>2, <2>1, OneResponderGoesOn
<1>3. CASE \E c \in Initiators : ReceiveStart(s, c)
  <2>1. PICK c, e : resp' = [resp EXCEPT ![s] = [r EXCEPT !.pc = "authorize", !.of = c, !.began = e]]
    BY <1>3 DEF ReceiveStart
  <2>2. ini' = ini /\ r.pc = "none"
    BY <1>3 DEF ReceiveStart
  <2>. DEFINE n == [r EXCEPT !.pc = "authorize", !.of = c, !.began = e]
  <2>3. n.transport = t
    BY <1>1 DEF Resp
  <2>. HIDE DEF n
  <2>. QED
    BY <1>2, <2>1, <2>2, <2>3 DEF n
<1>4. CASE AuthorizeStart(s) \/ CheckEpoch(s)
  <2>1. PICK pc \in {"failed", "epoch", "respond"} : resp' = [resp EXCEPT ![s] = [r EXCEPT !.pc = pc]] /\ ini' = ini
    BY <1>4 DEF AuthorizeStart, CheckEpoch, Refuse
  <2>. DEFINE n == [r EXCEPT !.pc = pc]
  <2>2. n.transport = t /\ n.of = r.of /\ n.pc # "none"
    BY <1>1 DEF Resp
  <2>. HIDE DEF n
  <2>. QED
    BY <1>2, <2>1, <2>2 DEF n
<1>5. CASE Respond(s)
  <2>. DEFINE n == [r EXCEPT !.pc = "complete", !.epoch = store["agent"].epoch]
  <2>1. resp' = [resp EXCEPT ![s] = n] /\ ini' = ini
    BY <1>1, <1>5 DEF Respond, Resp
  <2>2. n.transport = t /\ n.of = r.of /\ n.pc # "none"
    BY <1>1 DEF Resp
  <2>. HIDE DEF n
  <2>. QED
    BY <1>2, <2>1, <2>2
<1>6. CASE View(s)
  <2>. DEFINE o == [NoTransport EXCEPT !.open = TRUE, !.send = "c2", !.receive = "c1"]
              n == [r EXCEPT !.pc = "viewed", !.transport = o]
  <2>1. resp' = [resp EXCEPT ![s] = n] /\ ini' = ini /\ r.pc = "complete"
    BY <1>1, <1>6 DEF View, Resp
  <2>2. t.sent = 0
    BY <2>1, Types
  <2>3. o.sent = 0
    BY DEF NoTransport
  <2>. HIDE DEF o
  <2>4. n.transport = o /\ n.of = r.of /\ n.pc # "none"
    BY <1>1 DEF Resp
  <2>. HIDE DEF n
  <2>5. n.transport.sent \in Nat /\ t.sent <= n.transport.sent
    BY <2>2, <2>3, <2>4
  <2>. QED
    BY <2>1, <2>4, <2>5, OneResponderGoesOn
<1>7. ASSUME NEW u, resp' = [resp EXCEPT ![s] = [r EXCEPT !.transport = u]], ini' = ini,
             u.sent \in Nat, t.sent <= u.sent
      PROVE  Onward
  <2>. DEFINE n == [r EXCEPT !.transport = u]
  <2>1. n.transport = u /\ n.of = r.of /\ n.pc = r.pc
    BY <1>1 DEF Resp
  <2>. HIDE DEF n
  <2>. QED
    BY <1>7, <2>1, OneResponderGoesOn DEF n
<1>8. CASE AgentEncrypts(s)
  <2>1. resp' = [resp EXCEPT ![s] = [r EXCEPT !.transport = Encrypted(t)]] /\ ini' = ini
    BY <1>8 DEF AgentEncrypts
  <2>2. Encrypted(t).sent \in Nat /\ t.sent <= Encrypted(t).sent
    BY <1>1, TransportGoesOn
  <2>. QED
    BY <1>7, <2>1, <2>2
<1>9. CASE AgentDecrypts(s) \/ CloseTransport(s)
  <2>. DEFINE d == Decrypted(s, t, Head(pipe[s].agent))
              e == [t EXCEPT !.open = FALSE]
  <2>1. ini' = ini /\ \E u \in {d, e} : resp' = [resp EXCEPT ![s] = [r EXCEPT !.transport = u]]
    BY <1>9 DEF AgentDecrypts, CloseTransport
  <2>2. d.sent = t.sent /\ e.sent = t.sent
    BY <1>1, TransportGoesOn
  <2>. HIDE DEF d, e
  <2>3. PICK u \in {d, e} : resp' = [resp EXCEPT ![s] = [r EXCEPT !.transport = u]]
    BY <2>1
  <2>4. u.sent \in Nat /\ t.sent <= u.sent
    BY <1>1, <2>2
  <2>. QED
    BY <1>7, <2>1, <2>3, <2>4
<1>. QED
  BY <1>3, <1>4, <1>5, <1>6, <1>8, <1>9

LEMMA SessionsGoOn ==
  ASSUME SecureInv, [Next]_vars
  PROVE  Onward
<1>1. CASE Secure
  <2>1. ASSUME NEW s \in Responders, LoseFrame(s) PROVE Onward
    BY <2>1, Types DEF LoseFrame, Onward
  <2>2. Handshakes \/ Transports
    BY <1>1 DEF Secure
  <2>. QED
    BY <2>1, <2>2, ClientGoesOn, ResponderGoesOn DEF Handshakes, Transports
<1>2. CASE ~Secure
  <2>1. secureVars' = secureVars
    BY <1>2 DEF Next, Changes, Tick, Gate, Upgrade, Stream, vars
  <2>2. ini' = ini /\ resp' = resp
    BY <2>1 DEF secureVars
  <2>. QED
    BY <2>2, Types DEF Onward
<1>. QED
  BY <1>1, <1>2

\* What a step seals has the counter its end then passes.
LEMMA NewlySealed ==
  ASSUME SecureInv, [Next]_vars, NEW x \in sealed', x \notin sealed
  PROVE  Behind(x)'
<1>1. \/ \E c \in Initiators : ClientEncrypts(c)
      \/ \E s \in Responders : AgentEncrypts(s)
  <2>1. CASE Secure
    BY <2>1 DEF Secure, Handshakes, Transports, Start, CloseInitiator, AuthorizeStart, CheckEpoch, Respond, View,
       ReceiveStart, Finish, ClientDecrypts, AgentDecrypts, CloseTransport, LoseFrame
  <2>2. CASE ~Secure
    BY <2>2 DEF Next, Changes, Tick, Gate, Upgrade, Stream, vars, secureVars
  <2>. QED
    BY <2>1, <2>2
<1>2. ASSUME NEW c \in Initiators, ClientEncrypts(c) PROVE Behind(x)'
  <2>. DEFINE t == ini[c].transport
              s == ini[c].with
              f == Frame(s, t)
  <2>1. /\ ini \in [Initiators -> Ini] /\ ini[c] \in Ini /\ t \in Transport /\ t.sent \in Nat
        /\ t.send \in Ciphers
    BY Types DEF SecureInv, Ini, Transport
  <2>2. /\ t.open /\ x = [by |-> "client", f |-> f] /\ resp' = resp
        /\ ini' = [ini EXCEPT ![c].transport = Encrypted(t)]
    BY <1>2 DEF ClientEncrypts, Encrypts
  <2>3. ini[c].pc = "complete"
    BY <2>2, Types
  <2>4. s \in Responders /\ resp[s].of = c /\ resp[s].pc # "none"
    BY <2>3 DEF SecureInv, Paired
  <2>5. Encrypted(t).sent = t.sent + 1
    BY <2>1 DEF Encrypted, Transport
  <2>6. ini'[c].transport.sent = t.sent + 1
    BY <2>1, <2>2, <2>5 DEF Ini
  <2>7. f \in Frames /\ f.session = s /\ f.counter = t.sent
    BY <2>1, <2>4 DEF Frame, Frames
  <2>. HIDE DEF f
  <2>8. t.sent < t.sent + 1
    BY <2>1
  <2>. HIDE DEF t
  <2>9. x.by = "client" /\ x.f = f
    BY <2>2
  <2>10. resp'[x.f.session].pc # "none" /\ resp'[x.f.session].of = c /\ x.f.counter = t.sent
    BY <2>2, <2>4, <2>7, <2>9
  <2>11. x.f.counter < ini'[resp'[x.f.session].of].transport.sent
    BY <2>6, <2>8, <2>10
  <2>12. x.by # "agent"
    BY <2>9
  <2>. QED
    BY <2>7, <2>9, <2>10, <2>11, <2>12 DEF Behind
<1>3. ASSUME NEW s \in Responders, AgentEncrypts(s) PROVE Behind(x)'
  <2>. DEFINE t == resp[s].transport
              f == Frame(s, t)
  <2>1. /\ resp \in [Responders -> Resp] /\ resp[s] \in Resp /\ t \in Transport /\ t.sent \in Nat
        /\ t.send \in Ciphers
    BY Types DEF SecureInv, Resp, Transport
  <2>2. x = [by |-> "agent", f |-> f] /\ resp' = [resp EXCEPT ![s].transport = Encrypted(t)]
    BY <1>3 DEF AgentEncrypts
  <2>3. Encrypted(t).sent = t.sent + 1
    BY <2>1 DEF Encrypted, Transport
  <2>4. resp'[s].transport.sent = t.sent + 1
    BY <2>1, <2>2, <2>3 DEF Resp
  <2>5. f \in Frames /\ f.session = s /\ f.counter = t.sent
    BY <2>1 DEF Frame, Frames
  <2>. HIDE DEF f
  <2>. QED
    BY <2>1, <2>2, <2>4, <2>5 DEF Behind
<1>. QED
  BY <1>1, <1>2, <1>3

LEMMA SealedInvariance == Spec => [](\A x \in sealed : Behind(x))
<1>. DEFINE SealedInv == \A x \in sealed : Behind(x)
<1>1. Init => SealedInv
  BY DEF Init, SecureInit
<1>2. SecureInv /\ SealedInv /\ [Next]_vars => SealedInv'
  <2>. SUFFICES ASSUME SecureInv, SealedInv, [Next]_vars, NEW x \in sealed' PROVE Behind(x)'
    OBVIOUS
  <2>. QED
    BY SessionsGoOn, StaysBehind, NewlySealed
<1>. HIDE DEF SealedInv
<1>3. Spec => []SealedInv
  BY <1>1, <1>2, SecureInvariance, PTL DEF Spec
<1>. QED
  BY <1>3 DEF SealedInv

-----------------------------------------------------------------------------
(* The theorems.                                                           *)

\* Finish accepts the response to its own start only, and Decrypt the next frame
\* only (session.go, transport.go): the two ends of a session agree on whom they
\* talk to and on every frame, whatever the carrier repeats or loses.
THEOREM SessionsAgreeHolds == Spec => []SessionsAgree
<1>1. ASSUME SecureInv PROVE SessionsAgree
  <2>. SUFFICES ASSUME NEW c \in Initiators, ini[c].pc = "complete"
                PROVE  /\ resp[ini[c].with].of = c /\ ini[c].epoch >= ini[c].known
                       /\ Len(ini[c].transport.got) <= resp[ini[c].with].transport.sent
                       /\ \A i \in DOMAIN ini[c].transport.got : ini[c].transport.got[i] = i - 1
                       /\ Len(resp[ini[c].with].transport.got) <= ini[c].transport.sent
                       /\ \A i \in DOMAIN resp[ini[c].with].transport.got :
                             resp[ini[c].with].transport.got[i] = i - 1
    BY DEF SessionsAgree
  <2>. DEFINE s == ini[c].with
  <2>1. /\ s \in Responders /\ resp[s].of = c /\ ini[c].known <= ini[c].epoch
        /\ Len(ini[c].transport.got) <= resp[s].transport.sent /\ Len(resp[s].transport.got) <= ini[c].transport.sent
    BY <1>1 DEF SecureInv, Paired
  <2>2. Consecutive(ini[c].transport.got) /\ Consecutive(resp[s].transport.got) /\ ini[c] \in Ini /\ resp[s] \in Resp
    BY <1>1, <2>1 DEF SecureInv
  <2>3. ini[c].known \in Nat /\ ini[c].epoch \in Nat /\ ini[c].transport \in Transport /\ resp[s].transport \in Transport
    BY <2>2 DEF Ini, Resp
  <2>4. ini[c].transport.got \in Seq(Nat) /\ resp[s].transport.got \in Seq(Nat)
    BY <2>3 DEF Transport
  <2>5. \A got \in Seq(Nat) : Consecutive(got) => \A i \in DOMAIN got : got[i] = i - 1
    BY DEF Consecutive
  <2>. QED
    BY ZenonT(30), <2>1, <2>2, <2>3, <2>4, <2>5
<1>. QED
  BY <1>1, SecureInvariance, PTL

\* "direction-specific Noise cipher counters" (transport.go): View and Finish give
\* the two ends different ciphers to send with, so that no frame of one side has
\* the cipher and the counter of a frame of the other, and each end's counter is
\* past every frame it encrypted, whatever was lost or refused meanwhile.
THEOREM CounterUsedOnceHolds == Spec => []CounterUsedOnce
<1>. DEFINE SealedInv == \A x \in sealed : Behind(x)
<1>1. ASSUME SecureInv, SealedInv PROVE CounterUsedOnce
  <2>1. \A x, y \in sealed : x.f = y.f => x.by = y.by
    BY <1>1 DEF SecureInv, SealedBy
  <2>2. ASSUME NEW x \in sealed
        PROVE  x.f.counter < IF x.by = "agent" THEN resp[x.f.session].transport.sent
                             ELSE ini[resp[x.f.session].of].transport.sent
    BY <1>1 DEF Behind
  <2>. QED
    BY <2>1, <2>2 DEF CounterUsedOnce
<1>2. Spec => []SealedInv
  BY SealedInvariance
<1>. HIDE DEF SealedInv
<1>. QED
  BY <1>1, <1>2, SecureInvariance, PTL

\* AuthorizedDevice is read once for an upgrade and once for a handshake, and the
\* device may be revoked at any time after that: it then got in only if it was on
\* its way before, by its request or its start.
THEOREM RevokedStaysOutHolds == Spec => []RevokedStaysOut
<1>1. ASSUME GateInv PROVE UpgradeNotRevoked
  BY <1>1 DEF GateInv, NotSince, UpgradeNotRevoked
<1>2. ASSUME SecureInv PROVE SessionNotRevoked
  BY <1>2 DEF SecureInv, Responder, NotSince, SessionNotRevoked
<1>. QED
  BY <1>1, <1>2, GateInvariance, SecureInvariance, PTL DEF RevokedStaysOut

\* "payload sequence is committed only after its side effect succeeds" (stream.go):
\* however output and answers are interleaved with the reading of messages, no
\* envelope acknowledges a message before its effect, an EndSession excepted.
THEOREM AckMeansAppliedHolds == Spec => []AckMeansApplied
<1>. QED
  BY StreamInvariance, StreamKeepsAgreement, PTL

\* AcceptClientHello makes sure of it: every envelope the Agent writes, and the
\* answer to every message it takes, is within what the client negotiated.
THEOREM WithinAgreementHolds == Spec => []WithinAgreement
<1>. QED
  BY StreamInvariance, StreamKeepsAgreement, PTL

INSTANCE FiniteSetTheorems

\* "single-use nonces" (pairedsession.go): however many requests present a nonce,
\* at whatever time, consume hands it to one of them.
THEOREM AdmittedOnceHolds == Spec => []AdmittedOnce
<1>1. ASSUME GateInv PROVE AdmittedOnce
  <2>. SUFFICES ASSUME NEW n \in 1..issued
                PROVE  Cardinality({r \in Requests : upgrade[r].pc = "admitted" /\ upgrade[r].nonce = n}) <= 1
    BY DEF AdmittedOnce
  <2>. DEFINE In == {r \in Requests : upgrade[r].pc = "admitted" /\ upgrade[r].nonce = n}
  <2>. SUFFICES Cardinality(In) <= 1
    OBVIOUS
  <2>1. \A q, r \in In : q = r
    BY <1>1 DEF GateInv, Spent
  <2>. HIDE DEF In
  <2>2. CASE In = {}
    BY <2>2, FS_EmptySet
  <2>3. CASE In # {}
    <3>1. PICK r : In = {r}
      BY <2>1, <2>3
    <3>2. Cardinality({r}) = 1
      BY FS_Singleton
    <3>3. 1 <= 1
      OBVIOUS
    <3>. QED
      BY <3>1, <3>2, <3>3
  <2>. QED
    BY <2>2, <2>3
<1>. QED
  BY <1>1, GateInvariance, PTL
=============================================================================
